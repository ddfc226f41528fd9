---------------------------- MODULE NetworkQueries ----------------------------
(***************************************************************************)
(* The ledger reads of the tic-tac-toe and trading UIs through the shared  *)
(* react-query cache: useObjectQuery and useGetLockedObject (getObject),   *)
(* useTurnCapQuery (owned TurnCaps).  MysClientProvider (main.tsx) holds    *)
(* the selected network, testnet at start, and hands its client to every  *)
(* hook; each hook keys its cache entry with ctx.network and its params.   *)
(* A game move commits a transaction on the selected network and then, in  *)
(* the closure of the render that started it, calls the hook's invalidate. *)
(*                                                                         *)
(* A fetch is a request to one network's client and a later response; the *)
(* response carries the ledger's version of the object at answer time.     *)
(***************************************************************************)
EXTENDS Naturals, FiniteSets

CONSTANTS
    Networks,        \* the networks of networkConfig (config.ts)
    DefaultNetwork,  \* defaultNetwork of MysClientProvider
    Params,          \* query params: object ids, (account, game) pairs
    NoParam,         \* an undefined id or game: the query is disabled
    MaxVersion       \* bound on the transactions committed per object

ASSUME ConstAssumption ==
    /\ DefaultNetwork \in Networks
    /\ NoParam \notin Params \cup Networks
    /\ MaxVersion \in Nat

VARIABLES
    network,   \* the network MysClientProvider has selected
    ledger,    \* ledger[n][q]: version of q's object on network n
    cache,     \* cache[k]: the entry under query key k, or NoEntry
    inflight,  \* fetches sent and not answered: [key, net, param]
    pending    \* <<n, q>>: invalidate closures awaiting their transaction

vars == <<network, ledger, cache, inflight, pending>>

\* Mutation used to test ShownFromSelectedNetwork (not part of the model):
\* a query key without ctx.network.
KeyOf_NoNetwork(n, q) == <<NoParam, q>>

\* The query key of useMysClientQuery and useTurnCapQuery:
\* [ctx.network, method, params].
KeyOf(n, q) == <<n, q>>

Keys == {KeyOf(p[1], p[2]) : p \in Networks \X Params}

NoEntry == [src |-> NoParam, ver |-> 0, stale |-> TRUE]

Entries == [src : Networks, ver : 0..MaxVersion, stale : BOOLEAN]

\* An entry marked invalidated (a missing entry stays missing).
Stale(e) == [src |-> e.src, ver |-> e.ver, stale |-> TRUE]

Fetches == [key : Keys, net : Networks, param : Params]

TypeOK ==
    /\ network \in Networks
    /\ ledger \in [Networks -> [Params -> 0..MaxVersion]]
    /\ cache \in [Keys -> Entries \cup {NoEntry}]
    /\ inflight \subseteq Fetches
    /\ pending \subseteq Networks \X Params

Init ==
    /\ network = DefaultNetwork
    /\ ledger = [n \in Networks |-> [q \in Params |-> 0]]
    /\ cache = [k \in Keys |-> NoEntry]
    /\ inflight = {}
    /\ pending = {}

\* The user picks another network in the wallet or the network selector.
SwitchNetwork(n) ==
    /\ n # network
    /\ network' = n
    /\ UNCHANGED <<ledger, cache, inflight, pending>>

\* What a hook rendering params q on the selected network shows.
Shown(q) == cache[KeyOf(network, q)]

\* Mutation used to test TypeOK (not part of the model): the query's
\* `enabled` option dropped, so undefined params are fetched.
Fetch_NotEnabledChecked(q) ==
    /\ \A f \in inflight : f.key # KeyOf(network, q)
    /\ inflight' = inflight \cup
                     {[key |-> KeyOf(network, q), net |-> network, param |-> q]}
    /\ UNCHANGED <<network, ledger, cache, pending>>

\* A hook renders with params q on the selected network and its query
\* fetches: the first mount, a stale entry, or refetchInterval.  The
\* request goes to the client of the selected network; react-query sends
\* no second request for a key with one in flight; `enabled: !!q` keeps a
\* query with undefined params from fetching.
Fetch(q) ==
    /\ q # NoParam
    /\ \A f \in inflight : f.key # KeyOf(network, q)
    /\ inflight' = inflight \cup
                     {[key |-> KeyOf(network, q), net |-> network, param |-> q]}
    /\ UNCHANGED <<network, ledger, cache, pending>>

\* Mutation used to test Refinement and CacheNeverRegresses (not part of
\* the model): the answer is
\* stored under the key of the network selected when it arrives.
Respond_KeyAtAnswer(f) ==
    /\ f \in inflight
    /\ cache' = [cache EXCEPT ![KeyOf(network, f.param)] =
                   [src |-> f.net, ver |-> ledger[f.net][f.param], stale |-> FALSE]]
    /\ inflight' = inflight \ {f}
    /\ UNCHANGED <<network, ledger, pending>>

\* The client answers; the entry under the request's key takes the
\* object as that network's ledger has it now and is fresh.
Respond(f) ==
    /\ f \in inflight
    /\ cache' = [cache EXCEPT ![f.key] =
                   [src |-> f.net, ver |-> ledger[f.net][f.param], stale |-> FALSE]]
    /\ inflight' = inflight \ {f}
    /\ UNCHANGED <<network, ledger, pending>>

\* A move on object q executes on the selected network; its caller will
\* call the invalidate closure of the render that started the move.
Commit(q) ==
    /\ ledger[network][q] < MaxVersion
    /\ ledger' = [ledger EXCEPT ![network][q] = @ + 1]
    /\ pending' = pending \cup {<<network, q>>}
    /\ UNCHANGED <<network, cache, inflight>>

\* Mutation used to test InvalidationReachesCommit (not part of the model):
\* invalidate reads the network when it runs, not from its render.
Invalidate_CurrentNetwork(p) ==
    /\ p \in pending
    /\ cache' = [cache EXCEPT ![KeyOf(network, p[2])] = Stale(@)]
    /\ pending' = pending \ {p}
    /\ UNCHANGED <<network, ledger, inflight>>

\* invalidateQueries({queryKey: [ctx.network, ..., params]}) with the
\* network and params of the closure's render: the entry is marked stale
\* (an active query refetches through Fetch).
Invalidate(p) ==
    /\ p \in pending
    /\ cache' = [cache EXCEPT ![KeyOf(p[1], p[2])] = Stale(@)]
    /\ pending' = pending \ {p}
    /\ UNCHANGED <<network, ledger, inflight>>

Next ==
    \/ \E n \in Networks : SwitchNetwork(n)
    \/ \E q \in Params \cup {NoParam} : Fetch(q)
    \/ \E f \in inflight : Respond(f)
    \/ \E q \in Params : Commit(q)
    \/ \E p \in pending : Invalidate(p)

\* react-query fetches a mounted query that has no data or has been
\* invalidated; requests get answers; the awaited invalidate runs.  A
\* refetch of fresh data (refetchInterval, focus) is allowed, not forced.
Fairness ==
    /\ \A q \in Params : WF_vars(Fetch(q) /\ Shown(q).stale)
    /\ \A f \in Fetches : WF_vars(Respond(f))
    /\ \A p \in Networks \X Params : WF_vars(Invalidate(p))

Spec == Init /\ [][Next]_vars /\ Fairness

-----------------------------------------------------------------------------
(* Properties *)

\* A hook never shows an object read from another network than the one
\* MysClientProvider has selected, however the user switches while
\* requests are in flight: the cache key carries ctx.network.
ShownFromSelectedNetwork ==
    \A q \in Params : Shown(q) # NoEntry => Shown(q).src = network

\* A cached object that is fresh, with no invalidation on its way, is the
\* object its network's ledger holds now: every committed move reaches the
\* entry of the network it ran on, even when the user switched networks
\* between the move and its invalidate.
InvalidationReachesCommit ==
    \A n \in Networks, q \in Params :
       LET e == cache[KeyOf(n, q)] IN
          (e # NoEntry /\ ~e.stale /\ <<n, q>> \notin pending)
             => e.ver = ledger[n][q]

\* Once the user stays on one network and no more moves are made, every
\* hook there ends up showing, fresh, the object its ledger holds: the
\* invalidate of each move, run after the user may have switched away and
\* back, leaves no outdated entry that react-query would keep serving.
EventuallyCurrent ==
    \A n \in Networks, q \in Params :
       (\E l \in [Networks -> [Params -> 0..MaxVersion]] :
           <>[](network = n /\ ledger = l))
       => <>[](~cache[KeyOf(n, q)].stale /\ cache[KeyOf(n, q)].ver = ledger[n][q])

\* A cached object never goes back to an older version and never leaves the
\* cache: an answer that arrives after the user switched networks is stored
\* under the key of the network it was read from, so it cannot overwrite a
\* newer object of the network now selected (the queryKey of useObjectQuery
\* and useMysQuery carries ctx.network).
VersionNeverRegresses ==
    \A k \in Keys :
       cache[k] # NoEntry => (cache'[k] # NoEntry /\ cache'[k].ver >= cache[k].ver)

\* The action property over every step of the specification.
CacheNeverRegresses == [][VersionNeverRegresses]_vars

-----------------------------------------------------------------------------
(* Refinement *)

QC == INSTANCE QueryCacheAbstract

\* The cache with its requests in flight behaves as an atomic cache: each
\* answer stores what one read of its key's network would store at the
\* moment it arrives, whatever network the user has selected since the
\* request was sent.
Refinement == QC!ASpec

=============================================================================
