------------------------- MODULE NetworkQueriesProofs -------------------------
(***************************************************************************)
(* Proofs about NetworkQueries for any networks, params and version bound: *)
(* a hook shows only what the selected network's client returned, and a    *)
(* fresh cache entry is never behind its ledger once the invalidate of     *)
(* every move has run.                                                     *)
(***************************************************************************)
EXTENDS NetworkQueries, TLAPS

\* Every cache entry came from the network its key names.
CacheFromKeyNetwork ==
    \A n \in Networks, q \in Params :
       cache[KeyOf(n, q)] # NoEntry => cache[KeyOf(n, q)].src = n

\* Every request in flight will be stored under the key of its own network.
FlightKeyed == \A f \in inflight : f.key = KeyOf(f.net, f.param)

IInv == TypeOK /\ CacheFromKeyNetwork /\ FlightKeyed /\ InvalidationReachesCommit

\* Distinct networks or params give distinct query keys.
LEMMA KeyOfInjective ==
    ASSUME NEW n \in Networks, NEW q \in Params, NEW m \in Networks, NEW r \in Params,
           KeyOf(n, q) = KeyOf(m, r)
    PROVE  n = m /\ q = r
BY DEF KeyOf

\* The query keys are the pairs of a network and params.
LEMMA KeysDef == Keys = Networks \X Params
BY DEF Keys, KeyOf

\* Marking an entry stale keeps it an entry, and keeps a missing entry
\* missing.
LEMMA StaleEntry ==
    ASSUME NEW e \in Entries \cup {NoEntry}
    PROVE  /\ Stale(e) \in Entries \cup {NoEntry}
           /\ Stale(e) = NoEntry <=> e = NoEntry
           /\ Stale(e) # NoEntry => Stale(e).src = e.src /\ Stale(e).ver = e.ver
<1>1. CASE e = NoEntry
    BY <1>1 DEF Stale, NoEntry
<1>2. CASE e \in Entries
    <2>1. Stale(e) \in Entries
        BY <1>2 DEF Stale, Entries
    <2>2. Stale(e).src \in Networks /\ e.src \in Networks
        BY <1>2 DEF Stale, Entries
    <2>3. NoEntry.src = NoParam
        BY DEF NoEntry
    <2>4. Stale(e) # NoEntry /\ e # NoEntry
        BY <2>2, <2>3, ConstAssumption
    <2>. QED BY <2>1, <2>4 DEF Stale
<1>. QED BY <1>1, <1>2

LEMMA InitIInv == Init => IInv
<1> SUFFICES ASSUME Init PROVE IInv
    OBVIOUS
<1>1. cache \in [Keys -> Entries \cup {NoEntry}]
    BY DEF Init
<1>2. ledger \in [Networks -> [Params -> 0..MaxVersion]]
    BY ConstAssumption DEF Init
<1>3. \A n \in Networks, q \in Params : cache[KeyOf(n, q)] = NoEntry
    BY KeysDef DEF Init, KeyOf
<1>4. NoEntry.stale
    BY DEF NoEntry
<1>. QED BY <1>1, <1>2, <1>3, <1>4, ConstAssumption
         DEF Init, IInv, TypeOK, CacheFromKeyNetwork, FlightKeyed, InvalidationReachesCommit

\* A step that changes neither the cache, the ledger, the requests in
\* flight nor the pending invalidations keeps IInv whatever it does to the
\* selected network.
LEMMA FrameIInv ==
    ASSUME IInv, network' \in Networks,
           UNCHANGED <<ledger, cache, inflight, pending>>
    PROVE  IInv'
BY DEF IInv, TypeOK, CacheFromKeyNetwork, FlightKeyed, InvalidationReachesCommit

\* An answer changes only the entry of the network and params it was
\* requested for, and stores there the object its network's ledger holds.
LEMMA RespondEntry ==
    ASSUME IInv, NEW f \in inflight, Respond(f), NEW n \in Networks, NEW q \in Params
    PROVE  cache'[KeyOf(n, q)] =
              IF n = f.net /\ q = f.param
              THEN [src |-> f.net, ver |-> ledger[f.net][f.param], stale |-> FALSE]
              ELSE cache[KeyOf(n, q)]
<1>1. f \in Fetches /\ f.key = KeyOf(f.net, f.param)
    BY DEF IInv, TypeOK, FlightKeyed
<1>2. KeyOf(n, q) \in Keys /\ f.key \in Keys
    BY <1>1, KeysDef DEF Fetches, KeyOf
<1>3. KeyOf(n, q) = f.key <=> n = f.net /\ q = f.param
    BY <1>1 DEF Fetches, KeyOf
<1>. QED BY <1>2, <1>3 DEF Respond, IInv, TypeOK

\* An invalidate changes only the entry of the network and params of the
\* render it closed over, and marks that entry stale.
LEMMA InvalidateEntry ==
    ASSUME IInv, NEW n \in Networks, NEW q \in Params, Invalidate(<<n, q>>),
           NEW m \in Networks, NEW r \in Params
    PROVE  cache'[KeyOf(m, r)] =
              IF m = n /\ r = q THEN Stale(cache[KeyOf(n, q)]) ELSE cache[KeyOf(m, r)]
<1>1. KeyOf(m, r) \in Keys /\ KeyOf(n, q) \in Keys
    BY KeysDef DEF KeyOf
<1>2. KeyOf(m, r) = KeyOf(n, q) <=> m = n /\ r = q
    BY DEF KeyOf
<1>. QED BY <1>1, <1>2 DEF Invalidate, KeyOf, IInv, TypeOK

LEMMA NextIInv == IInv /\ [Next]_vars => IInv'
<1> SUFFICES ASSUME IInv, [Next]_vars PROVE IInv'
    OBVIOUS
<1> USE ConstAssumption
<1>1. ASSUME NEW n \in Networks, SwitchNetwork(n) PROVE IInv'
    BY <1>1, FrameIInv DEF SwitchNetwork
<1>2. ASSUME NEW q \in Params \cup {NoParam}, Fetch(q) PROVE IInv'
    <2> DEFINE r == [key |-> KeyOf(network, q), net |-> network, param |-> q]
    <2>1. q \in Params /\ network \in Networks
        BY <1>2 DEF Fetch, IInv, TypeOK
    <2>2. r \in Fetches /\ r.key = KeyOf(r.net, r.param)
        BY <2>1, KeysDef DEF Fetches, KeyOf
    <2>3. inflight' = inflight \cup {r} /\ UNCHANGED <<network, ledger, cache, pending>>
        BY <1>2 DEF Fetch
    <2>. QED BY <2>2, <2>3 DEF IInv, TypeOK, CacheFromKeyNetwork, FlightKeyed,
                               InvalidationReachesCommit
<1>3. ASSUME NEW f \in inflight, Respond(f) PROVE IInv'
    <2> DEFINE e == [src |-> f.net, ver |-> ledger[f.net][f.param], stale |-> FALSE]
    <2>1. f \in Fetches /\ f.key = KeyOf(f.net, f.param)
        BY DEF IInv, TypeOK, FlightKeyed
    <2>2. cache' = [cache EXCEPT ![f.key] = e]
          /\ inflight' = inflight \ {f} /\ UNCHANGED <<network, ledger, pending>>
        BY <1>3 DEF Respond
    <2>3. e \in Entries
        BY <2>1 DEF IInv, TypeOK, Fetches, Entries
    <2>4. ASSUME NEW n \in Networks, NEW q \in Params
          PROVE  cache'[KeyOf(n, q)] = IF n = f.net /\ q = f.param THEN e ELSE cache[KeyOf(n, q)]
        BY <1>3, RespondEntry
    <2>5. TypeOK'
        BY <2>1, <2>2, <2>3 DEF IInv, TypeOK, Fetches
    <2>6. CacheFromKeyNetwork'
        BY <2>4 DEF IInv, CacheFromKeyNetwork
    <2>7. FlightKeyed'
        BY <2>2 DEF IInv, FlightKeyed
    <2>8. InvalidationReachesCommit'
        BY <2>2, <2>4 DEF IInv, InvalidationReachesCommit
    <2>. QED BY <2>5, <2>6, <2>7, <2>8 DEF IInv
<1>4. ASSUME NEW q \in Params, Commit(q) PROVE IInv'
    <2>1. network \in Networks /\ ledger[network][q] < MaxVersion
        BY <1>4 DEF Commit, IInv, TypeOK
    <2>2. ledger' = [ledger EXCEPT ![network][q] = @ + 1]
          /\ pending' = pending \cup {<<network, q>>}
          /\ UNCHANGED <<network, cache, inflight>>
        BY <1>4 DEF Commit
    <2>3. TypeOK'
        BY <2>1, <2>2 DEF IInv, TypeOK
    <2>4. InvalidationReachesCommit'
        BY <2>1, <2>2 DEF IInv, TypeOK, InvalidationReachesCommit
    <2>. QED BY <2>2, <2>3, <2>4 DEF IInv, CacheFromKeyNetwork, FlightKeyed
<1>5. ASSUME NEW p \in pending, Invalidate(p) PROVE IInv'
    <2>1. PICK n \in Networks, q \in Params : p = <<n, q>>
        BY DEF IInv, TypeOK
    <2>2. cache' = [cache EXCEPT ![KeyOf(n, q)] = Stale(@)]
          /\ pending' = pending \ {p} /\ UNCHANGED <<network, ledger, inflight>>
        BY <1>5, <2>1 DEF Invalidate
    <2>3. ASSUME NEW m \in Networks, NEW r \in Params
          PROVE  cache'[KeyOf(m, r)] =
                    IF m = n /\ r = q THEN Stale(cache[KeyOf(n, q)])
                    ELSE cache[KeyOf(m, r)]
        BY <1>5, <2>1, InvalidateEntry
    <2>4. cache[KeyOf(n, q)] \in Entries \cup {NoEntry}
        BY KeysDef DEF IInv, TypeOK, KeyOf
    <2>5. Stale(cache[KeyOf(n, q)]) \in Entries \cup {NoEntry}
        BY <2>4, StaleEntry
    <2>6. TypeOK'
        <3>1. cache' \in [Keys -> Entries \cup {NoEntry}]
            BY <2>2, <2>5, Zenon DEF IInv, TypeOK
        <3>. QED BY <2>2, <3>1 DEF IInv, TypeOK
    <2>7. CacheFromKeyNetwork'
        <3>1. Stale(cache[KeyOf(n, q)]) # NoEntry
                => cache[KeyOf(n, q)] # NoEntry
            BY <2>4, StaleEntry
        <3>. QED BY <2>3, <2>4, <3>1, StaleEntry DEF IInv, CacheFromKeyNetwork
    <2>8. InvalidationReachesCommit'
        BY <2>1, <2>2, <2>3, <2>4, StaleEntry DEF IInv, InvalidationReachesCommit, Stale
    <2>. QED BY <2>2, <2>6, <2>7, <2>8 DEF IInv, FlightKeyed
<1>6. CASE UNCHANGED vars
    BY <1>6, FrameIInv DEF vars, IInv, TypeOK
<1>. QED BY <1>1, <1>2, <1>3, <1>4, <1>5, <1>6 DEF Next

THEOREM IInvariant == Spec => []IInv
BY InitIInv, NextIInv, PTL DEF Spec

\* For every set of networks and params: whatever the order of network
\* switches, requests and answers, a hook renders only data that the
\* client of the selected network returned.
THEOREM ShownFromSelectedNetworkThm == Spec => []ShownFromSelectedNetwork
<1>1. IInv => ShownFromSelectedNetwork
    BY DEF IInv, CacheFromKeyNetwork, ShownFromSelectedNetwork, Shown, TypeOK
<1>. QED BY <1>1, IInvariant, PTL

\* For every set of networks and params: a move's invalidate, run in the
\* closure of its render, marks the entry of the network the move ran on,
\* so a fresh entry with no invalidation pending matches its ledger.
THEOREM InvalidationReachesCommitThm == Spec => []InvalidationReachesCommit
<1>1. IInv => InvalidationReachesCommit
    BY DEF IInv
<1>. QED BY <1>1, IInvariant, PTL

\* The selected network, every ledger version, every cache entry and every
\* request in flight keep their types for any networks and params: a
\* response is always stored under a key of the cache.
THEOREM TypeCorrect == Spec => []TypeOK
<1>1. IInv => TypeOK
    BY DEF IInv
<1>. QED BY <1>1, IInvariant, PTL

-----------------------------------------------------------------------------
(* A cached object never goes back to an older version *)

\* No cache entry holds a version ahead of its network's ledger: an answer
\* stores the ledger's version of its own key, and versions only grow.
CacheNotAhead ==
    \A n \in Networks, q \in Params :
       cache[KeyOf(n, q)] # NoEntry => cache[KeyOf(n, q)].ver <= ledger[n][q]

\* An answer's entry is never the missing entry.
LEMMA AnswerIsEntry ==
    ASSUME NEW n \in Networks, NEW v
    PROVE  [src |-> n, ver |-> v, stale |-> FALSE] # NoEntry
BY ConstAssumption DEF NoEntry

\* The entry under a key is an entry of the cache, with a natural version.
LEMMA EntryType ==
    ASSUME IInv, NEW n \in Networks, NEW q \in Params
    PROVE  /\ cache[KeyOf(n, q)] \in Entries \cup {NoEntry}
           /\ cache[KeyOf(n, q)].ver \in Nat
<1>1. KeyOf(n, q) \in Keys
    BY KeysDef DEF KeyOf
<1>2. cache[KeyOf(n, q)] \in Entries \cup {NoEntry}
    BY <1>1 DEF IInv, TypeOK
<1>. QED BY <1>2, ConstAssumption DEF Entries, NoEntry

LEMMA InitCacheNotAhead == Init => CacheNotAhead
BY KeysDef DEF Init, CacheNotAhead, KeyOf

LEMMA NextCacheNotAhead == IInv /\ CacheNotAhead /\ [Next]_vars => CacheNotAhead'
<1> SUFFICES ASSUME IInv, CacheNotAhead, [Next]_vars,
                    NEW n \in Networks, NEW q \in Params,
                    cache'[KeyOf(n, q)] # NoEntry
             PROVE  cache'[KeyOf(n, q)].ver <= ledger'[n][q]
    BY DEF CacheNotAhead
<1>0. /\ ledger[n][q] \in Nat
      /\ cache[KeyOf(n, q)] # NoEntry => cache[KeyOf(n, q)].ver <= ledger[n][q]
    BY DEF IInv, TypeOK, CacheNotAhead
<1>1. CASE UNCHANGED <<ledger, cache>>
    BY <1>0, <1>1
<1>2. ASSUME NEW f \in inflight, Respond(f) PROVE cache'[KeyOf(n, q)].ver <= ledger'[n][q]
    <2>1. ledger' = ledger
        BY <1>2 DEF Respond
    <2>2. cache'[KeyOf(n, q)] =
             IF n = f.net /\ q = f.param
             THEN [src |-> f.net, ver |-> ledger[f.net][f.param], stale |-> FALSE]
             ELSE cache[KeyOf(n, q)]
        BY <1>2, RespondEntry
    <2>3. CASE n = f.net /\ q = f.param
        BY <1>0, <2>1, <2>2, <2>3
    <2>4. CASE ~(n = f.net /\ q = f.param)
        BY <1>0, <2>1, <2>2, <2>4
    <2>. QED BY <2>3, <2>4
<1>3. ASSUME NEW r \in Params, Commit(r) PROVE cache'[KeyOf(n, q)].ver <= ledger'[n][q]
    <2>1. ledger' = [ledger EXCEPT ![network][r] = @ + 1] /\ cache' = cache
        BY <1>3 DEF Commit
    <2>2. ledger'[n][q] \in {ledger[n][q], ledger[n][q] + 1}
        BY <2>1 DEF IInv, TypeOK
    <2>. QED BY <1>0, <2>1, <2>2, EntryType
<1>4. ASSUME NEW p \in pending, Invalidate(p) PROVE cache'[KeyOf(n, q)].ver <= ledger'[n][q]
    <2>1. PICK m \in Networks, r \in Params : p = <<m, r>>
        BY DEF IInv, TypeOK
    <2>2. ledger' = ledger
        BY <1>4 DEF Invalidate
    <2>3. cache'[KeyOf(n, q)] =
             IF n = m /\ q = r THEN Stale(cache[KeyOf(m, r)]) ELSE cache[KeyOf(n, q)]
        BY <1>4, <2>1, InvalidateEntry
    <2>. QED BY <1>0, <2>2, <2>3, EntryType, StaleEntry
<1>. QED BY <1>1, <1>2, <1>3, <1>4 DEF Next, vars, SwitchNetwork, Fetch

THEOREM CacheNotAheadInvariant == Spec => [](IInv /\ CacheNotAhead)
BY InitIInv, NextIInv, InitCacheNotAhead, NextCacheNotAhead, PTL DEF Spec

\* Every step of the query cache keeps each cached object and never lowers
\* its version.
LEMMA NextNeverRegresses ==
    IInv /\ CacheNotAhead /\ [Next]_vars => [VersionNeverRegresses]_vars
<1> SUFFICES ASSUME IInv, CacheNotAhead, Next
             PROVE  VersionNeverRegresses
    BY DEF vars
<1> SUFFICES ASSUME NEW n \in Networks, NEW q \in Params,
                    cache[KeyOf(n, q)] # NoEntry
             PROVE  /\ cache'[KeyOf(n, q)] # NoEntry
                    /\ cache'[KeyOf(n, q)].ver >= cache[KeyOf(n, q)].ver
    BY KeysDef DEF VersionNeverRegresses, KeyOf
<1>0. /\ cache[KeyOf(n, q)] \in Entries
      /\ cache[KeyOf(n, q)].ver \in Nat
      /\ cache[KeyOf(n, q)].ver <= ledger[n][q]
    BY EntryType DEF CacheNotAhead
<1>1. CASE cache' = cache
    BY <1>0, <1>1
<1>2. ASSUME NEW f \in inflight, Respond(f)
      PROVE  /\ cache'[KeyOf(n, q)] # NoEntry
             /\ cache'[KeyOf(n, q)].ver >= cache[KeyOf(n, q)].ver
    <2>1. f \in Fetches
        BY DEF IInv, TypeOK
    <2>2. [src |-> f.net, ver |-> ledger[f.net][f.param], stale |-> FALSE] # NoEntry
        BY <2>1, AnswerIsEntry DEF Fetches
    <2>3. cache'[KeyOf(n, q)] =
             IF n = f.net /\ q = f.param
             THEN [src |-> f.net, ver |-> ledger[f.net][f.param], stale |-> FALSE]
             ELSE cache[KeyOf(n, q)]
        BY <1>2, RespondEntry
    <2>4. CASE n = f.net /\ q = f.param
        BY <1>0, <2>2, <2>3, <2>4
    <2>5. CASE ~(n = f.net /\ q = f.param)
        BY <1>0, <2>3, <2>5
    <2>. QED BY <2>4, <2>5
<1>3. ASSUME NEW p \in pending, Invalidate(p)
      PROVE  cache'[KeyOf(n, q)] # NoEntry
             /\ cache'[KeyOf(n, q)].ver >= cache[KeyOf(n, q)].ver
    <2>1. PICK m \in Networks, r \in Params : p = <<m, r>>
        BY DEF IInv, TypeOK
    <2>2. cache'[KeyOf(n, q)] =
             IF n = m /\ q = r THEN Stale(cache[KeyOf(m, r)]) ELSE cache[KeyOf(n, q)]
        BY <1>3, <2>1, InvalidateEntry
    <2>. QED BY <1>0, <2>2, StaleEntry
<1>. QED BY <1>1, <1>2, <1>3 DEF Next, SwitchNetwork, Fetch, Commit

\* For any networks, params and version bound: whatever the order of
\* switches, requests, answers, moves and invalidates, no step removes a
\* cached object or replaces it by an older version of it (the property
\* CacheNeverRegresses, which TLC checks on the instance).
THEOREM CacheNeverRegressesThm == Spec => CacheNeverRegresses
BY CacheNotAheadInvariant, NextNeverRegresses, PTL DEF Spec, CacheNeverRegresses

-----------------------------------------------------------------------------
(* The refinement of QueryCacheAbstract *)

LEMMA RefineInit == Init => QC!AInit
<1> SUFFICES ASSUME Init PROVE QC!AInit
    OBVIOUS
<1>1. NoEntry = QC!Absent
    BY DEF NoEntry, QC!Absent
<1>. QED BY <1>1, KeysDef DEF Init, QC!AInit

\* Each step of the cache with requests in flight is a step of the atomic
\* cache, or leaves it unchanged: sending a request changes nothing the
\* hooks see, and an answer is the atomic read of its key's network.
LEMMA RefineNext == IInv /\ [Next]_vars => [QC!ANext]_QC!avars
<1> SUFFICES ASSUME IInv, [Next]_vars PROVE [QC!ANext]_QC!avars
    OBVIOUS
<1>1. ASSUME NEW n \in Networks, SwitchNetwork(n) PROVE [QC!ANext]_QC!avars
    <2>1. QC!Select(n)
        BY <1>1 DEF SwitchNetwork, QC!Select
    <2>. QED BY <2>1 DEF QC!ANext
<1>2. ASSUME NEW q \in Params \cup {NoParam}, Fetch(q) PROVE [QC!ANext]_QC!avars
    BY <1>2 DEF Fetch, QC!avars
<1>3. ASSUME NEW f \in inflight, Respond(f) PROVE [QC!ANext]_QC!avars
    <2>1. f \in Fetches /\ f.key = <<f.net, f.param>>
        BY DEF IInv, TypeOK, FlightKeyed, KeyOf
    <2>2. QC!Read(f.net, f.param)
        BY <1>3, <2>1 DEF Respond, QC!Read
    <2>. QED BY <2>1, <2>2 DEF QC!ANext, Fetches
<1>4. ASSUME NEW q \in Params, Commit(q) PROVE [QC!ANext]_QC!avars
    <2>1. QC!Move(q)
        BY <1>4 DEF Commit, QC!Move
    <2>. QED BY <2>1 DEF QC!ANext
<1>5. ASSUME NEW p \in pending, Invalidate(p) PROVE [QC!ANext]_QC!avars
    <2>1. PICK n \in Networks, q \in Params : p = <<n, q>>
        BY DEF IInv, TypeOK
    <2>2. KeyOf(p[1], p[2]) = p
        BY <2>1 DEF KeyOf
    <2>3. QC!MarkStale(p)
        BY <1>5, <2>2 DEF Invalidate, Stale, QC!MarkStale
    <2>. QED BY <2>3 DEF QC!ANext
<1>6. CASE UNCHANGED vars
    BY <1>6 DEF vars, QC!avars
<1>. QED BY <1>1, <1>2, <1>3, <1>4, <1>5, <1>6 DEF Next

\* For any networks, params and version bound, the query cache with its
\* requests in flight implements the atomic cache of QueryCacheAbstract
\* (the property Refinement, which TLC checks on the instance).
THEOREM RefinementThm == Spec => Refinement
BY RefineInit, RefineNext, IInvariant, PTL DEF Spec, Refinement, QC!ASpec

=============================================================================
