------------------------- MODULE QueryCacheAbstract -------------------------
(***************************************************************************)
(* What the query cache promises the hooks, with requests in flight        *)
(* abstracted away: an entry is filled in one atomic read of the ledger of *)
(* the network its key names, a move bumps the object on the selected      *)
(* network and leaves an invalidation to run, and the invalidation marks   *)
(* that network's entry stale.                                             *)
(***************************************************************************)
EXTENDS Naturals

CONSTANTS Networks, DefaultNetwork, Params, NoParam, MaxVersion

VARIABLES network, ledger, cache, pending

avars == <<network, ledger, cache, pending>>

\* The entry of a key that was never filled.
Absent == [src |-> NoParam, ver |-> 0, stale |-> TRUE]

AInit ==
    /\ network = DefaultNetwork
    /\ ledger = [n \in Networks |-> [q \in Params |-> 0]]
    /\ cache = [k \in Networks \X Params |-> Absent]
    /\ pending = {}

\* The selected network changes.
Select(n) ==
    /\ n # network
    /\ network' = n
    /\ UNCHANGED <<ledger, cache, pending>>

\* The entry of q on network n takes, at once, the object n's ledger holds.
Read(n, q) ==
    /\ cache' = [cache EXCEPT ![<<n, q>>] =
                   [src |-> n, ver |-> ledger[n][q], stale |-> FALSE]]
    /\ UNCHANGED <<network, ledger, pending>>

\* A move on q runs on the selected network.
Move(q) ==
    /\ ledger[network][q] < MaxVersion
    /\ ledger' = [ledger EXCEPT ![network][q] = @ + 1]
    /\ pending' = pending \cup {<<network, q>>}
    /\ UNCHANGED <<network, cache>>

\* The invalidation of a move marks the entry of the move's network.
MarkStale(p) ==
    /\ p \in pending
    /\ cache' = [cache EXCEPT ![p] = [src |-> @.src, ver |-> @.ver, stale |-> TRUE]]
    /\ pending' = pending \ {p}
    /\ UNCHANGED <<network, ledger>>

ANext ==
    \/ \E n \in Networks : Select(n)
    \/ \E n \in Networks, q \in Params : Read(n, q)
    \/ \E q \in Params : Move(q)
    \/ \E p \in pending : MarkStale(p)

ASpec == AInit /\ [][ANext]_avars

=============================================================================
