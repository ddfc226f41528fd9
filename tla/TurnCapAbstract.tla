--------------------------- MODULE TurnCapAbstract ---------------------------
(***************************************************************************)
(* What useTurnCapQuery promises the game page, with paging and the order  *)
(* in which the node lists objects abstracted away: the account holds a    *)
(* set of objects, and a run of queryFn settles with the TurnCap of `game` *)
(* exactly when, at the moment of one atomic read, the account holds it;   *)
(* or with null when no account is connected, or with an error.           *)
(***************************************************************************)
CONSTANTS
    Objects,    \* object ids
    Kinds       \* what an object is to the query

VARIABLES held, kind, connected, pc, result

avars == <<held, kind, connected, pc, result>>

\* The account holds the TurnCap of `game`.
CapHeld == \E o \in held : kind[o] = "capGame"

AInit ==
    /\ held \in SUBSET Objects
    /\ kind \in [Objects -> Kinds]
    /\ connected \in BOOLEAN
    /\ pc = "idle"
    /\ result = "none"

\* queryFn starts for a connected account.
Start ==
    /\ pc \in {"idle", "settled"}
    /\ connected
    /\ pc' = "fetching"
    /\ result' = "none"
    /\ UNCHANGED <<held, kind, connected>>

\* queryFn resolves to null at once when no account is connected.
NoAccount ==
    /\ pc \in {"idle", "settled"}
    /\ ~connected
    /\ pc' = "settled"
    /\ result' = "null"
    /\ UNCHANGED <<held, kind, connected>>

\* queryFn settles with what one read of the account's objects shows.
Answer ==
    /\ pc = "fetching"
    /\ pc' = "settled"
    /\ result' = IF CapHeld THEN "cap" ELSE "null"
    /\ UNCHANGED <<held, kind, connected>>

\* The node's answer is an error.
Fail ==
    /\ pc = "fetching"
    /\ pc' = "settled"
    /\ result' = "error"
    /\ UNCHANGED <<held, kind, connected>>

\* A transaction gives the account an object.
Gain(o) ==
    /\ o \notin held
    /\ held' = held \cup {o}
    /\ UNCHANGED <<kind, connected, pc, result>>

\* A transaction takes an object from the account.
Lose(o) ==
    /\ o \in held
    /\ held' = held \ {o}
    /\ UNCHANGED <<kind, connected, pc, result>>

ANext ==
    \/ Start \/ NoAccount \/ Answer \/ Fail
    \/ \E o \in Objects : Gain(o) \/ Lose(o)

ASpec == AInit /\ [][ANext]_avars

=============================================================================
