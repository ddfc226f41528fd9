---------------------------- MODULE TurnCapQuery ----------------------------
(***************************************************************************)
(* The queryFn of useTurnCapQuery (examples/tic-tac-toe/ui/src/hooks/      *)
(* useTurnCapQuery.ts): look through the objects the connected account    *)
(* owns, page by page, for the TurnCap of `game`.  react-query runs it     *)
(* again every REFETCH_INTERVAL.  Meanwhile the other player's moves       *)
(* transfer the TurnCap to and from the account.                           *)
(*                                                                         *)
(* getOwnedObjects returns the first PageSize objects and hasNextPage; the *)
(* code never passes a cursor, so every iteration reads the first page.    *)
(***************************************************************************)
EXTENDS Naturals, Sequences

CONSTANTS
    Objects,    \* object ids
    PageSize,   \* the node's default page size for getOwnedObjects
    MaxOwned    \* bound on the number of objects the account owns

ASSUME ConstAssumption ==
    /\ PageSize \in Nat \ {0}
    /\ MaxOwned \in Nat

\* What an object is to the loop: a TurnCap of `game` or of another game, or an object
\* whose content is not a Move object (skipped by `continue`), or a Move
\* object of another type (its fields have no `game`).
Kinds == {"capGame", "capOther", "notMove", "otherMove"}

VARIABLES
    owned,      \* owned: the account's objects in the node's order
    kind,       \* kind[o]: what object o is
    connected,  \* the account is connected (`account?.address` is set)
    pc,         \* "idle", "fetching" (queryFn running) or "settled"
    result,     \* what queryFn resolved to: "cap", "null" or "error"
    snapshot    \* owned as the last getOwnedObjects call saw it

vars == <<owned, kind, connected, pc, result, snapshot>>

NoDup(s) == \A i, j \in DOMAIN s : i # j => s[i] # s[j]

\* Lists of distinct objects no longer than MaxOwned.
OwnedLists == {s \in UNION {[1..n -> Objects] : n \in 0..MaxOwned} : NoDup(s)}

\* The first page getOwnedObjects returns without a cursor.
FirstPage(s) == SubSeq(s, 1, IF Len(s) < PageSize THEN Len(s) ELSE PageSize)
HasNextPage(s) == Len(s) > PageSize

\* The objects a list names.
Held(s) == {s[i] : i \in DOMAIN s}

\* The `for (const obj of resp.data)` scan: is the TurnCap of `game` on
\* the page?  Objects of other kinds fail `dataType` or `cap.game === game`.
CapOnPage(p) == \E i \in DOMAIN p : kind[p[i]] = "capGame"

TypeOK ==
    /\ owned \in OwnedLists
    /\ kind \in [Objects -> Kinds]
    /\ connected \in BOOLEAN
    /\ pc \in {"idle", "fetching", "settled"}
    /\ result \in {"none", "cap", "null", "error"}
    /\ snapshot \in OwnedLists

Init ==
    /\ owned \in OwnedLists
    /\ kind \in [Objects -> Kinds]
    /\ connected \in BOOLEAN
    /\ pc = "idle"
    /\ result = "none"
    /\ snapshot = <<>>

\* Mutation used to test TypeOK (not part of the model): a bare `return;`
\* for a missing account, resolving to undefined.
Run_ReturnUndefined ==
    /\ pc \in {"idle", "settled"}
    /\ IF connected
       THEN pc' = "fetching" /\ result' = "none"
       ELSE pc' = "settled" /\ result' = "undefined"
    /\ UNCHANGED <<owned, kind, connected, snapshot>>

\* Lines 35-40: queryFn starts; with no connected account it returns null.
Run ==
    /\ pc \in {"idle", "settled"}
    /\ IF connected
       THEN pc' = "fetching" /\ result' = "none"
       ELSE pc' = "settled" /\ result' = "null"
    /\ UNCHANGED <<owned, kind, connected, snapshot>>

\* Mutation used to test ResultMatchesListing (not part of the model): the loop
\* leaves after the first page whether or not there is a next one.
Fetch_BreakAlways ==
    /\ pc = "fetching"
    /\ LET page == FirstPage(owned) IN
          IF CapOnPage(page)
          THEN pc' = "settled" /\ result' = "cap"
          ELSE pc' = "settled" /\ result' = "null"
    /\ snapshot' = owned
    /\ UNCHANGED <<owned, kind, connected>>

\* Lines 41-67, one iteration of `for (;;)`: fetch the first page, return
\* the TurnCap of `game` if it is on it, return null if there is no next
\* page, otherwise fetch again (the same first page).
Fetch ==
    /\ pc = "fetching"
    /\ LET page == FirstPage(owned) IN
          IF CapOnPage(page) THEN pc' = "settled" /\ result' = "cap"
          ELSE IF ~HasNextPage(owned) THEN pc' = "settled" /\ result' = "null"
          ELSE UNCHANGED <<pc, result>>
    /\ snapshot' = owned
    /\ UNCHANGED <<owned, kind, connected>>

\* getOwnedObjects rejects; the query goes to its error state.
FetchError ==
    /\ pc = "fetching"
    /\ pc' = "settled"
    /\ result' = "error"
    /\ UNCHANGED <<owned, kind, connected, snapshot>>

\* A transaction (the opponent's move, a transfer) gives the account an
\* object; the node lists it at some position.
Receive(o) ==
    /\ o \notin Held(owned)
    /\ Len(owned) < MaxOwned
    /\ \E i \in 0..Len(owned) :
          owned' = SubSeq(owned, 1, i) \o <<o>> \o SubSeq(owned, i + 1, Len(owned))
    /\ UNCHANGED <<kind, connected, pc, result, snapshot>>

\* A transaction (the player's move) takes an object from the account.
Give(i) ==
    /\ i \in DOMAIN owned
    /\ owned' = SubSeq(owned, 1, i - 1) \o SubSeq(owned, i + 1, Len(owned))
    /\ UNCHANGED <<kind, connected, pc, result, snapshot>>

Next ==
    \/ Run \/ Fetch \/ FetchError
    \/ \E o \in Objects : Receive(o)
    \/ \E i \in 1..MaxOwned : Give(i)

\* A running queryFn gets its pages: the node answers getOwnedObjects with a
\* page (a request that only fails is not assumed away, it is just not
\* forced).
Spec == Init /\ [][Next]_vars /\ WF_vars(Fetch)

-----------------------------------------------------------------------------
(* Properties *)

\* When the query settles for a connected account, it resolves to the
\* TurnCap exactly when the TurnCap of `game` was among the objects the last
\* getOwnedObjects call listed: a null never hides a TurnCap the account
\* owned (line 64's break only on the last page), and a cap is never
\* another game's (line 59's `cap.game === game`).
ResultMatchesListing ==
    (pc = "settled" /\ connected /\ result \in {"cap", "null"})
       => (result = "cap" <=> \E i \in DOMAIN snapshot : kind[snapshot[i]] = "capGame")

\* Every run of queryFn settles once the account's objects stop changing:
\* the `for (;;)` loop is left when the node has answered.
QueryTerminates ==
    (\E s \in OwnedLists : <>[](owned = s)) => (pc = "fetching" ~> pc = "settled")

-----------------------------------------------------------------------------
(* Refinement *)

TA == INSTANCE TurnCapAbstract WITH held <- Held(owned)

\* The paged loop over getOwnedObjects behaves as one atomic read of the
\* account's objects: whenever queryFn settles with the TurnCap or with
\* null, that is what the objects the account held at the moment of the
\* settling getOwnedObjects call say, whatever their order in the node's
\* listing; an iteration that finds a next page changes nothing the game
\* page sees.
Refinement == TA!ASpec

=============================================================================
