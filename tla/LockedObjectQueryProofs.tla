----------------------- MODULE LockedObjectQueryProofs -----------------------
(***************************************************************************)
(* For any Locked objects and items: the item LockedObject renders is the  *)
(* item of the object it renders.                                          *)
(***************************************************************************)
EXTENDS LockedObjectQuery, TLAPS

\* Each dynamic-field entry holds the item of its own parent or nothing,
\* and the API's item id is the item of the object it comes with.
IInv ==
    /\ TypeOK
    /\ \A l \in Lockeds : cache[l].item \in {item[l], NoId}
    /\ itemProp \in {item[obj], NoId}

LEMMA InitIInv == Init => IInv
BY DEF Init, IInv, TypeOK, Results, NoData

LEMMA NextIInv == IInv /\ [Next]_vars => IInv'
<1> SUFFICES ASSUME IInv, [Next]_vars PROVE IInv'
    OBVIOUS
<1> USE DEF IInv, TypeOK, Results, Dof, DofKey
<1>1. ASSUME NEW l \in Lockeds, Rerender(l) PROVE IInv'
    BY <1>1 DEF Rerender
<1>2. ASSUME NEW l \in Lockeds, Unlock(l) PROVE IInv'
    BY <1>2 DEF Unlock
<1>3. CASE FetchDof
    BY <1>3 DEF FetchDof
<1>4. ASSUME NEW k \in inflight, RespondDof(k) PROVE IInv'
    BY <1>4 DEF RespondDof
<1>5. ASSUME NEW k \in inflight, FailDof(k) PROVE IInv'
    BY <1>5 DEF FailDof
<1>6. CASE UNCHANGED vars
    BY <1>6 DEF vars
<1>. QED BY <1>1, <1>2, <1>3, <1>4, <1>5, <1>6 DEF Next

THEOREM IInvariant == Spec => []IInv
BY InitIInv, NextIInv, PTL DEF Spec

\* However the parent re-renders the component with other Locked objects
\* and however the dynamic-field requests succeed, fail or race an
\* unlock, `Locked` gets the item of the object it shows, or nothing.
THEOREM RenderedItemMatchesObjectThm == Spec => []RenderedItemMatchesObject
<1>1. IInv => RenderedItemMatchesObject
    BY ConstAssumption DEF IInv, TypeOK, RenderedItemMatchesObject, Rendered, DofKey
<1>. QED BY <1>1, IInvariant, PTL

\* The props, the escrow's objects and every dynamic-field entry keep their
\* types for any objects and items: `select` stores an item id or nothing.
THEOREM TypeCorrect == Spec => []TypeOK
<1>1. IInv => TypeOK
    BY DEF IInv
<1>. QED BY <1>1, IInvariant, PTL

=============================================================================
