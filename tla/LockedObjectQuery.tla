--------------------------- MODULE LockedObjectQuery ---------------------------
(***************************************************************************)
(* LockedObject (examples/trading/frontend/src/components/locked/          *)
(* LockedObject.tsx): the parent renders it with a `Locked` object from    *)
(* the indexer API and, optionally, the id of the item locked in it.       *)
(* Without an item id the component reads the item from the object's       *)
(* dynamic object field (getDynamicFieldObject, keyed by the parent id)    *)
(* and passes `itemId || mysObjectId.data?.objectId!` to `Locked`.         *)
(* React keeps the component, and its query hook, across renders with      *)
(* other props; the query cache is shared with every other LockedObject.   *)
(***************************************************************************)
EXTENDS Naturals

CONSTANTS
    Lockeds,  \* ids of Locked objects
    Items,    \* ids of items
    NoId      \* undefined

ASSUME ConstAssumption == NoId \notin Lockeds \cup Items

VARIABLES
    item,      \* item[l]: the item locked in l when l was created
    unlocked,  \* the Locked objects the escrow has unlocked
    obj,       \* the `object` prop's id
    itemProp,  \* the `itemId` prop
    cache,     \* cache[l]: the getDynamicFieldObject entry for parent l
    inflight   \* parents with a getDynamicFieldObject request in flight

vars == <<item, unlocked, obj, itemProp, cache, inflight>>

\* The item in l's dynamic object field now: none once l is unlocked.
Dof(l) == IF l \in unlocked THEN NoId ELSE item[l]

\* No item is locked in two objects.
Injective(f) == \A a, b \in DOMAIN f : a # b => f[a] # f[b]

\* A query entry: no data yet, an error, or the selected `data.data`
\* (NoId when the field does not exist).
NoData == [status |-> "pending", item |-> NoId]
Results == {NoData, [status |-> "error", item |-> NoId]}
              \cup [status : {"success"}, item : Items \cup {NoId}]

\* Mutation used to test RenderedItemMatchesObject (not part of the
\* model): the query key leaves the parent id out.
DofKey_NoParent(l) == CHOOSE k \in Lockeds : TRUE

\* The key of the getDynamicFieldObject query: its params hold parentId.
DofKey(l) == l

\* The props LockedObject passes to `Locked` (lines 64-76); keyId and
\* creator are fields read from `object` and are left out.
Rendered ==
    [itemId |-> IF itemProp # NoId THEN itemProp ELSE cache[DofKey(obj)].item,
     objectId |-> obj]

TypeOK ==
    /\ item \in [Lockeds -> Items]
    /\ unlocked \subseteq Lockeds
    /\ obj \in Lockeds
    /\ itemProp \in Items \cup {NoId}
    /\ cache \in [Lockeds -> Results]
    /\ inflight \subseteq Lockeds

\* The API answers for the first render; the item id it passes, when it
\* passes one, is the locked item (the comment of line 16).
Init ==
    /\ item \in {f \in [Lockeds -> Items] : Injective(f)}
    /\ unlocked = {}
    /\ obj \in Lockeds
    /\ itemProp \in {item[obj], NoId}
    /\ cache = [l \in Lockeds |-> NoData]
    /\ inflight = {}

\* The parent renders the same component with another Locked object (a
\* refreshed list) and the API's item id for it, or none.
Rerender(l) ==
    /\ obj' = l
    /\ itemProp' \in {item[l], NoId}
    /\ UNCHANGED <<item, unlocked, cache, inflight>>

\* Lines 47-62: with `enabled: !itemId` the query of the current parent
\* fetches when it has no data or is refetched; one request per key.
FetchDof ==
    /\ itemProp = NoId
    /\ DofKey(obj) \notin inflight
    /\ inflight' = inflight \cup {DofKey(obj)}
    /\ UNCHANGED <<item, unlocked, obj, itemProp, cache>>

\* Mutation used to test TypeOK (not part of the model): the `select`
\* option dropped, the whole response stored as the item.
RespondDof_NoSelect(k) ==
    /\ k \in inflight
    /\ cache' = [cache EXCEPT ![k] = [status |-> "success", item |-> [data |-> Dof(k)]]]
    /\ inflight' = inflight \ {k}
    /\ UNCHANGED <<item, unlocked, obj, itemProp>>

\* The node answers; `select: (data) => data.data` keeps the object, or
\* nothing when the field is gone.
RespondDof(k) ==
    /\ k \in inflight
    /\ cache' = [cache EXCEPT ![k] = [status |-> "success", item |-> Dof(k)]]
    /\ inflight' = inflight \ {k}
    /\ UNCHANGED <<item, unlocked, obj, itemProp>>

\* The request fails; react-query keeps the last data of the key.
FailDof(k) ==
    /\ k \in inflight
    /\ cache' = [cache EXCEPT ![k] =
                   IF @.status = "success" THEN @ ELSE [status |-> "error", item |-> NoId]]
    /\ inflight' = inflight \ {k}
    /\ UNCHANGED <<item, unlocked, obj, itemProp>>

\* The escrow unlocks l (another user's transaction): the item leaves the
\* dynamic field.
Unlock(l) ==
    /\ l \notin unlocked
    /\ unlocked' = unlocked \cup {l}
    /\ UNCHANGED <<item, obj, itemProp, cache, inflight>>

Next ==
    \/ \E l \in Lockeds : Rerender(l) \/ Unlock(l)
    \/ FetchDof
    \/ \E k \in inflight : RespondDof(k) \/ FailDof(k)

Spec == Init /\ [][Next]_vars

-----------------------------------------------------------------------------
(* Properties *)

\* The item LockedObject hands to `Locked` is the item of the object it
\* renders, never the item of another Locked object that the same
\* component or another LockedObject rendered before; after an unlock it
\* may still be the item the object held.
RenderedItemMatchesObject ==
    Rendered.itemId # NoId => Rendered.itemId = item[obj]

\* The comment of line 16 and the `!` of line 67: the `Locked` component
\* always gets a defined item id.
RenderedItemDefined == Rendered.itemId # NoId

=============================================================================
