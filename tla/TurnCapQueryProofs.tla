-------------------------- MODULE TurnCapQueryProofs --------------------------
(***************************************************************************)
(* For any objects, page size and bound: the type invariant, and a null    *)
(* for a connected account only when the TurnCap was on none of the pages  *)
(* the last getOwnedObjects call listed.                                   *)
(***************************************************************************)
EXTENDS TurnCapQuery, SequenceTheorems, TLAPS

\* The lists the node can give: sequences of distinct objects, at most
\* MaxOwned long.
LEMMA OwnedListsDef ==
    ASSUME NEW s
    PROVE  s \in OwnedLists <=> s \in Seq(Objects) /\ Len(s) <= MaxOwned /\ NoDup(s)
<1>1. ASSUME s \in OwnedLists PROVE s \in Seq(Objects) /\ Len(s) <= MaxOwned /\ NoDup(s)
    <2>1. PICK n \in 0..MaxOwned : s \in [1..n -> Objects]
        BY <1>1 DEF OwnedLists
    <2>2. s \in Seq(Objects)
        BY <2>1, ConstAssumption, SeqDef
    <2>3. Len(s) = n
        BY <2>1, <2>2, LenProperties
    <2>. QED BY <1>1, <2>2, <2>3 DEF OwnedLists
<1>2. ASSUME s \in Seq(Objects), Len(s) <= MaxOwned, NoDup(s) PROVE s \in OwnedLists
    <2>1. s \in [1..Len(s) -> Objects] /\ Len(s) \in 0..MaxOwned
        BY <1>2, LenProperties, ConstAssumption
    <2>. QED BY <1>2, <2>1 DEF OwnedLists
<1>. QED BY <1>1, <1>2

\* A slice m..n of a list of objects, empty when n = m - 1.
LEMMA SliceFacts ==
    ASSUME NEW s \in Seq(Objects), NEW m \in 1..Len(s) + 1, NEW n \in m - 1..Len(s)
    PROVE  /\ SubSeq(s, m, n) \in Seq(Objects)
           /\ Len(SubSeq(s, m, n)) = n - m + 1
           /\ \A j \in 1..n - m + 1 : SubSeq(s, m, n)[j] = s[m + j - 1]
<1>1. Len(s) \in Nat
    BY LenProperties
<1>2. \A k \in m..n : s[k] \in Objects
    BY <1>1, ElementOfSeq
<1>3. m \in Int /\ n \in Int
    BY <1>1
<1>4. /\ SubSeq(s, m, n) \in Seq(Objects)
      /\ Len(SubSeq(s, m, n)) = IF m <= n THEN n - m + 1 ELSE 0
      /\ \A j \in 1..n - m + 1 : SubSeq(s, m, n)[j] = s[m + j - 1]
    BY <1>2, <1>3, SubSeqProperties
<1>. QED BY <1>1, <1>4

\* The first n objects of a list.
LEMMA PrefixFacts ==
    ASSUME NEW s \in Seq(Objects), NEW n \in 0..Len(s)
    PROVE  /\ SubSeq(s, 1, n) \in Seq(Objects)
           /\ Len(SubSeq(s, 1, n)) = n
           /\ \A j \in 1..n : SubSeq(s, 1, n)[j] = s[j]
<1>1. Len(s) \in Nat
    BY LenProperties
<1>2. 1 \in 1..Len(s) + 1 /\ n \in 1 - 1..Len(s)
    BY <1>1
<1>3. /\ SubSeq(s, 1, n) \in Seq(Objects)
      /\ Len(SubSeq(s, 1, n)) = n - 1 + 1
      /\ \A j \in 1..n - 1 + 1 : SubSeq(s, 1, n)[j] = s[1 + j - 1]
    BY <1>2, SliceFacts
<1>4. n - 1 + 1 = n /\ \A j \in 1..n : 1 + j - 1 = j
    BY <1>1
<1>. QED BY <1>3, <1>4, Zenon

\* The objects of a list after its first m.
LEMMA SuffixFacts ==
    ASSUME NEW s \in Seq(Objects), NEW m \in 0..Len(s)
    PROVE  /\ SubSeq(s, m + 1, Len(s)) \in Seq(Objects)
           /\ Len(SubSeq(s, m + 1, Len(s))) = Len(s) - m
           /\ \A j \in 1..Len(s) - m : SubSeq(s, m + 1, Len(s))[j] = s[m + j]
<1>1. Len(s) \in Nat
    BY LenProperties
<1>2. m + 1 \in 1..Len(s) + 1 /\ Len(s) \in (m + 1) - 1..Len(s)
    BY <1>1
<1>3. /\ SubSeq(s, m + 1, Len(s)) \in Seq(Objects)
      /\ Len(SubSeq(s, m + 1, Len(s))) = Len(s) - (m + 1) + 1
      /\ \A j \in 1..Len(s) - (m + 1) + 1 :
            SubSeq(s, m + 1, Len(s))[j] = s[(m + 1) + j - 1]
    BY <1>2, SliceFacts
<1>4. /\ Len(s) - (m + 1) + 1 = Len(s) - m
      /\ \A j \in 1..Len(s) - m : (m + 1) + j - 1 = m + j
    BY <1>1
<1>. QED BY <1>3, <1>4, Zenon

\* Receive's insertion of a new object at position i + 1 keeps the list a
\* list the node can give.
LEMMA InsertOwned ==
    ASSUME NEW s \in OwnedLists, NEW o \in Objects, NEW i \in 0..Len(s),
           o \notin Held(s), Len(s) < MaxOwned
    PROVE  /\ SubSeq(s, 1, i) \o <<o>> \o SubSeq(s, i + 1, Len(s)) \in OwnedLists
           /\ Held(SubSeq(s, 1, i) \o <<o>> \o SubSeq(s, i + 1, Len(s))) = Held(s) \cup {o}
<1> DEFINE A == SubSeq(s, 1, i)
           B == SubSeq(s, i + 1, Len(s))
           C == A \o <<o>>
           t == C \o B
<1>1. s \in Seq(Objects) /\ Len(s) <= MaxOwned /\ NoDup(s)
    BY OwnedListsDef
<1>2. Len(s) \in Nat /\ DOMAIN s = 1..Len(s)
    BY <1>1, LenProperties
<1>3. A \in Seq(Objects) /\ Len(A) = i /\ \A j \in 1..i : A[j] = s[j]
    BY <1>1, PrefixFacts
<1>4. B \in Seq(Objects) /\ Len(B) = Len(s) - i
      /\ \A j \in 1..Len(s) - i : B[j] = s[i + j]
    BY <1>1, SuffixFacts
<1>c. /\ C = A \o <<o>> /\ t = C \o B
      /\ t = SubSeq(s, 1, i) \o <<o>> \o SubSeq(s, i + 1, Len(s))
    OBVIOUS
<1> HIDE DEF A, B, C, t
<1>5. C \in Seq(Objects) /\ Len(C) = i + 1
      /\ \A j \in 1..i + 1 : C[j] = IF j <= i THEN s[j] ELSE o
    <2>1. <<o>> \in Seq(Objects) /\ Len(<<o>>) = 1 /\ <<o>>[1] = o
        OBVIOUS
    <2>2. /\ A \o <<o>> \in Seq(Objects)
          /\ Len(A \o <<o>>) = Len(A) + Len(<<o>>)
          /\ \A j \in 1..Len(A) + Len(<<o>>) :
                (A \o <<o>>)[j] = IF j <= Len(A) THEN A[j] ELSE <<o>>[j - Len(A)]
        BY <1>3, <2>1, ConcatProperties
    <2>. QED BY <1>2, <1>3, <1>c, <2>1, <2>2
<1>6. t \in Seq(Objects) /\ Len(t) = Len(s) + 1
      /\ \A j \in 1..Len(s) + 1 : t[j] = IF j <= i + 1 THEN C[j] ELSE B[j - (i + 1)]
    <2>1. /\ C \o B \in Seq(Objects)
          /\ Len(C \o B) = Len(C) + Len(B)
          /\ \A j \in 1..Len(C) + Len(B) :
                (C \o B)[j] = IF j <= Len(C) THEN C[j] ELSE B[j - Len(C)]
        BY <1>4, <1>5, ConcatProperties, Zenon
    <2>. QED BY <1>2, <1>4, <1>5, <1>c, <2>1
<1>7. \A j \in 1..Len(s) + 1 :
         t[j] = IF j <= i THEN s[j] ELSE IF j = i + 1 THEN o ELSE s[j - 1]
    <2> SUFFICES ASSUME NEW j \in 1..Len(s) + 1
                 PROVE  t[j] = IF j <= i THEN s[j] ELSE IF j = i + 1 THEN o ELSE s[j - 1]
        OBVIOUS
    <2>1. CASE j <= i
        BY <2>1, <1>2, <1>3, <1>5, <1>6
    <2>2. CASE j = i + 1
        BY <2>2, <1>2, <1>5, <1>6
    <2>3. CASE j > i + 1
        <3>1. j - (i + 1) \in 1..Len(s) - i /\ i + (j - (i + 1)) = j - 1
            BY <2>3, <1>2
        <3>2. t[j] = B[j - (i + 1)]
            BY <2>3, <1>2, <1>6
        <3>3. B[j - (i + 1)] = s[j - 1]
            BY <3>1, <1>4
        <3>4. ~(j <= i) /\ j # i + 1
            BY <2>3, <1>2
        <3>. QED BY <3>2, <3>3, <3>4
    <2>. QED BY <2>1, <2>2, <2>3, <1>2
<1>8. NoDup(t)
    <2> SUFFICES ASSUME NEW j \in DOMAIN t, NEW k \in DOMAIN t, j # k
                 PROVE  t[j] # t[k]
        BY DEF NoDup
    <2>1. j \in 1..Len(s) + 1 /\ k \in 1..Len(s) + 1
        BY <1>6, LenProperties
    <2>2. \A m \in 1..Len(s) : s[m] # o
        BY <1>2 DEF Held
    <2>3. \A m, n \in 1..Len(s) : m # n => s[m] # s[n]
        BY <1>1, <1>2 DEF NoDup
    <2>. QED BY <2>1, <2>2, <2>3, <1>7, <1>2
<1>9. t \in OwnedLists
    <2>0. Len(t) = Len(s) + 1
        BY <1>6
    <2>1. Len(t) <= MaxOwned
        BY <2>0, <1>2, ConstAssumption
    <2>. QED BY <1>6, <1>8, <2>1, OwnedListsDef
<1>10. Held(t) = Held(s) \cup {o}
    <2>0. DOMAIN t = 1..Len(s) + 1
        BY <1>6, LenProperties
    <2>1. Held(t) \subseteq Held(s) \cup {o}
        <3> SUFFICES ASSUME NEW j \in 1..Len(s) + 1 PROVE t[j] \in Held(s) \cup {o}
            BY <2>0 DEF Held
        <3>. QED BY <1>2, <1>7 DEF Held
    <2>2. Held(s) \subseteq Held(t)
        <3> SUFFICES ASSUME NEW m \in 1..Len(s) PROVE s[m] \in Held(t)
            BY <1>2 DEF Held
        <3>1. CASE m <= i
            <4>1. t[m] = s[m]
                BY <3>1, <1>2, <1>7
            <4>. QED BY <4>1, <2>0 DEF Held
        <3>2. CASE m > i
            <4>1. m + 1 \in 1..Len(s) + 1 /\ ~(m + 1 <= i) /\ m + 1 # i + 1 /\ (m + 1) - 1 = m
                BY <3>2, <1>2
            <4>2. t[m + 1] = s[m]
                BY <4>1, <1>7
            <4>. QED BY <4>1, <4>2, <2>0 DEF Held
        <3>. QED BY <3>1, <3>2, <1>2
    <2>3. o \in Held(t)
        <3>1. i + 1 \in 1..Len(s) + 1 /\ ~(i + 1 <= i)
            BY <1>2
        <3>2. t[i + 1] = o
            BY <3>1, <1>7
        <3>. QED BY <3>1, <3>2, <2>0 DEF Held
    <2>. QED BY <2>1, <2>2, <2>3
<1>. QED BY <1>9, <1>10, <1>c, Zenon

\* Give's removal of the object at position i keeps the list a list the
\* node can give.
LEMMA RemoveOwned ==
    ASSUME NEW s \in OwnedLists, NEW i \in DOMAIN s
    PROVE  /\ SubSeq(s, 1, i - 1) \o SubSeq(s, i + 1, Len(s)) \in OwnedLists
           /\ Held(SubSeq(s, 1, i - 1) \o SubSeq(s, i + 1, Len(s))) = Held(s) \ {s[i]}
<1> DEFINE A == SubSeq(s, 1, i - 1)
           B == SubSeq(s, i + 1, Len(s))
           t == A \o B
<1>1. s \in Seq(Objects) /\ Len(s) <= MaxOwned /\ NoDup(s)
    BY OwnedListsDef
<1>2. Len(s) \in Nat /\ DOMAIN s = 1..Len(s) /\ i \in 1..Len(s)
    BY <1>1, LenProperties
<1>3. A \in Seq(Objects) /\ Len(A) = i - 1 /\ \A j \in 1..i - 1 : A[j] = s[j]
    <2>1. i - 1 \in 0..Len(s)
        BY <1>2
    <2>. QED BY <1>1, <2>1, PrefixFacts
<1>4. B \in Seq(Objects) /\ Len(B) = Len(s) - i
      /\ \A j \in 1..Len(s) - i : B[j] = s[i + j]
    <2>1. i \in 0..Len(s)
        BY <1>2
    <2>. QED BY <1>1, <2>1, SuffixFacts
<1>c. t = A \o B /\ t = SubSeq(s, 1, i - 1) \o SubSeq(s, i + 1, Len(s))
    OBVIOUS
<1> HIDE DEF A, B, t
<1>5. t \in Seq(Objects) /\ Len(t) = Len(s) - 1
      /\ \A j \in 1..Len(s) - 1 : t[j] = IF j <= i - 1 THEN A[j] ELSE B[j - (i - 1)]
    <2>1. /\ A \o B \in Seq(Objects)
          /\ Len(A \o B) = Len(A) + Len(B)
          /\ \A j \in 1..Len(A) + Len(B) :
                (A \o B)[j] = IF j <= Len(A) THEN A[j] ELSE B[j - Len(A)]
        BY <1>3, <1>4, ConcatProperties, Zenon
    <2>2. /\ t \in Seq(Objects)
          /\ Len(t) = Len(A) + Len(B)
          /\ \A j \in 1..Len(A) + Len(B) :
                t[j] = IF j <= Len(A) THEN A[j] ELSE B[j - Len(A)]
        BY <2>1, <1>c
    <2>3. Len(A) + Len(B) = Len(s) - 1
        BY <1>2, <1>3, <1>4
    <2>. QED BY <2>2, <2>3, <1>3
<1>6. \A j \in 1..Len(s) - 1 : t[j] = IF j < i THEN s[j] ELSE s[j + 1]
    <2> SUFFICES ASSUME NEW j \in 1..Len(s) - 1
                 PROVE  t[j] = IF j < i THEN s[j] ELSE s[j + 1]
        OBVIOUS
    <2>1. CASE j < i
        BY <2>1, <1>2, <1>3, <1>5
    <2>2. CASE j >= i
        <3>1. j - (i - 1) \in 1..Len(s) - i /\ i + (j - (i - 1)) = j + 1
            BY <2>2, <1>2
        <3>0. ~(j <= i - 1) /\ ~(j < i)
            BY <2>2, <1>2
        <3>2. t[j] = B[j - (i - 1)]
            BY <3>0, <1>5
        <3>3. B[j - (i - 1)] = s[j + 1]
            BY <3>1, <1>4
        <3>. QED BY <3>0, <3>2, <3>3
    <2>. QED BY <2>1, <2>2, <1>2
<1>7. NoDup(t)
    <2> SUFFICES ASSUME NEW j \in DOMAIN t, NEW k \in DOMAIN t, j # k
                 PROVE  t[j] # t[k]
        BY DEF NoDup
    <2>1. j \in 1..Len(s) - 1 /\ k \in 1..Len(s) - 1
        BY <1>5, LenProperties
    <2>2. \A m, n \in 1..Len(s) : m # n => s[m] # s[n]
        BY <1>1, <1>2 DEF NoDup
    <2>. QED BY <2>1, <2>2, <1>6, <1>2
<1>8. Len(t) <= MaxOwned
    <2>1. Len(t) = Len(s) - 1 /\ Len(s) <= MaxOwned
        BY <1>1, <1>5
    <2>. QED BY <2>1, <1>2, ConstAssumption
<1>9. t \in OwnedLists
    BY <1>5, <1>7, <1>8, OwnedListsDef
<1>10. Held(t) = Held(s) \ {s[i]}
    <2>0. DOMAIN t = 1..Len(s) - 1
        BY <1>5, LenProperties
    <2>1. \A m, n \in 1..Len(s) : m # n => s[m] # s[n]
        BY <1>1, <1>2 DEF NoDup
    <2>2. Held(t) \subseteq Held(s) \ {s[i]}
        <3> SUFFICES ASSUME NEW j \in 1..Len(s) - 1 PROVE t[j] \in Held(s) \ {s[i]}
            BY <2>0 DEF Held
        <3>1. CASE j < i
            BY <3>1, <1>2, <1>6, <2>1 DEF Held
        <3>2. CASE j >= i
            <4>1. j + 1 \in 1..Len(s) /\ j + 1 # i /\ ~(j < i)
                BY <3>2, <1>2
            <4>2. t[j] = s[j + 1]
                BY <4>1, <1>6
            <4>. QED BY <4>1, <4>2, <2>1, <1>2 DEF Held
        <3>. QED BY <3>1, <3>2, <1>2
    <2>3. Held(s) \ {s[i]} \subseteq Held(t)
        <3> SUFFICES ASSUME NEW m \in 1..Len(s), m # i PROVE s[m] \in Held(t)
            BY <1>2 DEF Held
        <3>1. CASE m < i
            <4>1. m \in 1..Len(s) - 1 /\ t[m] = s[m]
                BY <3>1, <1>2, <1>6
            <4>. QED BY <4>1, <2>0 DEF Held
        <3>2. CASE m > i
            <4>1. m - 1 \in 1..Len(s) - 1 /\ ~(m - 1 < i) /\ (m - 1) + 1 = m
                BY <3>2, <1>2
            <4>2. t[m - 1] = s[m]
                BY <4>1, <1>6
            <4>. QED BY <4>1, <4>2, <2>0 DEF Held
        <3>. QED BY <3>1, <3>2, <1>2
    <2>. QED BY <2>2, <2>3
<1>. QED BY <1>9, <1>10, <1>c

\* A list no longer than a page fits on the first page.
LEMMA ShortListLen ==
    ASSUME NEW n \in Nat, n <= PageSize
    PROVE  (IF n < PageSize THEN n ELSE PageSize) = n
BY ConstAssumption

\* Without a next page the first page is the whole list: a scan that
\* finds no TurnCap on it has seen every object.
LEMMA LastPageIsAll ==
    ASSUME NEW s \in Seq(Objects), ~HasNextPage(s), ~CapOnPage(FirstPage(s))
    PROVE  \A i \in DOMAIN s : kind[s[i]] # "capGame"
<1>1. Len(s) \in Nat /\ DOMAIN s = 1..Len(s)
    BY LenProperties
<1>2. FirstPage(s) = SubSeq(s, 1, Len(s))
    <2>1. Len(s) <= PageSize
        BY <1>1, ConstAssumption DEF HasNextPage
    <2>2. (IF Len(s) < PageSize THEN Len(s) ELSE PageSize) = Len(s)
        BY <1>1, <2>1, ShortListLen
    <2>. QED BY <2>2 DEF FirstPage
<1>3. DOMAIN FirstPage(s) = 1..Len(s) /\ \A i \in 1..Len(s) : FirstPage(s)[i] = s[i]
    BY <1>1, <1>2, SubSeqProperties, ElementOfSeq, LenProperties
<1>. QED BY <1>1, <1>3 DEF CapOnPage

LEMMA InitTypeOK == Init => TypeOK
<1> SUFFICES ASSUME Init PROVE TypeOK
    OBVIOUS
<1>1. <<>> \in OwnedLists
    <2>1. <<>> \in Seq(Objects) /\ Len(<<>>) = 0
        BY EmptySeq
    <2>2. NoDup(<<>>)
        BY DEF NoDup
    <2>3. Len(<<>>) <= MaxOwned
        BY <2>1, ConstAssumption
    <2>. QED BY <2>1, <2>2, <2>3, OwnedListsDef, Zenon
<1>. QED BY <1>1 DEF Init, TypeOK

\* The three ways an iteration of the loop ends, one per branch of Fetch.
LEMMA FetchCases ==
    ASSUME Fetch
    PROVE  /\ pc = "fetching"
           /\ snapshot' = owned /\ UNCHANGED <<owned, kind, connected>>
           /\ CapOnPage(FirstPage(owned)) => pc' = "settled" /\ result' = "cap"
           /\ ~CapOnPage(FirstPage(owned)) /\ ~HasNextPage(owned)
                 => pc' = "settled" /\ result' = "null"
           /\ ~CapOnPage(FirstPage(owned)) /\ HasNextPage(owned)
                 => UNCHANGED <<pc, result>>
BY DEF Fetch

LEMMA NextTypeOK == TypeOK /\ [Next]_vars => TypeOK'
<1> SUFFICES ASSUME TypeOK, [Next]_vars PROVE TypeOK'
    OBVIOUS
<1> USE DEF TypeOK
<1>1. CASE Run
    BY <1>1 DEF Run
<1>2. CASE Fetch
    BY <1>2, FetchCases
<1>3. CASE FetchError
    BY <1>3 DEF FetchError
<1>4. ASSUME NEW o \in Objects, Receive(o) PROVE TypeOK'
    BY <1>4, InsertOwned, OwnedListsDef, LenProperties DEF Receive
<1>5. ASSUME NEW i \in 1..MaxOwned, Give(i) PROVE TypeOK'
    BY <1>5, RemoveOwned DEF Give
<1>6. CASE UNCHANGED vars
    BY <1>6 DEF vars
<1>. QED BY <1>1, <1>2, <1>3, <1>4, <1>5, <1>6 DEF Next

\* The account's objects are always a list of distinct objects the node can
\* return, and the query is in one of queryFn's states.
THEOREM TypeCorrect == Spec => []TypeOK
BY InitTypeOK, NextTypeOK, PTL DEF Spec

\* The objects of the first page are objects of the list.
LEMMA PageOfList ==
    ASSUME NEW s \in Seq(Objects)
    PROVE  \A i \in DOMAIN FirstPage(s) : i \in DOMAIN s /\ FirstPage(s)[i] = s[i]
<1>1. Len(s) \in Nat /\ DOMAIN s = 1..Len(s)
    BY LenProperties
<1> DEFINE n == IF Len(s) < PageSize THEN Len(s) ELSE PageSize
<1>2. n \in 0..Len(s)
    BY <1>1, ConstAssumption
<1>3. DOMAIN FirstPage(s) = 1..n /\ \A i \in 1..n : FirstPage(s)[i] = s[i]
    BY <1>1, <1>2, SubSeqProperties, ElementOfSeq, LenProperties DEF FirstPage
<1>. QED BY <1>1, <1>2, <1>3

\* A connected account's query settles on the TurnCap exactly when the
\* last getOwnedObjects call listed it: a null (line 64's break, taken only
\* without a next page) never hides a TurnCap the account owned, and a cap
\* (line 59) is the TurnCap of `game` itself, however transfers move it in
\* and out of the account before, during or after queryFn runs.  The
\* no-account null of line 38 cannot be taken for it, since the account
\* stays connected or not for the whole run.
THEOREM ResultMatchesListingThm == Spec => []ResultMatchesListing
<1>1. Init => ResultMatchesListing
    BY DEF Init, ResultMatchesListing
<1>2. TypeOK /\ ResultMatchesListing /\ [Next]_vars => ResultMatchesListing'
    <2> SUFFICES ASSUME TypeOK, ResultMatchesListing, [Next]_vars
                 PROVE  ResultMatchesListing'
        OBVIOUS
    <2> USE DEF ResultMatchesListing
    <2>1. CASE Run
        BY <2>1 DEF Run
    <2>2. CASE Fetch
        <3>1. owned \in Seq(Objects)
            BY OwnedListsDef DEF TypeOK
        <3>2. CASE CapOnPage(FirstPage(owned))
            <4>1. \E i \in DOMAIN owned : kind[owned[i]] = "capGame"
                BY <3>1, <3>2, PageOfList DEF CapOnPage
            <4>. QED BY <2>2, <3>2, <4>1, FetchCases
        <3>3. CASE ~CapOnPage(FirstPage(owned)) /\ ~HasNextPage(owned)
            BY <2>2, <3>1, <3>3, LastPageIsAll, FetchCases
        <3>4. CASE ~CapOnPage(FirstPage(owned)) /\ HasNextPage(owned)
            BY <2>2, <3>4, FetchCases
        <3>. QED BY <3>2, <3>3, <3>4
    <2>3. CASE FetchError
        BY <2>3 DEF FetchError
    <2>4. ASSUME NEW o \in Objects, Receive(o) PROVE ResultMatchesListing'
        BY <2>4 DEF Receive
    <2>5. ASSUME NEW i \in 1..MaxOwned, Give(i) PROVE ResultMatchesListing'
        BY <2>5 DEF Give
    <2>6. CASE UNCHANGED vars
        BY <2>6 DEF vars
    <2>. QED BY <2>1, <2>2, <2>3, <2>4, <2>5, <2>6 DEF Next
<1>. QED BY <1>1, <1>2, InitTypeOK, NextTypeOK, PTL DEF Spec

-----------------------------------------------------------------------------
(* The refinement of TurnCapAbstract *)

\* The objects of a list the node can give are objects.
LEMMA HeldObjects ==
    ASSUME NEW s \in OwnedLists
    PROVE  Held(s) \in SUBSET Objects
<1>1. s \in Seq(Objects)
    BY OwnedListsDef
<1>. QED BY <1>1, ElementOfSeq DEF Held

LEMMA RefineInit == Init => TA!AInit
<1> SUFFICES ASSUME Init PROVE TA!AInit
    OBVIOUS
<1>. QED BY HeldObjects DEF Init, TA!AInit

\* Each step of the paged loop is a step of the atomic query or leaves it
\* unchanged: an iteration that finds a next page is invisible, the last
\* iteration is the atomic read, and a transfer adds or removes one object.
LEMMA RefineNext == TypeOK /\ [Next]_vars => [TA!ANext]_TA!avars
<1> SUFFICES ASSUME TypeOK, [Next]_vars PROVE [TA!ANext]_TA!avars
    OBVIOUS
<1>0. owned \in Seq(Objects)
    BY OwnedListsDef DEF TypeOK
<1>1. CASE Run
    <2>1. CASE connected
        <3>1. TA!Start
            BY <1>1, <2>1 DEF Run, TA!Start
        <3>. QED BY <3>1 DEF TA!ANext
    <2>2. CASE ~connected
        <3>1. TA!NoAccount
            BY <1>1, <2>2 DEF Run, TA!NoAccount
        <3>. QED BY <3>1 DEF TA!ANext
    <2>. QED BY <2>1, <2>2
<1>2. CASE Fetch
    <2>1. CASE CapOnPage(FirstPage(owned))
        <3>1. TA!CapHeld
            BY <1>0, <2>1, PageOfList DEF CapOnPage, TA!CapHeld, Held
        <3>2. TA!Answer
            BY <1>2, <2>1, <3>1, FetchCases DEF TA!Answer
        <3>. QED BY <3>2 DEF TA!ANext
    <2>2. CASE ~CapOnPage(FirstPage(owned)) /\ ~HasNextPage(owned)
        <3>1. ~TA!CapHeld
            BY <1>0, <2>2, LastPageIsAll DEF TA!CapHeld, Held
        <3>2. TA!Answer
            BY <1>2, <2>2, <3>1, FetchCases DEF TA!Answer
        <3>. QED BY <3>2 DEF TA!ANext
    <2>3. CASE ~CapOnPage(FirstPage(owned)) /\ HasNextPage(owned)
        BY <1>2, <2>3, FetchCases DEF TA!avars
    <2>. QED BY <2>1, <2>2, <2>3
<1>3. CASE FetchError
    <2>1. TA!Fail
        BY <1>3 DEF FetchError, TA!Fail
    <2>. QED BY <2>1 DEF TA!ANext
<1>4. ASSUME NEW o \in Objects, Receive(o) PROVE [TA!ANext]_TA!avars
    <2>1. PICK i \in 0..Len(owned) :
             owned' = SubSeq(owned, 1, i) \o <<o>> \o SubSeq(owned, i + 1, Len(owned))
        BY <1>4, Zenon DEF Receive
    <2>2. Held(owned') = Held(owned) \cup {o}
        BY <1>4, <2>1, InsertOwned DEF Receive, TypeOK
    <2>3. TA!Gain(o)
        BY <1>4, <2>2 DEF Receive, TA!Gain
    <2>. QED BY <2>3 DEF TA!ANext
<1>5. ASSUME NEW i \in 1..MaxOwned, Give(i) PROVE [TA!ANext]_TA!avars
    <2>1. i \in DOMAIN owned
        BY <1>5 DEF Give
    <2>2. Held(owned') = Held(owned) \ {owned[i]}
        BY <1>5, <2>1, RemoveOwned DEF Give, TypeOK
    <2>3. owned[i] \in Objects /\ owned[i] \in Held(owned)
        BY <1>0, <2>1, ElementOfSeq DEF Held
    <2>4. TA!Lose(owned[i])
        BY <1>5, <2>2, <2>3 DEF Give, TA!Lose
    <2>. QED BY <2>3, <2>4 DEF TA!ANext
<1>6. CASE UNCHANGED vars
    BY <1>6 DEF vars, TA!avars
<1>. QED BY <1>1, <1>2, <1>3, <1>4, <1>5, <1>6 DEF Next

\* For any objects, page size and bound, the paged getOwnedObjects loop of
\* useTurnCapQuery implements TurnCapAbstract (the property Refinement,
\* which TLC checks on the instance): every cap or null it settles with is
\* what one atomic read of the account's objects gives, whatever their
\* order and however transfers interleave with the loop.
THEOREM RefinementThm == Spec => Refinement
BY RefineInit, RefineNext, TypeCorrect, PTL DEF Spec, Refinement, TA!ASpec

=============================================================================
