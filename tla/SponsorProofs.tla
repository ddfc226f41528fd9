---------------------------- MODULE SponsorProofs ----------------------------
(***************************************************************************)
(* Proofs about Sponsor, for every value of the constants: IInv is an      *)
(* inductive invariant of Spec, and TypeOK and NoCrossContamination follow *)
(* from it.                                                                *)
(***************************************************************************)
EXTENDS Sponsor, TLAPS

\* The coins OwnedBy(a) lists are coins the ledger gives to a.
LEMMA OwnedByOwner ==
    ASSUME NEW a, NEW k \in OwnedBy(a)
    PROVE  k \in Coins /\ owner[k] = a
BY DEF OwnedBy

\* The value LoopHead gives is a pc value that waits to poll exactly when
\* the counter is not zero.
LEMMA LoopHeadType ==
    ASSUME NEW r
    PROVE  /\ LoopHead(r) \in {"poll", "build"}
           /\ LoopHead(r) = "poll" <=> r # 0
BY DEF LoopHead

\* The initial states satisfy IInv.
LEMMA InitIInv == Init => IInv
BY ConstAssumption DEF Init, IInv, TypeOK, Pages, Addrs, PC, UsedAddrs

\* Each step of Next keeps IInv, one step per action.
LEMMA NextIInv == IInv /\ [Next]_vars => IInv'
<1> SUFFICES ASSUME IInv, [Next]_vars PROVE IInv'
    OBVIOUS
<1> USE ConstAssumption DEF IInv, TypeOK, Pages, Addrs, PC
<1>0. addr' = addr => UsedAddrs' = UsedAddrs
    BY DEF UsedAddrs
<1>1. ASSUME NEW c \in Calls, NEW s \in Senders, Start(c, s) PROVE IInv'
    <2>1. PICK a \in SponsorAddrs \ UsedAddrs : addr' = [addr EXCEPT ![c] = a]
        BY <1>1, Zenon DEF Start
    <2>2. \A d \in Calls : addr[d] # a
        BY <2>1 DEF UsedAddrs
    <2>4. UsedAddrs' = UsedAddrs \cup {a}
        BY <1>1, <2>1 DEF Start, UsedAddrs
    <2>5. a \notin UsedAddrs
        BY <2>1
    <2>. QED BY <1>1, <2>1, <2>2, <2>4, <2>5 DEF Start
<1>2. ASSUME NEW c \in Calls, FaucetOk(c) PROVE IInv'
    BY <1>2, <1>0, LoopHeadType DEF FaucetOk
<1>3. ASSUME NEW c \in Calls, FaucetError(c) PROVE IInv'
    BY <1>3, <1>0 DEF FaucetError
<1>4. ASSUME NEW a \in SponsorAddrs, Deliver(a) PROVE IInv'
    <2>1. PICK k \in OwnedBy(NoAddr) : owner' = [owner EXCEPT ![k] = a]
        BY <1>4, Zenon DEF Deliver
    <2>2. k \in Coins /\ owner[k] = NoAddr
        BY OwnedByOwner
    <2>3. owner' \in [Coins -> Addrs \cup {NoAddr}]
        BY <2>1, <2>2
    <2>4. ASSUME NEW c \in Calls, pc[c] \in {"build", "returned"},
                 NEW i \in DOMAIN payment[c]
          PROVE  owner'[payment[c][i]] = addr[c]
        <3>1. payment[c][i] \in Coins /\ owner[payment[c][i]] = addr[c]
            BY <2>4
        <3>2. addr[c] # NoAddr
            BY <2>4
        <3>. QED BY <2>1, <2>2, <3>1, <3>2
    <2>. QED BY <1>4, <1>0, <2>3, <2>4 DEF Deliver
<1>5. ASSUME NEW c \in Calls, PollFound(c) PROVE IInv'
    <2>1. PICK k \in OwnedBy(addr[c]) : payment' = [payment EXCEPT ![c] = <<k>>]
        BY <1>5, Zenon DEF PollFound
    <2>2. k \in Coins /\ owner[k] = addr[c]
        BY OwnedByOwner
    <2>. QED BY <1>5, <1>0, <2>1, <2>2 DEF PollFound
<1>6. ASSUME NEW c \in Calls, PollEmpty(c) PROVE IInv'
    BY <1>6, <1>0 DEF PollEmpty
<1>7. ASSUME NEW c \in Calls, PollError(c) PROVE IInv'
    BY <1>7, <1>0 DEF PollError
<1>8. ASSUME NEW c \in Calls, Wake(c) PROVE IInv'
    BY <1>8, <1>0, LoopHeadType DEF Wake
<1>9. ASSUME NEW c \in Calls, BuildOk(c) PROVE IInv'
    BY <1>9, <1>0 DEF BuildOk
<1>10. ASSUME NEW c \in Calls, BuildError(c) PROVE IInv'
    BY <1>10, <1>0 DEF BuildError
<1>11. CASE Finished \/ UNCHANGED vars
    BY <1>11, <1>0 DEF Finished, vars
<1>. QED BY <1>1, <1>2, <1>3, <1>4, <1>5, <1>6, <1>7, <1>8, <1>9, <1>10, <1>11
        DEF Next, Step

\* IInv holds in every state of every behaviour of Spec.
THEOREM IInvariant == Spec => []IInv
BY InitIInv, NextIInv, PTL DEF Spec

\* Type correctness of sponsorTransaction's state and of the ledger.
THEOREM TypeCorrect == Spec => []TypeOK
<1>1. IInv => TypeOK
    BY DEF IInv
<1>. QED BY <1>1, IInvariant, PTL

\* Scenario D for any number of concurrent invocations, senders, addresses
\* and coins: a returned sponsored transaction pays gas only with coins of
\* its own sponsor address, and no gas coin is shared by two of them.
THEOREM NoCrossContaminationThm == Spec => []NoCrossContamination
<1>1. IInv => NoCrossContamination
    <2> SUFFICES ASSUME IInv PROVE NoCrossContamination
        OBVIOUS
    <2>1. ASSUME NEW c \in Calls, pc[c] = "returned",
                 NEW k \in Range(payment[c])
          PROVE  owner[k] = addr[c]
        BY <2>1 DEF IInv, Range
    <2>2. ASSUME NEW c \in Calls, NEW d \in Calls, c # d,
                 pc[c] = "returned", pc[d] = "returned",
                 NEW k \in Range(payment[c]) \cap Range(payment[d])
          PROVE  FALSE
        <3>1. owner[k] = addr[c] /\ owner[k] = addr[d]
            BY <2>1, <2>2
        <3>2. addr[c] # NoAddr
            BY <2>2 DEF IInv
        <3>. QED BY <3>1, <3>2, <2>2, Zenon DEF IInv
    <2>. QED BY <2>1, <2>2 DEF NoCrossContamination
<1>. QED BY <1>1, IInvariant, PTL

-----------------------------------------------------------------------------
(* Refinement of SponsorAbstract (safety part).                            *)

\* The initial states map to initial states of the abstract sponsor.
LEMMA RefineInit == Init => SA!AInit
BY DEF Init, SA!AInit, Status, GasPayment

\* A step that leaves every call's abstract status, the addresses, the
\* senders, the payments of returned calls and the ledger alone is an
\* abstract stutter.
LEMMA StutterStep ==
    ASSUME Status' = Status, addr' = addr, sender' = sender,
           GasPayment' = GasPayment, owner' = owner
    PROVE  UNCHANGED SA!avars
BY DEF SA!avars

\* A call that rejects is an abstract Reject.
LEMMA RejectStep ==
    ASSUME IInv, NEW c \in Calls,
           pc[c] \in {"faucet", "poll", "build"},
           pc' = [pc EXCEPT ![c] = "rejected"],
           UNCHANGED <<sender, addr, payment, owner>>
    PROVE  SA!Reject(c)
BY Zenon DEF SA!Reject, Status, GasPayment, IInv, TypeOK

\* Each step of Next, from a state of IInv, is a step or a stutter of the
\* abstract sponsor.
LEMMA RefineNext == IInv /\ [Next]_vars => [SA!ANext]_SA!avars
<1> SUFFICES ASSUME IInv, [Next]_vars PROVE [SA!ANext]_SA!avars
    OBVIOUS
<1>1. ASSUME NEW c \in Calls, NEW s \in Senders, Start(c, s) PROVE SA!Call(c, s)
    <2>1. PICK a \in SponsorAddrs \ UsedAddrs : addr' = [addr EXCEPT ![c] = a]
        BY <1>1, Zenon DEF Start
    <2>2. UsedAddrs = {addr[d] : d \in Calls} \ {NoAddr}
        BY DEF UsedAddrs
    <2>3. Status' = [Status EXCEPT ![c] = "running"]
        BY <1>1, Zenon DEF Start, Status, IInv, TypeOK
    <2>4. GasPayment' = GasPayment
        BY <1>1 DEF Start, GasPayment, IInv, TypeOK
    <2>. QED BY <1>1, <2>1, <2>2, <2>3, <2>4, Zenon DEF Start, SA!Call, SA!TakenOwners, Status
<1>2. ASSUME NEW c \in Calls, BuildOk(c) PROVE SA!Return(c)
    <2>1. payment[c] \in Pages /\ \A i \in DOMAIN payment[c] : owner[payment[c][i]] = addr[c]
        BY <1>2 DEF BuildOk, IInv, TypeOK
    <2>2. payment[c] \in {<<>>} \cup {<<k>> : k \in {k \in Coins : owner[k] = addr[c]}}
        BY <2>1 DEF Pages
    <2>3. Status' = [Status EXCEPT ![c] = "returned"] /\ Status[c] = "running"
        BY <1>2, Zenon DEF BuildOk, Status, IInv, TypeOK
    <2>4. GasPayment' = [GasPayment EXCEPT ![c] = payment[c]]
        BY <1>2, Zenon DEF BuildOk, GasPayment, IInv, TypeOK
    <2>. QED BY <1>2, <2>2, <2>3, <2>4, Zenon DEF BuildOk, SA!Return
<1>3. ASSUME NEW c \in Calls, FaucetError(c) \/ PollError(c) \/ BuildError(c)
      PROVE  SA!Reject(c)
    BY <1>3, RejectStep DEF FaucetError, PollError, BuildError
<1>4. ASSUME NEW a \in SponsorAddrs, Deliver(a) PROVE SA!Mint(a)
    <2>1. PICK k \in OwnedBy(NoAddr) : owner' = [owner EXCEPT ![k] = a]
        BY <1>4, Zenon DEF Deliver
    <2>2. k \in Coins /\ owner[k] = NoAddr
        BY OwnedByOwner
    <2>. QED BY <1>4, <2>1, <2>2, Zenon DEF Deliver, SA!Mint, Status, GasPayment
<1>5. ASSUME NEW c \in Calls,
             FaucetOk(c) \/ PollFound(c) \/ PollEmpty(c) \/ Wake(c)
      PROVE  UNCHANGED SA!avars
    <2>1. pc'[c] \in {"poll", "build", "sleep"} /\ pc[c] \in {"faucet", "poll", "sleep"}
        BY <1>5, LoopHeadType DEF FaucetOk, PollFound, PollEmpty, Wake, IInv, TypeOK
    <2>2. pc' = [pc EXCEPT ![c] = pc'[c]]
        BY <1>5 DEF FaucetOk, PollFound, PollEmpty, Wake, IInv, TypeOK
    <2>3. UNCHANGED <<sender, addr, owner>>
        BY <1>5 DEF FaucetOk, PollFound, PollEmpty, Wake
    <2>4. \A d \in Calls : d # c => payment'[d] = payment[d]
        BY <1>5 DEF FaucetOk, PollFound, PollEmpty, Wake, IInv, TypeOK
    <2>5. Status' = Status
        BY <2>1, <2>2 DEF Status, IInv, TypeOK
    <2>6. GasPayment' = GasPayment
        <3>1. \A d \in Calls : (IF pc'[d] = "returned" THEN payment'[d] ELSE <<>>)
                              = (IF pc[d] = "returned" THEN payment[d] ELSE <<>>)
            BY <2>1, <2>2, <2>4 DEF IInv, TypeOK
        <3>. QED BY <3>1 DEF GasPayment
    <2>. QED BY <2>3, <2>5, <2>6, StutterStep
<1>6. CASE Finished \/ UNCHANGED vars
    BY <1>6, StutterStep DEF Finished, vars, Status, GasPayment
<1>. QED BY <1>1, <1>2, <1>3, <1>4, <1>5, <1>6 DEF Next, Step, SA!ANext

\* sponsorTransaction implements the abstract sponsor's safety for every
\* value of the constants: fresh gas owners, one settlement per call, and
\* a returned payment that is empty or held by the call's own gas owner.
THEOREM RefinementSafe == Spec => SA!SafeSpec
<1>1. IInv /\ [Next]_vars => [SA!ANext]_SA!avars
    BY RefineNext
<1>. QED BY <1>1, RefineInit, IInvariant, PTL DEF Spec, SA!SafeSpec

=============================================================================
