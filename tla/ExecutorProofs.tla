---------------------------- MODULE ExecutorProofs ----------------------------
(***************************************************************************)
(* For any number of invocations of either hook: the type invariant.      *)
(***************************************************************************)
EXTENDS Executor, TLAPS

\* What a caller sees when a call throws is a value the hooks can produce.
LEMMA ThrownType ==
    ASSUME NEW i \in Invocations
    PROVE  Thrown(i) \in Results
BY DEF Thrown, Results

\* The outcome of kiosk's status test is a value the hooks can produce.
LEMMA KioskOutcomeType ==
    ASSUME NEW eff \in BOOLEAN, NEW status \in {"success", "failure"}
    PROVE  KioskOutcome(eff, status) \in Results
BY DEF KioskOutcome, Results

LEMMA InitTypeOK == Init => TypeOK
BY DEF Init, TypeOK, Results

LEMMA NextTypeOK == TypeOK /\ [Next]_vars => TypeOK'
<1> SUFFICES ASSUME TypeOK, [Next]_vars PROVE TypeOK'
    OBVIOUS
<1> USE DEF TypeOK
<1>1. ASSUME NEW i \in Invocations, CallKiosk(i) PROVE TypeOK'
    BY <1>1 DEF CallKiosk
<1>2. ASSUME NEW i \in Invocations, CallTrading(i) PROVE TypeOK'
    BY <1>2 DEF CallTrading
<1>3. ASSUME NEW i \in Invocations, SignOk(i) PROVE TypeOK'
    BY <1>3 DEF SignOk
<1>4. ASSUME NEW i \in Invocations, SignError(i) PROVE TypeOK'
    BY <1>4, ThrownType DEF SignError
<1>5. ASSUME NEW i \in Invocations, Execute(i) PROVE TypeOK'
    BY <1>5, KioskOutcomeType DEF Execute, Results
<1>6. ASSUME NEW i \in Invocations, ExecuteError(i) PROVE TypeOK'
    BY <1>6, ThrownType DEF ExecuteError
<1>7. CASE Finished \/ UNCHANGED vars
    BY <1>7 DEF Finished, vars
<1>. QED BY <1>1, <1>2, <1>3, <1>4, <1>5, <1>6, <1>7 DEF Next

\* Every call is in one of the states of the code and its caller sees one
\* of the values the two hooks can produce.
THEOREM TypeCorrect == Spec => []TypeOK
BY InitTypeOK, NextTypeOK, PTL DEF Spec

=============================================================================
