------------------------------ MODULE Executor ------------------------------
(***************************************************************************)
(* The wallet-signed executors: signAndExecute of                          *)
(* dapps/kiosk/src/hooks/useTransactionExecution.ts and executeTransaction *)
(* of examples/trading/frontend/src/hooks/useTransactionExecution.ts.      *)
(* Each invocation asks the wallet to sign (await), submits the signed     *)
(* bytes to the ledger (await) and turns the response into what its caller *)
(* sees.  The ledger's outcome and what the caller sees are kept side by   *)
(* side, so that properties can relate them.                               *)
(***************************************************************************)
EXTENDS Naturals

CONSTANTS
    Invocations   \* calls of signAndExecute / executeTransaction

VARIABLES
    pc,           \* pc[i]: "idle", "signing", "submitted" or "settled"
    hook,         \* hook[i]: "kiosk" or "trading"
    showEffects,  \* showEffects[i]: the options passed to the ledger ask for effects
    ledger,       \* ledger[i]: "none", "success" or "failure": what the ledger did
    result        \* result[i]: what the caller of i sees

vars == <<pc, hook, showEffects, ledger, result>>

\* What a caller can see.  kiosk: resolves to true ("true"), rejects with
\* Error('Transaction execution failed.') ("execFailed") or with the error
\* of the wallet or the client ("rpcError").  trading: resolves to the
\* ledger's response ("response") or, after a caught error, to undefined.
Results == {"none", "true", "execFailed", "rpcError", "response", "undefined"}

TypeOK ==
    /\ pc \in [Invocations -> {"idle", "signing", "submitted", "settled"}]
    /\ hook \in [Invocations -> {"kiosk", "trading"}]
    /\ showEffects \in [Invocations -> BOOLEAN]
    /\ ledger \in [Invocations -> {"none", "success", "failure"}]
    /\ result \in [Invocations -> Results]

Init ==
    /\ pc = [i \in Invocations |-> "idle"]
    /\ hook = [i \in Invocations |-> "kiosk"]
    /\ showEffects = [i \in Invocations |-> TRUE]
    /\ ledger = [i \in Invocations |-> "none"]
    /\ result = [i \in Invocations |-> "none"]

\* The value a caller sees when a call throws: kiosk lets the rejection
\* through, trading catches it (toast.error) and returns undefined.
Thrown(i) == IF hook[i] = "kiosk" THEN "rpcError" ELSE "undefined"

\* Mutation used to test TypeOK: the status string returned instead of true.
KioskOutcome_ReturnStatus(eff, status) ==
    IF eff THEN status ELSE "execFailed"

\* kiosk lines 33-36: `res.effects?.status?.status === 'success'` decides
\* between `return true` and `throw`.  The effects are in the response only
\* when the options ask for them.
KioskOutcome(eff, status) ==
    IF eff /\ status = "success" THEN "true" ELSE "execFailed"

\* kiosk lines 18-24: signAndExecute({tx, options}); options defaults to
\* {showEffects: true} and a caller may pass its own.
CallKiosk(i) ==
    /\ pc[i] = "idle"
    /\ \E eff \in BOOLEAN : showEffects' = [showEffects EXCEPT ![i] = eff]
    /\ hook' = [hook EXCEPT ![i] = "kiosk"]
    /\ pc' = [pc EXCEPT ![i] = "signing"]
    /\ UNCHANGED <<ledger, result>>

\* trading lines 18-20: executeTransaction(txb); options are fixed to
\* showEffects and showObjectChanges (lines 29-32).
CallTrading(i) ==
    /\ pc[i] = "idle"
    /\ showEffects' = [showEffects EXCEPT ![i] = TRUE]
    /\ hook' = [hook EXCEPT ![i] = "trading"]
    /\ pc' = [pc EXCEPT ![i] = "signing"]
    /\ UNCHANGED <<ledger, result>>

\* kiosk line 25, trading lines 22-24: the wallet signs.
SignOk(i) ==
    /\ pc[i] = "signing"
    /\ pc' = [pc EXCEPT ![i] = "submitted"]
    /\ UNCHANGED <<hook, showEffects, ledger, result>>

\* The wallet rejects (the user declines, or it fails).
SignError(i) ==
    /\ pc[i] = "signing"
    /\ result' = [result EXCEPT ![i] = Thrown(i)]
    /\ pc' = [pc EXCEPT ![i] = "settled"]
    /\ UNCHANGED <<hook, showEffects, ledger>>

\* kiosk lines 27-36, trading lines 26-36: the ledger executes the
\* transaction with some status and the response comes back; trading
\* shows toast.success and returns the response whatever the status.
Execute(i) ==
    /\ pc[i] = "submitted"
    /\ \E status \in {"success", "failure"} :
          /\ ledger' = [ledger EXCEPT ![i] = status]
          /\ result' = [result EXCEPT ![i] =
                          IF hook[i] = "kiosk"
                          THEN KioskOutcome(showEffects[i], status)
                          ELSE "response"]
    /\ pc' = [pc EXCEPT ![i] = "settled"]
    /\ UNCHANGED <<hook, showEffects>>

\* executeTransactionBlock rejects: the request failed, or the ledger
\* executed it and the response was lost.
ExecuteError(i) ==
    /\ pc[i] = "submitted"
    /\ \E status \in {"none", "success", "failure"} :
          ledger' = [ledger EXCEPT ![i] = status]
    /\ result' = [result EXCEPT ![i] = Thrown(i)]
    /\ pc' = [pc EXCEPT ![i] = "settled"]
    /\ UNCHANGED <<hook, showEffects>>

\* Every call has settled.
Finished ==
    /\ \A i \in Invocations : pc[i] = "settled"
    /\ UNCHANGED vars

Next ==
    \/ \E i \in Invocations :
          \/ CallKiosk(i) \/ CallTrading(i)
          \/ SignOk(i) \/ SignError(i)
          \/ Execute(i) \/ ExecuteError(i)
    \/ Finished

Spec == Init /\ [][Next]_vars

-----------------------------------------------------------------------------
(* Properties *)

\* The spec (7, 8): ExecutionFailed is raised only when the ledger reports a
\* non-success status; kiosk's 'Transaction execution failed.' must not be
\* thrown for a transaction the ledger executed successfully.
ExecFailedMeansLedgerFailure ==
    \A i \in Invocations : result[i] = "execFailed" => ledger[i] = "failure"

\* The spec (4.4, scenario C): an executor never hands its caller a truthy
\* value for a transaction the ledger executed with status failure.
NoTruthyFailure ==
    \A i \in Invocations :
       result[i] \in {"true", "response"} => ledger[i] # "failure"

=============================================================================
