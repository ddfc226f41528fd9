------------------------------- MODULE Sponsor -------------------------------
(***************************************************************************)
(* sponsorTransaction (dapps/sponsored-transactions/src/utils/             *)
(* sponsorTransaction.ts): several invocations run concurrently against    *)
(* one shared ledger client and one faucet.  Each invocation makes a fresh *)
(* keypair, asks the faucet to fund its address, polls getCoins (page of   *)
(* one coin) at most MaxRetries times with a sleep between polls, then     *)
(* builds the transaction with the sender, itself as gas owner and the     *)
(* polled coins as gas payment, and signs it.                              *)
(*                                                                         *)
(* An invocation is a step machine whose steps end at the awaits of the    *)
(* code (faucet request, getCoins, sleep, build).  The ledger is the       *)
(* owner of every coin object; the faucet turns a funding request into a   *)
(* coin that becomes visible to getCoins at some later time, or never.     *)
(***************************************************************************)
EXTENDS Naturals, Sequences

CONSTANTS
    Calls,         \* invocations of sponsorTransaction
    Senders,       \* addresses of the logical senders
    SponsorAddrs,  \* addresses a fresh Ed25519Keypair can derive
    Coins,         \* coin object ids
    MaxRetries,    \* the initial value of `retires` (50 in the code)
    NoAddr         \* owner of a coin the faucet has not minted yet

ASSUME ConstAssumption ==
    /\ MaxRetries \in Nat
    /\ Senders \cap SponsorAddrs = {}
    /\ NoAddr \notin Senders \cup SponsorAddrs

Addrs == Senders \cup SponsorAddrs

VARIABLES
    pc,       \* pc[c]: where invocation c is suspended
    sender,   \* sender[c]: the `sender` argument of c
    addr,     \* addr[c]: the address of c's ephemeral keypair
    retires,  \* retires[c]: the code's retry counter
    payment,  \* payment[c]: the code's `payment` array
    owner,    \* owner[k]: the address owning coin k on the ledger
    funded    \* addresses the faucet has credited, coin not yet visible

vars == <<pc, sender, addr, retires, payment, owner, funded>>

PC == {"idle", "faucet", "poll", "sleep", "build", "returned", "rejected"}

\* The result of getCoins({owner: a, limit: 1}) can hold at most one coin.
Pages == {<<>>} \cup {<<k>> : k \in Coins}

\* Coins the ledger lists for address a.
OwnedBy(a) == {k \in Coins : owner[k] = a}

\* Addresses already taken by the keypair of some invocation.
UsedAddrs == {addr[c] : c \in Calls} \ {NoAddr}

\* The `while (retires !== 0)` test at the head of the polling loop.
LoopHead(r) == IF r # 0 THEN "poll" ELSE "build"

TypeOK ==
    /\ pc \in [Calls -> PC]
    /\ sender \in [Calls -> Senders \cup {NoAddr}]
    /\ addr \in [Calls -> SponsorAddrs \cup {NoAddr}]
    /\ retires \in [Calls -> 0..MaxRetries]
    /\ payment \in [Calls -> Pages]
    /\ owner \in [Coins -> Addrs \cup {NoAddr}]
    /\ funded \subseteq SponsorAddrs

\* Coins already exist only at the senders' addresses.
Init ==
    /\ pc = [c \in Calls |-> "idle"]
    /\ sender = [c \in Calls |-> NoAddr]
    /\ addr = [c \in Calls |-> NoAddr]
    /\ retires = [c \in Calls |-> MaxRetries]
    /\ payment = [c \in Calls |-> <<>>]
    /\ owner \in [Coins -> Senders \cup {NoAddr}]
    /\ funded = {}

\* Mutations used to test the properties (not part of the model).
\* Start_SharedKeypair: one keypair kept across calls (no fresh address).
Start_SharedKeypair(c, s) ==
    /\ pc[c] = "idle"
    /\ \E a \in SponsorAddrs : addr' = [addr EXCEPT ![c] = a]
    /\ sender' = [sender EXCEPT ![c] = s]
    /\ pc' = [pc EXCEPT ![c] = "faucet"]
    /\ UNCHANGED <<retires, payment, owner, funded>>

\* Wake_NoDecrement: `retires -= 1` dropped.
Wake_NoDecrement(c) ==
    /\ pc[c] = "sleep"
    /\ pc' = [pc EXCEPT ![c] = LoopHead(retires[c])]
    /\ UNCHANGED <<sender, addr, retires, payment, owner, funded>>

\* Wake_SkipLoopTest: the loop re-entered without the `retires !== 0` test.
Wake_SkipLoopTest(c) ==
    /\ pc[c] = "sleep"
    /\ retires' = [retires EXCEPT ![c] = retires[c] - 1]
    /\ pc' = [pc EXCEPT ![c] = "poll"]
    /\ UNCHANGED <<sender, addr, payment, owner, funded>>

\* Lines 12-18: the call starts, `new Ed25519Keypair()` yields an address
\* no other keypair has, and the faucet request is sent.
Start(c, s) ==
    /\ pc[c] = "idle"
    /\ \E a \in SponsorAddrs \ UsedAddrs : addr' = [addr EXCEPT ![c] = a]
    /\ sender' = [sender EXCEPT ![c] = s]
    /\ pc' = [pc EXCEPT ![c] = "faucet"]
    /\ UNCHANGED <<retires, payment, owner, funded>>

\* Line 18 resolves; lines 20-22 set payment = [], retires = 50 and test
\* the loop.  The faucet has credited the address.
FaucetOk(c) ==
    /\ pc[c] = "faucet"
    /\ funded' = funded \cup {addr[c]}
    /\ payment' = [payment EXCEPT ![c] = <<>>]
    /\ retires' = [retires EXCEPT ![c] = MaxRetries]
    /\ pc' = [pc EXCEPT ![c] = LoopHead(MaxRetries)]
    /\ UNCHANGED <<sender, addr, owner>>

\* Line 18 rejects (no try/catch: the call rejects).  The request may
\* still have been served when only its response was lost.
FaucetError(c) ==
    /\ pc[c] = "faucet"
    /\ \E served \in BOOLEAN :
          funded' = IF served THEN funded \cup {addr[c]} ELSE funded
    /\ pc' = [pc EXCEPT ![c] = "rejected"]
    /\ UNCHANGED <<sender, addr, retires, payment, owner>>

\* The faucet's transfer to a credited address becomes visible on the
\* ledger (faucet and fullnode, not this code).
Deliver(a) ==
    /\ a \in funded
    /\ \E k \in OwnedBy(NoAddr) : owner' = [owner EXCEPT ![k] = a]
    /\ funded' = funded \ {a}
    /\ UNCHANGED <<pc, sender, addr, retires, payment>>

\* Lines 23-31: getCoins returns a coin of the address; payment is set
\* to it and the loop is left.
PollFound(c) ==
    /\ pc[c] = "poll"
    /\ \E k \in OwnedBy(addr[c]) :
          payment' = [payment EXCEPT ![c] = <<k>>]
    /\ pc' = [pc EXCEPT ![c] = "build"]
    /\ UNCHANGED <<sender, addr, retires, owner, funded>>

\* Lines 23-24, 32: getCoins returns an empty page; the call sleeps.
PollEmpty(c) ==
    /\ pc[c] = "poll"
    /\ OwnedBy(addr[c]) = {}
    /\ pc' = [pc EXCEPT ![c] = "sleep"]
    /\ UNCHANGED <<sender, addr, retires, payment, owner, funded>>

\* Line 23 rejects: the call rejects.
PollError(c) ==
    /\ pc[c] = "poll"
    /\ pc' = [pc EXCEPT ![c] = "rejected"]
    /\ UNCHANGED <<sender, addr, retires, payment, owner, funded>>

\* Lines 32-33 and the loop test of line 22: the sleep ends, the counter
\* is decremented and the loop runs again or is left.
Wake(c) ==
    /\ pc[c] = "sleep"
    /\ retires' = [retires EXCEPT ![c] = retires[c] - 1]
    /\ pc' = [pc EXCEPT ![c] = LoopHead(retires[c] - 1)]
    /\ UNCHANGED <<sender, addr, payment, owner, funded>>

\* Lines 36-41: the transaction gets sender, gas owner and the payment as
\* it stands, even empty; build (reference gas price and dry run through
\* the client) resolves and the keypair signs the bytes.
BuildOk(c) ==
    /\ pc[c] = "build"
    /\ pc' = [pc EXCEPT ![c] = "returned"]
    /\ UNCHANGED <<sender, addr, retires, payment, owner, funded>>

\* Line 41: tx.build rejects and so does the call.
BuildError(c) ==
    /\ pc[c] = "build"
    /\ pc' = [pc EXCEPT ![c] = "rejected"]
    /\ UNCHANGED <<sender, addr, retires, payment, owner, funded>>

\* Every step of invocation c after it has been called.
Step(c) ==
    \/ FaucetOk(c) \/ FaucetError(c)
    \/ PollFound(c) \/ PollEmpty(c) \/ PollError(c)
    \/ Wake(c)
    \/ BuildOk(c) \/ BuildError(c)

\* All invocations have settled; nothing is left to do.
Finished ==
    /\ \A c \in Calls : pc[c] \in {"returned", "rejected"}
    /\ UNCHANGED vars

Next ==
    \/ \E c \in Calls, s \in Senders : Start(c, s)
    \/ \E c \in Calls : Step(c)
    \/ \E a \in SponsorAddrs : Deliver(a)
    \/ Finished

\* Each awaited promise settles (the network and the timer answer); the
\* faucet delivery and the callers' calls get no fairness.
Fairness == \A c \in Calls : WF_vars(Step(c))

Spec == Init /\ [][Next]_vars /\ Fairness

-----------------------------------------------------------------------------
(* Properties *)

Range(f) == {f[i] : i \in DOMAIN f}

\* Scenario D of the spec: a signed sponsored transaction pays gas only
\* with coins its own ephemeral sponsor address owns, and no two signed
\* transactions of concurrent invocations use the same gas coin.
NoCrossContamination ==
    /\ \A c \in Calls :
          pc[c] = "returned" => \A k \in Range(payment[c]) : owner[k] = addr[c]
    /\ \A c, d \in Calls :
          (c # d /\ pc[c] = "returned" /\ pc[d] = "returned")
             => Range(payment[c]) \cap Range(payment[d]) = {}

\* The spec (4.1, 4.3, scenario B): sponsorTransaction never returns a
\* transaction with an empty gas payment; an exhausted poll budget must
\* surface as FundingTimeout.
NeverEmptyPayment ==
    \A c \in Calls : pc[c] = "returned" => payment[c] # <<>>

\* The retry budget bounds each invocation: once called, it settles
\* (returns or rejects) even if the faucet's coin never shows up.
Termination ==
    \A c \in Calls : pc[c] # "idle" ~> pc[c] \in {"returned", "rejected"}

-----------------------------------------------------------------------------
(* Refinement: sponsorTransaction implements SponsorAbstract.  A call is     *)
(* running from its keypair to its last await; its gas owner is its         *)
(* keypair's address; the transaction it returns carries its payment.       *)
Status == [c \in Calls |->
             IF pc[c] \in {"idle", "returned", "rejected"} THEN pc[c] ELSE "running"]

GasPayment == [c \in Calls |-> IF pc[c] = "returned" THEN payment[c] ELSE <<>>]

SA == INSTANCE SponsorAbstract
        WITH status <- Status, gasOwner <- addr, gasPayment <- GasPayment

\* Every behaviour of the invocations, the faucet and the ledger is one the
\* abstract sponsor allows, fairness included: each call gets a gas owner
\* of its own, returns at most once with a payment its gas owner holds (or
\* none), and settles.
Refinement == SA!ASpec

-----------------------------------------------------------------------------
(* The inductive invariant behind NoCrossContamination and TypeOK.  Every   *)
(* started call owns an address no other call has; a call before its poll  *)
(* succeeds holds an empty payment and a non-zero counter while it polls or *)
(* sleeps; a call that built or returned pays with coins its address owns,  *)
(* and the ledger never takes a coin from a sponsor address.              *)
IInv ==
    /\ TypeOK
    /\ \A c \in Calls : (pc[c] = "idle") = (addr[c] = NoAddr)
    /\ \A c, d \in Calls : c # d /\ addr[c] # NoAddr => addr[c] # addr[d]
    /\ \A c \in Calls : pc[c] \in {"idle", "faucet", "poll", "sleep"} => payment[c] = <<>>
    /\ \A c \in Calls : pc[c] \in {"poll", "sleep"} => retires[c] # 0
    /\ \A c \in Calls : pc[c] \in {"build", "returned"} =>
          \A i \in DOMAIN payment[c] : owner[payment[c][i]] = addr[c]

=============================================================================
