--------------------------- MODULE SponsorAbstract ---------------------------
(***************************************************************************)
(* What one call of sponsorTransaction promises its caller, with the       *)
(* polling, the faucet and the awaits abstracted away.  A call takes a gas *)
(* owner that no other call has, and settles once: it rejects, or it       *)
(* returns a transaction whose gas payment is empty or one coin that its   *)
(* own gas owner holds on the ledger.  The ledger only ever mints a coin   *)
(* to an address.  (The empty payment is what the code allows; the spec    *)
(* forbids it, see NeverEmptyPayment in Sponsor.)                          *)
(***************************************************************************)
EXTENDS Naturals, Sequences

CONSTANTS Calls, Senders, SponsorAddrs, Coins, NoAddr

VARIABLES
    status,      \* status[c]: "idle", "running", "returned" or "rejected"
    sender,      \* sender[c]: the transaction's sender
    gasOwner,    \* gasOwner[c]: the sponsor address of c
    gasPayment,  \* gasPayment[c]: the gas payment of the returned transaction
    owner        \* owner[k]: the ledger's owner of coin k

avars == <<status, sender, gasOwner, gasPayment, owner>>

TakenOwners == {gasOwner[c] : c \in Calls} \ {NoAddr}

AInit ==
    /\ status = [c \in Calls |-> "idle"]
    /\ sender = [c \in Calls |-> NoAddr]
    /\ gasOwner = [c \in Calls |-> NoAddr]
    /\ gasPayment = [c \in Calls |-> <<>>]
    /\ owner \in [Coins -> Senders \cup {NoAddr}]

\* A call starts with a sponsor address of its own.
Call(c, s) ==
    /\ status[c] = "idle"
    /\ \E a \in SponsorAddrs \ TakenOwners : gasOwner' = [gasOwner EXCEPT ![c] = a]
    /\ sender' = [sender EXCEPT ![c] = s]
    /\ status' = [status EXCEPT ![c] = "running"]
    /\ UNCHANGED <<gasPayment, owner>>

\* The call returns a transaction paid by nothing or by a coin its gas
\* owner holds.
Return(c) ==
    /\ status[c] = "running"
    /\ \E p \in {<<>>} \cup {<<k>> : k \in {k \in Coins : owner[k] = gasOwner[c]}} :
          gasPayment' = [gasPayment EXCEPT ![c] = p]
    /\ status' = [status EXCEPT ![c] = "returned"]
    /\ UNCHANGED <<sender, gasOwner, owner>>

\* The call rejects.
Reject(c) ==
    /\ status[c] = "running"
    /\ status' = [status EXCEPT ![c] = "rejected"]
    /\ UNCHANGED <<sender, gasOwner, gasPayment, owner>>

\* A coin not yet on the ledger is minted to a sponsor address.
Mint(a) ==
    /\ \E k \in Coins : owner[k] = NoAddr /\ owner' = [owner EXCEPT ![k] = a]
    /\ UNCHANGED <<status, sender, gasOwner, gasPayment>>

ANext ==
    \/ \E c \in Calls, s \in Senders : Call(c, s)
    \/ \E c \in Calls : Return(c) \/ Reject(c)
    \/ \E a \in SponsorAddrs : Mint(a)

SafeSpec == AInit /\ [][ANext]_avars

\* Every call that has started settles.
ASpec == SafeSpec /\ \A c \in Calls : WF_avars(Return(c) \/ Reject(c))

=============================================================================
