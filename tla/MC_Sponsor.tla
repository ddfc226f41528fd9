----------------------------- MODULE MC_Sponsor -----------------------------
(* Small instances of Sponsor for TLC: two concurrent invocations, one      *)
(* sender whose own coins sit on the ledger, two fresh sponsor addresses.   *)
EXTENDS Sponsor, TLC

CONSTANTS c1, c2, s1, a1, a2, k1, k2, k3

MC_Calls == {c1, c2}
MC_Senders == {s1}
MC_SponsorAddrs == {a1, a2}
MC_Coins == {k1, k2, k3}

\* Calls, sponsor addresses and coins are interchangeable in Sponsor.
MC_Symmetry == Permutations(MC_Calls) \cup Permutations(MC_SponsorAddrs)
                 \cup Permutations(MC_Coins)
=============================================================================
