---------------------------- MODULE MCWalletFile ----------------------------
(***************************************************************************)
(* Instances of WalletFile for TLC: two nodes of one machine.              *)
(***************************************************************************)
EXTENDS WalletFile

CONSTANTS r1, r2, r3, r4, p1, p2

\* r1 and r3 are served by the one node, r2 and r4 by the other.
TwoNodes == [r \in Goroutines |-> IF r \in {r1, r3} THEN p1 ELSE p2]
=============================================================================
