------------------------------ MODULE MCLedger ------------------------------
(***************************************************************************)
(* Instances of Ledger for TLC.  A peer mined two blocks on genesis: p1    *)
(* moves the genesis coins from origin to bob, p2 pays bob a coinbase.     *)
(***************************************************************************)
EXTENDS Ledger

CONSTANTS p1, p2, origin, bob

PeerPayment ==
  [Inputs  |-> << [ID |-> HashID(CoinbaseTX(origin, "GENESIS")),
                   Out |-> 0, PubKey |-> origin] >>,
   Outputs |-> << [Value |-> CoinbaseValue, PubKeyHash |-> bob] >>,
   Verifies |-> TRUE]

MCPeerBlocks ==
  (p1 :> [PrevHash |-> GenesisHash, Height |-> 1,
          Transactions |-> << CoinbaseTX(origin, p1), PeerPayment >>]) @@
  (p2 :> [PrevHash |-> p1, Height |-> 2,
          Transactions |-> << CoinbaseTX(bob, p2) >>])

\* Nothing, less than nothing, all that origin has, more than that.
MCAmounts == (-1)..21

Mined == Permutations(MinedHashes)
=============================================================================
