----------------------------- MODULE MCNetwork -----------------------------
(***************************************************************************)
(* An instance of Network for TLC: NODE_ZERO and a miner, with five pasts  *)
(* that leave different things to be done.                                 *)
(***************************************************************************)
EXTENDS Network

CONSTANTS zero, miner, t1, t2, t3, t4, t5, g, b1, b2

Genesis == g :> [PrevHash |-> Nil, Height |-> 0, Miner |-> Nil, Txs |-> {GenesisTx}]
TwoBlocks ==
  Genesis @@ (b1 :> [PrevHash |-> g, Height |-> 1, Miner |-> miner, Txs |-> {}])
ThreeBlocks ==
  TwoBlocks @@ (b2 :> [PrevHash |-> b1, Height |-> 2, Miner |-> miner, Txs |-> {}])

\* t3 spends an output of t1, the others one of genesis (it may have been split).
TwoGenerations == [t \in Txs |-> IF t = t3 THEN t1 ELSE GenesisTx]
PostedToZero == [t \in Txs |-> zero]
FirstTwice == [t \in Txs |-> IF t = t1 THEN 2 ELSE 1]

\* The payments that are still to be posted, t1 once or twice.
Left(txs, again) ==
  [t \in Txs |-> IF t \notin txs THEN FirstTwice[t]
                 ELSE IF t = t1 /\ ~again THEN 1 ELSE 0]

AtGenesis(done) ==
  [blocks |-> Genesis, stored |-> [n \in Nodes |-> {g}],
   tip |-> [n \in Nodes |-> g], posts |-> done]
MinerAhead(ahead, last, done) ==
  [blocks |-> ahead,
   stored |-> [n \in Nodes |-> IF n = miner THEN DOMAIN ahead ELSE {g}],
   tip |-> [n \in Nodes |-> IF n = miner THEN last ELSE g], posts |-> done]

\* Everyone has genesis, and good payments are to come (a second generation, or
\* one of them twice) or bad ones; or the miner has a block more, and may mine
\* another while NODE_ZERO fetches that one; or it has two more, which NODE_ZERO
\* fetches one after the other.
Pasts == { AtGenesis(Left({t1, t2, t3}, FALSE)), AtGenesis(Left({t1, t2}, TRUE)),
           AtGenesis(Left({t1, t4, t5}, FALSE)),
           MinerAhead(TwoBlocks, b1, Left({t1, t2}, FALSE)),
           MinerAhead(ThreeBlocks, b2, Left({}, FALSE)) }

ZeroTwice == [n \in Nodes |-> IF n = zero THEN 2 ELSE 1]
=============================================================================
