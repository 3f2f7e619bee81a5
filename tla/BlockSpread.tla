---------------------------- MODULE BlockSpread ----------------------------
(***************************************************************************)
(* What the nodes of module Network promise about blocks, whatever the     *)
(* messages, handlers, pools and crashes between them do: a block is made  *)
(* on the tip of a node that has its ancestors or not, it is copied from   *)
(* node to node unchanged, nobody drops one, and a node's tip is the first *)
(* of its highest blocks that it got.                                      *)
(***************************************************************************)
EXTENDS Integers

CONSTANTS Nodes, MinedHashes, Nil

VARIABLES blocks, stored, tip

vars == <<blocks, stored, tip>>

Height(h) == blocks[h].Height

\* Any chains that are whole, each in the hands of the node that follows it.
Init ==
  /\ stored \in [Nodes -> SUBSET DOMAIN blocks]
  /\ tip \in [Nodes -> DOMAIN blocks]
  /\ \A h \in DOMAIN blocks :
       /\ Height(h) \in Nat
       /\ \E n \in Nodes : h \in stored[n]
  /\ \A n \in Nodes :
       /\ tip[n] \in stored[n]
       /\ \A h \in stored[n] : /\ Height(h) <= Height(tip[n])
                               /\ blocks[h].PrevHash \in stored[n] \cup {Nil}

\* n makes a new block on its tip.
Mine(n, hash) ==
  /\ hash \in MinedHashes \ DOMAIN blocks
  /\ DOMAIN blocks' = DOMAIN blocks \cup {hash}
  /\ \A h \in DOMAIN blocks : blocks'[h] = blocks[h]
  /\ blocks'[hash].PrevHash = tip[n]
  /\ blocks'[hash].Height = Height(tip[n]) + 1
  /\ stored' = [stored EXCEPT ![n] = @ \cup {hash}]
  /\ tip' = [tip EXCEPT ![n] = hash]

\* n gets a copy of a block that some node has.
Learn(n, hash) ==
  /\ hash \notin stored[n]
  /\ \E m \in Nodes : hash \in stored[m]
  /\ stored' = [stored EXCEPT ![n] = @ \cup {hash}]
  /\ tip' = IF Height(hash) > Height(tip[n]) THEN [tip EXCEPT ![n] = hash] ELSE tip
  /\ UNCHANGED blocks

Next ==
  \E n \in Nodes :
    \/ \E hash \in MinedHashes : Mine(n, hash)
    \/ \E hash \in DOMAIN blocks : Learn(n, hash)

Spec == Init /\ [][Next]_vars
----------------------------------------------------------------------------
\* Every tip is stored and nobody stores a higher block.
TipIsHighest ==
  \A n \in Nodes :
    /\ tip[n] \in stored[n]
    /\ \A h \in stored[n] : Height(h) <= Height(tip[n])

\* Every block is held together with its parent by some node, so that a node
\* that misses a parent can still get it from somebody.
ParentsAreSomewhere ==
  \A h \in DOMAIN blocks :
    \E n \in Nodes :
      h \in stored[n] /\ blocks[h].PrevHash \in stored[n] \cup {Nil}

\* What is inductive of it.
Inv ==
  /\ stored \in [Nodes -> SUBSET DOMAIN blocks]
  /\ tip \in [Nodes -> DOMAIN blocks]
  /\ \A h \in DOMAIN blocks : Height(h) \in Nat
  /\ TipIsHighest
  /\ ParentsAreSomewhere
=============================================================================
