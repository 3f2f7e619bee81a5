------------------------------ MODULE Signing -------------------------------
(***************************************************************************)
(* Payments signed by one process and verified by another, or by itself.   *)
(*                                                                         *)
(* Sign and Verify each hash the gob encoding of a trimmed copy of the     *)
(* payment.  A gob stream names its types by numbers that the process      *)
(* gives out when it first encodes a value of each, so that the bytes, and *)
(* the hash, depend on what the process encoded before.  The signature and *)
(* the public key are pairs of numbers in a byte string each (Halves).     *)
(* Everything else that is hashed is the same on both sides and left out.  *)
(***************************************************************************)
EXTENDS Halves, FiniteSets

CONSTANTS
  Processes,  \* the nodes
  Kinds,      \* what is encoded: "Transaction", "TxOutputs", "Block" and so on
  TypesOf,    \* kind -> its types, in the order gob numbers them
  Pairs,      \* the pairs of numbers a key or a signature may be
  NoAccount,  \* the wallet is empty
  Stopped,    \* the process does not run
  MaxStarts,  \* bounds the starts of processes
  MaxSigned   \* bounds the payments

Types == UNION { { TypesOf[k][i] : i \in DOMAIN TypesOf[k] } : k \in Kinds }

ASSUME SigningAssumption ==
  /\ {"Transaction", "TxOutputs", "Block", "Wallet"} \subseteq Kinds
  /\ IsFiniteSet(Types)
  /\ \A k \in Kinds : TypesOf[k] \in Seq(Types)
  /\ \A pair \in Pairs : /\ pair \in Seq(Seq(Nat)) /\ Len(pair) = 2
                         /\ IsNumber(pair[1]) /\ IsNumber(pair[2])
  /\ Stopped \notin [life : Nat, created : BOOLEAN, process : Processes]
  /\ MaxStarts \in Nat /\ MaxSigned \in Nat

VARIABLES
  store,    \* process -> there is a store on its disk
  run,      \* process -> Stopped, or which start this is and whether it
            \* created the store
  number,   \* process -> type -> its number, 0 before it has one
  account,  \* the key pair in the wallet file
  starts,   \* history: how often any process was started
  signed,   \* history: the payments signed, each by the run that signed it
  checked   \* history: the verifications, each with the run that did it

vars == <<store, run, number, account, starts, signed, checked>>

Numbering == [Types -> Nat]
NoNumbers == [t \in Types |-> 0]

Init ==
  /\ store = [p \in Processes |-> FALSE]
  /\ run = [p \in Processes |-> Stopped]
  /\ number = [p \in Processes |-> NoNumbers]
  /\ account = NoAccount
  /\ starts = 0 /\ signed = {} /\ checked = {}
----------------------------------------------------------------------------
Numbered(n) == { t \in Types : n[t] # 0 }

\* Encode: the types of the value that have no number yet get the next ones.
Encode(n, k) ==
  LET types == TypesOf[k]
  IN  [ t \in Types |->
          IF n[t] # 0 \/ \A i \in DOMAIN types : types[i] # t
          THEN n[t]
          ELSE Cardinality(Numbered(n))
               + Cardinality({ u \in Types \ Numbered(n) :
                   \E i, j \in DOMAIN types :
                     i <= j /\ types[i] = u /\ types[j] = t }) ]

TransactionTypes ==
  { TypesOf["Transaction"][i] : i \in DOMAIN TypesOf["Transaction"] }

\* Mutant: a block is hashed in the payment's place.
SerializeBlock(n) ==
  [ t \in { TypesOf["Block"][i] : i \in DOMAIN TypesOf["Block"] } |->
      Encode(n, "Block")[t] ]

\* What the numbering contributes to the bytes of a Transaction.
Serialize(n) == [ t \in TransactionTypes |-> Encode(n, "Transaction")[t] ]

\* Mutant: genesis is kept ready-made, and not hashed or encoded.
AfterCopy(n) == Encode(n, "TxOutputs")

\* LoadBlockchain on a new store: CoinbaseTX hashes, genesis is stored, the
\* index is built.
AfterCreate(n) ==
  Encode(Encode(Encode(n, "Transaction"), "Block"), "TxOutputs")

\* LoadBlockchain on a store that exists only builds the index.
AfterLoad(n) == Encode(n, "TxOutputs")

Start(p) ==
  /\ run[p] = Stopped /\ starts < MaxStarts
  /\ starts' = starts + 1
  /\ store' = [store EXCEPT ![p] = TRUE]
  /\ run' = [run EXCEPT ![p] =
               [life |-> starts, created |-> ~store[p], process |-> p]]
  /\ number' = [number EXCEPT ![p] =
                  IF store[p] THEN AfterLoad(NoNumbers) ELSE AfterCreate(NoNumbers)]
  /\ UNCHANGED <<account, signed, checked>>

Stop(p) ==
  /\ run[p] # Stopped
  /\ run' = [run EXCEPT ![p] = Stopped]
  /\ number' = [number EXCEPT ![p] = NoNumbers]
  /\ UNCHANGED <<store, account, starts, signed, checked>>

\* Whatever else the process sends or stores: versions, blocks, inventories.
Encodes(p, k) ==
  /\ run[p] # Stopped
  /\ number' = [number EXCEPT ![p] = Encode(@, k)]
  /\ UNCHANGED <<store, run, account, starts, signed, checked>>

NewAccount(p) ==
  /\ run[p] # Stopped /\ account = NoAccount
  /\ account' \in Pairs
  /\ number' = [number EXCEPT ![p] = Encode(@, "Wallet")]
  /\ UNCHANGED <<store, run, starts, signed, checked>>

\* NewTransaction and Sign, for a payment of one input.
Sign(p) ==
  /\ run[p] # Stopped /\ account # NoAccount
  /\ Cardinality(signed) < MaxSigned
  /\ \E sig \in Pairs :
       signed' = signed \cup {[by |-> run[p], hash |-> Serialize(number[p]),
                               key |-> account, sig |-> sig]}
  /\ number' = [number EXCEPT ![p] = Encode(@, "Transaction")]
  /\ UNCHANGED <<store, run, account, starts, checked>>

\* Mutant: the parts of signature and key are taken for good, whatever they are.
VerdictOnHash(payment, hash) == hash = payment.hash

\* ecdsa.Verify accepts the signature and the key that were made, for the hash
\* that was signed, and nothing else.
Verdict(payment, hash) ==
  /\ hash = payment.hash
  /\ Recovers(payment.sig[1], payment.sig[2])
  /\ Recovers(payment.key[1], payment.key[2])

Verify(p, payment) ==
  LET hash == Serialize(number[p])
  IN  /\ run[p] # Stopped
      /\ number' = [number EXCEPT ![p] = Encode(@, "Transaction")]
      /\ checked' = checked \cup {[payment |-> payment, at |-> run[p],
                                   hash |-> hash,
                                   verdict |-> Verdict(payment, hash)]}
      /\ UNCHANGED <<store, run, account, starts, signed>>

Next ==
  \E p \in Processes :
    \/ Start(p) \/ Stop(p) \/ NewAccount(p) \/ Sign(p)
    \/ \E k \in Kinds : Encodes(p, k)
    \/ \E payment \in signed : Verify(p, payment)

Spec == Init /\ [][Next]_vars
----------------------------------------------------------------------------
Runs == [life : Nat, created : BOOLEAN, process : Processes]
Hashes == [TransactionTypes -> Nat]
Payments == [by : Runs, hash : Hashes, key : Pairs, sig : Pairs]

\* Types, and that what is stopped has no numbers left.
TypeOK ==
  /\ store \in [Processes -> BOOLEAN]
  /\ run \in [Processes -> Runs \cup {Stopped}]
  /\ number \in [Processes -> Numbering]
  /\ \A p \in Processes : run[p] = Stopped => number[p] = NoNumbers
  /\ account \in Pairs \cup {NoAccount}
  /\ starts \in Nat
  /\ signed \subseteq Payments
  /\ checked \subseteq [payment : signed, at : Runs, hash : Hashes, verdict : BOOLEAN]

\* Both pairs of the payment are cut where they were joined.
EvenPayment(payment) ==
  /\ Even(payment.key[1], payment.key[2])
  /\ Even(payment.sig[1], payment.sig[2])

\* The run that signed a payment accepts it, whatever it encoded in between,
\* unless a number was short (transaction.go, Sign and Verify).
SignersAccept ==
  \A c \in checked : c.at = c.payment.by /\ EvenPayment(c.payment) => c.verdict

\* So does any run that, like the signer's, created its store: both numbered a
\* transaction's types before all others (chain.go, LoadBlockchain).
CreatorsAccept ==
  \A c \in checked :
    c.at.created /\ c.payment.by.created /\ EvenPayment(c.payment) => c.verdict

\* A short number, other than a second one that is a byte longer, makes every
\* verification fail.
UnevenIsRefused == \A c \in checked : c.verdict => EvenPayment(c.payment)
=============================================================================
