--------------------------- MODULE SigningProofs ----------------------------
(***************************************************************************)
(* Proofs about Halves, for any two numbers, and about Signing, for any    *)
(* processes, kinds and types.                                             *)
(***************************************************************************)
EXTENDS Signing, TLAPS, FiniteSetTheorems

(* Pairs of numbers. *)

LEMMA NumbersAreKept ==
  ASSUME NEW n, IsNumber(n)
  PROVE  SetBytes(n) = n
<1>1. n \in Seq(Nat) /\ Len(n) \in Nat /\ 1 \in DOMAIN n /\ n[1] # 0
  BY DEF IsNumber
<1> DEFINE First(i) == n[i] # 0 /\ \A j \in 1 .. i - 1 : n[j] = 0
<1>2. First(1)
  BY <1>1
<1>3. \A i \in DOMAIN n : First(i) => i = 1
  <2> SUFFICES ASSUME NEW i \in DOMAIN n, First(i), i # 1
               PROVE  FALSE
    OBVIOUS
  <2>1. i \in Nat /\ 1 \in 1 .. i - 1
    BY <1>1
  <2> QED
    BY <2>1, <1>1
<1>4. (CHOOSE i \in DOMAIN n : First(i)) = 1
  <2> HIDE DEF First
  <2> QED
    BY <1>1, <1>2, <1>3
<1>5. SetBytes(n) = SubSeq(n, 1, Len(n))
  BY <1>1, <1>4 DEF SetBytes
<1>6. SubSeq(n, 1, Len(n)) = n
  BY <1>1
<1> QED
  BY <1>5, <1>6

\* A signature or a key is read back as it was written exactly when its second
\* number is as long as the first, or one byte longer (transaction.go, Verify;
\* account.go, NewKeyPair).
THEOREM EvenPairsAreRecovered ==
  ASSUME NEW a, NEW b, IsNumber(a), IsNumber(b)
  PROVE  Recovers(a, b) <=> Even(a, b)
<1> DEFINE whole == Join(a, b)
           half == Len(whole) \div 2
           left == SubSeq(whole, 1, half)
           right == SubSeq(whole, half + 1, Len(whole))
<1>1. a \in Seq(Nat) /\ b \in Seq(Nat) /\ Len(a) \in Nat /\ Len(b) \in Nat
      /\ Len(a) >= 1 /\ Len(b) >= 1 /\ a[1] # 0 /\ b[1] # 0
  BY DEF IsNumber
<1>2. whole \in Seq(Nat) /\ Len(whole) = Len(a) + Len(b)
  BY <1>1 DEF Join
<1>3. half \in Nat /\ 2 * half <= Len(whole) /\ Len(whole) <= 2 * half + 1
  BY <1>1, <1>2
<1>4. half >= 1 /\ half < Len(whole)
  BY <1>1, <1>2, <1>3
<1>5. Even(a, b) <=> half = Len(a)
  BY <1>1, <1>2, <1>3 DEF Even
<1>6. left \in Seq(Nat) /\ Len(left) = half
  BY <1>2, <1>3, <1>4
<1>7. left[1] = a[1]
  BY <1>1, <1>2, <1>4 DEF Join
<1>8. IsNumber(left)
  BY <1>1, <1>4, <1>6, <1>7 DEF IsNumber
<1>9. FirstHalf(whole) = left
  BY <1>8, NumbersAreKept DEF FirstHalf
<1>10. ASSUME half = Len(a)
       PROVE  left = a /\ right = b
  BY <1>1, <1>2, <1>10 DEF Join
<1>11. ASSUME half = Len(a)
       PROVE  Recovers(a, b)
  <2>1. SecondHalf(whole) = SetBytes(b)
    BY <1>10, <1>11 DEF SecondHalf
  <2> QED
    BY <1>9, <1>10, <1>11, <2>1, NumbersAreKept DEF Recovers
<1>12. ASSUME Recovers(a, b)
       PROVE  half = Len(a)
  BY <1>6, <1>9, <1>12 DEF Recovers
<1> QED
  BY <1>5, <1>11, <1>12

-----------------------------------------------------------------------------
(* What numbering does. *)

LEMMA TransactionTypesAreTypes == TransactionTypes \subseteq Types
BY SigningAssumption DEF TransactionTypes, Types

LEMMA Counts ==
  ASSUME NEW S \in SUBSET Types
  PROVE  Cardinality(S) \in Nat /\ (Cardinality(S) = 0 <=> S = {})
BY SigningAssumption, FS_Subset, FS_CardinalityType, FS_EmptySet

LEMMA EncodeType ==
  ASSUME NEW n \in Numbering, NEW k \in Kinds
  PROVE  Encode(n, k) \in Numbering
<1> SUFFICES ASSUME NEW t \in Types
             PROVE  Encode(n, k)[t] \in Nat
  BY DEF Encode, Numbering
<1>1. Cardinality(Numbered(n)) \in Nat
  BY Counts DEF Numbered
<1> DEFINE News == { u \in Types \ Numbered(n) :
                     \E i, j \in DOMAIN TypesOf[k] :
                       i <= j /\ TypesOf[k][i] = u /\ TypesOf[k][j] = t }
<1>2. Cardinality(News) \in Nat
  BY Counts
<1>3. n[t] \in Nat
  BY DEF Numbering
<1>4. Encode(n, k)[t] \in {n[t], Cardinality(Numbered(n)) + Cardinality(News)}
  BY DEF Encode
<1> QED
  BY <1>1, <1>2, <1>3, <1>4

LEMMA EncodeKeeps ==
  ASSUME NEW n \in Numbering, NEW k \in Kinds, NEW t \in Types, n[t] # 0
  PROVE  Encode(n, k)[t] = n[t]
BY DEF Encode

LEMMA EncodeNumbers ==
  ASSUME NEW n \in Numbering, NEW t \in TransactionTypes
  PROVE  Encode(n, "Transaction")[t] # 0
<1> DEFINE types == TypesOf["Transaction"]
           News == { u \in Types \ Numbered(n) :
                     \E i, j \in DOMAIN types :
                       i <= j /\ types[i] = u /\ types[j] = t }
<1>1. t \in Types
  BY TransactionTypesAreTypes
<1>2. CASE n[t] # 0
  BY <1>1, <1>2 DEF Encode
<1>3. CASE n[t] = 0
  <2>1. PICK i \in DOMAIN types : types[i] = t
    BY DEF TransactionTypes
  <2>2. i \in Nat
    BY <2>1, SigningAssumption
  <2>3. t \in News
    BY <1>1, <1>3, <2>1, <2>2 DEF Numbered
  <2>4. Cardinality(News) \in Nat /\ Cardinality(News) # 0
    BY <2>3, Counts
  <2>5. Cardinality(Numbered(n)) \in Nat
    BY Counts DEF Numbered
  <2>6. Encode(n, "Transaction")[t] = Cardinality(Numbered(n)) + Cardinality(News)
    BY <1>1, <1>3, <2>1 DEF Encode
  <2> QED
    BY <2>4, <2>5, <2>6
<1> QED
  BY <1>2, <1>3

LEMMA SerializeType == ASSUME NEW n \in Numbering PROVE Serialize(n) \in Hashes
BY EncodeType, TransactionTypesAreTypes, SigningAssumption
   DEF Serialize, Hashes, Numbering

\* A numbering that has settled on what it contributes to a transaction.
Settled(n, hash) ==
  \A t \in TransactionTypes : n[t] # 0 /\ n[t] = hash[t]

LEMMA SettledStays ==
  ASSUME NEW n \in Numbering, NEW hash, NEW k \in Kinds, Settled(n, hash)
  PROVE  Settled(Encode(n, k), hash)
BY EncodeKeeps, TransactionTypesAreTypes DEF Settled

LEMMA SettledSerializes ==
  ASSUME NEW n \in Numbering, NEW hash \in Hashes, Settled(n, hash)
  PROVE  Serialize(n) = hash
<1>1. \A t \in TransactionTypes : Encode(n, "Transaction")[t] = hash[t]
  BY EncodeKeeps, TransactionTypesAreTypes, SigningAssumption DEF Settled
<1> QED
  BY <1>1 DEF Serialize, Hashes

LEMMA TransactionSettles ==
  ASSUME NEW n \in Numbering
  PROVE  Settled(Encode(n, "Transaction"), Serialize(n))
BY EncodeNumbers DEF Settled, Serialize

\* What a run that creates its store settles on.
FirstHash == Serialize(NoNumbers)

LEMMA CreatingSettles ==
  /\ NoNumbers \in Numbering
  /\ AfterCreate(NoNumbers) \in Numbering /\ AfterLoad(NoNumbers) \in Numbering
  /\ Settled(AfterCreate(NoNumbers), FirstHash)
<1>1. NoNumbers \in Numbering
  BY DEF NoNumbers, Numbering
<1> DEFINE n1 == Encode(NoNumbers, "Transaction")
           n2 == Encode(n1, "Block")
           n3 == Encode(n2, "TxOutputs")
<1>2. n1 \in Numbering /\ Settled(n1, FirstHash)
  BY <1>1, EncodeType, TransactionSettles, SigningAssumption DEF FirstHash
<1>3. n2 \in Numbering /\ Settled(n2, FirstHash)
  <2> HIDE DEF n1
  <2> QED
    BY <1>2, EncodeType, SettledStays, SigningAssumption
<1>4. n3 \in Numbering /\ Settled(n3, FirstHash)
  <2> HIDE DEF n2
  <2> QED
    BY <1>3, EncodeType, SettledStays, SigningAssumption
<1>5. AfterLoad(NoNumbers) \in Numbering
  BY <1>1, EncodeType, SigningAssumption DEF AfterLoad
<1> QED
  BY <1>1, <1>4, <1>5 DEF AfterCreate
-----------------------------------------------------------------------------
(* The inductive invariant. *)

\* Runs are told apart by their number, and know their process.
RunsAreTold ==
  /\ \A p \in Processes :
       run[p] # Stopped => run[p].life < starts /\ run[p].process = p
  /\ \A payment \in signed : payment.by.life < starts

\* The run that signed, as long as it runs, goes on hashing as it did.
SignersAreSettled ==
  \A payment \in signed : \A p \in Processes :
    run[p] = payment.by => Settled(number[p], payment.hash)

\* A run that created its store has one way to hash.
CreatorsAreSettled ==
  /\ \A p \in Processes :
       run[p] # Stopped /\ run[p].created => Settled(number[p], FirstHash)
  /\ \A payment \in signed : payment.by.created => payment.hash = FirstHash

CheckedAsHashed ==
  \A c \in checked :
    /\ c.verdict = Verdict(c.payment, c.hash)
    /\ c.at = c.payment.by => c.hash = c.payment.hash
    /\ c.at.created => c.hash = FirstHash

IInv == /\ TypeOK /\ RunsAreTold /\ SignersAreSettled
        /\ CreatorsAreSettled /\ CheckedAsHashed

LEMMA InvInit == Init => IInv
BY CreatingSettles, SigningAssumption
   DEF Init, IInv, TypeOK, RunsAreTold, SignersAreSettled, CreatorsAreSettled,
       CheckedAsHashed

\* What the steps that only encode have in common.
LEMMA EncodesKeepsInv ==
  ASSUME IInv, NEW p \in Processes, NEW k \in Kinds, run[p] # Stopped,
         number' = [number EXCEPT ![p] = Encode(@, k)],
         run' = run, starts' = starts, store' = store, signed' = signed,
         checked' = checked, account' \in Pairs \cup {NoAccount}
  PROVE  IInv'
<1>1. number[p] \in Numbering /\ Encode(number[p], k) \in Numbering
  BY EncodeType DEF IInv, TypeOK
<1>2. TypeOK'
  BY <1>1 DEF IInv, TypeOK
<1>3. ASSUME NEW q \in Processes, NEW hash, Settled(number[q], hash)
      PROVE  Settled(number'[q], hash)
  <2>1. CASE q = p
    <3>1. number'[q] = Encode(number[p], k)
      BY <2>1 DEF IInv, TypeOK
    <3> QED
      BY <1>1, <1>3, <2>1, <3>1, SettledStays
  <2>2. CASE q # p
    BY <1>3, <2>2 DEF IInv, TypeOK
  <2> QED
    BY <2>1, <2>2
<1>4. RunsAreTold' /\ CheckedAsHashed'
  BY DEF IInv, RunsAreTold, CheckedAsHashed, Verdict
<1>5. SignersAreSettled'
  BY <1>3 DEF IInv, SignersAreSettled
<1>6. CreatorsAreSettled'
  BY <1>3 DEF IInv, CreatorsAreSettled
<1> QED
  BY <1>2, <1>4, <1>5, <1>6 DEF IInv

LEMMA StartKeepsInv ==
  ASSUME IInv, NEW p \in Processes, Start(p)
  PROVE  IInv'
<1> DEFINE new == [life |-> starts, created |-> ~store[p], process |-> p]
           n == IF store[p] THEN AfterLoad(NoNumbers) ELSE AfterCreate(NoNumbers)
<1>1. new \in Runs /\ n \in Numbering /\ starts \in Nat
  BY CreatingSettles DEF IInv, TypeOK, Runs
<1>2. /\ run' = [run EXCEPT ![p] = new] /\ number' = [number EXCEPT ![p] = n]
      /\ store' = [store EXCEPT ![p] = TRUE] /\ starts' = starts + 1
      /\ account' = account /\ signed' = signed /\ checked' = checked
  BY DEF Start
<1> HIDE DEF n
<1>3. /\ run'[p] = new /\ number'[p] = n
      /\ \A q \in Processes : q # p => run'[q] = run[q] /\ number'[q] = number[q]
  BY <1>2 DEF IInv, TypeOK
<1>4. new # Stopped /\ new.life = starts /\ new.process = p /\ new.created = ~store[p]
  BY <1>1, SigningAssumption DEF Runs
<1>5. TypeOK'
  <2>1. run' \in [Processes -> Runs \cup {Stopped}] /\ number' \in [Processes -> Numbering]
    BY <1>1, <1>2 DEF IInv, TypeOK
  <2>2. \A q \in Processes : run'[q] = Stopped => number'[q] = NoNumbers
    BY <1>3, <1>4 DEF IInv, TypeOK
  <2> QED
    BY <1>1, <1>2, <2>1, <2>2 DEF IInv, TypeOK
<1> HIDE DEF new
<1>6. \A q \in Processes : run'[q] # Stopped => run'[q].life < starts + 1 /\ run'[q].process = q
  <2> TAKE q \in Processes
  <2>1. CASE q = p
    BY <1>1, <1>3, <1>4, <2>1
  <2>2. CASE q # p
    <3>1. run[q] # Stopped => run[q].life \in Nat /\ run[q].life < starts
      BY DEF IInv, TypeOK, RunsAreTold, Runs
    <3> QED
      BY <1>1, <1>3, <2>2, <3>1 DEF IInv, RunsAreTold
  <2> QED
    BY <2>1, <2>2
<1>7. \A payment \in signed :
         payment.by.life \in Nat /\ payment.by.life < starts /\ payment.by # new
  BY <1>1, <1>4 DEF IInv, TypeOK, RunsAreTold, Payments, Runs
<1>8. RunsAreTold'
  BY <1>1, <1>2, <1>6, <1>7 DEF RunsAreTold
<1>9. SignersAreSettled'
  BY <1>2, <1>3, <1>7 DEF IInv, SignersAreSettled
<1>10. ~store[p] => Settled(n, FirstHash)
  BY CreatingSettles DEF n
<1>11. CreatorsAreSettled'
  BY <1>2, <1>3, <1>4, <1>10 DEF IInv, CreatorsAreSettled
<1>12. CheckedAsHashed'
  BY <1>2 DEF IInv, CheckedAsHashed, Verdict
<1> QED
  BY <1>5, <1>8, <1>9, <1>11, <1>12 DEF IInv

LEMMA StopKeepsInv ==
  ASSUME IInv, NEW p \in Processes, Stop(p)
  PROVE  IInv'
<1>1. /\ run' = [run EXCEPT ![p] = Stopped]
      /\ number' = [number EXCEPT ![p] = NoNumbers]
      /\ store' = store /\ starts' = starts /\ account' = account
      /\ signed' = signed /\ checked' = checked
  BY DEF Stop
<1>2. /\ run'[p] = Stopped /\ number'[p] = NoNumbers
      /\ \A q \in Processes : q # p => run'[q] = run[q] /\ number'[q] = number[q]
  BY <1>1 DEF IInv, TypeOK
<1>3. TypeOK'
  BY <1>1, <1>2, CreatingSettles DEF IInv, TypeOK
<1>4. RunsAreTold' /\ CheckedAsHashed'
  BY <1>1, <1>2 DEF IInv, RunsAreTold, CheckedAsHashed, Verdict
<1>5. \A payment \in signed : payment.by # Stopped
  BY SigningAssumption DEF IInv, TypeOK, Payments, Runs
<1>6. SignersAreSettled'
  BY <1>1, <1>2, <1>5 DEF IInv, SignersAreSettled
<1>7. CreatorsAreSettled'
  BY <1>1, <1>2 DEF IInv, CreatorsAreSettled
<1> QED
  BY <1>3, <1>4, <1>6, <1>7 DEF IInv

LEMMA SignKeepsInv ==
  ASSUME IInv, NEW p \in Processes, Sign(p)
  PROVE  IInv'
<1> DEFINE n == Encode(number[p], "Transaction")
           hash == Serialize(number[p])
<1>1. PICK sig \in Pairs :
         signed' = signed \cup {[by |-> run[p], hash |-> hash, key |-> account, sig |-> sig]}
  BY DEF Sign
<1> DEFINE new == [by |-> run[p], hash |-> hash, key |-> account, sig |-> sig]
<1>2. /\ number' = [number EXCEPT ![p] = n]
      /\ run' = run /\ store' = store /\ starts' = starts
      /\ account' = account /\ checked' = checked /\ run[p] # Stopped
      /\ account # NoAccount
  BY DEF Sign
<1>3. number[p] \in Numbering /\ n \in Numbering /\ hash \in Hashes
  BY EncodeType, SerializeType, SigningAssumption DEF IInv, TypeOK
<1>4. Settled(n, hash)
  BY <1>3, TransactionSettles
<1>5. new \in Payments /\ new.by = run[p] /\ new.hash = hash
  BY <1>2, <1>3 DEF IInv, TypeOK, Payments
<1> HIDE DEF n, hash
<1>6. number'[p] = n /\ \A q \in Processes : q # p => number'[q] = number[q]
  BY <1>2 DEF IInv, TypeOK
<1>7. ASSUME NEW q \in Processes, NEW h, Settled(number[q], h)
      PROVE  Settled(number'[q], h)
  BY <1>3, <1>6, <1>7, SettledStays, SigningAssumption DEF n
<1> HIDE DEF new
<1>8. signed' = signed \cup {new}
  BY <1>1 DEF new
<1>9. TypeOK'
  <2>1. checked' \subseteq [payment : signed', at : Runs, hash : Hashes, verdict : BOOLEAN]
    BY <1>2, <1>8 DEF IInv, TypeOK
  <2>2. number' \in [Processes -> Numbering]
    BY <1>2, <1>3 DEF IInv, TypeOK
  <2>3. \A q \in Processes : run'[q] = Stopped => number'[q] = NoNumbers
    BY <1>2, <1>6 DEF IInv, TypeOK
  <2> QED
    BY <1>2, <1>5, <1>8, <2>1, <2>2, <2>3 DEF IInv, TypeOK
<1>10. run[p].life < starts /\ run[p].process = p
  BY <1>2 DEF IInv, RunsAreTold
<1>11. RunsAreTold'
  BY <1>2, <1>5, <1>8, <1>10 DEF IInv, RunsAreTold
<1>12. \A q \in Processes : run[q] = run[p] => q = p
  BY <1>2 DEF IInv, RunsAreTold
<1>13. SignersAreSettled'
  <2> SUFFICES ASSUME NEW payment \in signed', NEW q \in Processes, run[q] = payment.by
               PROVE  Settled(number'[q], payment.hash)
    BY <1>2 DEF SignersAreSettled
  <2>1. CASE payment \in signed
    BY <1>7, <2>1 DEF IInv, SignersAreSettled
  <2>2. CASE payment = new
    BY <1>4, <1>5, <1>6, <1>12, <2>2
  <2> QED
    BY <1>8, <2>1, <2>2
<1>14. run[p].created => hash = FirstHash
  <2>1. FirstHash \in Hashes
    BY CreatingSettles, SerializeType DEF FirstHash
  <2> QED
    BY <1>2, <1>3, <2>1, SettledSerializes DEF IInv, CreatorsAreSettled, hash
<1>15. CreatorsAreSettled'
  <2>1. \A q \in Processes :
          run'[q] # Stopped /\ run'[q].created => Settled(number'[q], FirstHash)
    BY <1>2, <1>7 DEF IInv, CreatorsAreSettled
  <2>2. \A payment \in signed' : payment.by.created => payment.hash = FirstHash
    BY <1>5, <1>8, <1>14 DEF IInv, CreatorsAreSettled
  <2> QED
    BY <2>1, <2>2 DEF CreatorsAreSettled
<1>16. CheckedAsHashed'
  BY <1>2 DEF IInv, CheckedAsHashed, Verdict
<1> QED
  BY <1>9, <1>11, <1>13, <1>15, <1>16 DEF IInv

LEMMA VerifyKeepsInv ==
  ASSUME IInv, NEW p \in Processes, NEW payment \in signed, Verify(p, payment)
  PROVE  IInv'
<1> DEFINE hash == Serialize(number[p])
           c0 == [payment |-> payment, at |-> run[p], hash |-> hash,
                  verdict |-> Verdict(payment, hash)]
<1>1. /\ number' = [number EXCEPT ![p] = Encode(@, "Transaction")]
      /\ run' = run /\ store' = store /\ starts' = starts /\ account' = account
      /\ signed' = signed /\ run[p] # Stopped
      /\ checked' = checked \cup {c0}
  BY DEF Verify
<1>2. number[p] \in Numbering /\ hash \in Hashes
  BY SerializeType DEF IInv, TypeOK
<1>3. Verdict(payment, hash) \in BOOLEAN
  BY DEF Verdict
<1>4. c0 \in [payment : signed, at : Runs, hash : Hashes, verdict : BOOLEAN]
  BY <1>1, <1>2, <1>3 DEF IInv, TypeOK
<1>5. run[p] = payment.by => hash = payment.hash
  <2>1. payment.hash \in Hashes
    BY DEF IInv, TypeOK, Payments
  <2> QED
    BY <1>2, <2>1, SettledSerializes DEF IInv, SignersAreSettled
<1>6. run[p].created => hash = FirstHash
  <2>1. FirstHash \in Hashes
    BY CreatingSettles, SerializeType DEF FirstHash
  <2> QED
    BY <1>1, <1>2, <2>1, SettledSerializes DEF IInv, CreatorsAreSettled
<1> HIDE DEF hash
<1>7. /\ c0.verdict = Verdict(c0.payment, c0.hash)
      /\ c0.at = c0.payment.by => c0.hash = c0.payment.hash
      /\ c0.at.created => c0.hash = FirstHash
  BY <1>5, <1>6
<1> HIDE DEF c0
<1>8. CheckedAsHashed'
  BY <1>1, <1>7 DEF IInv, CheckedAsHashed, Verdict
<1>9. number[p] \in Numbering /\ Encode(number[p], "Transaction") \in Numbering
  BY <1>2, EncodeType, SigningAssumption
<1>10. TypeOK'
  BY <1>1, <1>4, <1>9 DEF IInv, TypeOK
<1>11. ASSUME NEW q \in Processes, NEW h, Settled(number[q], h)
       PROVE  Settled(number'[q], h)
  <2>1. CASE q = p
    <3>1. number'[q] = Encode(number[p], "Transaction")
      BY <1>1, <2>1 DEF IInv, TypeOK
    <3> QED
      BY <1>9, <1>11, <2>1, <3>1, SettledStays, SigningAssumption
  <2>2. CASE q # p
    BY <1>1, <1>11, <2>2 DEF IInv, TypeOK
  <2> QED
    BY <2>1, <2>2
<1>12. RunsAreTold'
  BY <1>1 DEF IInv, RunsAreTold
<1>13. SignersAreSettled' /\ CreatorsAreSettled'
  BY <1>1, <1>11 DEF IInv, SignersAreSettled, CreatorsAreSettled
<1> QED
  BY <1>8, <1>10, <1>12, <1>13 DEF IInv

LEMMA InvStep == IInv /\ [Next]_vars => IInv'
<1> SUFFICES ASSUME IInv, [Next]_vars
             PROVE  IInv'
  OBVIOUS
<1>1. ASSUME NEW p \in Processes, NewAccount(p)
      PROVE  IInv'
  BY <1>1, EncodesKeepsInv, SigningAssumption DEF NewAccount
<1>2. ASSUME NEW p \in Processes, NEW k \in Kinds, Encodes(p, k)
      PROVE  IInv'
  <2>1. account' \in Pairs \cup {NoAccount}
    BY <1>2 DEF Encodes, IInv, TypeOK
  <2> QED
    BY <1>2, <2>1, EncodesKeepsInv DEF Encodes
<1>3. CASE UNCHANGED vars
  <2>1. TypeOK' /\ RunsAreTold'
    BY <1>3 DEF IInv, TypeOK, RunsAreTold, vars
  <2>2. SignersAreSettled' /\ CreatorsAreSettled'
    BY <1>3 DEF IInv, SignersAreSettled, CreatorsAreSettled, vars
  <2>3. CheckedAsHashed'
    BY <1>3 DEF IInv, CheckedAsHashed, Verdict, vars
  <2> QED
    BY <2>1, <2>2, <2>3 DEF IInv
<1> QED
  BY <1>1, <1>2, <1>3, StartKeepsInv, StopKeepsInv, SignKeepsInv, VerifyKeepsInv
     DEF Next

LEMMA InvAlways == Spec => []IInv
BY InvInit, InvStep, PTL DEF Spec
-----------------------------------------------------------------------------
\* Types, and that a process that ended keeps no numbers.
THEOREM SigningTypeCorrect == Spec => []TypeOK
BY InvAlways, PTL DEF IInv

LEMMA EvenVerdict ==
  ASSUME IInv, NEW c \in checked, EvenPayment(c.payment), c.hash = c.payment.hash
  PROVE  c.verdict
<1>1. c.payment.sig \in Pairs /\ c.payment.key \in Pairs /\ c.verdict = Verdict(c.payment, c.hash)
  BY DEF IInv, TypeOK, CheckedAsHashed, Payments
<1> QED
  BY <1>1, EvenPairsAreRecovered, SigningAssumption DEF EvenPayment, Verdict

\* The run that signed a payment accepts it, whatever it has encoded since.
THEOREM SignersAlwaysAccept == Spec => []SignersAccept
<1>1. IInv => SignersAccept
  BY EvenVerdict DEF SignersAccept, IInv, CheckedAsHashed
<1> QED
  BY <1>1, InvAlways, PTL

\* Runs that created their stores accept each other's payments.
THEOREM CreatorsAlwaysAccept == Spec => []CreatorsAccept
<1>1. IInv => CreatorsAccept
  <2> SUFFICES ASSUME IInv, NEW c \in checked, c.at.created,
                      c.payment.by.created, EvenPayment(c.payment)
               PROVE  c.verdict
    BY DEF CreatorsAccept
  <2>1. c.payment \in signed
    BY DEF IInv, TypeOK
  <2>2. c.hash = FirstHash /\ c.payment.hash = FirstHash
    BY <2>1 DEF IInv, CheckedAsHashed, CreatorsAreSettled
  <2> QED
    BY <2>2, EvenVerdict
<1> QED
  BY <1>1, InvAlways, PTL

\* A payment whose key or signature is cut elsewhere than it was joined is
\* refused by everyone.
THEOREM UnevenAlwaysRefused == Spec => []UnevenIsRefused
<1>1. IInv => UnevenIsRefused
  <2> SUFFICES ASSUME IInv, NEW c \in checked, c.verdict
               PROVE  EvenPayment(c.payment)
    BY DEF UnevenIsRefused
  <2>1. c.payment.sig \in Pairs /\ c.payment.key \in Pairs /\ Verdict(c.payment, c.hash)
    BY DEF IInv, TypeOK, CheckedAsHashed, Payments
  <2> QED
    BY <2>1, EvenPairsAreRecovered, SigningAssumption DEF EvenPayment, Verdict
<1> QED
  BY <1>1, InvAlways, PTL
=============================================================================
