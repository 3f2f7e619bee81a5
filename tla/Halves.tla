------------------------------- MODULE Halves -------------------------------
(***************************************************************************)
(* Two numbers in one byte string, as signatures (r and s) and public keys *)
(* (X and Y) are kept: big.Int.Bytes writes each without leading zeros and *)
(* they are appended; the reader cuts the string in the middle.            *)
(***************************************************************************)
EXTENDS Naturals, Sequences

\* The byte strings big.Int.Bytes returns for numbers other than zero.
IsNumber(bytes) == bytes \in Seq(Nat) /\ bytes # <<>> /\ bytes[1] # 0

\* big.Int.SetBytes, the value it sets written as Bytes would.
SetBytes(bytes) ==
  IF \A i \in DOMAIN bytes : bytes[i] = 0
  THEN <<>>
  ELSE LET first == CHOOSE i \in DOMAIN bytes :
                      bytes[i] # 0 /\ \A j \in 1 .. i - 1 : bytes[j] = 0
       IN  SubSeq(bytes, first, Len(bytes))

\* append(r.Bytes(), s.Bytes()...), append(X.Bytes(), Y.Bytes()...)
Join(a, b) == a \o b

\* Mutant: the middle is rounded up.
FirstHalfRoundedUp(bytes) == SetBytes(SubSeq(bytes, 1, (Len(bytes) + 1) \div 2))

\* sig[:(sigLen / 2)] and sig[(sigLen / 2):], key[:(keyLen / 2)] and so on
FirstHalf(bytes) == SetBytes(SubSeq(bytes, 1, Len(bytes) \div 2))
SecondHalf(bytes) == SetBytes(SubSeq(bytes, (Len(bytes) \div 2) + 1, Len(bytes)))

Recovers(a, b) == FirstHalf(Join(a, b)) = a /\ SecondHalf(Join(a, b)) = b

\* The second number is as long as the first, or a byte longer.
Even(a, b) == Len(b) \in {Len(a), Len(a) + 1}
=============================================================================
