---------------------------- MODULE ChainProofs ----------------------------
(***************************************************************************)
(* What the functions of Chain compute, for any store and any index: the   *)
(* iterator the hashes from a block down, each followed by its parent,     *)
(* until a block is missing; loops over lists their parts; FindUTXO an     *)
(* index of lists; FindSpendableOutputs outputs that the index has; and    *)
(* UTXOSet.Update, for a payment of such outputs, a new index. Induction   *)
(* is over sets of numbers, with no operator as a parameter.               *)
(***************************************************************************)
EXTENDS Chain, FiniteSetTheorems, TLAPS

----------------------------------------------------------------------------
(* Induction: were k left out of S, the numbers up to k that are left out   *)
(* could be mapped one to one into themselves but not onto.                 *)

LEMMA NatSetInduction ==
  ASSUME NEW S, 0 \in S, \A n \in Nat : n \in S => n + 1 \in S
  PROVE  \A n \in Nat : n \in S
<1> SUFFICES ASSUME NEW k \in Nat, k \notin S PROVE FALSE
  OBVIOUS
<1> DEFINE T == { n \in 0..k : n \notin S }
           f == [n \in T |-> n - 1]
<1>1. IsFiniteSet(T)
  <2>1. IsFiniteSet(0..k)
    BY FS_Interval
  <2>2. T \in SUBSET (0..k)
    OBVIOUS
  <2> HIDE DEF T
  <2> QED BY <2>1, <2>2, FS_Subset
<1>2. f \in [T -> T]
  <2> SUFFICES ASSUME NEW n \in T PROVE n - 1 \in T
    OBVIOUS
  <2>1. n # 0 /\ n \in 0..k /\ n \notin S
    OBVIOUS
  <2>2. n - 1 \in Nat /\ (n - 1) + 1 = n
    BY <2>1
  <2> QED BY <2>1, <2>2
<1>3. f \in Injection(T, T)
  <2>1. \A x, y \in T : f[x] = f[y] => x = y
    OBVIOUS
  <2> HIDE DEF T, f
  <2> QED BY <1>2, <2>1 DEF Injection, IsInjective
<1>4. f \in Surjection(T, T)
  <2> HIDE DEF T, f
  <2> QED BY <1>1, <1>3, FS_Injection
<1>5. k \in T
  OBVIOUS
<1>6. PICK n \in T : f[n] = k
  BY <1>4, <1>5 DEF Surjection
<1> QED BY <1>6

\* The recursion that Iterate makes, for k steps.
IsVisit(B, t, v, k) ==
  v = [n \in 0..k |-> IF n = 0 THEN t
                      ELSE IF v[n - 1] \in DOMAIN B THEN B[v[n - 1]].PrevHash
                      ELSE Nil]

\* Such a function exists for every number of steps.
LEMMA VisitExists ==
  ASSUME NEW B, NEW t, NEW N \in Nat
  PROVE  \E v : IsVisit(B, t, v, N)
<1> DEFINE Is(v, k) == IsVisit(B, t, v, k)
           S == { k \in Nat : \E v : Is(v, k) }
<1> USE DEF IsVisit
<1>1. 0 \in S
  <2>1. Is([n \in 0..0 |-> t], 0)
    OBVIOUS
  <2> QED BY <2>1
<1>2. ASSUME NEW k \in Nat, k \in S PROVE k + 1 \in S
  <2>1. PICK v : Is(v, k)
    BY <1>2
  <2> DEFINE w == [n \in 0..(k + 1) |-> IF n <= k THEN v[n]
                     ELSE IF v[k] \in DOMAIN B THEN B[v[k]].PrevHash ELSE Nil]
  <2>2. Is(w, k + 1)
    <3>1. \A n \in 0..k : w[n] = v[n]
      OBVIOUS
    <3>2. \A n \in 0..(k + 1) : w[n] = IF n = 0 THEN t
                                    ELSE IF w[n - 1] \in DOMAIN B THEN B[w[n - 1]].PrevHash
                                    ELSE Nil
      <4> SUFFICES ASSUME NEW n \in 0..(k + 1)
                   PROVE w[n] = IF n = 0 THEN t
                                    ELSE IF w[n - 1] \in DOMAIN B THEN B[w[n - 1]].PrevHash
                                    ELSE Nil
        OBVIOUS
      <4>1. CASE n = 0
        BY <2>1, <4>1
      <4>2. CASE n \in 1..k
        BY <2>1, <3>1, <4>2
      <4>3. CASE n = k + 1
        BY <3>1, <4>3
      <4> QED BY <4>1, <4>2, <4>3
    <3> QED BY <3>2
  <2> HIDE DEF Is
  <2> QED BY <2>2
<1>3. \A k \in Nat : k \in S
  <2> HIDE DEF S
  <2> QED BY <1>1, <1>2, NatSetInduction
<1> QED BY <1>3

\* A set of natural numbers that has one has a least one.
LEMMA LeastNatural ==
  ASSUME NEW S \in SUBSET Nat, NEW x \in S
  PROVE  \E m \in S : \A n \in S : m <= n
<1> SUFFICES ASSUME \A m \in S : \E n \in S : n < m PROVE FALSE
  OBVIOUS
<1> DEFINE T == { n \in Nat : \A k \in 0..n : k \notin S }
<1>1. 0 \in T
  OBVIOUS
<1>2. ASSUME NEW n \in Nat, n \in T PROVE n + 1 \in T
  BY <1>2
<1>3. x \in T
  <2> HIDE DEF T
  <2> QED BY <1>1, <1>2, NatSetInduction
<1> QED BY <1>3

\* A set that has every number below one of its members is an initial segment.
LEMMA InitialSegment ==
  ASSUME NEW N \in Nat, NEW D \in SUBSET (0..N),
         \A n \in 0..N : n + 1 \in D => n \in D
  PROVE  Cardinality(D) \in 0..(N + 1) /\ \A n \in 0..N : n \in D <=> n < Cardinality(D)
<1>1. ASSUME NEW n \in D, NEW m \in 0..n PROVE m \in D
  <2> DEFINE S == { j \in Nat : n - j >= 0 => n - j \in D }
  <2>1. 0 \in S
    OBVIOUS
  <2>2. ASSUME NEW j \in Nat, j \in S PROVE j + 1 \in S
    <3> SUFFICES ASSUME n - (j + 1) >= 0 PROVE n - (j + 1) \in D
      OBVIOUS
    <3>1. n - j \in D /\ n - (j + 1) \in 0..N /\ (n - (j + 1)) + 1 = n - j
      BY <2>2
    <3> QED BY <3>1
  <2>3. n - m \in S
    <3>1. n - m \in Nat
      OBVIOUS
    <3> HIDE DEF S
    <3> QED BY <2>1, <2>2, <3>1, NatSetInduction
  <2> QED BY <2>3
<1>2. CASE D = 0..N
  <2>1. Cardinality(0..N) = N + 1
    BY FS_Interval
  <2>2. Cardinality(D) = N + 1
    BY <1>2, <2>1
  <2>3. \A n \in 0..N : n \in D
    BY <1>2
  <2> QED BY <2>2, <2>3
<1>3. CASE D # 0..N
  <2> DEFINE C == { n \in 0..N : n \notin D }
  <2>1. PICK m \in C : \A n \in C : m <= n
    <3>1. C \in SUBSET Nat /\ C # {}
      <4>1. PICK n \in 0..N : n \notin D
        BY <1>3
      <4> QED BY <4>1
    <3> HIDE DEF C
    <3> QED BY <3>1, LeastNatural
  <2>2. D = 0..(m - 1)
    <3>1. ASSUME NEW n \in D PROVE n \in 0..(m - 1)
      <4>1. n >= m => m \in 0..n
        BY <2>1
      <4> QED BY <1>1, <2>1, <4>1
    <3>2. ASSUME NEW n \in 0..(m - 1) PROVE n \in D
      BY <2>1, <3>2
    <3> QED BY <3>1, <3>2
  <2>3. Cardinality(D) = m
    <3>1. Cardinality(0..(m - 1)) = m
      <4>1. m \in Nat /\ m - 1 \in Int
        OBVIOUS
      <4> HIDE DEF C
      <4> QED BY <4>1, FS_Interval
    <3> QED BY <2>2, <3>1
  <2> QED BY <2>2, <2>3
<1> QED BY <1>2, <1>3

\* What Iterate returns: the hashes v on the way from t down, as far as B has them.
Visits(B, t, N, v, length) ==
  /\ N \in Nat /\ length \in 0..(N + 1)
  /\ v[0] = t
  /\ \A n \in 0..(N - 1) :
       v[n + 1] = IF v[n] \in DOMAIN B THEN B[v[n]].PrevHash ELSE Nil
  /\ \A n \in 0..N : v[n] \in DOMAIN B <=> n < length
  /\ Iterate(B, t) = [i \in 1..length |-> v[i - 1]]

\* Iterate follows that recursion as far as blocks are stored.
LEMMA IterateVisits ==
  ASSUME NEW B, NEW t, IsFiniteSet(DOMAIN B), Nil \notin DOMAIN B
  PROVE  \E v, length : Visits(B, t, Cardinality(DOMAIN B), v, length)
<1> DEFINE N == Cardinality(DOMAIN B)
           v == CHOOSE w : IsVisit(B, t, w, N)
           length == Cardinality({ n \in DOMAIN v : v[n] \in DOMAIN B })
<1>1. N \in Nat
  BY FS_CardinalityType
<1>2. IsVisit(B, t, v, N)
  <2>1. \E w : IsVisit(B, t, w, N)
    <3> HIDE DEF N
    <3> QED BY <1>1, VisitExists
  <2> QED BY <2>1
<1>3. Iterate(B, t) = [i \in 1..length |-> v[i - 1]]
  BY DEF Iterate, IsVisit
<1> HIDE DEF v
<1>4. /\ DOMAIN v = 0..N
      /\ \A n \in 0..N :
            v[n] = IF n = 0 THEN t
                   ELSE IF v[n - 1] \in DOMAIN B THEN B[v[n - 1]].PrevHash ELSE Nil
  BY <1>2 DEF IsVisit
<1> HIDE DEF N
<1>5. v[0] = t /\ \A n \in 0..(N - 1) :
        v[n + 1] = IF v[n] \in DOMAIN B THEN B[v[n]].PrevHash ELSE Nil
  <2>1. v[0] = t
    BY <1>1, <1>4
  <2>2. ASSUME NEW n \in 0..(N - 1)
        PROVE  v[n + 1] = IF v[n] \in DOMAIN B THEN B[v[n]].PrevHash ELSE Nil
    <3>1. n + 1 \in 0..N /\ n + 1 # 0 /\ (n + 1) - 1 = n
      BY <1>1
    <3> QED BY <1>4, <3>1
  <2> QED BY <2>1, <2>2
<1>6. /\ length \in 0..(N + 1)
      /\ \A n \in 0..N : v[n] \in DOMAIN B <=> n < length
  <2> DEFINE D == { n \in DOMAIN v : v[n] \in DOMAIN B }
  <2>1. D \in SUBSET (0..N)
    BY <1>4
  <2>2. ASSUME NEW n \in 0..N, n + 1 \in D PROVE n \in D
    BY <1>1, <1>4, <1>5, <2>2
  <2>3. \A n \in 0..N : n \in D <=> v[n] \in DOMAIN B
    BY <1>4
  <2>4. length = Cardinality(D)
    OBVIOUS
  <2> HIDE DEF D, length
  <2> QED BY <1>1, <2>1, <2>2, <2>3, <2>4, InitialSegment
<1> HIDE DEF length
<1>7. Visits(B, t, N, v, length)
  BY <1>1, <1>3, <1>5, <1>6 DEF Visits
<1> QED BY <1>7 DEF N

\* As a sequence: from t on each block's parent, until it has none.
LEMMA IterateChain ==
  ASSUME NEW B, NEW t, IsFiniteSet(DOMAIN B), Nil \notin DOMAIN B
  PROVE  LET s == Iterate(B, t)
         IN  /\ s \in Seq(DOMAIN B)
             /\ t \in DOMAIN B => Len(s) >= 1 /\ s[1] = t
             /\ t \notin DOMAIN B => s = <<>>
             /\ \A i \in 1..(Len(s) - 1) : s[i + 1] = B[s[i]].PrevHash
<1> DEFINE N == Cardinality(DOMAIN B)
<1>0. PICK v, length : Visits(B, t, N, v, length)
  BY IterateVisits
<1>1. /\ N \in Nat /\ length \in 0..(N + 1)
      /\ v[0] = t
      /\ \A n \in 0..(N - 1) :
           v[n + 1] = IF v[n] \in DOMAIN B THEN B[v[n]].PrevHash ELSE Nil
      /\ \A n \in 0..N : v[n] \in DOMAIN B <=> n < length
      /\ Iterate(B, t) = [i \in 1..length |-> v[i - 1]]
  BY <1>0 DEF Visits
<1> DEFINE s == [i \in 1..length |-> v[i - 1]]
<1> HIDE DEF N
<1>2. s \in Seq(DOMAIN B) /\ Len(s) = length
  <2>1. ASSUME NEW i \in 1..length PROVE v[i - 1] \in DOMAIN B
    <3>1. i - 1 \in 0..N /\ i - 1 < length
      BY <1>1
    <3> QED BY <1>1, <3>1
  <2> QED BY <1>1, <2>1
<1>3. /\ t \in DOMAIN B => length >= 1 /\ s[1] = t
      /\ t \notin DOMAIN B => length = 0
  <2>1. 0 \in 0..N /\ (t \in DOMAIN B <=> 0 < length)
    BY <1>1
  <2> QED BY <1>1, <2>1
<1>4. ASSUME NEW i \in 1..(length - 1) PROVE s[i + 1] = B[s[i]].PrevHash
  <2>1. i - 1 \in 0..(N - 1) /\ i - 1 \in 0..N /\ i - 1 < length /\ (i - 1) + 1 = i
    BY <1>1
  <2>2. v[i - 1] \in DOMAIN B
    BY <1>1, <2>1
  <2>3. v[i] = B[v[i - 1]].PrevHash
    BY <1>1, <2>1, <2>2
  <2>4. i \in 1..length /\ i + 1 \in 1..length /\ (i + 1) - 1 = i
    BY <1>1
  <2> QED BY <2>3, <2>4
<1>5. length = 0 => s = <<>>
  OBVIOUS
<1> QED BY <1>1, <1>2, <1>3, <1>4, <1>5

\* Heights count links, Height is a natural number.
Linked(B) ==
  \A h \in DOMAIN B :
    /\ B[h].Height \in Nat
    /\ B[h].PrevHash \in DOMAIN B => B[h].Height = B[B[h].PrevHash].Height + 1

\* With heights that count links Iterate stops only where a parent is missing.
LEMMA IterateEnds ==
  ASSUME NEW B, NEW t \in DOMAIN B, IsFiniteSet(DOMAIN B), Nil \notin DOMAIN B, Linked(B)
  PROVE  LET s == Iterate(B, t)
         IN  B[s[Len(s)]].PrevHash \notin DOMAIN B
<1> DEFINE N == Cardinality(DOMAIN B)
<1>0. PICK v, length : Visits(B, t, N, v, length)
  BY IterateVisits
<1>1. /\ N \in Nat /\ length \in 0..(N + 1)
      /\ v[0] = t
      /\ \A n \in 0..(N - 1) :
           v[n + 1] = IF v[n] \in DOMAIN B THEN B[v[n]].PrevHash ELSE Nil
      /\ \A n \in 0..N : v[n] \in DOMAIN B <=> n < length
      /\ Iterate(B, t) = [i \in 1..length |-> v[i - 1]]
  BY <1>0 DEF Visits
<1> DEFINE s == [i \in 1..length |-> v[i - 1]]
<1>2. length >= 1 /\ v[length - 1] \in DOMAIN B /\ Len(s) = length /\ s[length] = v[length - 1]
  <2> HIDE DEF N
  <2>1. length >= 1
    BY <1>1
  <2>2. length - 1 \in 0..N /\ length - 1 < length
    BY <1>1, <2>1
  <2> QED BY <1>1, <2>1, <2>2
<1>3. CASE length <= N
  <2> HIDE DEF N
  <2>1. length - 1 \in 0..(N - 1) /\ length \in 0..N /\ (length - 1) + 1 = length
    BY <1>1, <1>2, <1>3
  <2>2. v[length] = B[v[length - 1]].PrevHash /\ v[length] \notin DOMAIN B
    BY <1>1, <1>2, <2>1
  <2> HIDE DEF s
  <2> QED BY <1>1, <1>2, <2>2 DEF s
<1>4. ASSUME length = N + 1 PROVE FALSE
  <2> DEFINE H == [n \in 0..N |-> B[v[n]].Height]
             S == { n \in Nat : n <= N => H[n] = H[0] - n }
             f == [n \in 0..N |-> v[n]]
  <2>1. \A n \in 0..N : v[n] \in DOMAIN B
    <3> HIDE DEF N
    <3> QED BY <1>1, <1>4
  <2>2. ASSUME NEW n \in 0..(N - 1) PROVE H[n + 1] = H[n] - 1
    <3> HIDE DEF N
    <3>1. n \in 0..N /\ n + 1 \in 0..N /\ H[n] = B[v[n]].Height /\ H[n + 1] = B[v[n + 1]].Height
      BY <1>1
    <3>2. v[n] \in DOMAIN B /\ v[n + 1] \in DOMAIN B /\ v[n + 1] = B[v[n]].PrevHash
      BY <1>1, <2>1, <3>1
    <3>3. B[v[n]].Height = B[v[n + 1]].Height + 1 /\ B[v[n + 1]].Height \in Nat
      BY <3>2 DEF Linked
    <3> HIDE DEF H
    <3> QED BY <3>1, <3>3
  <2>3. \A n \in 0..N : H[n] \in Nat
    BY <2>1 DEF Linked
  <2>4. \A n \in Nat : n \in S
    <3> HIDE DEF N, H
    <3>1. 0 \in S
      BY <1>1, <2>3
    <3>2. ASSUME NEW n \in Nat, n \in S PROVE n + 1 \in S
      <4> SUFFICES ASSUME n + 1 <= N PROVE H[n + 1] = H[0] - (n + 1)
        OBVIOUS
      <4>1. H[n] = H[0] - n /\ H[n + 1] = H[n] - 1 /\ H[0] \in Nat
        BY <1>1, <2>2, <2>3, <3>2
      <4> QED BY <4>1
    <3> HIDE DEF S
    <3> QED BY <3>1, <3>2, NatSetInduction
  <2>5. f \in [0..N -> DOMAIN B]
    BY <2>1
  <2>6. IsFiniteSet(0..N) /\ Cardinality(0..N) = N + 1
    <3> HIDE DEF N
    <3> QED BY <1>1, FS_Interval
  <2>7. PICK x, y \in 0..N : x # y /\ f[x] = f[y]
    <3>1. Cardinality(DOMAIN B) < Cardinality(0..N)
      BY <1>1, <2>6
    <3> HIDE DEF f, N
    <3> QED BY <2>5, <2>6, <3>1, FS_PigeonHole
  <2>8. H[x] = H[y]
    BY <2>7
  <2>9. H[x] = H[0] - x /\ H[y] = H[0] - y /\ H[0] \in Nat
    <3> HIDE DEF N, H
    <3> QED BY <1>1, <2>3, <2>4
  <2>10. x \in Nat /\ y \in Nat /\ x # y
    <3> HIDE DEF N
    <3> QED BY <1>1, <2>7
  <2>11. PICK a \in Nat : a - x = a - y
    <3> HIDE DEF H
    <3>1. H[0] - x = H[0] - y
      BY <2>8, <2>9
    <3> QED BY <2>9, <3>1
  <2> HIDE DEF N
  <2> QED BY <2>10, <2>11
<1> HIDE DEF N, s
<1> QED BY <1>1, <1>3, <1>4

----------------------------------------------------------------------------
(* As a set: the branch of t, the least set that has t and the parents.     *)

\* It has t, if t is stored, and stored blocks only.
LEMMA WalkStarts ==
  ASSUME NEW B, NEW t, IsFiniteSet(DOMAIN B), Nil \notin DOMAIN B
  PROVE  /\ ToSet(Iterate(B, t)) \subseteq DOMAIN B
         /\ t \in DOMAIN B => t \in ToSet(Iterate(B, t))
<1>1. PICK s : s = Iterate(B, t)
  OBVIOUS
<1>2. s \in Seq(DOMAIN B) /\ (t \in DOMAIN B => Len(s) >= 1 /\ s[1] = t)
  BY <1>1, IterateChain
<1>3. ToSet(s) \subseteq DOMAIN B
  BY <1>2 DEF ToSet
<1>4. t \in DOMAIN B => t \in ToSet(s)
  BY <1>2 DEF ToSet
<1> QED BY <1>1, <1>3, <1>4

\* Every set with t that has the stored parents of its members contains it.
LEMMA WalkLeast ==
  ASSUME NEW B, NEW t, IsFiniteSet(DOMAIN B), Nil \notin DOMAIN B,
         NEW T, t \in DOMAIN B => t \in T,
         \A h \in T \cap DOMAIN B : B[h].PrevHash \in DOMAIN B => B[h].PrevHash \in T
  PROVE  ToSet(Iterate(B, t)) \subseteq T
<1>1. PICK s : s = Iterate(B, t)
  OBVIOUS
<1>2. /\ s \in Seq(DOMAIN B)
      /\ t \in DOMAIN B => Len(s) >= 1 /\ s[1] = t
      /\ t \notin DOMAIN B => s = <<>>
      /\ \A i \in 1..(Len(s) - 1) : s[i + 1] = B[s[i]].PrevHash
  BY <1>1, IterateChain
<1> DEFINE S == { n \in Nat : n + 1 \in DOMAIN s => s[n + 1] \in T }
<1>3. 0 \in S
  BY <1>2
<1>4. ASSUME NEW n \in Nat, n \in S PROVE n + 1 \in S
  <2> SUFFICES ASSUME (n + 1) + 1 \in DOMAIN s PROVE s[(n + 1) + 1] \in T
    OBVIOUS
  <2>1. n + 1 \in 1..(Len(s) - 1) /\ n + 1 \in DOMAIN s
    BY <1>2
  <2>2. s[n + 1] \in T \cap DOMAIN B /\ s[(n + 1) + 1] = B[s[n + 1]].PrevHash
    BY <1>2, <1>4, <2>1
  <2>3. s[(n + 1) + 1] \in DOMAIN B
    BY <1>2
  <2> QED BY <2>2, <2>3
<1>5. \A n \in Nat : n \in S
  <2> HIDE DEF S
  <2> QED BY <1>3, <1>4, NatSetInduction
<1>6. ASSUME NEW i \in DOMAIN s PROVE s[i] \in T
  <2>1. i - 1 \in Nat /\ (i - 1) + 1 = i
    BY <1>2
  <2>2. i - 1 \in S
    <3> HIDE DEF S
    <3> QED BY <1>5, <2>1
  <2> QED BY <2>1, <2>2
<1> QED BY <1>1, <1>6 DEF ToSet

\* It has the parents of its members, as far as they are stored.
LEMMA WalkGoesOn ==
  ASSUME NEW B, NEW t, IsFiniteSet(DOMAIN B), Nil \notin DOMAIN B, Linked(B),
         NEW h \in ToSet(Iterate(B, t)), B[h].PrevHash \in DOMAIN B
  PROVE  B[h].PrevHash \in ToSet(Iterate(B, t))
<1>1. PICK s : s = Iterate(B, t)
  OBVIOUS
<1>2. /\ s \in Seq(DOMAIN B)
      /\ t \notin DOMAIN B => s = <<>>
      /\ \A i \in 1..(Len(s) - 1) : s[i + 1] = B[s[i]].PrevHash
  BY <1>1, IterateChain
<1>3. PICK i \in DOMAIN s : h = s[i]
  BY <1>1 DEF ToSet
<1>4. i \in 1..Len(s) /\ t \in DOMAIN B
  BY <1>2, <1>3
<1>5. CASE i < Len(s)
  <2>1. i \in 1..(Len(s) - 1) /\ i + 1 \in DOMAIN s
    BY <1>2, <1>4, <1>5
  <2>2. s[i + 1] = B[h].PrevHash
    BY <1>2, <1>3, <2>1
  <2> QED BY <1>1, <2>1, <2>2 DEF ToSet
<1>6. CASE i = Len(s)
  <2>1. B[s[Len(s)]].PrevHash \notin DOMAIN B
    BY <1>1, <1>4, IterateEnds
  <2> QED BY <1>3, <1>6, <2>1
<1> QED BY <1>2, <1>4, <1>5, <1>6

----------------------------------------------------------------------------
(* Lists.                                                                   *)

\* A list, by its elements.
LEMMA Members ==
  ASSUME NEW S, NEW s \in Seq(S)
  PROVE  /\ Len(s) \in Nat /\ DOMAIN s = 1..Len(s) /\ \A i \in 1..Len(s) : s[i] \in S
         /\ \A x : x \in ToSet(s) <=> \E i \in 1..Len(s) : x = s[i]
<1>1. Len(s) \in Nat /\ DOMAIN s = 1..Len(s) /\ \A i \in 1..Len(s) : s[i] \in S
  OBVIOUS
<1> QED BY <1>1 DEF ToSet

\* No element of the list s is there twice.
Distinct(s) == \A i, j \in DOMAIN s : s[i] = s[j] => i = j

\* What s with one element more at its end has.
LEMMA Appended ==
  ASSUME NEW S, NEW s \in Seq(S), NEW x \in S
  PROVE  /\ Append(s, x) \in Seq(S)
         /\ Len(Append(s, x)) = Len(s) + 1
         /\ ToSet(Append(s, x)) = ToSet(s) \cup {x}
         /\ Distinct(s) /\ x \notin ToSet(s) => Distinct(Append(s, x))
<1>0. PICK t : t = Append(s, x)
  OBVIOUS
<1>1. /\ t \in Seq(S) /\ Len(t) = Len(s) + 1 /\ t[Len(t)] = x /\ Len(s) \in Nat
      /\ \A i \in 1..Len(s) : t[i] = s[i]
  BY <1>0
<1>2. /\ \A i \in 1..Len(t) : i \in 1..Len(s) \/ i = Len(t)
      /\ 1..Len(s) \subseteq 1..Len(t) /\ Len(t) \in 1..Len(t)
  BY <1>1
<1>3. \A e : e \in ToSet(t) <=> \E i \in 1..Len(t) : e = t[i]
  BY <1>1, Members
<1>4. \A e : e \in ToSet(s) <=> \E i \in 1..Len(s) : e = s[i]
  BY <1>1, Members
<1>5. ToSet(t) = ToSet(s) \cup {x}
  BY <1>1, <1>2, <1>3, <1>4
<1>6. ASSUME Distinct(s), x \notin ToSet(s) PROVE Distinct(t)
  <2>1. DOMAIN t = 1..Len(t) /\ DOMAIN s = 1..Len(s)
    BY <1>1
  <2>2. \A i \in 1..Len(s) : s[i] # x
    BY <1>4, <1>6
  <2> SUFFICES ASSUME NEW i \in 1..Len(t), NEW j \in 1..Len(t), t[i] = t[j]
               PROVE  i = j
    BY <2>1 DEF Distinct
  <2>3. CASE i \in 1..Len(s) /\ j \in 1..Len(s)
    BY <1>1, <1>6, <2>1, <2>3 DEF Distinct
  <2>4. CASE i \in 1..Len(s) /\ j = Len(t)
    BY <1>1, <2>2, <2>4
  <2>5. CASE i = Len(t) /\ j \in 1..Len(s)
    BY <1>1, <2>2, <2>5
  <2> QED BY <1>2, <2>3, <2>4, <2>5
<1> QED BY <1>0, <1>1, <1>5, <1>6

\* The recursion that Picked makes, for k steps.
IsPicked(s, P, v, k) ==
  v = [i \in 0..k |-> IF i = 0 THEN <<>>
                      ELSE IF i \in P THEN Append(v[i - 1], s[i]) ELSE v[i - 1]]

\* Such a function exists.
LEMMA PickedExists ==
  ASSUME NEW S, NEW s \in Seq(S), NEW P
  PROVE  \E v : IsPicked(s, P, v, Len(s))
<1> DEFINE Step(v, i) == IF i = 0 THEN <<>>
                         ELSE IF i \in P THEN Append(v[i - 1], s[i]) ELSE v[i - 1]
           K == { k \in Nat : \E v : v = [i \in 0..k |-> Step(v, i)] }
<1>1. 0 \in K
  <2>1. PICK v : v = [i \in 0..0 |-> <<>>]
    OBVIOUS
  <2>2. v = [i \in 0..0 |-> Step(v, i)]
    BY <2>1
  <2> QED BY <2>2
<1>2. ASSUME NEW k \in Nat, k \in K PROVE k + 1 \in K
  <2>1. PICK v : v = [i \in 0..k |-> Step(v, i)]
    BY <1>2
  <2>2. PICK w : w = [i \in 0..(k + 1) |-> IF i <= k THEN v[i] ELSE Step(v, k + 1)]
    OBVIOUS
  <2>3. ASSUME NEW i \in 0..(k + 1) PROVE w[i] = Step(w, i)
    <3>1. CASE i = 0
      BY <2>1, <2>2, <3>1
    <3>2. CASE i \in 1..k
      <4>1. w[i] = v[i] /\ w[i - 1] = v[i - 1] /\ i \in 0..k
        BY <2>2, <3>2
      <4>2. v[i] = Step(v, i)
        <5> DEFINE R(e, U) == Step(U, e)
        <5>1. v = [e \in 0..k |-> R(e, v)]
          BY <2>1
        <5> HIDE DEF R
        <5>2. v[i] = R(i, v)
          BY <4>1, <5>1
        <5> QED BY <5>2 DEF R
      <4> QED BY <3>2, <4>1, <4>2
    <3>3. CASE i = k + 1
      <4>1. w[i] = Step(v, k + 1) /\ w[k] = v[k] /\ i - 1 = k
        BY <2>2, <3>3
      <4> QED BY <3>3, <4>1
    <3> QED BY <3>1, <3>2, <3>3
  <2>4. w = [i \in 0..(k + 1) |-> Step(w, i)]
    <3> HIDE DEF Step
    <3>1. w = [i \in 0..(k + 1) |-> w[i]]
      BY <2>2
    <3> QED BY <2>3, <3>1
  <2> HIDE DEF Step
  <2> QED BY <2>4
<1>3. \A k \in Nat : k \in K
  <2> HIDE DEF K
  <2> QED BY <1>1, <1>2, NatSetInduction
<1>4. Len(s) \in K
  <2> HIDE DEF K
  <2> QED BY <1>3
<1> QED BY <1>4 DEF IsPicked

\* What has been picked after k steps.
PickedWell(S, s, P, w, k) ==
  /\ w \in Seq(S)
  /\ ToSet(w) = { s[i] : i \in P \cap (1..k) }
  /\ Distinct(s) => Distinct(w)
  /\ \A p \in Int : (\A i \in 1..Len(s) : i # p => i \in P) =>
       Len(w) >= IF k < p THEN k ELSE k - 1

\* Picked(s, P) has the elements at P; it has all but one when P does.
LEMMA PickedKeeps ==
  ASSUME NEW S, NEW s \in Seq(S), NEW P
  PROVE  /\ Picked(s, P) \in Seq(S)
         /\ ToSet(Picked(s, P)) = { s[i] : i \in P \cap DOMAIN s }
         /\ Distinct(s) => Distinct(Picked(s, P))
         /\ \A p \in Int : (\A i \in 1..Len(s) : i # p => i \in P) =>
              Len(Picked(s, P)) >= Len(s) - 1
<1> DEFINE v == CHOOSE w : IsPicked(s, P, w, Len(s))
<1>1. Picked(s, P) = v[Len(s)]
  BY DEF Picked, IsPicked
<1>2. IsPicked(s, P, v, Len(s))
  BY PickedExists
<1> HIDE DEF v
<1>3. ASSUME NEW i \in 0..Len(s)
      PROVE  v[i] = IF i = 0 THEN <<>>
                    ELSE IF i \in P THEN Append(v[i - 1], s[i]) ELSE v[i - 1]
  <2> DEFINE R(e, U) == IF e = 0 THEN <<>>
                        ELSE IF e \in P THEN Append(U[e - 1], s[e]) ELSE U[e - 1]
  <2>1. v = [e \in 0..Len(s) |-> R(e, v)]
    BY <1>2 DEF IsPicked
  <2> HIDE DEF R
  <2>2. v[i] = R(i, v)
    BY <2>1
  <2> QED BY <2>2 DEF R
<1>4. Len(s) \in Nat /\ DOMAIN s = 1..Len(s) /\ \A i \in 1..Len(s) : s[i] \in S
  OBVIOUS
<1> DEFINE K == { k \in Nat : k <= Len(s) => PickedWell(S, s, P, v[k], k) }
<1>5. 0 \in K
  <2>1. v[0] = <<>>
    BY <1>3, 0 \in 0..Len(s)
  <2>2. PickedWell(S, s, P, <<>>, 0)
    <3>1. <<>> \in Seq(S) /\ DOMAIN <<>> = {} /\ Len(<<>>) = 0
      OBVIOUS
    <3>2. ToSet(<<>>) = {}
      BY <3>1 DEF ToSet
    <3>3. { s[i] : i \in P \cap (1..0) } = {}
      OBVIOUS
    <3>4. Distinct(<<>>)
      BY <3>1 DEF Distinct
    <3> QED BY <3>1, <3>2, <3>3, <3>4 DEF PickedWell
  <2> QED BY <2>1, <2>2
<1>6. ASSUME NEW k \in Nat, k \in K PROVE k + 1 \in K
  <2> SUFFICES ASSUME k + 1 <= Len(s) PROVE PickedWell(S, s, P, v[k + 1], k + 1)
    OBVIOUS
  <2>1. PICK w : w = v[k]
    OBVIOUS
  <2>2. PickedWell(S, s, P, w, k) /\ k + 1 \in 1..Len(s) /\ s[k + 1] \in S
    BY <1>6, <2>1
  <2>3. v[k + 1] = IF k + 1 \in P THEN Append(w, s[k + 1]) ELSE w
    <3>1. k + 1 \in 0..Len(s) /\ k + 1 # 0 /\ (k + 1) - 1 = k
      BY <2>2
    <3> QED BY <1>3, <2>1, <3>1
  <2>4. CASE k + 1 \notin P
    <3>1. v[k + 1] = w
      BY <2>3, <2>4
    <3>2. P \cap (1..(k + 1)) = P \cap (1..k)
      BY <2>4
    <3>3. ASSUME NEW p \in Int, \A i \in 1..Len(s) : i # p => i \in P
          PROVE  Len(w) >= IF k + 1 < p THEN k + 1 ELSE (k + 1) - 1
      <4>1. p = k + 1
        BY <2>2, <2>4, <3>3
      <4>2. Len(w) >= IF k < p THEN k ELSE k - 1
        BY <2>2, <3>3 DEF PickedWell
      <4> QED BY <4>1, <4>2
    <3> QED BY <2>2, <3>1, <3>2, <3>3 DEF PickedWell
  <2>5. CASE k + 1 \in P
    <3>1. PICK x : x = Append(w, s[k + 1])
      OBVIOUS
    <3>2. w \in Seq(S)
      BY <2>2 DEF PickedWell
    <3>3. /\ x \in Seq(S) /\ Len(x) = Len(w) + 1
          /\ ToSet(x) = ToSet(w) \cup {s[k + 1]}
          /\ Distinct(w) /\ s[k + 1] \notin ToSet(w) => Distinct(x)
      <4>1. PICK y : y = s[k + 1]
        OBVIOUS
      <4>2. y \in S /\ x = Append(w, y)
        BY <2>2, <3>1, <4>1
      <4>3. /\ x \in Seq(S) /\ Len(x) = Len(w) + 1
            /\ ToSet(x) = ToSet(w) \cup {y}
            /\ Distinct(w) /\ y \notin ToSet(w) => Distinct(x)
        <5>1. /\ Append(w, y) \in Seq(S) /\ Len(Append(w, y)) = Len(w) + 1
              /\ ToSet(Append(w, y)) = ToSet(w) \cup {y}
              /\ Distinct(w) /\ y \notin ToSet(w) => Distinct(Append(w, y))
          <6> HIDE DEF K
          <6> QED BY <3>2, <4>2, Appended
        <5> QED BY <4>2, <5>1
      <4> QED BY <4>1, <4>3
    <3>4. ToSet(x) = { s[i] : i \in P \cap (1..(k + 1)) }
      <4>1. P \cap (1..(k + 1)) = (P \cap (1..k)) \cup {k + 1}
        BY <2>5
      <4> QED BY <2>2, <3>3, <4>1 DEF PickedWell
    <3>5. ASSUME Distinct(s) PROVE Distinct(x)
      <4>1. Distinct(w)
        BY <2>2, <3>5 DEF PickedWell
      <4>2. s[k + 1] \notin ToSet(w)
        <5> SUFFICES ASSUME NEW i \in 1..k, s[i] = s[k + 1] PROVE FALSE
          BY <2>2 DEF PickedWell
        <5>1. i \in DOMAIN s /\ k + 1 \in DOMAIN s /\ i # k + 1
          BY <1>4, <2>2
        <5> QED BY <3>5, <5>1 DEF Distinct
      <4> QED BY <3>3, <4>1, <4>2
    <3>6. ASSUME NEW p \in Int, \A i \in 1..Len(s) : i # p => i \in P
          PROVE  Len(x) >= IF k + 1 < p THEN k + 1 ELSE (k + 1) - 1
      <4>1. Len(w) >= IF k < p THEN k ELSE k - 1
        BY <2>2, <3>6 DEF PickedWell
      <4>2. Len(w) \in Nat
        BY <3>2
      <4> QED BY <3>3, <4>1, <4>2
    <3>7. v[k + 1] = x
      BY <2>3, <2>5, <3>1
    <3> QED BY <3>3, <3>4, <3>5, <3>6, <3>7 DEF PickedWell
  <2> QED BY <2>4, <2>5
<1>7. PickedWell(S, s, P, v[Len(s)], Len(s))
  <2>1. \A k \in Nat : k \in K
    <3> HIDE DEF K
    <3> QED BY <1>5, <1>6, NatSetInduction
  <2>2. Len(s) \in K
    <3> HIDE DEF K
    <3> QED BY <1>4, <2>1
  <2> QED BY <2>2
<1>8. ASSUME NEW p \in Int, \A i \in 1..Len(s) : i # p => i \in P
      PROVE  Len(v[Len(s)]) >= Len(s) - 1
  <2>1. Len(v[Len(s)]) >= IF Len(s) < p THEN Len(s) ELSE Len(s) - 1
    BY <1>7, <1>8 DEF PickedWell
  <2> QED BY <1>4, <2>1
<1>9. { s[i] : i \in P \cap (1..Len(s)) } = { s[i] : i \in P \cap DOMAIN s }
  BY <1>4
<1> QED BY <1>1, <1>7, <1>8, <1>9 DEF PickedWell

\* What the list u has besides those of the list s, both in one list.
LEMMA Joined ==
  ASSUME NEW S, NEW s \in Seq(S), NEW u \in Seq(S)
  PROVE  /\ s \o u \in Seq(S)
         /\ ToSet(s \o u) = ToSet(s) \cup ToSet(u)
         /\ s = <<>> => s \o u = u
         /\ u = <<>> => s \o u = s
         /\ Distinct(s) /\ Distinct(u) /\ ToSet(s) \cap ToSet(u) = {} => Distinct(s \o u)
<1>0. PICK t : t = s \o u
  OBVIOUS
<1>1. /\ t \in Seq(S) /\ Len(t) = Len(s) + Len(u) /\ Len(s) \in Nat /\ Len(u) \in Nat
      /\ \A i \in 1..Len(s) : t[i] = s[i]
      /\ \A i \in 1..Len(u) : t[Len(s) + i] = u[i]
  BY <1>0
<1>2. \A i \in 1..Len(t) : i \in 1..Len(s) \/ (i - Len(s) \in 1..Len(u) /\ t[i] = u[i - Len(s)])
  <2> TAKE i \in 1..Len(t)
  <2>1. CASE i > Len(s)
    <3>1. i - Len(s) \in 1..Len(u) /\ Len(s) + (i - Len(s)) = i
      BY <1>1, <2>1
    <3> QED BY <1>1, <3>1
  <2>2. CASE i <= Len(s)
    BY <1>1, <2>2
  <2> QED BY <1>1, <2>1, <2>2
<1>3. /\ \A i \in 1..Len(s) : i \in 1..Len(t)
      /\ \A i \in 1..Len(u) : Len(s) + i \in 1..Len(t)
  BY <1>1
<1>4. \A e : e \in ToSet(t) <=> \E i \in 1..Len(t) : e = t[i]
  BY <1>1, Members
<1>5. \A e : e \in ToSet(s) <=> \E i \in 1..Len(s) : e = s[i]
  BY <1>1, Members
<1>6. \A e : e \in ToSet(u) <=> \E i \in 1..Len(u) : e = u[i]
  BY <1>1, Members
<1>7. ToSet(t) = ToSet(s) \cup ToSet(u)
  <2>1. ASSUME NEW e \in ToSet(t) PROVE e \in ToSet(s) \cup ToSet(u)
    <3>1. PICK i \in 1..Len(t) : e = t[i]
      BY <1>4, <2>1
    <3> QED BY <1>1, <1>2, <1>5, <1>6, <3>1
  <2>2. ASSUME NEW e \in ToSet(s) PROVE e \in ToSet(t)
    <3>1. PICK i \in 1..Len(s) : e = s[i]
      BY <1>5, <2>2
    <3> QED BY <1>1, <1>3, <1>4, <3>1
  <2>3. ASSUME NEW e \in ToSet(u) PROVE e \in ToSet(t)
    <3>1. PICK i \in 1..Len(u) : e = u[i]
      BY <1>6, <2>3
    <3>2. e = t[Len(s) + i] /\ Len(s) + i \in 1..Len(t)
      BY <1>1, <1>3, <3>1
    <3> QED BY <1>4, <3>2
  <2> QED BY <2>1, <2>2, <2>3
<1>8. ASSUME Distinct(s), Distinct(u), ToSet(s) \cap ToSet(u) = {} PROVE Distinct(t)
  <2>1. DOMAIN t = 1..Len(t) /\ DOMAIN s = 1..Len(s) /\ DOMAIN u = 1..Len(u)
    BY <1>1
  <2> SUFFICES ASSUME NEW i \in 1..Len(t), NEW j \in 1..Len(t), t[i] = t[j]
               PROVE  i = j
    BY <2>1 DEF Distinct
  <2>2. CASE i \in 1..Len(s) /\ j \in 1..Len(s)
    BY <1>1, <1>8, <2>1, <2>2 DEF Distinct
  <2>3. CASE i \in 1..Len(s) /\ j \notin 1..Len(s)
    BY <1>1, <1>2, <1>5, <1>6, <1>8, <2>3
  <2>4. CASE i \notin 1..Len(s) /\ j \in 1..Len(s)
    BY <1>1, <1>2, <1>5, <1>6, <1>8, <2>4
  <2>5. CASE i \notin 1..Len(s) /\ j \notin 1..Len(s)
    <3>1. i - Len(s) \in DOMAIN u /\ j - Len(s) \in DOMAIN u
          /\ u[i - Len(s)] = u[j - Len(s)]
      BY <1>2, <2>1, <2>5
    <3>2. i - Len(s) = j - Len(s)
      BY <1>8, <3>1 DEF Distinct
    <3> QED BY <1>1, <3>2
  <2> QED BY <2>2, <2>3, <2>4, <2>5
<1>9. s = <<>> => t = u
  BY <1>0
<1>10. u = <<>> => t = s
  BY <1>0
<1> QED BY <1>0, <1>1, <1>7, <1>8, <1>9, <1>10

\* The recursion that FlattenSeq makes, for k lists.
IsFlat(seqs, v, k) ==
  v = [i \in 1..k |-> IF i = 1 THEN seqs[i] ELSE v[i - 1] \o seqs[i]]

\* Such a function exists.
LEMMA FlatExists ==
  ASSUME NEW seqs, NEW N \in Nat
  PROVE  \E v : IsFlat(seqs, v, N)
<1> DEFINE Step(v, i) == IF i = 1 THEN seqs[i] ELSE v[i - 1] \o seqs[i]
           K == { k \in Nat : \E v : v = [i \in 1..k |-> Step(v, i)] }
<1>1. 0 \in K
  <2>1. PICK v : v = [i \in 1..0 |-> <<>>]
    OBVIOUS
  <2>2. v = [i \in 1..0 |-> Step(v, i)]
    <3> HIDE DEF Step
    <3> QED BY <2>1
  <2> QED BY <2>2
<1>2. ASSUME NEW k \in Nat, k \in K PROVE k + 1 \in K
  <2>1. PICK v : v = [i \in 1..k |-> Step(v, i)]
    BY <1>2
  <2>2. PICK w : w = [i \in 1..(k + 1) |-> IF i <= k THEN v[i] ELSE Step(v, k + 1)]
    OBVIOUS
  <2>3. ASSUME NEW i \in 1..(k + 1) PROVE w[i] = Step(w, i)
    <3>1. CASE i \in 1..k
      <4>1. w[i] = v[i] /\ (i # 1 => w[i - 1] = v[i - 1])
        BY <2>2, <3>1
      <4>2. v[i] = Step(v, i)
        <5> DEFINE R(e, U) == Step(U, e)
        <5>1. v = [e \in 1..k |-> R(e, v)]
          BY <2>1
        <5> HIDE DEF R
        <5>2. v[i] = R(i, v)
          BY <3>1, <5>1
        <5> QED BY <5>2 DEF R
      <4> QED BY <3>1, <4>1, <4>2
    <3>2. CASE i = k + 1
      <4>1. w[i] = Step(v, k + 1) /\ (k # 0 => w[k] = v[k]) /\ i - 1 = k
        BY <2>2, <3>2
      <4> QED BY <3>2, <4>1
    <3> QED BY <3>1, <3>2
  <2>4. w = [i \in 1..(k + 1) |-> Step(w, i)]
    <3> HIDE DEF Step
    <3>1. w = [i \in 1..(k + 1) |-> w[i]]
      BY <2>2
    <3> QED BY <2>3, <3>1
  <2> HIDE DEF Step
  <2> QED BY <2>4
<1>3. N \in K
  <2> HIDE DEF K
  <2> QED BY <1>1, <1>2, NatSetInduction
<1> QED BY <1>3 DEF IsFlat

\* The first k lists of seqs, flattened.
FlatWell(S, seqs, w, k) ==
  /\ w \in Seq(S)
  /\ ToSet(w) = UNION { ToSet(seqs[i]) : i \in 1..k }
  /\ (\A i \in 1..k : Distinct(seqs[i])) /\
     (\A i, j \in 1..k : i # j => ToSet(seqs[i]) \cap ToSet(seqs[j]) = {}) => Distinct(w)
  /\ (\A i \in 1..k : seqs[i] = <<>>) => w = <<>>
  /\ \A m \in 1..k : (\A i \in 1..k : i # m => seqs[i] = <<>>) => w = seqs[m]

\* FlattenSeq has what the lists have; when all but one are empty it is that one.
LEMMA FlattenKeeps ==
  ASSUME NEW S, NEW seqs \in Seq(Seq(S))
  PROVE  FlatWell(S, seqs, FlattenSeq(seqs), Len(seqs))
<1>0. Len(seqs) \in Nat /\ DOMAIN seqs = 1..Len(seqs) /\ \A i \in 1..Len(seqs) : seqs[i] \in Seq(S)
  OBVIOUS
<1>1. CASE Len(seqs) = 0
  <2>1. seqs = <<>> /\ FlattenSeq(seqs) = seqs
    BY <1>1 DEF FlattenSeq
  <2>2. <<>> \in Seq(S) /\ DOMAIN <<>> = {}
    OBVIOUS
  <2>3. ToSet(<<>>) = {} /\ Distinct(<<>>)
    BY <2>2 DEF ToSet, Distinct
  <2>4. 1..0 = {} /\ UNION { ToSet(seqs[i]) : i \in {} } = {}
    OBVIOUS
  <2>5. FlatWell(S, seqs, <<>>, 0)
    BY <2>2, <2>3, <2>4 DEF FlatWell
  <2> QED BY <1>1, <2>1, <2>5
<1>2. CASE Len(seqs) # 0
  <2> DEFINE v == CHOOSE w : IsFlat(seqs, w, Len(seqs))
  <2>1. FlattenSeq(seqs) = v[Len(seqs)]
    BY <1>2 DEF FlattenSeq, IsFlat
  <2>2. IsFlat(seqs, v, Len(seqs))
    BY <1>0, FlatExists
  <2> HIDE DEF v
  <2>3. ASSUME NEW i \in 1..Len(seqs)
        PROVE  v[i] = IF i = 1 THEN seqs[i] ELSE v[i - 1] \o seqs[i]
    <3> DEFINE R(e, U) == IF e = 1 THEN seqs[e] ELSE U[e - 1] \o seqs[e]
    <3>1. v = [e \in 1..Len(seqs) |-> R(e, v)]
      BY <2>2 DEF IsFlat
    <3> HIDE DEF R
    <3>2. v[i] = R(i, v)
      BY <3>1
    <3> QED BY <3>2 DEF R
  <2> DEFINE K == { k \in Nat : k + 1 <= Len(seqs) => FlatWell(S, seqs, v[k + 1], k + 1) }
  <2>4. 0 \in K
    <3> SUFFICES FlatWell(S, seqs, v[1], 1)
      OBVIOUS
    <3>1. PICK w : w = seqs[1]
      OBVIOUS
    <3>2. v[1] = w /\ w \in Seq(S)
      BY <1>0, <1>2, <2>3, <3>1
    <3>3. 1..1 = {1}
      OBVIOUS
    <3> QED BY <3>1, <3>2, <3>3 DEF FlatWell
  <2>5. ASSUME NEW k \in Nat, k \in K PROVE k + 1 \in K
    <3> SUFFICES ASSUME (k + 1) + 1 <= Len(seqs)
                 PROVE  FlatWell(S, seqs, v[(k + 1) + 1], (k + 1) + 1)
      OBVIOUS
    <3> DEFINE n == k + 1
    <3>1. PICK w : w = v[n]
      OBVIOUS
    <3>2. PICK u : u = seqs[n + 1]
      OBVIOUS
    <3>3. FlatWell(S, seqs, w, n) /\ u \in Seq(S) /\ n \in Nat \ {0} /\ n + 1 \in 1..Len(seqs)
      BY <1>0, <2>5, <3>1, <3>2
    <3>4. v[n + 1] = w \o u
      <4>1. n + 1 # 1 /\ (n + 1) - 1 = n
        BY <3>3
      <4> QED BY <2>3, <3>1, <3>2, <3>3, <4>1
    <3>5. w \in Seq(S) /\ ToSet(w) = UNION { ToSet(seqs[i]) : i \in 1..n }
      BY <3>3 DEF FlatWell
    <3>6. /\ w \o u \in Seq(S)
          /\ ToSet(w \o u) = ToSet(w) \cup ToSet(u)
          /\ w = <<>> => w \o u = u
          /\ u = <<>> => w \o u = w
          /\ Distinct(w) /\ Distinct(u) /\ ToSet(w) \cap ToSet(u) = {} => Distinct(w \o u)
      BY <3>3, <3>5, Joined
    <3> HIDE DEF n, K
    <3>7. PICK t : t = w \o u
      OBVIOUS
    <3>8. 1..(n + 1) = (1..n) \cup {n + 1} /\ n + 1 \notin 1..n
      BY <3>3
    <3>9. ToSet(t) = UNION { ToSet(seqs[i]) : i \in 1..(n + 1) }
      BY <3>2, <3>5, <3>6, <3>7, <3>8
    <3>10. ASSUME \A i \in 1..(n + 1) : Distinct(seqs[i]),
                  \A i, j \in 1..(n + 1) : i # j => ToSet(seqs[i]) \cap ToSet(seqs[j]) = {}
           PROVE  Distinct(t)
      <4>1. Distinct(w)
        BY <3>3, <3>8, <3>10 DEF FlatWell
      <4>2. Distinct(u)
        BY <3>2, <3>8, <3>10
      <4>3. ASSUME NEW e \in ToSet(w), e \in ToSet(u) PROVE FALSE
        <5>1. PICK i \in 1..n : e \in ToSet(seqs[i])
          BY <3>5
        <5>2. ToSet(seqs[i]) \cap ToSet(u) = {}
          BY <3>2, <3>8, <3>10
        <5> QED BY <4>3, <5>1, <5>2
      <4> QED BY <3>6, <3>7, <4>1, <4>2, <4>3
    <3>11. ASSUME \A i \in 1..(n + 1) : seqs[i] = <<>> PROVE t = <<>>
      <4>1. w = <<>>
        BY <3>3, <3>8, <3>11 DEF FlatWell
      <4>2. u = <<>>
        BY <3>2, <3>8, <3>11
      <4> QED BY <3>6, <3>7, <4>1, <4>2
    <3>12. ASSUME NEW m \in 1..(n + 1), \A i \in 1..(n + 1) : i # m => seqs[i] = <<>>
           PROVE  t = seqs[m]
      <4>1. CASE m = n + 1
        <5>1. w = <<>>
          BY <3>3, <3>8, <3>12, <4>1 DEF FlatWell
        <5> QED BY <3>2, <3>6, <3>7, <4>1, <5>1
      <4>2. CASE m \in 1..n
        <5>1. w = seqs[m]
          BY <3>3, <3>8, <3>12, <4>2 DEF FlatWell
        <5>2. u = <<>>
          BY <3>2, <3>8, <3>12, <4>2
        <5> QED BY <3>6, <3>7, <5>1, <5>2
      <4> QED BY <3>8, <4>1, <4>2
    <3>13. FlatWell(S, seqs, t, n + 1)
      BY <3>6, <3>7, <3>9, <3>10, <3>11, <3>12 DEF FlatWell
    <3> QED BY <3>4, <3>7, <3>13 DEF n
  <2>6. FlatWell(S, seqs, v[Len(seqs)], Len(seqs))
    <3>1. \A k \in Nat : k \in K
      <4> HIDE DEF K
      <4> QED BY <2>4, <2>5, NatSetInduction
    <3>2. Len(seqs) - 1 \in Nat /\ (Len(seqs) - 1) + 1 = Len(seqs)
      BY <1>0, <1>2
    <3>3. Len(seqs) - 1 \in K
      <4> HIDE DEF K
      <4> QED BY <3>1, <3>2
    <3> QED BY <3>2, <3>3
  <2> QED BY <2>1, <2>6
<1> QED BY <1>1, <1>2

----------------------------------------------------------------------------
(* What a payment draws from the index.                                     *)

\* The outputs of an index with their places, as FindSpendableOutputs has them.
Places(index) ==
  UNION { { [ID |-> id, Out |-> i - 1, Output |-> index[id][i]] : i \in 1..Len(index[id]) } :
            id \in DOMAIN index }

Lists(index) == \A id \in DOMAIN index : index[id] \in Seq(ToSet(index[id]))

\* The inputs name outputs of the index by their place in it, each once.
Draws(inputs, index) ==
  /\ inputs \in Seq(ToSet(inputs))
  /\ \A i \in DOMAIN inputs : /\ inputs[i].ID \in DOMAIN index
                              /\ inputs[i].Out \in 0..(Len(index[inputs[i].ID]) - 1)
  /\ \A i, j \in DOMAIN inputs :
       inputs[i].ID = inputs[j].ID /\ inputs[i].Out = inputs[j].Out => i = j

\* A place is in an entry.
LEMMA PlaceFields ==
  ASSUME NEW index, Lists(index), NEW o \in Places(index)
  PROVE  /\ o.ID \in DOMAIN index /\ o.Out \in Nat /\ o.Out < Len(index[o.ID])
         /\ o = [ID |-> o.ID, Out |-> o.Out, Output |-> index[o.ID][o.Out + 1]]
<1>0. PICK id \in DOMAIN index :
        o \in { [ID |-> id, Out |-> i - 1, Output |-> index[id][i]] : i \in 1..Len(index[id]) }
  BY DEF Places
<1>1. PICK i \in 1..Len(index[id]) : o = [ID |-> id, Out |-> i - 1, Output |-> index[id][i]]
  BY <1>0
<1>2. o.ID = id /\ o.Out = i - 1 /\ (i - 1) + 1 = i /\ i - 1 \in Nat
  BY <1>1
<1>3. Len(index[id]) \in Nat
  BY DEF Lists
<1>4. o.Out < Len(index[o.ID])
  BY <1>2, <1>3
<1> QED BY <1>1, <1>2, <1>4

\* A list is a list of its elements.
LEMMA ListOf ==
  ASSUME NEW S, NEW s \in Seq(S)
  PROVE  s \in Seq(ToSet(s))
<1>1. Len(s) \in Nat /\ s = [i \in 1..Len(s) |-> s[i]] /\ \A i \in 1..Len(s) : s[i] \in ToSet(s)
  BY Members
<1> QED BY <1>1

\* One entry with its places.
LEMMA EntryPlaces ==
  ASSUME NEW index, Lists(index), NEW id \in DOMAIN index, NEW e,
         e = [i \in DOMAIN index[id] |-> [ID |-> id, Out |-> i - 1, Output |-> index[id][i]]]
  PROVE  e \in Seq(Places(index)) /\ Distinct(e) /\ \A o \in ToSet(e) : o.ID = id
<1>1. PICK n \in Nat : n = Len(index[id]) /\ DOMAIN index[id] = 1..n
  BY DEF Lists
<1>2. ASSUME NEW i \in 1..n PROVE e[i] \in Places(index)
  BY <1>1 DEF Places
<1>3. e \in Seq(Places(index)) /\ DOMAIN e = 1..n
  BY <1>1, <1>2
<1>4. Distinct(e)
  <2> SUFFICES ASSUME NEW i \in 1..n, NEW j \in 1..n, e[i] = e[j] PROVE i = j
    BY <1>3 DEF Distinct
  <2>1. e[i].Out = i - 1 /\ e[j].Out = j - 1
    BY <1>1
  <2> QED BY <2>1
<1>5. \A o \in ToSet(e) : o.ID = id
  BY <1>1 DEF ToSet
<1> QED BY <1>3, <1>4, <1>5

\* The map that FindSpendableOutputs returns: of each id some outputs, each once.
Selects(of, index) ==
  /\ IsFiniteSet(DOMAIN of)
  /\ \A id \in DOMAIN of :
       /\ of[id] \in Seq(Places(index)) /\ Distinct(of[id])
       /\ \A o \in ToSet(of[id]) : o.ID = id

\* FindSpendableOutputs takes of each id some outputs, each once.
LEMMA SpendableSelects ==
  ASSUME NEW index, Lists(index), NEW owner, NEW amount,
         NEW order \in Seq(DOMAIN index), Distinct(order)
  PROVE  Selects(FindSpendableOutputs(index, owner, amount, order).unspentOuts, index)
<1> DEFINE entry(id) == [i \in DOMAIN index[id] |->
             [ID |-> id, Out |-> i - 1, Output |-> index[id][i]]]
           seqs == [k \in DOMAIN order |-> entry(order[k])]
           outs == FlattenSeq(seqs)
           X == Places(index)
<1>1. Len(order) \in Nat /\ DOMAIN order = 1..Len(order)
      /\ \A k \in 1..Len(order) : order[k] \in DOMAIN index
  OBVIOUS
<1>2. ASSUME NEW k \in 1..Len(order)
      PROVE  seqs[k] \in Seq(X) /\ Distinct(seqs[k]) /\ \A o \in ToSet(seqs[k]) : o.ID = order[k]
  <2>1. PICK e : e = entry(order[k])
    OBVIOUS
  <2>2. order[k] \in DOMAIN index /\ seqs[k] = e
    BY <1>1, <2>1
  <2>3. e \in Seq(X) /\ Distinct(e) /\ \A o \in ToSet(e) : o.ID = order[k]
    <3> HIDE DEF seqs, X
    <3>1. PICK id \in DOMAIN index : id = order[k]
      BY <2>2
    <3>2. e = entry(id)
      BY <2>1, <3>1
    <3> QED BY <3>1, <3>2, EntryPlaces DEF X
  <2> HIDE DEF seqs, X
  <2> QED BY <2>2, <2>3
<1>3. seqs \in Seq(Seq(X)) /\ Len(seqs) = Len(order)
  <2>1. DOMAIN seqs = 1..Len(order) /\ seqs = [k \in 1..Len(order) |-> seqs[k]]
    BY <1>1
  <2> HIDE DEF seqs, X
  <2> QED BY <1>1, <1>2, <2>1
<1>4. \A k, l \in 1..Len(order) : k # l => ToSet(seqs[k]) \cap ToSet(seqs[l]) = {}
  <2> HIDE DEF seqs
  <2> SUFFICES ASSUME NEW k \in 1..Len(order), NEW l \in 1..Len(order), k # l,
                      NEW o \in ToSet(seqs[k]), o \in ToSet(seqs[l])
               PROVE  FALSE
    OBVIOUS
  <2>1. order[k] = order[l]
    BY <1>2
  <2> QED BY <1>1, <2>1 DEF Distinct
<1>5. outs \in Seq(X) /\ Distinct(outs)
  <2>1. FlatWell(X, seqs, outs, Len(seqs))
    <3> HIDE DEF seqs, X
    <3> QED BY <1>3, FlattenKeeps
  <2> HIDE DEF seqs, X, outs
  <2> QED BY <1>2, <1>3, <1>4, <2>1 DEF FlatWell
<1> HIDE DEF outs, seqs, X
<1> DEFINE mine == { n \in DOMAIN outs : outs[n].Output.PubKeyHash = owner }
           total == CHOOSE total : total = [n \in 0..Len(outs) |->
             IF n = 0 THEN 0
             ELSE IF n \in mine /\ total[n - 1] < amount
                  THEN total[n - 1] + outs[n].Output.Value
                  ELSE total[n - 1]]
           taken == { n \in mine : total[n - 1] < amount }
           of == [id \in { outs[n].ID : n \in taken } |->
                    Picked(outs, { n \in taken : outs[n].ID = id })]
<1>6. FindSpendableOutputs(index, owner, amount, order).unspentOuts = of
  BY DEF FindSpendableOutputs, outs, seqs
<1>7. taken \subseteq DOMAIN outs
  OBVIOUS
<1> HIDE DEF taken
<1>8. IsFiniteSet(DOMAIN of)
  <2>1. IsFiniteSet(taken)
    <3>1. Len(outs) \in Nat /\ DOMAIN outs = 1..Len(outs)
      BY <1>5
    <3>2. IsFiniteSet(1..Len(outs))
      BY <3>1, FS_Interval
    <3> QED BY <1>7, <3>1, <3>2, FS_Subset
  <2> DEFINE f == [n \in taken |-> outs[n].ID]
             T == { outs[n].ID : n \in taken }
  <2>2. f \in Surjection(taken, T)
    BY DEF Surjection
  <2> HIDE DEF f, T
  <2>3. IsFiniteSet(T)
    BY <2>1, <2>2, FS_Surjection
  <2> QED BY <2>3 DEF T
<1>9. ASSUME NEW id \in DOMAIN of
      PROVE  /\ of[id] \in Seq(X) /\ Distinct(of[id])
             /\ \A o \in ToSet(of[id]) : o.ID = id
  <2>1. PICK P : P = { n \in taken : outs[n].ID = id }
    OBVIOUS
  <2>2. of[id] = Picked(outs, P)
    BY <2>1
  <2>3. /\ Picked(outs, P) \in Seq(X) /\ Distinct(Picked(outs, P))
        /\ ToSet(Picked(outs, P)) = { outs[i] : i \in P \cap DOMAIN outs }
    <3> HIDE DEF of
    <3> QED BY <1>5, PickedKeeps
  <2>4. \A o \in ToSet(Picked(outs, P)) : o.ID = id
    BY <2>1, <2>3
  <2> HIDE DEF of
  <2> QED BY <2>2, <2>3, <2>4
<1> HIDE DEF of
<1> QED BY <1>6, <1>8, <1>9 DEF Selects, X

\* A payment draws on the index that its outputs were selected from.
LEMMA PaymentDraws ==
  ASSUME NEW index, Lists(index), NEW from, NEW to, NEW amount, NEW verifies,
         NEW spendable, Selects(spendable.unspentOuts, index),
         NEW mapOrder \in SetToSeqs(DOMAIN spendable.unspentOuts)
  PROVE  LET tx == NewTransaction(from, to, amount, spendable, mapOrder, verifies)
         IN  /\ Draws(tx.Inputs, index)
             /\ \A i \in DOMAIN tx.Inputs : tx.Inputs[i].PubKey = from
             /\ tx.Outputs \in Seq(ToSet(tx.Outputs)) /\ tx.Outputs # <<>>
<1> DEFINE of == spendable.unspentOuts
           X == Places(index)
           seqs == [k \in DOMAIN mapOrder |-> of[mapOrder[k]]]
           chosen == FlattenSeq(seqs)
           inputs == [i \in DOMAIN chosen |->
                        [ID |-> chosen[i].ID, Out |-> chosen[i].Out, PubKey |-> from]]
           outputs == << [Value |-> amount, PubKeyHash |-> to] >> \o
                      IF spendable.accumulated > amount
                      THEN << [Value |-> spendable.accumulated - amount,
                               PubKeyHash |-> from] >>
                      ELSE <<>>
           tx == NewTransaction(from, to, amount, spendable, mapOrder, verifies)
<1>1. PICK N \in Nat : N = Cardinality(DOMAIN of)
  BY FS_CardinalityType DEF Selects
<1>2. /\ mapOrder \in [1..N -> DOMAIN of]
      /\ \A i, j \in 1..N : i # j => mapOrder[i] # mapOrder[j]
  BY <1>1 DEF SetToSeqs
<1>3. ASSUME NEW k \in 1..N
      PROVE  seqs[k] \in Seq(X) /\ Distinct(seqs[k]) /\ \A o \in ToSet(seqs[k]) : o.ID = mapOrder[k]
  <2>1. seqs[k] = of[mapOrder[k]] /\ mapOrder[k] \in DOMAIN of
    BY <1>2
  <2> HIDE DEF seqs
  <2> QED BY <2>1 DEF Selects
<1>4. seqs \in Seq(Seq(X)) /\ Len(seqs) = N
  <2>1. DOMAIN seqs = 1..N /\ seqs = [k \in 1..N |-> seqs[k]]
    BY <1>2
  <2> HIDE DEF seqs, X
  <2> QED BY <1>3, <2>1
<1>5. \A k, l \in 1..N : k # l => ToSet(seqs[k]) \cap ToSet(seqs[l]) = {}
  <2> HIDE DEF seqs
  <2> SUFFICES ASSUME NEW k \in 1..N, NEW l \in 1..N, k # l,
                      NEW o \in ToSet(seqs[k]), o \in ToSet(seqs[l])
               PROVE  FALSE
    OBVIOUS
  <2> QED BY <1>2, <1>3
<1>6. chosen \in Seq(X) /\ Distinct(chosen)
  <2>1. FlatWell(X, seqs, chosen, Len(seqs))
    <3> HIDE DEF seqs, X
    <3> QED BY <1>4, FlattenKeeps
  <2> HIDE DEF seqs, X, chosen
  <2> QED BY <1>3, <1>4, <1>5, <2>1 DEF FlatWell
<1>7. tx.Inputs = inputs /\ tx.Outputs = outputs
  BY DEF NewTransaction
<1> HIDE DEF chosen, seqs, X
<1>8. PICK n \in Nat : n = Len(chosen) /\ DOMAIN chosen = 1..n
  BY <1>6
<1>9. ASSUME NEW i \in 1..n
      PROVE  /\ inputs[i].ID = chosen[i].ID /\ inputs[i].Out = chosen[i].Out
             /\ inputs[i].PubKey = from
             /\ chosen[i] \in X
  BY <1>6, <1>8
<1>10. inputs \in Seq(ToSet(inputs)) /\ DOMAIN inputs = 1..n
  <2>1. DOMAIN inputs = 1..n /\ inputs = [i \in 1..n |-> inputs[i]]
    BY <1>8
  <2> HIDE DEF inputs
  <2>2. \A i \in 1..n : inputs[i] \in ToSet(inputs)
    BY <2>1 DEF ToSet
  <2> QED BY <2>1, <2>2
<1> HIDE DEF inputs
<1>11. Draws(inputs, index)
  <2>1. ASSUME NEW i \in 1..n
        PROVE  /\ inputs[i].ID \in DOMAIN index
               /\ inputs[i].Out \in 0..(Len(index[inputs[i].ID]) - 1)
    <3>1. PICK o \in Places(index) : o = chosen[i]
      BY <1>9 DEF X
    <3>2. o.ID \in DOMAIN index /\ o.Out \in Nat /\ o.Out < Len(index[o.ID])
      BY PlaceFields
    <3>3. Len(index[o.ID]) \in Nat
      BY <3>2 DEF Lists
    <3>4. o.Out \in 0..(Len(index[o.ID]) - 1)
      BY <3>2, <3>3
    <3> QED BY <1>9, <3>1, <3>2, <3>4
  <2>2. ASSUME NEW i \in 1..n, NEW j \in 1..n,
               inputs[i].ID = inputs[j].ID, inputs[i].Out = inputs[j].Out
        PROVE  i = j
    <3>1. PICK o \in Places(index) : o = chosen[i]
      BY <1>9 DEF X
    <3>2. PICK u \in Places(index) : u = chosen[j]
      BY <1>9 DEF X
    <3>3. o.ID = u.ID /\ o.Out = u.Out
      BY <1>9, <2>2, <3>1, <3>2
    <3>4. /\ o = [ID |-> o.ID, Out |-> o.Out, Output |-> index[o.ID][o.Out + 1]]
          /\ u = [ID |-> u.ID, Out |-> u.Out, Output |-> index[u.ID][u.Out + 1]]
      BY PlaceFields
    <3>5. o = u
      BY <3>3, <3>4
    <3> QED BY <1>6, <1>8, <3>1, <3>2, <3>5 DEF Distinct
  <2> QED BY <1>10, <2>1, <2>2 DEF Draws
<1>12. outputs \in Seq(ToSet(outputs)) /\ outputs # <<>>
  <2>1. PICK a : a = [Value |-> amount, PubKeyHash |-> to]
    OBVIOUS
  <2>2. PICK b : b = [Value |-> spendable.accumulated - amount, PubKeyHash |-> from]
    OBVIOUS
  <2>3. outputs = <<a>> \o IF spendable.accumulated > amount THEN <<b>> ELSE <<>>
    BY <2>1, <2>2
  <2> HIDE DEF outputs
  <2>4. PICK rest : /\ rest = IF spendable.accumulated > amount THEN <<b>> ELSE <<>>
                    /\ outputs = <<a>> \o rest
    BY <2>3
  <2>5. rest \in Seq({a, b})
    <3>1. <<b>> \in Seq({a, b}) /\ <<>> \in Seq({a, b})
      OBVIOUS
    <3> QED BY <2>4, <3>1
  <2>6. <<a>> \in Seq({a, b}) /\ Len(<<a>>) = 1
    OBVIOUS
  <2>7. outputs \in Seq({a, b}) /\ Len(outputs) = 1 + Len(rest)
    BY <2>4, <2>5, <2>6
  <2>8. outputs # <<>>
    BY <2>5, <2>7
  <2> QED BY <2>7, <2>8, ListOf
<1> QED BY <1>7, <1>8, <1>9, <1>10, <1>11, <1>12

----------------------------------------------------------------------------
(* What spending the inputs of a payment leaves of the index.               *)

\* Every entry is a list with something in it.
Entries(index) ==
  \A id \in DOMAIN index : index[id] \in Seq(ToSet(index[id])) /\ index[id] # <<>>

\* The inputs after the k-th that name an output of id.
Later(inputs, k, id) == { j \in (k + 1)..Len(inputs) : inputs[j].ID = id }

\* An index that has enough left for the inputs after the k-th.
Suffices(index, inputs, k) ==
  \A id : Cardinality(Later(inputs, k, id)) <=
            IF id \in DOMAIN index THEN Len(index[id]) ELSE 0

\* They can be counted.
LEMMA LaterIsFinite ==
  ASSUME NEW inputs, Len(inputs) \in Nat, NEW k \in Nat, NEW id
  PROVE  IsFiniteSet(Later(inputs, k, id)) /\ Cardinality(Later(inputs, k, id)) \in Nat
<1>1. IsFiniteSet((k + 1)..Len(inputs))
  BY FS_Interval
<1>2. Later(inputs, k, id) \in SUBSET ((k + 1)..Len(inputs))
  BY DEF Later
<1> QED BY <1>1, <1>2, FS_Subset, FS_CardinalityType

\* An index has enough for the inputs that draw on it.
LEMMA DrawsSuffice ==
  ASSUME NEW index, Entries(index), NEW inputs, Draws(inputs, index)
  PROVE  Suffices(index, inputs, 0)
<1>1. PICK n \in Nat : n = Len(inputs) /\ DOMAIN inputs = 1..n
  BY DEF Draws
<1>2. ASSUME NEW id, id \in DOMAIN index
      PROVE  Cardinality(Later(inputs, 0, id)) <= Len(index[id])
  <2> DEFINE J == Later(inputs, 0, id)
             m == Len(index[id])
             f == [j \in J |-> inputs[j].Out]
  <2>1. m \in Nat
    BY <1>2 DEF Entries
  <2>2. \A j \in J : j \in DOMAIN inputs /\ inputs[j].ID = id
    BY <1>1 DEF Later
  <2>3. f \in Injection(J, 0..(m - 1))
    <3>1. \A j \in J : inputs[j].Out \in 0..(m - 1)
      BY <2>2 DEF Draws
    <3>2. \A i, j \in J : inputs[i].Out = inputs[j].Out => i = j
      BY <2>2 DEF Draws
    <3> HIDE DEF J, m
    <3> QED BY <3>1, <3>2 DEF Injection, IsInjective
  <2>4. IsFiniteSet(0..(m - 1)) /\ Cardinality(0..(m - 1)) = m
    <3> HIDE DEF m
    <3> QED BY <2>1, FS_Interval
  <2> HIDE DEF J, m, f
  <2>5. Cardinality(J) <= m
    BY <2>3, <2>4, FS_Injection
  <2> QED BY <2>5 DEF J, m
<1>3. ASSUME NEW id, id \notin DOMAIN index
      PROVE  Cardinality(Later(inputs, 0, id)) <= 0
  <2>1. Later(inputs, 0, id) = {}
    BY <1>1, <1>3 DEF Later, Draws
  <2> QED BY <2>1, FS_EmptySet
<1> QED BY <1>2, <1>3 DEF Suffices

\* One input less to come.
LEMMA LaterStep ==
  ASSUME NEW inputs, Len(inputs) \in Nat, NEW k \in Nat, k < Len(inputs), NEW id
  PROVE  Cardinality(Later(inputs, k + 1, id)) =
           Cardinality(Later(inputs, k, id)) - (IF inputs[k + 1].ID = id THEN 1 ELSE 0)
<1>1. CASE inputs[k + 1].ID = id
  <2>1. Later(inputs, k + 1, id) = Later(inputs, k, id) \ {k + 1} /\ k + 1 \in Later(inputs, k, id)
    BY <1>1 DEF Later
  <2>2. Cardinality(Later(inputs, k, id) \ {k + 1}) = Cardinality(Later(inputs, k, id)) - 1
    BY <2>1, LaterIsFinite, FS_RemoveElement
  <2> QED BY <1>1, <2>1, <2>2
<1>2. CASE inputs[k + 1].ID # id
  <2>1. Later(inputs, k + 1, id) = Later(inputs, k, id)
    BY <1>2 DEF Later
  <2>2. Cardinality(Later(inputs, k, id)) \in Nat
    BY LaterIsFinite
  <2> QED BY <1>2, <2>1, <2>2
<1> QED BY <1>1, <1>2

\* Spending an input takes one output away, and there is one to take.
LEMMA SpendOne ==
  ASSUME NEW index, Entries(index), NEW inputs, Len(inputs) \in Nat, NEW k \in Nat,
         k < Len(inputs), Suffices(index, inputs, k)
  PROVE  /\ inputs[k + 1].ID \in DOMAIN index
         /\ DOMAIN SpendInput(index, inputs[k + 1]) \subseteq DOMAIN index
         /\ Entries(SpendInput(index, inputs[k + 1]))
         /\ Suffices(SpendInput(index, inputs[k + 1]), inputs, k + 1)
<1> DEFINE in == inputs[k + 1]
<1>1. PICK id0 : id0 = in.ID
  OBVIOUS
<1>2. id0 \in DOMAIN index
  <2>1. Cardinality(Later(inputs, k + 1, id0)) = Cardinality(Later(inputs, k, id0)) - 1
    BY <1>1, LaterStep
  <2>2. Cardinality(Later(inputs, k, id0)) \in Nat /\ Cardinality(Later(inputs, k + 1, id0)) \in Nat
    BY LaterIsFinite
  <2>3. ~(Cardinality(Later(inputs, k, id0)) <= 0)
    BY <2>1, <2>2
  <2> QED BY <2>3 DEF Suffices
<1>3. PICK s : s = index[id0]
  OBVIOUS
<1>4. s \in Seq(ToSet(s)) /\ Len(s) \in Nat /\ DOMAIN s = 1..Len(s)
  BY <1>2, <1>3 DEF Entries
<1>5. PICK P : P = { i \in DOMAIN s : i - 1 \notin {in.Out} }
  OBVIOUS
<1>6. PICK outs : outs = Picked(s, P)
  OBVIOUS
<1>7. outs \in Seq(ToSet(s)) /\ Len(outs) \in Nat /\ outs \in Seq(ToSet(outs))
  BY <1>4, <1>6, PickedKeeps, ListOf
<1>8. Len(outs) >= Len(s) - 1
  <2>1. CASE in.Out \in Int
    <3>1. in.Out + 1 \in Int /\ \A i \in 1..Len(s) : i # in.Out + 1 => i \in P
      BY <1>4, <1>5, <2>1
    <3> QED BY <1>4, <1>6, <3>1, PickedKeeps
  <2>2. CASE in.Out \notin Int
    <3>1. \A i \in 1..Len(s) : i # 0 => i \in P
      BY <1>4, <1>5, <2>2
    <3> QED BY <1>4, <1>6, <3>1, PickedKeeps
  <2> QED BY <2>1, <2>2
<1>9. PICK x : x = SpendInput(index, in)
  OBVIOUS
<1>10. x = IF outs = <<>> THEN [id \in DOMAIN index \ {id0} |-> index[id]]
           ELSE [index EXCEPT ![id0] = outs]
  BY <1>1, <1>3, <1>5, <1>6, <1>9 DEF SpendInput, WithoutPositions
<1>11. /\ DOMAIN x = IF outs = <<>> THEN DOMAIN index \ {id0} ELSE DOMAIN index
       /\ \A id \in DOMAIN x : x[id] = IF id = id0 THEN outs ELSE index[id]
  <2>1. CASE outs = <<>>
    BY <1>10, <2>1
  <2>2. CASE outs # <<>>
    BY <1>10, <2>2
  <2> QED BY <2>1, <2>2
<1> HIDE DEF in
<1>12. Entries(x)
  <2> SUFFICES ASSUME NEW id \in DOMAIN x PROVE x[id] \in Seq(ToSet(x[id])) /\ x[id] # <<>>
    BY DEF Entries
  <2>1. CASE id = id0
    BY <1>7, <1>11, <2>1
  <2>2. CASE id # id0
    BY <1>11, <2>2 DEF Entries
  <2> QED BY <2>1, <2>2
<1>13. Suffices(x, inputs, k + 1)
  <2> SUFFICES ASSUME NEW id
               PROVE  Cardinality(Later(inputs, k + 1, id)) <=
                        IF id \in DOMAIN x THEN Len(x[id]) ELSE 0
    BY DEF Suffices
  <2>1. /\ Cardinality(Later(inputs, k, id)) \in Nat
        /\ Cardinality(Later(inputs, k, id)) <= IF id \in DOMAIN index THEN Len(index[id]) ELSE 0
    BY LaterIsFinite DEF Suffices
  <2>2. CASE id = id0
    <3>1. Cardinality(Later(inputs, k + 1, id)) = Cardinality(Later(inputs, k, id)) - 1
      BY <1>1, <2>2, LaterStep DEF in
    <3>2. Cardinality(Later(inputs, k, id)) <= Len(s)
      BY <1>2, <1>3, <2>1, <2>2
    <3>3. Cardinality(Later(inputs, k + 1, id)) <= Len(outs)
      BY <1>4, <1>7, <1>8, <2>1, <3>1, <3>2
    <3>4. CASE outs = <<>>
      <4>1. Len(outs) = 0 /\ id \notin DOMAIN x
        BY <1>11, <2>2, <3>4
      <4> QED BY <3>3, <4>1
    <3>5. CASE outs # <<>>
      <4>1. id \in DOMAIN x /\ x[id] = outs
        BY <1>2, <1>11, <2>2, <3>5
      <4> QED BY <3>3, <4>1
    <3> QED BY <3>4, <3>5
  <2>3. CASE id # id0
    <3>1. Cardinality(Later(inputs, k + 1, id)) = Cardinality(Later(inputs, k, id))
      <4>1. inputs[k + 1].ID # id
        BY <1>1, <2>3 DEF in
      <4>2. Cardinality(Later(inputs, k + 1, id)) = Cardinality(Later(inputs, k, id)) - 0
        BY <4>1, LaterStep
      <4> QED BY <2>1, <4>2
    <3>2. (id \in DOMAIN x <=> id \in DOMAIN index) /\ (id \in DOMAIN x => x[id] = index[id])
      BY <1>11, <2>3
    <3> QED BY <2>1, <3>1, <3>2
  <2> QED BY <2>2, <2>3
<1>14. DOMAIN x \subseteq DOMAIN index
  BY <1>11
<1> QED BY <1>1, <1>2, <1>9, <1>12, <1>13, <1>14 DEF in

\* The recursion that SpendInputs makes, for k inputs.
IsSpent(index, inputs, v, k) ==
  v = [i \in 0..k |->
         IF i = 0 THEN {index}
         ELSE { SpendInput(before, inputs[i]) :
                  before \in { x \in v[i - 1] : inputs[i].ID \in DOMAIN x } }]

\* Such a function exists.
LEMMA SpentExists ==
  ASSUME NEW index, NEW inputs, NEW N \in Nat
  PROVE  \E v : IsSpent(index, inputs, v, N)
<1> DEFINE Step(v, i) == IF i = 0 THEN {index}
                         ELSE { SpendInput(before, inputs[i]) :
                                  before \in { x \in v[i - 1] : inputs[i].ID \in DOMAIN x } }
           K == { k \in Nat : \E v : v = [i \in 0..k |-> Step(v, i)] }
<1>1. 0 \in K
  <2>1. PICK v : v = [i \in 0..0 |-> {index}]
    OBVIOUS
  <2>2. v = [i \in 0..0 |-> Step(v, i)]
    BY <2>1
  <2> QED BY <2>2
<1>2. ASSUME NEW k \in Nat, k \in K PROVE k + 1 \in K
  <2>1. PICK v : v = [i \in 0..k |-> Step(v, i)]
    BY <1>2
  <2>2. PICK w : w = [i \in 0..(k + 1) |-> IF i <= k THEN v[i] ELSE Step(v, k + 1)]
    OBVIOUS
  <2>3. ASSUME NEW i \in 0..(k + 1) PROVE w[i] = Step(w, i)
    <3>1. CASE i = 0
      BY <2>1, <2>2, <3>1
    <3>2. CASE i \in 1..k
      <4>1. w[i] = v[i] /\ w[i - 1] = v[i - 1] /\ i \in 0..k
        BY <2>2, <3>2
      <4>2. v[i] = Step(v, i)
        <5> DEFINE R(e, U) == Step(U, e)
        <5>1. v = [e \in 0..k |-> R(e, v)]
          BY <2>1
        <5> HIDE DEF R
        <5>2. v[i] = R(i, v)
          BY <4>1, <5>1
        <5> QED BY <5>2 DEF R
      <4> QED BY <3>2, <4>1, <4>2
    <3>3. CASE i = k + 1
      <4>1. w[i] = Step(v, k + 1) /\ w[k] = v[k] /\ i - 1 = k
        BY <2>2, <3>3
      <4> QED BY <3>3, <4>1
    <3> QED BY <3>1, <3>2, <3>3
  <2>4. w = [i \in 0..(k + 1) |-> Step(w, i)]
    <3> HIDE DEF Step
    <3>1. w = [i \in 0..(k + 1) |-> w[i]]
      BY <2>2
    <3> QED BY <2>3, <3>1
  <2> HIDE DEF Step
  <2> QED BY <2>4
<1>3. \A k \in Nat : k \in K
  <2> HIDE DEF K
  <2> QED BY <1>1, <1>2, NatSetInduction
<1>4. N \in K
  <2> HIDE DEF K
  <2> QED BY <1>3
<1> QED BY <1>4 DEF IsSpent

\* Spending all inputs of a payment goes well.
LEMMA SpendsAll ==
  ASSUME NEW index, Entries(index), NEW inputs, Draws(inputs, index)
  PROVE  /\ SpendInputs(index, inputs) # {}
         /\ \A x \in SpendInputs(index, inputs) :
              DOMAIN x \subseteq DOMAIN index /\ Entries(x)
<1>1. PICK N \in Nat : N = Len(inputs)
  BY DEF Draws
<1> DEFINE v == CHOOSE w : IsSpent(index, inputs, w, N)
           Well(x, k) == DOMAIN x \subseteq DOMAIN index /\ Entries(x) /\ Suffices(x, inputs, k)
<1>2. SpendInputs(index, inputs) = v[N]
  BY <1>1 DEF SpendInputs, IsSpent
<1>3. IsSpent(index, inputs, v, N)
  BY SpentExists
<1> HIDE DEF v
<1>4. ASSUME NEW i \in 0..N
      PROVE  v[i] = IF i = 0 THEN {index}
                    ELSE { SpendInput(before, inputs[i]) :
                             before \in { x \in v[i - 1] : inputs[i].ID \in DOMAIN x } }
  <2> DEFINE R(e, U) == IF e = 0 THEN {index}
                        ELSE { SpendInput(before, inputs[e]) :
                                 before \in { x \in U[e - 1] : inputs[e].ID \in DOMAIN x } }
  <2>1. v = [e \in 0..N |-> R(e, v)]
    BY <1>3 DEF IsSpent
  <2> HIDE DEF R
  <2>2. v[i] = R(i, v)
    BY <2>1
  <2> QED BY <2>2 DEF R
<1> DEFINE K == { k \in Nat : k <= N => v[k] # {} /\ \A x \in v[k] : Well(x, k) }
<1>5. 0 \in K
  <2>1. v[0] = {index}
    BY <1>4, 0 \in 0..N
  <2>2. Well(index, 0)
    BY DrawsSuffice
  <2> HIDE DEF Well
  <2> QED BY <2>1, <2>2
<1>6. ASSUME NEW k \in Nat, k \in K PROVE k + 1 \in K
  <2> SUFFICES ASSUME k + 1 <= N
               PROVE  v[k + 1] # {} /\ \A x \in v[k + 1] : Well(x, k + 1)
    OBVIOUS
  <2>1. v[k] # {} /\ \A x \in v[k] : Well(x, k)
    BY <1>6
  <2>2. v[k + 1] = { SpendInput(before, inputs[k + 1]) :
                       before \in { x \in v[k] : inputs[k + 1].ID \in DOMAIN x } }
    <3>1. k + 1 \in 0..N /\ k + 1 # 0 /\ (k + 1) - 1 = k
      OBVIOUS
    <3> QED BY <1>4, <3>1
  <2>3. ASSUME NEW x \in v[k]
        PROVE  inputs[k + 1].ID \in DOMAIN x /\ Well(SpendInput(x, inputs[k + 1]), k + 1)
    <3>1. Well(x, k)
      BY <2>1
    <3>2. Len(inputs) \in Nat /\ k < Len(inputs)
      BY <1>1
    <3> QED BY <3>1, <3>2, SpendOne
  <2> HIDE DEF Well
  <2> QED BY <2>1, <2>2, <2>3
<1>7. N \in K
  <2> HIDE DEF K
  <2> QED BY <1>5, <1>6, NatSetInduction
<1> QED BY <1>2, <1>7

\* An entry more.
LEMMA AddsEntry ==
  ASSUME NEW index, Entries(index), NEW tx,
         tx.Outputs \in Seq(ToSet(tx.Outputs)), tx.Outputs # <<>>
  PROVE  /\ DOMAIN AddOutputs(index, tx) = DOMAIN index \cup {HashID(tx)}
         /\ Entries(AddOutputs(index, tx))
         /\ HashID(tx) \notin DOMAIN index =>
              \A id \in DOMAIN index : AddOutputs(index, tx)[id] = index[id]
<1>1. PICK x : x = AddOutputs(index, tx)
  OBVIOUS
<1>2. PICK new : new = HashID(tx)
  OBVIOUS
<1>3. x = [id \in DOMAIN index \cup {new} |-> IF id = new THEN tx.Outputs ELSE index[id]]
  BY <1>1, <1>2 DEF AddOutputs
<1>4. /\ DOMAIN x = DOMAIN index \cup {new}
      /\ \A id \in DOMAIN x : x[id] = IF id = new THEN tx.Outputs ELSE index[id]
  BY <1>3
<1>5. Entries(x)
  <2> SUFFICES ASSUME NEW id \in DOMAIN x PROVE x[id] \in Seq(ToSet(x[id])) /\ x[id] # <<>>
    BY DEF Entries
  <2>1. CASE id = new
    BY <1>4, <2>1
  <2>2. CASE id # new
    BY <1>4, <2>2 DEF Entries
  <2> QED BY <2>1, <2>2
<1> QED BY <1>1, <1>2, <1>4, <1>5

\* A list of one.
LEMMA OneIsList ==
  ASSUME NEW o
  PROVE  <<o>> \in Seq(ToSet(<<o>>)) /\ <<o>> # <<>>
<1>1. PICK s : s = <<o>>
  OBVIOUS
<1>2. s \in Seq({o}) /\ Len(s) = 1
  BY <1>1
<1>3. s # <<>>
  BY <1>2
<1> QED BY <1>1, <1>2, <1>3, ListOf

\* UpdateIndex for a block of a coinbase and a payment that draws on the index.
LEMMA UpdateGoesWell ==
  ASSUME NEW index, Entries(index), NEW owner, NEW data,
         HashID(CoinbaseTX(owner, data)) \notin DOMAIN index,
         NEW tx, Draws(tx.Inputs, index),
         tx.Outputs \in Seq(ToSet(tx.Outputs)), tx.Outputs # <<>>,
         NEW block, block.Transactions = << CoinbaseTX(owner, data), tx >>
  PROVE  /\ UpdateIndex(index, block) # {}
         /\ \A x \in UpdateIndex(index, block) :
              /\ DOMAIN x \subseteq DOMAIN index \cup
                                    {HashID(CoinbaseTX(owner, data)), HashID(tx)}
              /\ Entries(x)
<1>1. PICK cb : cb = CoinbaseTX(owner, data)
  OBVIOUS
<1>2. PICK first : first = AddOutputs(index, cb)
  OBVIOUS
<1>3. ApplyTransaction(index, cb) = {first}
  <2>1. IsCoinbase(cb)
    BY <1>1 DEF CoinbaseTX, IsCoinbase
  <2> QED BY <1>2, <2>1 DEF ApplyTransaction
<1>4. /\ DOMAIN first = DOMAIN index \cup {HashID(cb)} /\ Entries(first)
      /\ \A id \in DOMAIN index : first[id] = index[id]
  <2>1. cb.Outputs \in Seq(ToSet(cb.Outputs)) /\ cb.Outputs # <<>>
    <3>1. PICK o : o = [Value |-> CoinbaseValue, PubKeyHash |-> owner]
      OBVIOUS
    <3>2. cb.Outputs = <<o>>
      BY <1>1, <3>1 DEF CoinbaseTX
    <3> QED BY <3>2, OneIsList
  <2>2. HashID(cb) \notin DOMAIN index
    BY <1>1
  <2>3. /\ DOMAIN AddOutputs(index, cb) = DOMAIN index \cup {HashID(cb)}
        /\ Entries(AddOutputs(index, cb))
        /\ \A id \in DOMAIN index : AddOutputs(index, cb)[id] = index[id]
    BY <2>1, <2>2, AddsEntry
  <2> QED BY <1>2, <2>3
<1>5. Draws(tx.Inputs, first)
  <2> SUFFICES ASSUME NEW i \in DOMAIN tx.Inputs
               PROVE  /\ tx.Inputs[i].ID \in DOMAIN first
                      /\ tx.Inputs[i].Out \in 0..(Len(first[tx.Inputs[i].ID]) - 1)
    BY DEF Draws
  <2> QED BY <1>4 DEF Draws
<1>6. ~IsCoinbase(tx)
  <2> SUFFICES ASSUME Len(tx.Inputs) = 1, tx.Inputs[1].Out = -1 PROVE FALSE
    BY DEF IsCoinbase
  <2>1. 1 \in DOMAIN tx.Inputs
    BY DEF Draws
  <2>2. tx.Inputs[1].Out \in Nat
    BY <2>1 DEF Draws
  <2> QED BY <2>2
<1>7. /\ ApplyTransaction(first, tx) # {}
      /\ \A x \in ApplyTransaction(first, tx) :
           DOMAIN x \subseteq DOMAIN index \cup {HashID(cb), HashID(tx)} /\ Entries(x)
  <2>1. ApplyTransaction(first, tx) =
          { AddOutputs(spent, tx) : spent \in SpendInputs(first, tx.Inputs) }
    BY <1>6 DEF ApplyTransaction
  <2>2. /\ SpendInputs(first, tx.Inputs) # {}
        /\ \A spent \in SpendInputs(first, tx.Inputs) :
             DOMAIN spent \subseteq DOMAIN first /\ Entries(spent)
    BY <1>4, <1>5, SpendsAll
  <2>3. ASSUME NEW spent \in SpendInputs(first, tx.Inputs)
        PROVE  /\ DOMAIN AddOutputs(spent, tx) \subseteq DOMAIN index \cup {HashID(cb), HashID(tx)}
               /\ Entries(AddOutputs(spent, tx))
    <3>1. DOMAIN spent \subseteq DOMAIN first /\ Entries(spent)
      BY <2>2
    <3>2. /\ DOMAIN AddOutputs(spent, tx) = DOMAIN spent \cup {HashID(tx)}
          /\ Entries(AddOutputs(spent, tx))
      BY <3>1, AddsEntry
    <3> QED BY <1>4, <3>1, <3>2
  <2> QED BY <2>1, <2>2, <2>3
<1>8. UpdateIndex(index, block) = ApplyTransaction(first, tx)
  <2> DEFINE Step(e, U) == IF e = 0 THEN {index}
                           ELSE UNION { ApplyTransaction(before, block.Transactions[e]) :
                                          before \in U[e - 1] }
             v == CHOOSE w : w = [e \in 0..2 |-> Step(e, w)]
  <2>1. Len(block.Transactions) = 2 /\ block.Transactions[1] = cb /\ block.Transactions[2] = tx
    BY <1>1
  <2>2. UpdateIndex(index, block) = v[2]
    BY <2>1 DEF UpdateIndex
  <2>3. v = [e \in 0..2 |-> Step(e, v)]
    <3>1. PICK w : w = [e \in 0..2 |-> IF e = 0 THEN {index} ELSE IF e = 1 THEN {first}
                                       ELSE ApplyTransaction(first, tx)]
      OBVIOUS
    <3>2. ASSUME NEW e \in 0..2 PROVE w[e] = Step(e, w)
      <4>1. CASE e = 0
        BY <3>1, <4>1
      <4>2. CASE e = 1
        <5>1. w[e] = {first} /\ w[e - 1] = {index}
          BY <3>1, <4>2
        <5>2. Step(e, w) = UNION { ApplyTransaction(before, cb) : before \in {index} }
          BY <2>1, <4>2, <5>1
        <5>3. UNION { ApplyTransaction(before, cb) : before \in {index} } = ApplyTransaction(index, cb)
          OBVIOUS
        <5> QED BY <1>3, <5>1, <5>2, <5>3
      <4>3. CASE e = 2
        <5>1. w[e] = ApplyTransaction(first, tx) /\ w[e - 1] = {first}
          BY <3>1, <4>3
        <5>2. Step(e, w) = UNION { ApplyTransaction(before, tx) : before \in {first} }
          BY <2>1, <4>3, <5>1
        <5>3. UNION { ApplyTransaction(before, tx) : before \in {first} } = ApplyTransaction(first, tx)
          OBVIOUS
        <5> QED BY <5>1, <5>2, <5>3
      <4> QED BY <4>1, <4>2, <4>3
    <3>3. w = [e \in 0..2 |-> Step(e, w)]
      <4> HIDE DEF Step
      <4>1. w = [e \in 0..2 |-> w[e]]
        BY <3>1
      <4> QED BY <3>2, <4>1
    <3> HIDE DEF Step
    <3> QED BY <3>3
  <2> HIDE DEF v, Step
  <2>4. v[0] = Step(0, v) /\ v[1] = Step(1, v) /\ v[2] = Step(2, v)
    BY <2>3
  <2>5. v[0] = {index}
    BY <2>4 DEF Step
  <2>6. v[1] = ApplyTransaction(index, cb)
    BY <2>1, <2>4, <2>5 DEF Step
  <2>7. v[2] = ApplyTransaction(first, tx)
    BY <1>3, <2>1, <2>4, <2>6 DEF Step
  <2> QED BY <2>2, <2>7
<1> QED BY <1>1, <1>7, <1>8

----------------------------------------------------------------------------
(* What FindUTXO finds.                                                     *)

\* The transactions of the stored blocks.
Recorded(B) == UNION { ToSet(B[h].Transactions) : h \in DOMAIN B }

\* Blocks are lists of transactions, and these have lists of outputs.
WellMade(B) ==
  /\ \A h \in DOMAIN B : B[h].Transactions \in Seq(ToSet(B[h].Transactions))
  /\ \A tx \in Recorded(B) : tx.Outputs \in Seq(ToSet(tx.Outputs))

\* The transactions of a branch are stored ones.
LEMMA BranchIsRecorded ==
  ASSUME NEW B, NEW t, IsFiniteSet(DOMAIN B), Nil \notin DOMAIN B, WellMade(B)
  PROVE  TransactionsFrom(B, t) \in Seq(Recorded(B))
<1>1. PICK walk : walk = Iterate(B, t)
  OBVIOUS
<1>2. walk \in Seq(DOMAIN B)
  BY <1>1, IterateChain
<1>3. PICK n \in Nat : n = Len(walk) /\ DOMAIN walk = 1..n
  BY <1>2
<1> DEFINE seqs == [i \in DOMAIN walk |-> B[walk[i]].Transactions]
<1>4. TransactionsFrom(B, t) = FlattenSeq(seqs)
  BY <1>1 DEF TransactionsFrom
<1>5. ASSUME NEW h \in DOMAIN B PROVE B[h].Transactions \in Seq(Recorded(B))
  <2>1. ToSet(B[h].Transactions) \subseteq Recorded(B)
    BY DEF Recorded
  <2>2. PICK s : s = B[h].Transactions
    OBVIOUS
  <2>3. s \in Seq(ToSet(s)) /\ ToSet(s) \subseteq Recorded(B)
    BY <2>1, <2>2 DEF WellMade
  <2>4. s \in Seq(Recorded(B))
    BY <2>3
  <2> QED BY <2>2, <2>4
<1>6. seqs \in Seq(Seq(Recorded(B)))
  <2>1. \A i \in 1..n : walk[i] \in DOMAIN B
    BY <1>2, <1>3
  <2>2. DOMAIN seqs = 1..n /\ \A i \in 1..n : seqs[i] \in Seq(Recorded(B))
    BY <1>3, <1>5, <2>1
  <2>3. seqs = [i \in 1..n |-> seqs[i]]
    BY <1>3
  <2> HIDE DEF seqs
  <2> QED BY <2>2, <2>3
<1> HIDE DEF seqs
<1> QED BY <1>4, <1>6, FlattenKeeps DEF FlatWell

\* The index that FindUTXO makes has an id for some stored transactions, and with
\* each a list with something in it.
LEMMA FindsEntries ==
  ASSUME NEW B, NEW t, IsFiniteSet(DOMAIN B), Nil \notin DOMAIN B, WellMade(B)
  PROVE  LET index == FindUTXO(B, t)
         IN  /\ IsFiniteSet(DOMAIN index)
             /\ \A id \in DOMAIN index : \E tx \in Recorded(B) : id = HashID(tx)
             /\ Entries(index)
<1>1. PICK txs : txs = TransactionsFrom(B, t)
  OBVIOUS
<1>2. txs \in Seq(Recorded(B))
  BY <1>1, BranchIsRecorded
<1>3. PICK n \in Nat : n = Len(txs) /\ DOMAIN txs = 1..n /\ \A i \in 1..n : txs[i] \in Recorded(B)
  BY <1>2
<1> DEFINE drop(i) == { o[2] : o \in { p \in SpentByNewer(txs, i) : p[1] = HashID(txs[i]) } }
           left == [i \in DOMAIN txs |-> WithoutPositions(txs[i].Outputs, drop(i))]
           ids == { HashID(txs[i]) : i \in { j \in DOMAIN txs : left[j] # <<>> } }
           seqs(id) == [i \in DOMAIN txs |-> IF HashID(txs[i]) = id THEN left[i] ELSE <<>>]
           X == UNION { ToSet(tx.Outputs) : tx \in Recorded(B) }
           index == [id \in ids |-> FlattenSeq(seqs(id))]
<1>4. FindUTXO(B, t) = index
  BY <1>1 DEF FindUTXO
<1>5. DOMAIN left = 1..n /\ \A i \in 1..n : left[i] \in Seq(X)
  <2>1. ASSUME NEW i \in 1..n PROVE WithoutPositions(txs[i].Outputs, drop(i)) \in Seq(X)
    <3>1. PICK s : s = txs[i].Outputs
      OBVIOUS
    <3>2. s \in Seq(ToSet(s)) /\ ToSet(s) \subseteq X
      BY <1>3, <3>1 DEF WellMade
    <3>3. s \in Seq(X)
      BY <3>2
    <3>4. PICK P : P = { j \in DOMAIN s : j - 1 \notin drop(i) }
      OBVIOUS
    <3>5. WithoutPositions(s, drop(i)) = Picked(s, P)
      BY <3>4 DEF WithoutPositions
    <3> HIDE DEF X, drop
    <3>6. Picked(s, P) \in Seq(X)
      BY <3>3, PickedKeeps
    <3> QED BY <3>1, <3>5, <3>6
  <2>2. DOMAIN left = 1..n /\ \A i \in 1..n : left[i] = WithoutPositions(txs[i].Outputs, drop(i))
    BY <1>3
  <2> HIDE DEF left, X, drop
  <2> QED BY <2>1, <2>2
<1> HIDE DEF left, X
<1>6. IsFiniteSet(ids)
  <2> DEFINE J == { j \in 1..n : left[j] # <<>> }
             f == [j \in J |-> HashID(txs[j])]
  <2>1. IsFiniteSet(J)
    <3>1. IsFiniteSet(1..n) /\ J \in SUBSET (1..n)
      BY FS_Interval
    <3> HIDE DEF J
    <3> QED BY <3>1, FS_Subset
  <2>2. ids = { HashID(txs[i]) : i \in J }
    BY <1>3
  <2>3. f \in Surjection(J, ids)
    <3>1. f \in [J -> ids] /\ \A id \in ids : \E j \in J : f[j] = id
      BY <2>2
    <3> HIDE DEF J, f, ids
    <3> QED BY <3>1 DEF Surjection
  <2> HIDE DEF J, f, ids
  <2> QED BY <2>1, <2>3, FS_Surjection
<1>7. \A id \in ids : \E tx \in Recorded(B) : id = HashID(tx)
  BY <1>3
<1>8. ASSUME NEW id \in ids
      PROVE  FlattenSeq(seqs(id)) \in Seq(X) /\ FlattenSeq(seqs(id)) # <<>>
  <2>1. PICK s : s = seqs(id)
    OBVIOUS
  <2>2. DOMAIN s = 1..n /\ \A i \in 1..n : s[i] = IF HashID(txs[i]) = id THEN left[i] ELSE <<>>
    BY <1>3, <2>1
  <2>3. s \in Seq(Seq(X)) /\ Len(s) = n
    <3>1. ASSUME NEW i \in 1..n PROVE s[i] \in Seq(X)
      <4>1. CASE HashID(txs[i]) = id
        BY <1>5, <2>2, <4>1
      <4>2. CASE HashID(txs[i]) # id
        <5>1. s[i] = <<>>
          BY <2>2, <4>2
        <5> QED BY <5>1
      <4> QED BY <4>1, <4>2
    <3>2. s = [i \in 1..n |-> s[i]]
      BY <1>3, <2>1
    <3> QED BY <3>1, <3>2
  <2>4. PICK flat : flat = FlattenSeq(s)
    OBVIOUS
  <2>5. FlatWell(X, s, flat, n)
    BY <2>3, <2>4, FlattenKeeps
  <2>6. PICK i \in 1..n : id = HashID(txs[i]) /\ left[i] # <<>>
    BY <1>3
  <2>7. s[i] \in Seq(X) /\ s[i] # <<>>
    BY <1>5, <2>2, <2>6
  <2>8. PICK x : x \in ToSet(s[i])
    <3>1. PICK u : u = s[i]
      OBVIOUS
    <3>2. u \in Seq(X) /\ Len(u) >= 1
      BY <2>7, <3>1
    <3>3. u[1] \in ToSet(u)
      BY <3>2, Members
    <3> QED BY <3>1, <3>3
  <2>9. x \in ToSet(flat)
    BY <2>5, <2>8 DEF FlatWell
  <2>10. flat # <<>>
    <3>1. flat \in Seq(X)
      BY <2>5 DEF FlatWell
    <3>2. Len(flat) # 0
      BY <2>9, <3>1, Members
    <3> QED BY <3>2
  <2> QED BY <2>1, <2>4, <2>5, <2>10 DEF FlatWell
<1>9. Entries(index)
  <2> SUFFICES ASSUME NEW id \in ids
               PROVE  index[id] \in Seq(ToSet(index[id])) /\ index[id] # <<>>
    BY DEF Entries
  <2>1. index[id] = FlattenSeq(seqs(id))
    OBVIOUS
  <2> HIDE DEF index, seqs
  <2> QED BY <1>8, <2>1, ListOf
<1>10. DOMAIN index = ids
  OBVIOUS
<1> HIDE DEF index, ids
<1> QED BY <1>4, <1>6, <1>7, <1>9, <1>10
=============================================================================
