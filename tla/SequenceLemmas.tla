---------------------------- MODULE SequenceLemmas ----------------------------
(***************************************************************************)
(* What the operators the contract's vectors are modelled with return:     *)
(* the least index of a search, an insertion, a removal, a truncation and  *)
(* a concatenation of many.                                                *)
(***************************************************************************)
EXTENDS SequencesExt, Integers, SequenceTheorems, WellFoundedInduction, TLAPS

\* A set of naturals that is not empty has a least element
LEMMA MinNat ==
  ASSUME NEW S \in SUBSET Nat, S # {}
  PROVE  Min(S) \in S /\ \A y \in S : Min(S) <= y
<1>1. PICK x \in S : \A y \in S : ~ (<<y, x>> \in OpToRel(<, Nat))
  BY NatLessThanWellFounded, WFMin, Zenon
<1>2. ASSUME NEW y \in S PROVE x <= y
  <2>1. <<y, x>> \in Nat \X Nat /\ <<y, x>>[1] = y /\ <<y, x>>[2] = x
    OBVIOUS
  <2>2. ~(<<y, x>>[1] < <<y, x>>[2])
    BY <1>1, <2>1, Zenon DEF OpToRel
  <2> QED  BY <2>1, <2>2, SMT
<1> QED  BY <1>2, Zenon DEF Min

\* A bounded set of naturals that is not empty has a greatest element (loops that stop at
\* the first of the bands they look at from above)
LEMMA MaxBounded ==
  ASSUME NEW n \in Nat, NEW S \in SUBSET (0 .. n), S # {}
  PROVE  Max(S) \in S /\ \A y \in S : y <= Max(S)
<1> DEFINE D == {n - x : x \in S}
<1>1. D \in SUBSET Nat /\ D # {}
  <2>1. \A x \in S : n - x \in Nat
    BY SMT
  <2> QED  BY <2>1, Zenon
<1>2. PICK d \in D : \A y \in D : d <= y
  <2> HIDE DEF D
  <2> QED  BY <1>1, MinNat, Zenon
<1>3. PICK x \in S : d = n - x
  BY <1>2
<1>4. \A y \in S : x >= y
  <2> SUFFICES ASSUME NEW y \in S PROVE x >= y
    OBVIOUS
  <2>1. n - y \in D
    OBVIOUS
  <2>2. d <= n - y
    BY <1>2, <2>1
  <2> QED  BY <1>3, <2>2, SMT
<1>5. Max(S) \in S /\ \A y \in S : Max(S) >= y
  BY <1>3, <1>4, Zenon DEF Max
<1> QED  BY <1>5, SMT

\* The smaller of two numbers
LEMMA MinPair ==
  ASSUME NEW a \in Int, NEW b \in Int
  PROVE  Min({a, b}) = IF a <= b THEN a ELSE b
<1>1. \A x \in {a, b} : (\A y \in {a, b} : x <= y) => x = IF a <= b THEN a ELSE b
  BY SMT
<1>2. \E x \in {a, b} : \A y \in {a, b} : x <= y
  BY SMT
<1> QED  BY <1>1, <1>2, Zenon DEF Min

\* Vec::truncate: a prefix of a sequence
LEMMA PrefixIs ==
  ASSUME NEW S, NEW s \in Seq(S), NEW n \in 0 .. Len(s)
  PROVE  /\ SubSeq(s, 1, n) \in Seq(S)
         /\ Len(SubSeq(s, 1, n)) = n
         /\ \A j \in 1 .. n : SubSeq(s, 1, n)[j] = s[j]
<1>1. Len(s) \in Nat /\ \A i \in 1 .. Len(s) : s[i] \in S
  BY LenProperties, ElementOfSeq, Zenon
<1>2. 1 \in Int /\ n \in Int /\ \A i \in 1 .. n : s[i] \in S
  BY <1>1, SMT
<1>3. /\ SubSeq(s, 1, n) \in Seq(S)
      /\ Len(SubSeq(s, 1, n)) = IF 1 <= n THEN n - 1 + 1 ELSE 0
      /\ \A i \in 1 .. n - 1 + 1 : SubSeq(s, 1, n)[i] = s[1 + i - 1]
  BY <1>2, SubSeqProperties
<1> QED  BY <1>1, <1>3, SMT

\* A suffix of a sequence
LEMMA SuffixIs ==
  ASSUME NEW S, NEW s \in Seq(S), NEW m \in 1 .. Len(s) + 1
  PROVE  /\ SubSeq(s, m, Len(s)) \in Seq(S)
         /\ Len(SubSeq(s, m, Len(s))) = Len(s) - m + 1
         /\ \A j \in 1 .. Len(s) - m + 1 : SubSeq(s, m, Len(s))[j] = s[m + j - 1]
<1>1. Len(s) \in Nat /\ \A i \in 1 .. Len(s) : s[i] \in S
  BY LenProperties, ElementOfSeq, Zenon
<1>2. m \in Int /\ Len(s) \in Int /\ \A i \in m .. Len(s) : s[i] \in S
  BY <1>1, SMT
<1>3. /\ SubSeq(s, m, Len(s)) \in Seq(S)
      /\ Len(SubSeq(s, m, Len(s))) = IF m <= Len(s) THEN Len(s) - m + 1 ELSE 0
      /\ \A i \in 1 .. Len(s) - m + 1 : SubSeq(s, m, Len(s))[i] = s[m + i - 1]
  BY <1>2, SubSeqProperties
<1> QED  BY <1>1, <1>3, SMT

\* new is s with e inserted at i
HasInserted(new, s, i, e) ==
  /\ Len(new) = Len(s) + 1
  /\ \A j \in 1 .. Len(s) + 1 : new[j] = IF j < i THEN s[j] ELSE IF j = i THEN e ELSE s[j - 1]

\* Vec::insert
LEMMA InsertAtHas ==
  ASSUME NEW S, NEW s \in Seq(S), NEW i \in 1 .. Len(s) + 1, NEW e \in S
  PROVE  InsertAt(s, i, e) \in Seq(S) /\ HasInserted(InsertAt(s, i, e), s, i, e)
<1> DEFINE a == SubSeq(s, 1, i - 1)
           b == SubSeq(s, i, Len(s))
<1>1. Len(s) \in Nat
  BY LenProperties, Zenon
<1>2. a \in Seq(S) /\ Len(a) = i - 1 /\ \A j \in 1 .. i - 1 : a[j] = s[j]
  <2>1. i - 1 \in 0 .. Len(s)
    BY <1>1, SMT
  <2> QED  BY <2>1, PrefixIs, Zenon
<1>3. /\ b \in Seq(S) /\ Len(b) = Len(s) - i + 1
      /\ \A j \in 1 .. Len(s) - i + 1 : b[j] = s[i + j - 1]
  BY SuffixIs, Zenon
<1>4. InsertAt(s, i, e) = a \o <<e>> \o b
  BY DEF InsertAt
<1> HIDE DEF a, b
<1> DEFINE c == a \o <<e>>
<1>5. <<e>> \in Seq(S) /\ Len(<<e>>) = 1 /\ <<e>>[1] = e
  BY SMT
<1>6. /\ c \in Seq(S)
      /\ Len(c) = Len(a) + Len(<<e>>)
      /\ \A j \in 1 .. Len(a) + Len(<<e>>) : c[j] = IF j <= Len(a) THEN a[j] ELSE <<e>>[j - Len(a)]
  BY <1>2, <1>5, ConcatProperties, Zenon
<1>7. Len(c) = i /\ \A j \in 1 .. i : c[j] = IF j < i THEN s[j] ELSE e
  <2> HIDE DEF c
  <2> QED  BY <1>1, <1>2, <1>5, <1>6, SMT
<1> HIDE DEF c
<1>8. /\ c \o b \in Seq(S)
      /\ Len(c \o b) = Len(c) + Len(b)
      /\ \A j \in 1 .. Len(c) + Len(b) : (c \o b)[j] = IF j <= Len(c) THEN c[j] ELSE b[j - Len(c)]
  <2>1. c \in Seq(S) /\ b \in Seq(S)
    BY <1>3, <1>6
  <2> QED  BY <2>1, ConcatProperties, Zenon
<1>9. InsertAt(s, i, e) = c \o b
  BY <1>4 DEF c
<1>10. HasInserted(c \o b, s, i, e)
  BY <1>1, <1>3, <1>7, <1>8, SMT DEF HasInserted
<1> QED  BY <1>8, <1>9, <1>10, Zenon

\* the same in full
LEMMA InsertAtIs ==
  ASSUME NEW S, NEW s \in Seq(S), NEW i \in 1 .. Len(s) + 1, NEW e \in S
  PROVE  /\ InsertAt(s, i, e) \in Seq(S)
         /\ Len(InsertAt(s, i, e)) = Len(s) + 1
         /\ \A j \in 1 .. Len(s) + 1 :
              InsertAt(s, i, e)[j] = IF j < i THEN s[j] ELSE IF j = i THEN e ELSE s[j - 1]
<1>1. InsertAt(s, i, e) \in Seq(S) /\ HasInserted(InsertAt(s, i, e), s, i, e)
  BY InsertAtHas, Zenon
<1> QED  BY <1>1, Zenon DEF HasInserted

\* Vec::remove
LEMMA RemoveAtIs ==
  ASSUME NEW S, NEW s \in Seq(S), NEW i \in 1 .. Len(s)
  PROVE  /\ RemoveAt(s, i) \in Seq(S)
         /\ Len(RemoveAt(s, i)) = Len(s) - 1
         /\ \A j \in 1 .. Len(s) - 1 : RemoveAt(s, i)[j] = IF j < i THEN s[j] ELSE s[j + 1]
<1> DEFINE a == SubSeq(s, 1, i - 1)
           b == SubSeq(s, i + 1, Len(s))
<1>1. Len(s) \in Nat
  BY LenProperties, Zenon
<1>2. a \in Seq(S) /\ Len(a) = i - 1 /\ \A j \in 1 .. i - 1 : a[j] = s[j]
  <2>1. i - 1 \in 0 .. Len(s)
    BY <1>1, SMT
  <2> QED  BY <2>1, PrefixIs, Zenon
<1>3. /\ b \in Seq(S) /\ Len(b) = Len(s) - (i + 1) + 1
      /\ \A j \in 1 .. Len(s) - (i + 1) + 1 : b[j] = s[i + 1 + j - 1]
  <2>1. i + 1 \in 1 .. Len(s) + 1
    BY <1>1, SMT
  <2> QED  BY <2>1, SuffixIs, Zenon
<1>4. RemoveAt(s, i) = a \o b
  BY DEF RemoveAt
<1> HIDE DEF a, b
<1>5. /\ a \o b \in Seq(S)
      /\ Len(a \o b) = Len(a) + Len(b)
      /\ \A j \in 1 .. Len(a) + Len(b) : (a \o b)[j] = IF j <= Len(a) THEN a[j] ELSE b[j - Len(a)]
  BY <1>2, <1>3, ConcatProperties, Zenon
<1> DEFINE c == a \o b
<1>6. c \in Seq(S) /\ Len(c) = Len(a) + Len(b)
  BY <1>5, Zenon
<1>7. ASSUME NEW j \in 1 .. Len(a) + Len(b)
      PROVE  c[j] = IF j <= Len(a) THEN a[j] ELSE b[j - Len(a)]
  BY <1>5, Zenon
<1> HIDE DEF c
<1>8. Len(a) = i - 1 /\ Len(b) = Len(s) - i
  BY <1>1, <1>2, <1>3, SMT
<1>9. ASSUME NEW j \in 1 .. Len(s) - 1, j < i
      PROVE  c[j] = s[j]
  <2>1. j \in 1 .. Len(a) + Len(b) /\ j <= Len(a) /\ j \in 1 .. i - 1
    BY <1>1, <1>8, <1>9, SMT
  <2> QED  BY <1>2, <1>7, <2>1, Zenon
<1>10. ASSUME NEW j \in 1 .. Len(s) - 1, ~(j < i)
       PROVE  c[j] = s[j + 1]
  <2>1. /\ j \in 1 .. Len(a) + Len(b) /\ ~(j <= Len(a))
        /\ j - Len(a) \in 1 .. Len(s) - (i + 1) + 1
        /\ i + 1 + (j - Len(a)) - 1 = j + 1
    BY <1>1, <1>8, <1>10, SMT
  <2>2. c[j] = b[j - Len(a)]
    BY <1>7, <2>1, Zenon
  <2>3. b[j - Len(a)] = s[i + 1 + (j - Len(a)) - 1]
    BY <1>3, <2>1, Zenon
  <2> QED  BY <2>1, <2>2, <2>3, Zenon
<1>11. Len(c) = Len(s) - 1
  BY <1>1, <1>6, <1>8, SMT
<1>12. RemoveAt(s, i) = c
  BY <1>4 DEF c
<1> QED  BY <1>6, <1>9, <1>10, <1>11, <1>12, Zenon

\* A function on 1 .. n is a sequence of n elements
LEMMA FunctionIsSeq ==
  ASSUME NEW S, NEW n \in Nat, NEW s \in [1 .. n -> S]
  PROVE  s \in Seq(S) /\ Len(s) = n /\ DOMAIN s = 1 .. n
<1>1. DOMAIN s = 1 .. n
  OBVIOUS
<1>2. s \in Seq(S)
  BY SeqDef, Zenon
<1>3. Len(s) \in Nat /\ DOMAIN s = 1 .. Len(s)
  BY <1>2, LenProperties, Zenon
<1> QED  BY <1>1, <1>2, <1>3, SMT

\* The first n of a sequence of sequences, one after the other
IsFlat(f, seqs, n) == f = [i \in 1 .. n |-> IF i = 1 THEN seqs[i] ELSE f[i - 1] \o seqs[i]]

\* FlattenSeq is defined by recursion on the length: there is such a function
LEMMA FlatExists ==
  ASSUME NEW seqs, NEW m \in Nat
  PROVE  \E f : IsFlat(f, seqs, m)
<1> DEFINE Bad == {k \in Nat : ~\E f : IsFlat(f, seqs, k)}
<1>1. SUFFICES ASSUME Bad # {} PROVE FALSE
  OBVIOUS
<1> DEFINE least == Min(Bad)
<1>2. least \in Bad /\ \A k \in Bad : least <= k
  <2>1. Bad \in SUBSET Nat
    OBVIOUS
  <2> HIDE DEF Bad
  <2> QED  BY <1>1, <2>1, MinNat, Zenon
<1> HIDE DEF least
<1>3. least \in Nat /\ ~\E f : IsFlat(f, seqs, least)
  BY <1>2, Zenon
<1>4. least # 0
  <2>1. IsFlat([i \in 1 .. 0 |-> 0], seqs, 0)
    BY DEF IsFlat
  <2> QED  BY <1>3, <2>1, Zenon
<1>5. least - 1 \in Nat /\ least - 1 \notin Bad
  BY <1>2, <1>3, <1>4, SMT
<1>6. PICK f : IsFlat(f, seqs, least - 1)
  BY <1>5, Zenon
<1> DEFINE g == [i \in 1 .. least |->
                   IF i = least THEN (IF i = 1 THEN seqs[i] ELSE f[i - 1] \o seqs[i]) ELSE f[i]]
<1>7. \A i \in 1 .. least : g[i] = IF i = 1 THEN seqs[i] ELSE g[i - 1] \o seqs[i]
  <2> SUFFICES ASSUME NEW i \in 1 .. least
               PROVE  g[i] = IF i = 1 THEN seqs[i] ELSE g[i - 1] \o seqs[i]
    OBVIOUS
  <2>1. i # 1 => i - 1 \in 1 .. least /\ i - 1 # least
    BY <1>3, SMT
  <2>2. i # 1 => g[i - 1] = f[i - 1]
    BY <2>1, Zenon
  <2>3. i # least => f[i] = IF i = 1 THEN seqs[i] ELSE f[i - 1] \o seqs[i]
    <3>1. i # least => i \in 1 .. least - 1
      BY <1>3, SMT
    <3> QED  BY <1>6, <3>1, Zenon DEF IsFlat
  <2> QED  BY <2>2, <2>3, Zenon
<1>8. g = [i \in 1 .. least |-> IF i = 1 THEN seqs[i] ELSE g[i - 1] \o seqs[i]]
  <2>1. g = [i \in 1 .. least |-> g[i]]
    OBVIOUS
  <2> HIDE DEF g
  <2> QED  BY <1>7, <2>1, Zenon
<1> HIDE DEF g
<1> QED  BY <1>3, <1>8, Zenon DEF IsFlat

\* A flattened sequence of sequences is a sequence of their elements
LEMMA FlattenSeqType ==
  ASSUME NEW S, NEW seqs \in Seq(Seq(S))
  PROVE  FlattenSeq(seqs) \in Seq(S)
<1> DEFINE n == Len(seqs)
<1>1. n \in Nat /\ \A i \in 1 .. n : seqs[i] \in Seq(S)
  BY LenProperties, ElementOfSeq, Zenon
<1>2. CASE n = 0
  <2>1. seqs = <<>>
    BY <1>2, EmptySeq, Zenon
  <2> QED  BY <1>2, <2>1, EmptySeq, Zenon DEF FlattenSeq
<1>3. CASE n # 0
  <2> DEFINE flat == CHOOSE f : IsFlat(f, seqs, n)
  <2>1. IsFlat(flat, seqs, n)
    BY <1>1, FlatExists, Zenon
  <2>2. FlattenSeq(seqs) = flat[n]
    BY <1>3, Zenon DEF FlattenSeq, IsFlat
  <2> HIDE DEF flat
  <2>3. \A i \in 1 .. n : flat[i] = IF i = 1 THEN seqs[i] ELSE flat[i - 1] \o seqs[i]
    BY <2>1, Zenon DEF IsFlat
  <2> HIDE DEF n
  <2> DEFINE Bad == {i \in 1 .. n : flat[i] \notin Seq(S)}
  <2>4. ASSUME Bad # {} PROVE FALSE
    <3>1. Bad \in SUBSET Nat
      BY <1>1, SMT
    <3> DEFINE least == Min(Bad)
    <3>2. least \in Bad /\ \A k \in Bad : least <= k
      <4> HIDE DEF Bad
      <4> QED  BY <2>4, <3>1, MinNat, Zenon
    <3> HIDE DEF least
    <3>3. least \in 1 .. n /\ flat[least] \notin Seq(S)
      BY <3>2, Zenon
    <3>4. least # 1
      BY <1>1, <2>3, <3>3, Zenon
    <3>5. least - 1 \in 1 .. n /\ least - 1 \notin Bad
      BY <1>1, <3>2, <3>3, <3>4, SMT
    <3>6. flat[least - 1] \in Seq(S) /\ seqs[least] \in Seq(S)
      BY <1>1, <3>3, <3>5, Zenon
    <3>7. flat[least - 1] \o seqs[least] \in Seq(S)
      BY <3>6, ConcatProperties, Zenon
    <3> QED  BY <2>3, <3>3, <3>4, <3>7, Zenon
  <2>5. n \in 1 .. n
    BY <1>1, <1>3, SMT
  <2> QED  BY <2>2, <2>4, <2>5, Zenon
<1> QED  BY <1>2, <1>3

================================================================================
