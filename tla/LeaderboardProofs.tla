--------------------------- MODULE LeaderboardProofs ---------------------------
(***************************************************************************)
(* Theorems about Leaderboard: ranking an account keeps the board sorted   *)
(* and free of duplicates, keeps the best players on it by their best EPs, *)
(* and lets no other two players change places.                            *)
(***************************************************************************)
EXTENDS Leaderboard, SequenceLemmas

\* What RanksOrdered says of the leaderboard, of any ranks
Ordered(ranks) ==
  \A i, j \in 1 .. Len(ranks) :
    i < j => ranks[i].ep >= ranks[j].ep /\ ranks[i].account # ranks[j].account

\* The search for the account finds its only rank, if it has one
LEMMA SameAccountIs ==
  ASSUME NEW accounts, NEW ranks \in Seq([ep : Ep, account : accounts]), NEW account
  PROVE  LET same == SameAccount(ranks, account)
         IN  /\ same \in 0 .. Len(ranks)
             /\ same # 0 => ranks[same].account = account
             /\ same = 0 => \A i \in 1 .. Len(ranks) : ranks[i].account # account
<1> DEFINE I == {i \in 1 .. Len(ranks) : ranks[i].account = account}
<1>1. SameAccount(ranks, account) = IF I # {} THEN Min(I) ELSE 0
  BY Zenon DEF SameAccount, SelectInSeq
<1>2. I \in SUBSET Nat
  OBVIOUS
<1>3. I # {} => Min(I) \in I
  <2> HIDE DEF I
  <2> QED  BY <1>2, MinNat, Zenon
<1>4. Len(ranks) \in Nat
  BY LenProperties, Zenon
<1> QED  BY <1>1, <1>3, <1>4, SMT

\* The search for the new position finds the first rank that is not better
LEMMA NewPosIs ==
  ASSUME NEW accounts, NEW ranks \in Seq([ep : Ep, account : accounts]), NEW ep \in Ep
  PROVE  LET pos == NewPos(ranks, ep)
         IN  /\ pos \in 0 .. Len(ranks)
             /\ pos # 0 => /\ ranks[pos].ep <= ep
                           /\ \A i \in 1 .. pos - 1 : ranks[i].ep > ep
             /\ pos = 0 => \A i \in 1 .. Len(ranks) : ranks[i].ep > ep
<1> DEFINE I == {i \in 1 .. Len(ranks) : ranks[i].ep <= ep}
<1>1. NewPos(ranks, ep) = IF I # {} THEN Min(I) ELSE 0
  BY Zenon DEF NewPos, SelectInSeq
<1>2. I \in SUBSET Nat
  OBVIOUS
<1>3. I # {} => Min(I) \in I /\ \A y \in I : Min(I) <= y
  <2> HIDE DEF I
  <2> QED  BY <1>2, MinNat, Zenon
<1>4. Len(ranks) \in Nat /\ ep \in Int
  BY LenProperties, SMT DEF Ep
<1>5. \A i \in 1 .. Len(ranks) : ranks[i].ep \in Int
  <2> DEFINE Entry == [ep : Ep, account : accounts]
  <2>1. \A i \in 1 .. Len(ranks) : ranks[i] \in Entry
    <3>1. ranks \in Seq(Entry)
      OBVIOUS
    <3> HIDE DEF Entry
    <3> QED  BY <3>1, ElementOfSeq, Zenon
  <2> QED  BY <2>1, SMT DEF Ep
<1> DEFINE pos == NewPos(ranks, ep)
<1>6. CASE I = {}
  <2>1. pos = 0
    BY <1>1, <1>6
  <2>2. \A i \in 1 .. Len(ranks) : ranks[i].ep > ep
    BY <1>4, <1>5, <1>6, SMT
  <2> QED  BY <1>4, <2>1, <2>2, SMT
<1>7. CASE I # {}
  <2>1. pos \in I /\ \A y \in I : pos <= y
    BY <1>1, <1>3, <1>7
  <2>2. pos \in 1 .. Len(ranks) /\ ranks[pos].ep <= ep
    BY <2>1
  <2>3. ASSUME NEW i \in 1 .. pos - 1 PROVE ranks[i].ep > ep
    <3> HIDE DEF pos
    <3>1. i \in 1 .. Len(ranks) /\ ~(pos <= i)
      BY <1>4, <2>2, SMT
    <3>2. ~(ranks[i].ep <= ep)
      BY <2>1, <3>1
    <3> QED  BY <1>4, <1>5, <3>1, <3>2, SMT
  <2> HIDE DEF pos
  <2>4. pos # 0 /\ pos \in 0 .. Len(ranks)
    BY <1>4, <2>2, SMT
  <2> QED  BY <2>2, <2>3, <2>4, Zenon DEF pos
<1> QED  BY <1>6, <1>7

\* Inserting an entry between the better and the others keeps the order
LEMMA InsertOrdered ==
  ASSUME NEW accounts, NEW ranks \in Seq([ep : Ep, account : accounts]), Ordered(ranks),
         NEW entry \in [ep : Ep, account : accounts], NEW pos \in 1 .. Len(ranks) + 1,
         \A i \in 1 .. Len(ranks) : /\ ranks[i].account # entry.account
                                    /\ i < pos => ranks[i].ep >= entry.ep
                                    /\ i >= pos => ranks[i].ep <= entry.ep
  PROVE  /\ InsertAt(ranks, pos, entry) \in Seq([ep : Ep, account : accounts])
         /\ Len(InsertAt(ranks, pos, entry)) = Len(ranks) + 1
         /\ Ordered(InsertAt(ranks, pos, entry))
<1> DEFINE Entry == [ep : Ep, account : accounts]
           new   == InsertAt(ranks, pos, entry)
<1>1. ranks \in Seq(Entry) /\ entry \in Entry /\ Len(ranks) \in Nat
  BY LenProperties, Zenon
<1> HIDE DEF Entry
<1>2. /\ new \in Seq(Entry) /\ Len(new) = Len(ranks) + 1
      /\ \A j \in 1 .. Len(ranks) + 1 :
           new[j] = IF j < pos THEN ranks[j] ELSE IF j = pos THEN entry ELSE ranks[j - 1]
  BY <1>1, InsertAtIs
<1> HIDE DEF new
<1>3. ASSUME NEW i \in 1 .. Len(new), NEW j \in 1 .. Len(new), i < j
      PROVE  new[i].ep >= new[j].ep /\ new[i].account # new[j].account
  <2>1. /\ i \in 1 .. Len(ranks) + 1 /\ j \in 1 .. Len(ranks) + 1
    BY <1>2, Zenon
  <2>2. /\ i < pos => new[i] = ranks[i] /\ i \in 1 .. Len(ranks)
        /\ i = pos => new[i] = entry
        /\ i > pos => new[i] = ranks[i - 1] /\ i - 1 \in 1 .. Len(ranks)
    BY <1>1, <1>2, <2>1, SMT
  <2>3. /\ j < pos => new[j] = ranks[j] /\ j \in 1 .. Len(ranks)
        /\ j = pos => new[j] = entry
        /\ j > pos => new[j] = ranks[j - 1] /\ j - 1 \in 1 .. Len(ranks)
    BY <1>1, <1>2, <2>1, SMT
  <2>4. CASE j < pos
    BY <1>3, <2>2, <2>3, <2>4, SMT DEF Ordered
  <2>5. CASE j = pos
    BY <1>3, <2>2, <2>3, <2>5, SMT
  <2>6. CASE j > pos /\ i < pos
    <3>1. i < j - 1 \/ i = j - 1
      BY <1>3, <2>1, SMT
    <3>2. i < j - 1
      BY <2>1, <2>6, <3>1, SMT
    <3> QED  BY <2>2, <2>3, <2>6, <3>2, SMT DEF Ordered
  <2>7. CASE j > pos /\ i = pos
    <3>1. j - 1 \in 1 .. Len(ranks) /\ j - 1 >= pos
      BY <2>3, <2>7, SMT
    <3> QED  BY <2>2, <2>3, <2>7, <3>1, SMT
  <2>8. CASE j > pos /\ i > pos
    BY <1>3, <2>1, <2>2, <2>3, <2>8, SMT DEF Ordered
  <2> QED  BY <1>3, <2>1, <2>4, <2>5, <2>6, <2>7, <2>8, SMT
<1>4. Ordered(new)
  BY <1>3, Zenon DEF Ordered
<1> QED  BY <1>2, <1>4 DEF new, Entry

\* Appending an entry that is worse than all ranks keeps the order
LEMMA AppendOrdered ==
  ASSUME NEW accounts, NEW ranks \in Seq([ep : Ep, account : accounts]), Ordered(ranks),
         NEW entry \in [ep : Ep, account : accounts],
         \A i \in 1 .. Len(ranks) : ranks[i].account # entry.account /\ ranks[i].ep >= entry.ep
  PROVE  /\ Append(ranks, entry) \in Seq([ep : Ep, account : accounts])
         /\ Ordered(Append(ranks, entry))
<1> DEFINE Entry == [ep : Ep, account : accounts]
           new   == Append(ranks, entry)
<1>1. ranks \in Seq(Entry) /\ entry \in Entry /\ Len(ranks) \in Nat
  BY LenProperties, Zenon
<1> HIDE DEF Entry
<1>2. /\ new \in Seq(Entry) /\ Len(new) = Len(ranks) + 1
      /\ \A j \in 1 .. Len(ranks) : new[j] = ranks[j]
      /\ new[Len(ranks) + 1] = entry
  BY <1>1, AppendProperties
<1> HIDE DEF new
<1>3. ASSUME NEW i \in 1 .. Len(new), NEW j \in 1 .. Len(new), i < j
      PROVE  new[i].ep >= new[j].ep /\ new[i].account # new[j].account
  <2>1. i \in 1 .. Len(ranks) + 1 /\ j \in 1 .. Len(ranks) + 1
    BY <1>2, Zenon
  <2>2. i \in 1 .. Len(ranks) /\ (j \in 1 .. Len(ranks) \/ j = Len(ranks) + 1)
    BY <1>1, <1>3, <2>1, SMT
  <2>3. CASE j \in 1 .. Len(ranks)
    <3>1. ranks[i].ep >= ranks[j].ep /\ ranks[i].account # ranks[j].account
      BY <1>3, <2>2, <2>3, Zenon DEF Ordered
    <3> QED  BY <1>2, <2>2, <2>3, <3>1, Zenon
  <2>4. CASE j = Len(ranks) + 1
    BY <1>2, <2>2, <2>4, Zenon
  <2> QED  BY <2>2, <2>3, <2>4, Zenon
<1>4. Ordered(new)
  BY <1>3, Zenon DEF Ordered
<1> QED  BY <1>2, <1>4 DEF new, Entry

\* A prefix of a sorted board is sorted (Vec::truncate)
LEMMA PrefixOrdered ==
  ASSUME NEW accounts, NEW ranks \in Seq([ep : Ep, account : accounts]), Ordered(ranks),
         NEW n \in 0 .. Len(ranks)
  PROVE  /\ SubSeq(ranks, 1, n) \in Seq([ep : Ep, account : accounts])
         /\ Ordered(SubSeq(ranks, 1, n))
<1> DEFINE Entry == [ep : Ep, account : accounts]
           new   == SubSeq(ranks, 1, n)
<1>1. ranks \in Seq(Entry) /\ Len(ranks) \in Nat
  BY LenProperties, Zenon
<1> HIDE DEF Entry
<1>2. new \in Seq(Entry) /\ Len(new) = n /\ \A j \in 1 .. n : new[j] = ranks[j]
  BY <1>1, PrefixIs
<1> HIDE DEF new
<1>3. ASSUME NEW i \in 1 .. Len(new), NEW j \in 1 .. Len(new), i < j
      PROVE  new[i].ep >= new[j].ep /\ new[i].account # new[j].account
  <2>1. i \in 1 .. n /\ j \in 1 .. n
    BY <1>2, Zenon
  <2>2. i \in 1 .. Len(ranks) /\ j \in 1 .. Len(ranks)
    BY <1>1, <2>1, SMT
  <2>3. ranks[i].ep >= ranks[j].ep /\ ranks[i].account # ranks[j].account
    BY <1>3, <2>2, Zenon DEF Ordered
  <2> QED  BY <1>2, <2>1, <2>3, Zenon
<1>4. Ordered(new)
  BY <1>3, Zenon DEF Ordered
<1> QED  BY <1>2, <1>4 DEF new, Entry

\* A sorted board is sorted without one of its ranks (rotate_right's first half)
LEMMA RemoveOrdered ==
  ASSUME NEW accounts, NEW ranks \in Seq([ep : Ep, account : accounts]), Ordered(ranks),
         NEW same \in 1 .. Len(ranks)
  PROVE  LET rest == RemoveAt(ranks, same)
         IN  /\ rest \in Seq([ep : Ep, account : accounts])
             /\ Len(rest) = Len(ranks) - 1
             /\ \A j \in 1 .. Len(ranks) - 1 : rest[j] = IF j < same THEN ranks[j] ELSE ranks[j + 1]
             /\ Ordered(rest)
<1> DEFINE Entry == [ep : Ep, account : accounts]
           rest  == RemoveAt(ranks, same)
<1>1. ranks \in Seq(Entry) /\ Len(ranks) \in Nat
  BY LenProperties, Zenon
<1> HIDE DEF Entry
<1>2. /\ rest \in Seq(Entry) /\ Len(rest) = Len(ranks) - 1
      /\ \A j \in 1 .. Len(ranks) - 1 : rest[j] = IF j < same THEN ranks[j] ELSE ranks[j + 1]
  BY <1>1, RemoveAtIs
<1> HIDE DEF rest
<1>3. ASSUME NEW i \in 1 .. Len(rest), NEW j \in 1 .. Len(rest), i < j
      PROVE  rest[i].ep >= rest[j].ep /\ rest[i].account # rest[j].account
  <2>1. PICK k, l \in 1 .. Len(ranks) : k < l /\ rest[i] = ranks[k] /\ rest[j] = ranks[l]
    <3>1. CASE j < same
      <4>1. /\ i \in 1 .. Len(ranks) /\ j \in 1 .. Len(ranks)
            /\ rest[i] = ranks[i] /\ rest[j] = ranks[j]
        BY <1>1, <1>2, <1>3, <3>1, SMT
      <4> QED  BY <1>3, <4>1, Zenon
    <3>2. CASE ~(j < same) /\ i < same
      <4>1. /\ i \in 1 .. Len(ranks) /\ j + 1 \in 1 .. Len(ranks) /\ i < j + 1
            /\ rest[i] = ranks[i] /\ rest[j] = ranks[j + 1]
        BY <1>1, <1>2, <1>3, <3>2, SMT
      <4> QED  BY <4>1, Zenon
    <3>3. CASE ~(j < same) /\ ~(i < same)
      <4>1. /\ i + 1 \in 1 .. Len(ranks) /\ j + 1 \in 1 .. Len(ranks) /\ i + 1 < j + 1
            /\ rest[i] = ranks[i + 1] /\ rest[j] = ranks[j + 1]
        BY <1>1, <1>2, <1>3, <3>3, SMT
      <4> QED  BY <4>1, Zenon
    <3> QED  BY <3>1, <3>2, <3>3
  <2> QED  BY <2>1, Zenon DEF Ordered
<1>4. Ordered(rest)
  BY <1>3, Zenon DEF Ordered
<1> QED  BY <1>2, <1>4 DEF rest, Entry

\* A new account enters a sorted board, which stays sorted (update_leaderboard without
\* a rank for the account)
LEMMA EnterOrdered ==
  ASSUME NEW accounts, NEW ranks \in Seq([ep : Ep, account : accounts]), Ordered(ranks),
         NEW ep \in Ep, NEW account \in accounts, NEW entry, entry = [ep |-> ep, account |-> account],
         \A i \in 1 .. Len(ranks) : ranks[i].account # account,
         NEW pos, pos = NewPos(ranks, ep)
  PROVE  /\ Enter(ranks, pos, entry) \in Seq([ep : Ep, account : accounts])
         /\ Ordered(Enter(ranks, pos, entry))
<1> DEFINE Entry == [ep : Ep, account : accounts]
<1>1. /\ entry \in Entry /\ entry.ep = ep /\ entry.account = account
      /\ Len(ranks) \in Nat /\ ep \in Int
  BY LenProperties, SMT DEF Ep
<1>2. \A i \in 1 .. Len(ranks) : ranks[i].ep \in Int
  <2>1. \A i \in 1 .. Len(ranks) : ranks[i] \in Entry
    <3>1. ranks \in Seq(Entry)
      OBVIOUS
    <3> HIDE DEF Entry
    <3> QED  BY <3>1, ElementOfSeq, Zenon
  <2> QED  BY <2>1, SMT DEF Ep
<1>3. /\ pos \in 0 .. Len(ranks)
      /\ pos # 0 => /\ ranks[pos].ep <= ep
                    /\ \A i \in 1 .. pos - 1 : ranks[i].ep > ep
      /\ pos = 0 => \A i \in 1 .. Len(ranks) : ranks[i].ep > ep
  BY NewPosIs, Zenon
<1>4. CASE pos = 0
  <2>1. \A i \in 1 .. Len(ranks) : ranks[i].account # entry.account /\ ranks[i].ep >= entry.ep
    BY <1>1, <1>2, <1>3, <1>4, SMT
  <2>2. Append(ranks, entry) \in Seq(Entry) /\ Ordered(Append(ranks, entry))
    BY <1>1, <2>1, AppendOrdered
  <2>3. Enter(ranks, pos, entry) \in {Append(ranks, entry), ranks}
    BY <1>4, Zenon DEF Enter
  <2> QED  BY <2>2, <2>3
<1>5. CASE pos # 0
  <2> DEFINE new == InsertAt(ranks, pos, entry)
             n   == Min({Len(ranks) + 1, LeaderboardSize})
  <2>1. pos \in 1 .. Len(ranks) /\ pos \in 1 .. Len(ranks) + 1
    BY <1>1, <1>3, <1>5, SMT
  <2>2. ASSUME NEW i \in 1 .. Len(ranks)
        PROVE  /\ i < pos => ranks[i].ep >= ep
               /\ i >= pos => ranks[i].ep <= ep
    <3>1. CASE i < pos
      <4>1. i \in 1 .. pos - 1
        BY <2>1, <3>1, SMT
      <4> QED  BY <1>1, <1>2, <1>3, <1>5, <2>1, <3>1, <4>1, SMT
    <3>2. CASE i = pos
      BY <1>3, <1>5, <2>1, <3>2, SMT
    <3>3. CASE i > pos
      <4>1. ranks[pos].ep >= ranks[i].ep
        BY <2>1, <3>3, Zenon DEF Ordered
      <4> QED  BY <1>1, <1>2, <1>3, <1>5, <2>1, <3>3, <4>1, SMT
    <3> QED  BY <2>1, <3>1, <3>2, <3>3, SMT
  <2>3. new \in Seq(Entry) /\ Len(new) = Len(ranks) + 1 /\ Ordered(new)
    <3>1. \A i \in 1 .. Len(ranks) : /\ ranks[i].account # entry.account
                                     /\ i < pos => ranks[i].ep >= entry.ep
                                     /\ i >= pos => ranks[i].ep <= entry.ep
      BY <1>1, <2>2, Zenon
    <3>2. entry \in Entry /\ pos \in 1 .. Len(ranks) + 1
      BY <1>1, <2>1
    <3> QED  BY <3>1, <3>2, InsertOrdered, Zenon
  <2>4. n \in 0 .. Len(new)
    <3> HIDE DEF new
    <3> QED  BY <1>1, <2>3, MinPair, LeaderboardAssumption, SMT DEF LeaderboardAssumption
  <2>5. Enter(ranks, pos, entry) = SubSeq(new, 1, n)
    BY <1>5, Zenon DEF Enter
  <2> HIDE DEF new, n
  <2> QED  BY <2>3, <2>4, <2>5, PrefixOrdered
<1> QED  BY <1>4, <1>5

\* A ranked account moves up a sorted board, which stays sorted (update_leaderboard with
\* a rank for the account)
LEMMA MoveUpOrdered ==
  ASSUME NEW accounts, NEW ranks \in Seq([ep : Ep, account : accounts]), Ordered(ranks),
         NEW ep \in Ep, NEW account \in accounts, NEW entry, entry = [ep |-> ep, account |-> account],
         NEW same \in 1 .. Len(ranks), ranks[same].account = account, ranks[same].ep <= ep,
         NEW pos, pos = NewPos(ranks, ep)
  PROVE  /\ MoveUp(ranks, same, pos, entry) \in Seq([ep : Ep, account : accounts])
         /\ Ordered(MoveUp(ranks, same, pos, entry))
<1> DEFINE Entry == [ep : Ep, account : accounts]
           rest  == RemoveAt(ranks, same)
<1>1. /\ entry \in Entry /\ entry.ep = ep /\ entry.account = account
      /\ Len(ranks) \in Nat /\ ep \in Int
  BY LenProperties, SMT DEF Ep
<1>2. \A i \in 1 .. Len(ranks) : ranks[i].ep \in Int
  <2>1. \A i \in 1 .. Len(ranks) : ranks[i] \in Entry
    <3>1. ranks \in Seq(Entry)
      OBVIOUS
    <3> HIDE DEF Entry
    <3> QED  BY <3>1, ElementOfSeq, Zenon
  <2> QED  BY <2>1, SMT DEF Ep
<1>3. /\ pos \in 0 .. Len(ranks)
      /\ pos # 0 => /\ ranks[pos].ep <= ep
                    /\ \A i \in 1 .. pos - 1 : ranks[i].ep > ep
      /\ pos = 0 => \A i \in 1 .. Len(ranks) : ranks[i].ep > ep
  BY NewPosIs, Zenon
<1>4. pos \in 1 .. same
  BY <1>1, <1>2, <1>3, SMT
<1>5. /\ rest \in Seq(Entry) /\ Len(rest) = Len(ranks) - 1 /\ Ordered(rest)
      /\ \A j \in 1 .. Len(ranks) - 1 : rest[j] = IF j < same THEN ranks[j] ELSE ranks[j + 1]
  BY RemoveOrdered
<1> HIDE DEF rest, Entry
<1>6. pos \in 1 .. Len(rest) + 1
  BY <1>1, <1>4, <1>5, SMT
<1>7. ASSUME NEW i \in 1 .. Len(rest)
      PROVE  /\ rest[i].account # entry.account
             /\ i < pos => rest[i].ep >= entry.ep
             /\ i >= pos => rest[i].ep <= entry.ep
  <2>1. PICK k \in 1 .. Len(ranks) : /\ rest[i] = ranks[k] /\ k # same
                                     /\ i < pos => k = i
                                     /\ i >= pos => k >= pos
    <3>1. CASE i < same
      <4>1. i \in 1 .. Len(ranks) /\ rest[i] = ranks[i] /\ i # same
        BY <1>1, <1>5, <3>1, SMT
      <4> QED  BY <4>1
    <3>2. CASE ~(i < same)
      <4>1. i + 1 \in 1 .. Len(ranks) /\ rest[i] = ranks[i + 1] /\ i + 1 # same
        BY <1>1, <1>5, <3>2, SMT
      <4>2. ~(i < pos) /\ i + 1 >= pos
        BY <1>1, <1>4, <1>5, <3>2, SMT
      <4> QED  BY <4>1, <4>2
    <3> QED  BY <3>1, <3>2
  <2>2. rest[i].account # entry.account
    <3>1. k < same \/ same < k
      BY <2>1, SMT
    <3> QED  BY <1>1, <2>1, <3>1, Zenon DEF Ordered
  <2>3. CASE i < pos
    <3>1. i \in 1 .. pos - 1 /\ k = i
      BY <1>4, <1>5, <2>1, <2>3, SMT
    <3>2. ranks[i].ep > ep
      BY <1>3, <1>4, <3>1, SMT
    <3> QED  BY <1>1, <1>2, <1>4, <2>1, <2>2, <2>3, <3>1, <3>2, SMT
  <2>4. CASE i >= pos
    <3>1. pos \in 1 .. Len(ranks) /\ ranks[pos].ep <= ep
      BY <1>1, <1>3, <1>4, SMT
    <3>2. k = pos \/ k > pos
      BY <1>4, <2>1, <2>4, SMT
    <3>3. k > pos => ranks[pos].ep >= ranks[k].ep
      BY <2>1, <3>1, Zenon DEF Ordered
    <3>4. ranks[k].ep <= ep
      BY <1>1, <1>2, <2>1, <3>1, <3>2, <3>3, SMT
    <3> QED  BY <1>1, <1>4, <2>1, <2>2, <2>4, <3>4, SMT
  <2> QED  BY <1>4, <2>2, <2>3, <2>4, SMT
<1>8. InsertAt(rest, pos, entry) \in Seq(Entry) /\ Ordered(InsertAt(rest, pos, entry))
  <2>1. \A i \in 1 .. Len(rest) : /\ rest[i].account # entry.account
                                  /\ i < pos => rest[i].ep >= entry.ep
                                  /\ i >= pos => rest[i].ep <= entry.ep
    BY <1>7, Zenon
  <2> QED  BY <1>1, <1>5, <1>6, <2>1, InsertOrdered DEF Entry
<1> QED  BY <1>8 DEF MoveUp, rest, Entry

\* update_leaderboard keeps a sorted board sorted
LEMMA UpdateLeaderboardOrdered ==
  ASSUME NEW accounts, NEW ranks \in Seq([ep : Ep, account : accounts]), Ordered(ranks),
         NEW ep \in Ep, NEW account \in accounts
  PROVE  /\ UpdateLeaderboard(ranks, ep, account) \in Seq([ep : Ep, account : accounts])
         /\ Ordered(UpdateLeaderboard(ranks, ep, account))
<1> DEFINE Entry == [ep : Ep, account : accounts]
           same  == SameAccount(ranks, account)
           pos   == NewPos(ranks, ep)
           entry == [ep |-> ep, account |-> account]
           new   == UpdateLeaderboard(ranks, ep, account)
<1>1. /\ same \in 0 .. Len(ranks)
      /\ same # 0 => ranks[same].account = account
      /\ same = 0 => \A i \in 1 .. Len(ranks) : ranks[i].account # account
  BY SameAccountIs, Zenon
<1>2. new = IF same = 0 THEN Enter(ranks, pos, entry)
            ELSE IF ranks[same].ep > ep \/ (same = pos /\ ranks[same].ep = ep) THEN ranks
            ELSE MoveUp(ranks, same, pos, entry)
  BY Zenon DEF UpdateLeaderboard
<1> HIDE DEF new, Entry, same
<1>3. CASE same = 0
  <2>1. /\ Enter(ranks, pos, entry) \in Seq([ep : Ep, account : accounts])
        /\ Ordered(Enter(ranks, pos, entry))
    BY <1>1, <1>3, EnterOrdered, Zenon
  <2> QED  BY <1>2, <1>3, <2>1 DEF new
<1>4. CASE same # 0 /\ ~(ranks[same].ep > ep)
  <2>1. same \in 1 .. Len(ranks) /\ Len(ranks) \in Nat
    BY <1>1, <1>4, LenProperties, SMT
  <2>2. ranks[same].ep <= ep
    <3>1. ranks \in Seq(Entry)
      BY DEF Entry
    <3>2. ranks[same] \in Entry
      BY <2>1, <3>1, ElementOfSeq, Zenon
    <3>3. ranks[same].ep \in Int /\ ep \in Int
      BY <3>2, SMT DEF Entry, Ep
    <3> QED  BY <1>4, <3>3, SMT
  <2>3. /\ MoveUp(ranks, same, pos, entry) \in Seq([ep : Ep, account : accounts])
        /\ Ordered(MoveUp(ranks, same, pos, entry))
    BY <1>1, <1>4, <2>1, <2>2, MoveUpOrdered, Zenon
  <2>4. new = ranks \/ new = MoveUp(ranks, same, pos, entry)
    BY <1>2, <1>4, Zenon
  <2> QED  BY <2>3, <2>4 DEF new
<1>5. CASE same # 0 /\ ranks[same].ep > ep
  BY <1>2, <1>5 DEF new
<1> QED  BY <1>3, <1>4, <1>5

\* The larger of two numbers (the history of the best EPs)
LEMMA MaxPair ==
  ASSUME NEW a \in Int, NEW b \in Int
  PROVE  Max({a, b}) = IF a >= b THEN a ELSE b
<1>1. \A x \in {a, b} : (\A y \in {a, b} : x >= y) => x = IF a >= b THEN a ELSE b
  BY SMT
<1>2. \E x \in {a, b} : \A y \in {a, b} : x >= y
  BY SMT
<1> QED  BY <1>1, <1>2, Zenon DEF Max

\* RanksOrdered is Ordered, of the leaderboard
LEMMA RanksOrderedIs ==
  ASSUME NEW accounts, NEW ranks \in Seq([ep : Ep, account : accounts])
  PROVE  Ordered(ranks) <=>
           \A i, j \in DOMAIN ranks :
             i < j => ranks[i].ep >= ranks[j].ep /\ ranks[i].account # ranks[j].account
<1>1. DOMAIN ranks = 1 .. Len(ranks)
  BY LenProperties, Zenon
<1> QED  BY <1>1, Zenon DEF Ordered

\* Ranking an account at the end of its match keeps the leaderboard typed and sorted,
\* with no account on it twice (finish_mtc, update_leaderboard)
THEOREM RankKeepsOrder ==
  ASSUME NEW accounts, LeaderboardTypeOK(accounts), RanksOrdered,
         NEW account \in accounts, NEW ep \in Ep, Rank(account, ep)
  PROVE  LeaderboardTypeOK(accounts)' /\ RanksOrdered'
<1> DEFINE Entry == [ep : Ep, account : accounts]
           old   == leaderboard
           new   == leaderboard'
<1>1. new = UpdateLeaderboard(old, ep, account) /\ best' = [best EXCEPT ![account] = Max({@, ep})]
  BY DEF Rank
<1>2. old \in Seq(Entry) /\ best \in [accounts -> {0} \cup Ep]
  BY DEF LeaderboardTypeOK
<1>3. Ordered(old)
  <2> HIDE DEF old
  <2>1. \A i, j \in DOMAIN old : i < j => old[i].ep >= old[j].ep /\ old[i].account # old[j].account
    BY DEF RanksOrdered, old
  <2> QED  BY <1>2, <2>1, RanksOrderedIs, Zenon
<1>4. new \in Seq(Entry) /\ Ordered(new)
  <2> HIDE DEF old, new
  <2> QED  BY <1>1, <1>2, <1>3, UpdateLeaderboardOrdered, Zenon
<1>5. RanksOrdered'
  <2>1. \A i, j \in DOMAIN new : i < j => new[i].ep >= new[j].ep /\ new[i].account # new[j].account
    <3> HIDE DEF new
    <3> QED  BY <1>4, RanksOrderedIs, Zenon
  <2> QED  BY <2>1, Zenon DEF RanksOrdered
<1>6. best' \in [accounts -> {0} \cup Ep]
  <2>1. best[account] \in {0} \cup Ep
    BY <1>2
  <2>2. Max({best[account], ep}) \in {0} \cup Ep
    <3>1. best[account] \in Int /\ ep \in Int
      BY <2>1, SMT DEF Ep
    <3>2. Max({best[account], ep}) \in {best[account], ep}
      BY <3>1, MaxPair
    <3> QED  BY <2>1, <3>2, Zenon
  <2> QED  BY <1>1, <1>2, <2>2, Zenon
<1>7. LeaderboardTypeOK(accounts)'
  BY <1>4, <1>6, Zenon DEF LeaderboardTypeOK
<1> QED  BY <1>5, <1>7

--------------------------------------------------------------------------------

\* Every rank of the new board that is not the account's is a rank of the old one, and
\* two of them are in the order they had
KeepsOthers(ranks, new, account) ==
  \A i, j \in 1 .. Len(new) :
    i < j /\ new[i].account # account /\ new[j].account # account =>
      \E k, l \in 1 .. Len(ranks) : k < l /\ ranks[k] = new[i] /\ ranks[l] = new[j]

\* Vec::insert moves the ranks behind the new one down by one
LEMMA InsertKeepsOthers ==
  ASSUME NEW S, NEW ranks \in Seq(S), NEW pos \in 1 .. Len(ranks) + 1, NEW entry \in S
  PROVE  KeepsOthers(ranks, InsertAt(ranks, pos, entry), entry.account)
<1> DEFINE new == InsertAt(ranks, pos, entry)
<1>1. /\ Len(new) = Len(ranks) + 1 /\ Len(ranks) \in Nat
      /\ \A j \in 1 .. Len(ranks) + 1 :
           new[j] = IF j < pos THEN ranks[j] ELSE IF j = pos THEN entry ELSE ranks[j - 1]
  <2> HIDE DEF new
  <2>1. HasInserted(InsertAt(ranks, pos, entry), ranks, pos, entry)
    BY InsertAtHas, Zenon
  <2>2. Len(ranks) \in Nat
    BY LenProperties, SMT
  <2> QED  BY <2>1, <2>2, Zenon DEF new, HasInserted
<1> HIDE DEF new
<1> DEFINE Old(j) == IF j < pos THEN j ELSE j - 1
<1>2. ASSUME NEW j \in 1 .. Len(new), new[j].account # entry.account
      PROVE  Old(j) \in 1 .. Len(ranks) /\ new[j] = ranks[Old(j)] /\ j # pos
  BY <1>1, <1>2, SMT
<1>3. ASSUME NEW i \in 1 .. Len(new), NEW j \in 1 .. Len(new), i < j, i # pos, j # pos
      PROVE  Old(i) < Old(j)
  BY <1>1, <1>3, SMT
<1> HIDE DEF Old
<1> QED  BY <1>2, <1>3, Zenon DEF KeepsOthers, new

\* Vec::push leaves the ranks where they are
LEMMA AppendKeepsOthers ==
  ASSUME NEW S, NEW ranks \in Seq(S), NEW entry \in S
  PROVE  KeepsOthers(ranks, Append(ranks, entry), entry.account)
<1> DEFINE new == Append(ranks, entry)
<1>1. /\ Len(new) = Len(ranks) + 1 /\ Len(ranks) \in Nat
      /\ \A j \in 1 .. Len(ranks) : new[j] = ranks[j]
      /\ new[Len(ranks) + 1] = entry
  BY AppendProperties, LenProperties
<1> HIDE DEF new
<1>2. ASSUME NEW j \in 1 .. Len(new), new[j].account # entry.account
      PROVE  j \in 1 .. Len(ranks) /\ new[j] = ranks[j]
  BY <1>1, <1>2, SMT
<1> QED  BY <1>2, Zenon DEF KeepsOthers, new

\* Vec::truncate leaves the ranks it does not drop where they are
LEMMA PrefixKeepsOthers ==
  ASSUME NEW S, NEW ranks \in Seq(S), NEW n \in 0 .. Len(ranks), NEW account
  PROVE  KeepsOthers(ranks, SubSeq(ranks, 1, n), account)
<1>1. /\ Len(SubSeq(ranks, 1, n)) = n /\ Len(ranks) \in Nat
      /\ \A j \in 1 .. n : SubSeq(ranks, 1, n)[j] = ranks[j]
  BY PrefixIs, LenProperties, Zenon
<1>2. 1 .. n \subseteq 1 .. Len(ranks)
  BY <1>1, SMT
<1> QED  BY <1>1, <1>2, Zenon DEF KeepsOthers

\* The first half of rotate_right moves the ranks behind the removed one up by one
LEMMA RemoveKeepsOthers ==
  ASSUME NEW S, NEW ranks \in Seq(S), NEW same \in 1 .. Len(ranks), NEW account
  PROVE  KeepsOthers(ranks, RemoveAt(ranks, same), account)
<1> DEFINE rest == RemoveAt(ranks, same)
<1>1. /\ Len(rest) = Len(ranks) - 1 /\ Len(ranks) \in Nat
      /\ \A j \in 1 .. Len(ranks) - 1 : rest[j] = IF j < same THEN ranks[j] ELSE ranks[j + 1]
  BY RemoveAtIs, LenProperties, Zenon
<1> HIDE DEF rest
<1> DEFINE Old(j) == IF j < same THEN j ELSE j + 1
<1>2. ASSUME NEW j \in 1 .. Len(rest)
      PROVE  Old(j) \in 1 .. Len(ranks) /\ rest[j] = ranks[Old(j)]
  BY <1>1, <1>2, SMT
<1>3. ASSUME NEW i \in 1 .. Len(rest), NEW j \in 1 .. Len(rest), i < j
      PROVE  Old(i) < Old(j)
  BY <1>1, <1>3, SMT
<1> HIDE DEF Old
<1> QED  BY <1>2, <1>3, Zenon DEF KeepsOthers, rest

LEMMA KeepsOthersTransitive ==
  ASSUME NEW a, NEW b, NEW c, NEW account, KeepsOthers(a, b, account), KeepsOthers(b, c, account)
  PROVE  KeepsOthers(a, c, account)
<1> SUFFICES ASSUME NEW i \in 1 .. Len(c), NEW j \in 1 .. Len(c), i < j,
                    c[i].account # account, c[j].account # account
             PROVE  \E k, l \in 1 .. Len(a) : k < l /\ a[k] = c[i] /\ a[l] = c[j]
  BY Zenon DEF KeepsOthers
<1>1. PICK k, l \in 1 .. Len(b) : k < l /\ b[k] = c[i] /\ b[l] = c[j]
  BY Zenon DEF KeepsOthers
<1>2. b[k].account # account /\ b[l].account # account
  BY <1>1
<1>3. PICK m, n \in 1 .. Len(a) : m < n /\ a[m] = b[k] /\ a[n] = b[l]
  BY <1>1, <1>2, Zenon DEF KeepsOthers
<1>4. a[m] = c[i] /\ a[n] = c[j]
  BY <1>1, <1>3
<1> QED  BY <1>3, <1>4

\* What update_leaderboard did when it wrote a board: the entry is on it, every other rank
\* is an old one of another account, and an old rank is only missing if it was the
\* account's or if it was the last of a full board
Ranked(ranks, new, entry) ==
  /\ Len(new) \in Len(ranks) .. LeaderboardSize
  /\ \E j \in 1 .. Len(new) : new[j] = entry
  /\ \A j \in 1 .. Len(new) :
       \/ new[j] = entry
       \/ \E k \in 1 .. Len(ranks) : new[j] = ranks[k] /\ ranks[k].account # entry.account
  /\ \A k \in 1 .. Len(ranks) :
       \/ ranks[k].account = entry.account /\ ranks[k].ep <= entry.ep
       \/ \E j \in 1 .. Len(new) : new[j] = ranks[k]
       \/ Len(new) = LeaderboardSize /\ \A j \in 1 .. Len(new) : new[j].ep >= ranks[k].ep
  /\ Len(ranks) = LeaderboardSize => \E k \in 1 .. Len(ranks) : ranks[k].ep <= entry.ep

\* Why it left a board alone: the account was ranked as high before, or the board is full
\* of better players
Declined(ranks, entry) ==
  \/ \E k \in 1 .. Len(ranks) : ranks[k].account = entry.account /\ ranks[k].ep >= entry.ep
  \/ /\ Len(ranks) = LeaderboardSize
     /\ \A k \in 1 .. Len(ranks) : ranks[k].ep >= entry.ep /\ ranks[k].account # entry.account

\* The entry of a new account is inserted before the first rank that is not better, and
\* whoever falls off a full board was the worst of it (insert, truncate)
LEMMA EnterBefore ==
  ASSUME NEW accounts, NEW ranks \in Seq([ep : Ep, account : accounts]), Ordered(ranks),
         Len(ranks) <= LeaderboardSize, NEW entry \in [ep : Ep, account : accounts],
         \A i \in 1 .. Len(ranks) : ranks[i].account # entry.account,
         NEW pos \in 1 .. Len(ranks), ranks[pos].ep <= entry.ep,
         \A i \in 1 .. pos - 1 : ranks[i].ep > entry.ep
  PROVE  /\ Ranked(ranks, Enter(ranks, pos, entry), entry)
         /\ KeepsOthers(ranks, Enter(ranks, pos, entry), entry.account)
<1> DEFINE Entry == [ep : Ep, account : accounts]
           ins   == InsertAt(ranks, pos, entry)
           n     == Min({Len(ranks) + 1, LeaderboardSize})
           new   == Enter(ranks, pos, entry)
<1>1. /\ ranks \in Seq(Entry) /\ entry \in Entry /\ Len(ranks) \in Nat
      /\ LeaderboardSize \in Nat \ {0} /\ pos \in 1 .. Len(ranks) + 1
  BY LenProperties, LeaderboardAssumption, SMT DEF LeaderboardAssumption
<1>2. ranks[pos].ep <= entry.ep /\ \A i \in 1 .. pos - 1 : ranks[i].ep > entry.ep
  OBVIOUS
<1>3. \A i \in 1 .. Len(ranks) : ranks[i] \in Entry /\ ranks[i].ep \in Int
  <2>1. \A i \in 1 .. Len(ranks) : ranks[i] \in Entry
    <3> HIDE DEF Entry
    <3> QED  BY <1>1, ElementOfSeq, Zenon
  <2> QED  BY <2>1, SMT DEF Ep
<1>4. entry.ep \in Int
  BY SMT DEF Ep
<1>5. /\ ins \in Seq(Entry) /\ Len(ins) = Len(ranks) + 1
      /\ \A j \in 1 .. Len(ranks) + 1 :
           ins[j] = IF j < pos THEN ranks[j] ELSE IF j = pos THEN entry ELSE ranks[j - 1]
  <2> HIDE DEF Entry
  <2> QED  BY <1>1, InsertAtIs
<1>6. \A i, j \in 1 .. Len(ins) : i < j => ins[i].ep >= ins[j].ep
  <2>1. \A i \in 1 .. Len(ranks) : /\ ranks[i].account # entry.account
                                   /\ i < pos => ranks[i].ep >= entry.ep
                                   /\ i >= pos => ranks[i].ep <= entry.ep
    <3> SUFFICES ASSUME NEW i \in 1 .. Len(ranks)
                 PROVE  /\ i < pos => ranks[i].ep >= entry.ep
                        /\ i >= pos => ranks[i].ep <= entry.ep
      OBVIOUS
    <3>1. i > pos => ranks[pos].ep >= ranks[i].ep
      BY <1>1, Zenon DEF Ordered
    <3>2. i < pos => ranks[i].ep > entry.ep
      BY <1>1, <1>2, SMT
    <3> HIDE DEF Entry
    <3> QED  BY <1>1, <1>2, <1>3, <1>4, <3>1, <3>2, SMT
  <2>2. Ordered(ins)
    BY <1>1, <2>1, InsertOrdered
  <2> QED  BY <2>2, Zenon DEF Ordered
<1> HIDE DEF ins, Entry
<1>7. n = (IF Len(ranks) < LeaderboardSize THEN Len(ranks) + 1 ELSE LeaderboardSize)
  BY <1>1, MinPair, SMT
<1>8. n \in 0 .. Len(ins) /\ pos \in 1 .. n /\ n \in Len(ranks) .. LeaderboardSize
  BY <1>1, <1>5, <1>7, SMT
<1>9. new = SubSeq(ins, 1, n)
  <2>1. pos # 0
    BY SMT
  <2> QED  BY <2>1, Zenon DEF Enter, ins
<1> HIDE DEF new, n
<1>10. new \in Seq(Entry) /\ Len(new) = n /\ \A j \in 1 .. n : new[j] = ins[j]
  BY <1>5, <1>8, <1>9, PrefixIs
<1>11. new[pos] = entry
  BY <1>1, <1>5, <1>8, <1>10, SMT
<1>12. ASSUME NEW j \in 1 .. Len(new), new[j] # entry
       PROVE  \E k \in 1 .. Len(ranks) : new[j] = ranks[k] /\ ranks[k].account # entry.account
  <2>1. new[j] = ins[j] /\ j \in 1 .. Len(ranks) + 1
    BY <1>1, <1>5, <1>8, <1>10, SMT
  <2>2. CASE j < pos
    BY <1>1, <1>5, <2>1, <2>2, SMT
  <2>3. CASE j > pos
    <3>1. new[j] = ranks[j - 1] /\ j - 1 \in 1 .. Len(ranks)
      BY <1>1, <1>5, <2>1, <2>3, SMT
    <3> QED  BY <3>1
  <2>4. j # pos
    BY <1>11, <1>12
  <2> QED  BY <2>2, <2>3, <2>4, <1>1, <2>1, SMT
<1>13. ASSUME NEW k \in 1 .. Len(ranks)
       PROVE  \/ \E j \in 1 .. Len(new) : new[j] = ranks[k]
              \/ Len(new) = LeaderboardSize /\ \A j \in 1 .. Len(new) : new[j].ep >= ranks[k].ep
  <2>1. CASE k < pos
    <3>1. k \in 1 .. Len(new) /\ new[k] = ranks[k]
      BY <1>1, <1>5, <1>8, <1>10, <2>1, SMT
    <3> QED  BY <3>1
  <2>2. CASE k >= pos /\ k + 1 <= n
    <3>1. k + 1 \in 1 .. Len(new) /\ new[k + 1] = ranks[k + 1 - 1] /\ k + 1 - 1 = k
      BY <1>1, <1>5, <1>8, <1>10, <2>2, SMT
    <3> QED  BY <3>1
  <2>3. CASE k >= pos /\ k + 1 > n
    <3>1. Len(new) = LeaderboardSize
      BY <1>1, <1>7, <1>8, <1>10, <2>3, SMT
    <3>2. k + 1 \in 1 .. Len(ins) /\ ins[k + 1] = ranks[k + 1 - 1] /\ k + 1 - 1 = k
      BY <1>1, <1>5, <2>3, SMT
    <3>3. ASSUME NEW j \in 1 .. Len(new) PROVE new[j].ep >= ranks[k].ep
      <4>1. j < k + 1 /\ j \in 1 .. Len(ins) /\ new[j] = ins[j]
        BY <1>1, <1>5, <1>8, <1>10, <2>3, SMT
      <4>2. ins[j].ep >= ins[k + 1].ep
        BY <1>6, <3>2, <4>1, Zenon
      <4> QED  BY <3>2, <4>1, <4>2
    <3> QED  BY <3>1, <3>3
  <2> QED  BY <1>1, <1>8, <2>1, <2>2, <2>3, SMT
<1>14. Ranked(ranks, new, entry)
  <2>1. Len(new) \in Len(ranks) .. LeaderboardSize
    BY <1>8, <1>10
  <2>2. pos \in 1 .. Len(new)
    BY <1>8, <1>10
  <2> QED  BY <1>2, <1>11, <1>12, <1>13, <2>1, <2>2, Zenon DEF Ranked
<1>15. KeepsOthers(ranks, new, entry.account)
  <2>1. KeepsOthers(ranks, ins, entry.account)
    BY <1>1, InsertKeepsOthers DEF ins
  <2>2. KeepsOthers(ins, new, entry.account)
    BY <1>5, <1>8, <1>9, PrefixKeepsOthers
  <2> QED  BY <2>1, <2>2, KeepsOthersTransitive
<1> QED  BY <1>14, <1>15 DEF new

\* The entry of a new account that is worse than every rank goes to the end of a board
\* that is not full (push)
LEMMA EnterLast ==
  ASSUME NEW S, NEW ranks \in Seq(S), Len(ranks) < LeaderboardSize, NEW entry \in S,
         \A i \in 1 .. Len(ranks) : ranks[i].account # entry.account
  PROVE  /\ Ranked(ranks, Append(ranks, entry), entry)
         /\ KeepsOthers(ranks, Append(ranks, entry), entry.account)
<1> DEFINE new == Append(ranks, entry)
<1>1. /\ Len(new) = Len(ranks) + 1 /\ Len(ranks) \in Nat
      /\ \A j \in 1 .. Len(ranks) : new[j] = ranks[j]
      /\ new[Len(ranks) + 1] = entry
  BY AppendProperties, LenProperties
<1>2. KeepsOthers(ranks, new, entry.account)
  BY AppendKeepsOthers
<1> HIDE DEF new
<1>3. /\ Len(new) \in Len(ranks) .. LeaderboardSize
      /\ Len(ranks) + 1 \in 1 .. Len(new)
      /\ \A k \in 1 .. Len(ranks) : k \in 1 .. Len(new)
      /\ \A j \in 1 .. Len(new) : j = Len(ranks) + 1 \/ j \in 1 .. Len(ranks)
      /\ Len(ranks) # LeaderboardSize
  BY <1>1, LeaderboardAssumption, SMT DEF LeaderboardAssumption
<1>4. Ranked(ranks, new, entry)
  BY <1>1, <1>3, Zenon DEF Ranked
<1> QED  BY <1>2, <1>4 DEF new

\* rotate_right, index by index
LEMMA MoveUpIs ==
  ASSUME NEW S, NEW ranks \in Seq(S), NEW entry \in S,
         NEW same \in 1 .. Len(ranks), NEW pos \in 1 .. same
  PROVE  LET new == MoveUp(ranks, same, pos, entry)
         IN  /\ Len(new) = Len(ranks) /\ new[pos] = entry
             /\ \A j \in 1 .. Len(ranks) : pos < j /\ j <= same => new[j] = ranks[j - 1]
             /\ \A j \in 1 .. Len(ranks) : j < pos \/ same < j => new[j] = ranks[j]
             /\ KeepsOthers(ranks, new, entry.account)
<1> DEFINE rest == RemoveAt(ranks, same)
           new  == InsertAt(rest, pos, entry)
<1>1. Len(ranks) \in Nat
  BY LenProperties, Zenon
<1>2. /\ rest \in Seq(S) /\ Len(rest) = Len(ranks) - 1
      /\ \A j \in 1 .. Len(ranks) - 1 : rest[j] = IF j < same THEN ranks[j] ELSE ranks[j + 1]
  BY <1>1, RemoveAtIs
<1>3. KeepsOthers(ranks, rest, entry.account)
  BY RemoveKeepsOthers
<1> HIDE DEF rest
<1>4. pos \in 1 .. Len(rest) + 1
  BY <1>1, <1>2, SMT
<1>5. /\ Len(new) = Len(rest) + 1
      /\ \A j \in 1 .. Len(rest) + 1 :
           new[j] = IF j < pos THEN rest[j] ELSE IF j = pos THEN entry ELSE rest[j - 1]
  <2>1. rest \in Seq(S)
    BY <1>2
  <2> HIDE DEF new
  <2>2. HasInserted(InsertAt(rest, pos, entry), rest, pos, entry)
    BY <1>4, <2>1, InsertAtHas, Zenon
  <2> QED  BY <1>2, <2>2, Zenon DEF new, HasInserted
<1>6. KeepsOthers(rest, new, entry.account)
  BY <1>2, <1>4, InsertKeepsOthers
<1>7. MoveUp(ranks, same, pos, entry) = new
  BY Zenon DEF MoveUp, rest
<1> HIDE DEF new
<1>8. KeepsOthers(ranks, new, entry.account)
  BY <1>3, <1>6, KeepsOthersTransitive
<1>9. Len(new) = Len(ranks)
  BY <1>1, <1>2, <1>5, SMT
<1>10. ASSUME NEW j \in 1 .. Len(ranks)
       PROVE  /\ j = pos => new[j] = entry
              /\ pos < j /\ j <= same => new[j] = ranks[j - 1]
              /\ j < pos \/ same < j => new[j] = ranks[j]
  <2>1. CASE j < pos
    BY <1>1, <1>2, <1>5, <2>1, SMT
  <2>2. CASE j = pos
    BY <1>1, <1>2, <1>5, <2>2, SMT
  <2>3. CASE pos < j
    <3>1. new[j] = rest[j - 1] /\ j - 1 \in 1 .. Len(ranks) - 1
      BY <1>1, <1>2, <1>5, <2>3, SMT
    <3>2. rest[j - 1] = IF j - 1 < same THEN ranks[j - 1] ELSE ranks[j - 1 + 1]
      BY <1>2, <3>1, Zenon
    <3>3. j - 1 + 1 = j /\ (j - 1 < same <=> j <= same) /\ j # pos
      BY <2>3, SMT
    <3> QED  BY <2>3, <3>1, <3>2, <3>3, SMT
  <2> QED  BY <2>1, <2>2, <2>3, SMT
<1>11. pos \in 1 .. Len(ranks)
  BY <1>1, SMT
<1> QED  BY <1>7, <1>8, <1>9, <1>10, <1>11, Zenon

\* A ranked account that improves moves up, and everyone stays on the board (rotate_right)
LEMMA MoveUpRanks ==
  ASSUME NEW accounts, NEW ranks \in Seq([ep : Ep, account : accounts]), Ordered(ranks),
         Len(ranks) <= LeaderboardSize, NEW entry \in [ep : Ep, account : accounts],
         NEW same \in 1 .. Len(ranks), ranks[same].account = entry.account,
         ranks[same].ep <= entry.ep, NEW pos \in 1 .. same
  PROVE  Ranked(ranks, MoveUp(ranks, same, pos, entry), entry)
<1> DEFINE Entry == [ep : Ep, account : accounts]
           new   == MoveUp(ranks, same, pos, entry)
<1>1. /\ ranks \in Seq(Entry) /\ entry \in Entry /\ Len(ranks) \in Nat
      /\ LeaderboardSize \in Nat \ {0}
  BY LenProperties, LeaderboardAssumption, SMT DEF LeaderboardAssumption
<1> HIDE DEF Entry
<1>2. /\ Len(new) = Len(ranks) /\ new[pos] = entry
      /\ \A j \in 1 .. Len(ranks) : pos < j /\ j <= same => new[j] = ranks[j - 1]
      /\ \A j \in 1 .. Len(ranks) : j < pos \/ same < j => new[j] = ranks[j]
  BY <1>1, MoveUpIs
<1> HIDE DEF new
<1>3. \A k \in 1 .. Len(ranks) : k # same => ranks[k].account # entry.account
  <2> SUFFICES ASSUME NEW k \in 1 .. Len(ranks), k # same PROVE ranks[k].account # entry.account
    OBVIOUS
  <2>1. k < same \/ same < k
    BY <1>1, SMT
  <2> QED  BY <2>1, Zenon DEF Ordered
<1>4. ASSUME NEW j \in 1 .. Len(new), new[j] # entry
      PROVE  \E k \in 1 .. Len(ranks) : new[j] = ranks[k] /\ k # same
  <2>1. j # pos /\ j \in 1 .. Len(ranks)
    BY <1>2, <1>4, SMT
  <2>2. CASE pos < j /\ j <= same
    <3>1. j - 1 \in 1 .. Len(ranks) /\ j - 1 # same /\ new[j] = ranks[j - 1]
      BY <1>1, <1>2, <2>1, <2>2, SMT
    <3> QED  BY <3>1
  <2>3. CASE ~(pos < j /\ j <= same)
    <3>1. j # same /\ new[j] = ranks[j]
      BY <1>1, <1>2, <2>1, <2>3, SMT
    <3> QED  BY <2>1, <3>1
  <2> QED  BY <2>2, <2>3
<1>5. ASSUME NEW k \in 1 .. Len(ranks), k # same
      PROVE  \E j \in 1 .. Len(new) : new[j] = ranks[k]
  <2>1. CASE pos <= k /\ k < same
    <3>1. /\ k + 1 \in 1 .. Len(ranks) /\ pos < k + 1 /\ k + 1 <= same
          /\ k + 1 - 1 = k
      BY <1>1, <1>2, <2>1, SMT
    <3>2. new[k + 1] = ranks[k + 1 - 1]
      BY <1>2, <3>1
    <3> QED  BY <1>2, <3>1, <3>2
  <2>2. CASE ~(pos <= k /\ k < same)
    <3>1. k \in 1 .. Len(new) /\ new[k] = ranks[k]
      BY <1>1, <1>2, <1>5, <2>2, SMT
    <3> QED  BY <3>1
  <2> QED  BY <2>1, <2>2
<1>6. pos \in 1 .. Len(new) /\ new[pos] = entry /\ Len(new) \in Len(ranks) .. LeaderboardSize
  BY <1>1, <1>2, SMT
<1>7. Ranked(ranks, new, entry)
  BY <1>3, <1>4, <1>5, <1>6, Zenon DEF Ranked
<1> QED  BY <1>7 DEF new

\* update_leaderboard either writes a board with the entry on it or declines it with a
\* reason, and never reorders the other ranks
LEMMA UpdateLeaderboardIs ==
  ASSUME NEW accounts, NEW ranks \in Seq([ep : Ep, account : accounts]), Ordered(ranks),
         Len(ranks) <= LeaderboardSize, NEW entry \in [ep : Ep, account : accounts]
  PROVE  LET new == UpdateLeaderboard(ranks, entry.ep, entry.account)
         IN  \/ new = ranks /\ Declined(ranks, entry)
             \/ Ranked(ranks, new, entry) /\ KeepsOthers(ranks, new, entry.account)
<1> DEFINE Entry == [ep : Ep, account : accounts]
           same  == SameAccount(ranks, entry.account)
           pos   == NewPos(ranks, entry.ep)
           new   == UpdateLeaderboard(ranks, entry.ep, entry.account)
<1>1. /\ ranks \in Seq(Entry) /\ entry \in Entry /\ Len(ranks) \in Nat
      /\ entry.ep \in Ep /\ entry.ep \in Int
      /\ LeaderboardSize \in Nat \ {0} /\ entry = [ep |-> entry.ep, account |-> entry.account]
  BY LenProperties, LeaderboardAssumption, SMT DEF LeaderboardAssumption, Ep
<1>2. \A i \in 1 .. Len(ranks) : ranks[i].ep \in Int
  <2>1. \A i \in 1 .. Len(ranks) : ranks[i] \in Entry
    <3> HIDE DEF Entry
    <3> QED  BY <1>1, ElementOfSeq, Zenon
  <2> QED  BY <2>1, SMT DEF Ep
<1>3. /\ same \in 0 .. Len(ranks)
      /\ same # 0 => ranks[same].account = entry.account
      /\ same = 0 => \A i \in 1 .. Len(ranks) : ranks[i].account # entry.account
  BY SameAccountIs, Zenon
<1>4. /\ pos \in 0 .. Len(ranks)
      /\ pos # 0 => /\ ranks[pos].ep <= entry.ep
                    /\ \A i \in 1 .. pos - 1 : ranks[i].ep > entry.ep
      /\ pos = 0 => \A i \in 1 .. Len(ranks) : ranks[i].ep > entry.ep
  BY <1>1, NewPosIs, Zenon
<1>5. new = IF same = 0 THEN Enter(ranks, pos, entry)
            ELSE IF ranks[same].ep > entry.ep \/ (same = pos /\ ranks[same].ep = entry.ep) THEN ranks
            ELSE MoveUp(ranks, same, pos, entry)
  BY <1>1, Zenon DEF UpdateLeaderboard
<1> HIDE DEF new, same, pos
<1> DEFINE Kept    == new = ranks /\ Declined(ranks, entry)
           Changed == Ranked(ranks, new, entry) /\ KeepsOthers(ranks, new, entry.account)
<1>6. CASE same = 0 /\ pos # 0
  <2>1. pos \in 1 .. Len(ranks)
    BY <1>1, <1>4, <1>6, SMT
  <2>2. new = Enter(ranks, pos, entry)
    BY <1>5, <1>6, Zenon
  <2>3. Changed
    BY <1>3, <1>4, <1>6, <2>1, <2>2, EnterBefore
  <2> QED  BY <2>3 DEF new
<1>7. CASE same = 0 /\ pos = 0
  <2>1. CASE Len(ranks) < LeaderboardSize
    <3>1. new = Append(ranks, entry)
      BY <1>5, <1>7, <2>1, Zenon DEF Enter
    <3>2. Changed
      BY <1>1, <1>3, <1>7, <2>1, <3>1, EnterLast
    <3> QED  BY <3>2 DEF new
  <2>2. CASE ~(Len(ranks) < LeaderboardSize)
    <3>1. new = ranks
      BY <1>5, <1>7, <2>2, Zenon DEF Enter
    <3>2. \A k \in 1 .. Len(ranks) : ranks[k].ep >= entry.ep
      BY <1>1, <1>2, <1>4, <1>7, SMT
    <3>3. Len(ranks) = LeaderboardSize
      BY <1>1, <2>2, SMT
    <3>4. Kept
      BY <1>3, <1>7, <3>1, <3>2, <3>3, Zenon DEF Declined
    <3> QED  BY <3>4 DEF new
  <2> QED  BY <2>1, <2>2
<1>8. CASE same # 0 /\ new = ranks /\ ranks[same].ep >= entry.ep
  <2>1. same \in 1 .. Len(ranks)
    BY <1>1, <1>3, <1>8, SMT
  <2>2. Kept
    BY <1>3, <1>8, <2>1, Zenon DEF Declined
  <2> QED  BY <2>2 DEF new
<1>9. CASE same # 0 /\ new = MoveUp(ranks, same, pos, entry) /\ ~(ranks[same].ep > entry.ep)
  <2>1. same \in 1 .. Len(ranks) /\ ranks[same].ep <= entry.ep
    BY <1>1, <1>2, <1>3, <1>9, SMT
  <2>2. pos \in 1 .. same
    <3>1. pos # 0
      BY <1>1, <1>2, <1>4, <2>1, SMT
    <3>2. ~(same \in 1 .. pos - 1)
      BY <1>1, <1>2, <1>4, <2>1, <3>1, SMT
    <3> QED  BY <1>1, <1>4, <2>1, <3>1, <3>2, SMT
  <2>3. Ranked(ranks, MoveUp(ranks, same, pos, entry), entry)
    BY <1>3, <1>9, <2>1, <2>2, MoveUpRanks
  <2>4. KeepsOthers(ranks, MoveUp(ranks, same, pos, entry), entry.account)
    <3> HIDE DEF Entry
    <3> QED  BY <1>1, <2>1, <2>2, MoveUpIs
  <2>5. Changed
    BY <1>9, <2>3, <2>4, Zenon
  <2> QED  BY <2>5 DEF new
<1>10. \/ same = 0 /\ (pos = 0 \/ pos # 0)
       \/ same # 0 /\ new = ranks /\ ranks[same].ep >= entry.ep
       \/ same # 0 /\ new = MoveUp(ranks, same, pos, entry) /\ ~(ranks[same].ep > entry.ep)
  <2>1. same # 0 => ranks[same].ep \in Int
    BY <1>1, <1>2, <1>3, SMT
  <2>2. same # 0 /\ ranks[same].ep > entry.ep => ranks[same].ep >= entry.ep
    BY <1>1, <2>1, SMT
  <2>3. same # 0 /\ ranks[same].ep = entry.ep => ranks[same].ep >= entry.ep
    BY <1>1, <2>1, SMT
  <2> QED  BY <1>5, <2>2, <2>3, Zenon
<1> QED  BY <1>6, <1>7, <1>8, <1>9, <1>10, Zenon

\* RanksTheBest, of any board and any best EPs
Best(ranks, bests) ==
  /\ Len(ranks) <= LeaderboardSize
  /\ \A i \in 1 .. Len(ranks) : ranks[i].ep = bests[ranks[i].account]
  /\ \A a \in DOMAIN bests :
       \/ bests[a] = 0
       \/ \E i \in 1 .. Len(ranks) : ranks[i].account = a
       \/ Len(ranks) = LeaderboardSize /\ \A i \in 1 .. Len(ranks) : ranks[i].ep >= bests[a]

\* A written board lists the best: the entry shows its account's new best EP, and whoever
\* is not on the board is not better than anyone on it
LEMMA RankedBest ==
  ASSUME NEW accounts, NEW ranks \in Seq([ep : Ep, account : accounts]),
         NEW new \in Seq([ep : Ep, account : accounts]),
         NEW bests \in [accounts -> {0} \cup Ep], Best(ranks, bests),
         NEW entry \in [ep : Ep, account : accounts], Ranked(ranks, new, entry),
         NEW after, after = [bests EXCEPT ![entry.account] = Max({@, entry.ep})]
  PROVE  Best(new, after)
<1> DEFINE Entry   == [ep : Ep, account : accounts]
           account == entry.account
<1>1. \A i \in 1 .. Len(ranks) : ranks[i] \in Entry
  BY ElementOfSeq, Zenon
<1>2. /\ \A i \in 1 .. Len(ranks) : ranks[i].ep \in Int
      /\ entry.ep \in Nat \ {0} /\ account \in accounts
  BY <1>1, SMT DEF Ep, MIN_EP
<1>3. \A a \in accounts : bests[a] \in Nat
  BY SMT DEF Ep, MIN_EP
<1>4. Len(ranks) \in Nat /\ Len(new) \in Nat /\ LeaderboardSize \in Nat
  BY LenProperties, LeaderboardAssumption, SMT DEF LeaderboardAssumption
<1>5. DOMAIN bests = accounts /\ DOMAIN after = accounts
  OBVIOUS
<1>6. bests[account] <= entry.ep
  <2>1. CASE bests[account] = 0
    BY <1>2, <2>1, SMT
  <2>2. CASE \E i \in 1 .. Len(ranks) : ranks[i].account = account
    <3>1. PICK i \in 1 .. Len(ranks) : ranks[i].account = account
      BY <2>2
    <3>2. ranks[i].ep = bests[account]
      BY <3>1, Zenon DEF Best
    <3>3. \/ ranks[i].ep <= entry.ep
          \/ \E j \in 1 .. Len(new) : new[j] = ranks[i]
          \/ Len(new) = LeaderboardSize /\ \A j \in 1 .. Len(new) : new[j].ep >= ranks[i].ep
      BY Zenon DEF Ranked
    <3>4. CASE \E j \in 1 .. Len(new) : new[j] = ranks[i]
      <4>1. PICK j \in 1 .. Len(new) : new[j] = ranks[i]
        BY <3>4
      <4>2. new[j] = entry \/ \E k \in 1 .. Len(ranks) : new[j] = ranks[k] /\ ranks[k].account # account
        BY Zenon DEF Ranked
      <4>3. new[j].account = account
        BY <3>1, <4>1
      <4>4. new[j] = entry
        BY <4>2, <4>3, Zenon
      <4> QED  BY <1>2, <3>2, <4>1, <4>4, SMT
    <3>5. CASE \A j \in 1 .. Len(new) : new[j].ep >= ranks[i].ep
      <4>1. PICK j \in 1 .. Len(new) : new[j] = entry
        BY Zenon DEF Ranked
      <4>2. entry.ep >= ranks[i].ep
        BY <3>5, <4>1, Zenon
      <4> QED  BY <1>2, <3>2, <4>2, SMT
    <3> QED  BY <3>2, <3>3, <3>4, <3>5, Zenon
  <2>3. CASE Len(ranks) = LeaderboardSize /\ \A i \in 1 .. Len(ranks) : ranks[i].ep >= bests[account]
    <3>1. PICK k \in 1 .. Len(ranks) : ranks[k].ep <= entry.ep
      BY <2>3, Zenon DEF Ranked
    <3>2. ranks[k].ep >= bests[account]
      BY <2>3, Zenon
    <3> QED  BY <1>2, <1>3, <3>1, <3>2, SMT
  <2> QED  BY <1>2, <1>5, <2>1, <2>2, <2>3, Zenon DEF Best
<1>7. after[account] = entry.ep /\ \A a \in accounts : a # account => after[a] = bests[a]
  <2>1. Max({bests[account], entry.ep}) = entry.ep
    BY <1>2, <1>3, <1>6, MaxPair, SMT
  <2> QED  BY <1>2, <2>1, Zenon
<1> HIDE DEF account
<1>8. Len(new) <= LeaderboardSize
  BY <1>4, SMT DEF Ranked
<1>9. ASSUME NEW j \in 1 .. Len(new)
      PROVE  new[j].ep = after[new[j].account]
  <2>1. CASE new[j] = entry
    BY <1>7, <2>1, Zenon DEF account
  <2>2. CASE \E k \in 1 .. Len(ranks) : new[j] = ranks[k] /\ ranks[k].account # account
    <3>1. PICK k \in 1 .. Len(ranks) : new[j] = ranks[k] /\ ranks[k].account # account
      BY <2>2
    <3>2. ranks[k].ep = bests[ranks[k].account] /\ ranks[k].account \in accounts
      <4>1. ranks[k].ep = bests[ranks[k].account]
        BY Zenon DEF Best
      <4> QED  BY <1>1, <4>1
    <3> QED  BY <1>7, <3>1, <3>2, Zenon
  <2> QED  BY <2>1, <2>2, Zenon DEF Ranked, account
<1>10. ASSUME NEW a \in accounts
       PROVE  \/ after[a] = 0
              \/ \E j \in 1 .. Len(new) : new[j].account = a
              \/ Len(new) = LeaderboardSize /\ \A j \in 1 .. Len(new) : new[j].ep >= after[a]
  <2>1. CASE a = account
    <3>1. PICK j \in 1 .. Len(new) : new[j] = entry
      BY Zenon DEF Ranked
    <3> QED  BY <2>1, <3>1, Zenon DEF account
  <2>2. CASE a # account /\ bests[a] = 0
    BY <1>7, <2>2, Zenon
  <2>3. CASE a # account /\ \E k \in 1 .. Len(ranks) : ranks[k].account = a
    <3>1. PICK k \in 1 .. Len(ranks) : ranks[k].account = a
      BY <2>3
    <3>2. ranks[k].ep = after[a]
      BY <1>7, <2>3, <3>1, Zenon DEF Best
    <3>3. \/ \E j \in 1 .. Len(new) : new[j] = ranks[k]
          \/ Len(new) = LeaderboardSize /\ \A j \in 1 .. Len(new) : new[j].ep >= ranks[k].ep
      BY <2>3, <3>1, Zenon DEF Ranked, account
    <3>4. CASE \E j \in 1 .. Len(new) : new[j] = ranks[k]
      BY <3>1, <3>4
    <3> QED  BY <3>2, <3>3, <3>4, Zenon
  <2>4. CASE /\ a # account
             /\ Len(ranks) = LeaderboardSize /\ \A k \in 1 .. Len(ranks) : ranks[k].ep >= bests[a]
    <3>1. Len(new) = LeaderboardSize
      BY <1>4, <2>4, SMT DEF Ranked
    <3>2. ASSUME NEW j \in 1 .. Len(new) PROVE new[j].ep >= bests[a]
      <4>1. CASE new[j] = entry
        <5>1. PICK k \in 1 .. Len(ranks) : ranks[k].ep <= entry.ep
          BY <2>4, Zenon DEF Ranked
        <5>2. ranks[k].ep >= bests[a]
          BY <2>4, Zenon
        <5> QED  BY <1>2, <1>3, <4>1, <5>1, <5>2, SMT
      <4>2. CASE \E k \in 1 .. Len(ranks) : new[j] = ranks[k]
        BY <2>4, <4>2
      <4> QED  BY <4>1, <4>2, Zenon DEF Ranked
    <3> QED  BY <1>7, <2>4, <3>1, <3>2, Zenon
  <2> QED  BY <1>5, <2>1, <2>2, <2>3, <2>4, Zenon DEF Best
<1> QED  BY <1>5, <1>8, <1>9, <1>10, Zenon DEF Best

\* A board that was left alone still lists the best
LEMMA DeclinedBest ==
  ASSUME NEW accounts, NEW ranks \in Seq([ep : Ep, account : accounts]),
         NEW bests \in [accounts -> {0} \cup Ep], Best(ranks, bests),
         NEW entry \in [ep : Ep, account : accounts], Declined(ranks, entry),
         NEW after, after = [bests EXCEPT ![entry.account] = Max({@, entry.ep})]
  PROVE  Best(ranks, after)
<1> DEFINE Entry   == [ep : Ep, account : accounts]
           account == entry.account
<1>1. \A i \in 1 .. Len(ranks) : ranks[i] \in Entry
  BY ElementOfSeq, Zenon
<1>2. /\ \A i \in 1 .. Len(ranks) : ranks[i].ep \in Int /\ ranks[i].account \in accounts
      /\ entry.ep \in Nat \ {0} /\ account \in accounts
  BY <1>1, SMT DEF Ep, MIN_EP
<1>3. \A a \in accounts : bests[a] \in Nat
  BY SMT DEF Ep, MIN_EP
<1>4. DOMAIN bests = accounts /\ DOMAIN after = accounts
  OBVIOUS
<1>5. /\ after[account] = IF bests[account] >= entry.ep THEN bests[account] ELSE entry.ep
      /\ \A a \in accounts : a # account => after[a] = bests[a]
  <2>1. Max({bests[account], entry.ep}) = IF bests[account] >= entry.ep THEN bests[account] ELSE entry.ep
    BY <1>2, <1>3, MaxPair, SMT
  <2> QED  BY <1>2, <2>1, Zenon
<1> HIDE DEF account
<1>6. CASE \E k \in 1 .. Len(ranks) : ranks[k].account = account /\ ranks[k].ep >= entry.ep
  <2>1. after[account] = bests[account]
    BY <1>2, <1>3, <1>5, <1>6, SMT DEF Best
  <2>2. \A a \in accounts : after[a] = bests[a]
    BY <1>5, <2>1, Zenon
  <2> QED  BY <1>2, <1>4, <2>2, Zenon DEF Best
<1>7. CASE /\ Len(ranks) = LeaderboardSize
           /\ \A k \in 1 .. Len(ranks) : ranks[k].ep >= entry.ep /\ ranks[k].account # account
  <2>1. \/ bests[account] = 0
        \/ \A i \in 1 .. Len(ranks) : ranks[i].ep >= bests[account]
    BY <1>2, <1>4, <1>7, Zenon DEF Best
  <2>2. \A i \in 1 .. Len(ranks) : ranks[i].ep >= after[account]
    BY <1>2, <1>3, <1>5, <1>7, <2>1, SMT
  <2>3. \A i \in 1 .. Len(ranks) : ranks[i].ep = after[ranks[i].account]
    BY <1>2, <1>5, <1>7, Zenon DEF Best
  <2>4. ASSUME NEW a \in accounts
        PROVE  \/ after[a] = 0
               \/ \E i \in 1 .. Len(ranks) : ranks[i].account = a
               \/ Len(ranks) = LeaderboardSize /\ \A i \in 1 .. Len(ranks) : ranks[i].ep >= after[a]
    <3>1. CASE a = account
      BY <1>7, <2>2, <3>1, Zenon
    <3>2. CASE a # account
      BY <1>4, <1>5, <3>2, Zenon DEF Best
    <3> QED  BY <3>1, <3>2
  <2> QED  BY <1>4, <2>3, <2>4, Zenon DEF Best
<1> QED  BY <1>6, <1>7, Zenon DEF Declined, account

\* RanksTheBest is Best, of the leaderboard
LEMMA RanksTheBestIs ==
  ASSUME NEW accounts, LeaderboardTypeOK(accounts)
  PROVE  RanksTheBest <=> Best(leaderboard, best)
<1>1. DOMAIN leaderboard = 1 .. Len(leaderboard)
  BY LenProperties, Zenon DEF LeaderboardTypeOK
<1> QED  BY <1>1, Zenon DEF RanksTheBest, Best

\* Ranking an account at the end of its match: the board lists the best players as it did
\* before, by their best EPs, and no other two players change places (finish_mtc,
\* update_leaderboard)
THEOREM RankKeepsTheBest ==
  ASSUME NEW accounts, LeaderboardTypeOK(accounts), RanksOrdered, RanksTheBest,
         NEW account \in accounts, NEW ep \in Ep, Rank(account, ep)
  PROVE  RanksTheBest' /\ (leaderboard' = leaderboard \/ OthersStay(account))
<1> DEFINE entry == [ep |-> ep, account |-> account]
           old   == leaderboard
           new   == leaderboard'
<1>1. new = UpdateLeaderboard(old, ep, account) /\ best' = [best EXCEPT ![account] = Max({@, ep})]
  BY DEF Rank
<1>2. old \in Seq([ep : Ep, account : accounts]) /\ best \in [accounts -> {0} \cup Ep]
  BY DEF LeaderboardTypeOK
<1>3. LeaderboardTypeOK(accounts)' /\ new \in Seq([ep : Ep, account : accounts])
  BY RankKeepsOrder, Zenon DEF LeaderboardTypeOK
<1>4. Best(old, best) /\ Len(old) <= LeaderboardSize
  BY RanksTheBestIs, Zenon DEF Best
<1>5. entry \in [ep : Ep, account : accounts] /\ entry.ep = ep /\ entry.account = account
  OBVIOUS
<1>6. Ordered(old)
  <2> HIDE DEF old
  <2>1. \A i, j \in DOMAIN old : i < j => old[i].ep >= old[j].ep /\ old[i].account # old[j].account
    BY DEF RanksOrdered, old
  <2> QED  BY <1>2, <2>1, RanksOrderedIs, Zenon
<1> HIDE DEF entry, old, new
<1>7. \/ new = old /\ Declined(old, entry)
      \/ Ranked(old, new, entry) /\ KeepsOthers(old, new, account)
  <2>1. \/ UpdateLeaderboard(old, entry.ep, entry.account) = old /\ Declined(old, entry)
        \/ /\ Ranked(old, UpdateLeaderboard(old, entry.ep, entry.account), entry)
           /\ KeepsOthers(old, UpdateLeaderboard(old, entry.ep, entry.account), entry.account)
    BY <1>2, <1>4, <1>5, <1>6, UpdateLeaderboardIs, Zenon
  <2> QED  BY <1>1, <1>5, <2>1
<1>8. best' = [best EXCEPT ![entry.account] = Max({@, entry.ep})]
  BY <1>1, <1>5
<1>9. Best(new, best')
  <2>1. CASE new = old /\ Declined(old, entry)
    BY <1>2, <1>4, <1>5, <1>8, <2>1, DeclinedBest
  <2>2. CASE Ranked(old, new, entry)
    BY <1>2, <1>3, <1>4, <1>5, <1>8, <2>2, RankedBest
  <2> QED  BY <1>7, <2>1, <2>2
<1>10. DOMAIN old = 1 .. Len(old) /\ DOMAIN new = 1 .. Len(new)
  BY <1>2, <1>3, LenProperties, Zenon
<1>11. RanksTheBest'
  BY <1>9, <1>10, Zenon DEF RanksTheBest, Best, new
<1>12. KeepsOthers(old, new, account) => OthersStay(account)
  <2> SUFFICES ASSUME KeepsOthers(old, new, account)
               PROVE  \A i, j \in DOMAIN new :
                        i < j /\ new[i].account # account /\ new[j].account # account =>
                          \E k, l \in DOMAIN old : k < l /\ old[k] = new[i] /\ old[l] = new[j]
    BY DEF OthersStay, old, new
  <2> SUFFICES ASSUME NEW i \in DOMAIN new, NEW j \in DOMAIN new,
                      i < j, new[i].account # account, new[j].account # account
               PROVE  \E k, l \in DOMAIN old : k < l /\ old[k] = new[i] /\ old[l] = new[j]
    BY Zenon
  <2>1. i \in 1 .. Len(new) /\ j \in 1 .. Len(new)
    BY <1>10
  <2>2. PICK k, l \in 1 .. Len(old) : k < l /\ old[k] = new[i] /\ old[l] = new[j]
    BY <2>1, Zenon DEF KeepsOthers
  <2>3. k \in DOMAIN old /\ l \in DOMAIN old
    BY <1>10
  <2> QED  BY <2>2, <2>3
<1> QED  BY <1>7, <1>11, <1>12, Zenon DEF old, new

================================================================================
