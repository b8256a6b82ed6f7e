--------------------------- MODULE BattleMarchProofs ---------------------------
(***************************************************************************)
(* Theorems about BattleMarch: whoever is on a board has attack and health *)
(* left, under an id of its own, and nobody's count of attacks is more     *)
(* than the attacks its player has had.                                    *)
(***************************************************************************)
EXTENDS BattleReplay, SequenceLemmas, FiniteSetTheorems

Player == {0, 1}

\* An emo on a board
Fighter == [id : Nat, count : Nat, base : DOMAIN Bases, triple : BOOLEAN,
        attack : 1 .. StatMax, health : 1 .. StatMax, abilities : Seq(Learnable)]

\* What abilities do: the last only as an ally
Actions       == {a.action : a \in {b \in Learnable : b.phase = "Battle" /\ ~IsSpecial(b)}}
NormalActions == {action \in Actions : IsAction(action)}
AllyActions   == {action \in Actions : IsAction(action) \/ action.act = "TriggerRetireActions"}

\* The calls on the agenda, by what is called
Pres         == [call : {"Pre"}, player : Player]
Counters     == [call : {"Counter"}, player : Player, index : Nat, damage : Nat]
Survivals    == [call : {"Survive"}, player : Player, index : Nat]
Damages      == [call : {"Damage"}, player : Player, index : Nat, damage : Nat, counts : BOOLEAN]
AllyRetirals  == [call : {"AlliesOfRetired"}, player : Player, index : Nat, emo : Fighter]
RivalRetirals == [call : {"RivalsOfRetired"}, player : Player, emo : Fighter]
Acts         == [call : {"Act"}, player : Player, index : Nat, action : NormalActions, retired : Seq(Fighter),
                 except : SUBSET DOMAIN Bases]
AllyActs     == [call : {"AllyAct"}, player : Player, holder : Nat, index : Nat, action : AllyActions,
                 retired : Seq(Fighter)]
DamageIds    == [call : {"DamageId"}, player : Player, id : Nat, damage : Nat]
Sets         == [call : {"Set"}, player : Player, index : Nat, side : Side, base : DOMAIN Bases,
                 triple : BOOLEAN, count : Nat]

Call == Pres \cup Counters \cup Survivals \cup Damages \cup AllyRetirals \cup RivalRetirals
        \cup Acts \cup AllyActs \cup DamageIds \cup Sets

\* The attacker's part of an attack: it is hit back, and counted if it survives
IsBlow(c) == c.call \in {"Counter", "Survive"} \/ (c.call = "Damage" /\ c.counts)

\* A player's attack of which the attacker's part is still to come
BlowDue(calls, p) == calls # <<>> /\ IsBlow(calls[Len(calls)]) /\ calls[Len(calls)].player = p

\* ... and the attacks that are over
Over(p) == AttacksOf(p) - (IF BlowDue(agenda, p) THEN 1 ELSE 0)

\* The emo a call brings along has attacked and survived that often at most
CarriesAtMost(c, n) ==
  /\ c.call \in {"Act", "AllyAct"} /\ c.retired # <<>> => c.retired[1].count <= n
  /\ c.call \in {"AlliesOfRetired", "RivalsOfRetired"} => c.emo.count <= n
  /\ c.call = "Set" => c.count <= n

FightType ==
  /\ outcome \in {"fighting", "finished", "failed"}
  /\ tick \in 0 .. TickMax
  /\ first \in Player
  /\ nextId \in Nat
  /\ boards \in [Player -> Seq(Fighter)]
  /\ agenda \in Seq(Call)

\* Ids are given once
IdsOnce ==
  \A p \in Player :
    /\ Len(boards[p]) <= BoardMax
    /\ \A i \in 1 .. Len(boards[p]) :
         /\ boards[p][i].id < nextId
         /\ \A j \in 1 .. Len(boards[p]) : boards[p][i].id = boards[p][j].id => i = j

\* The attacker's part is what an attack ends with
BlowLast ==
  /\ \A i \in 1 .. Len(agenda) - 1 : ~IsBlow(agenda[i])
  /\ \A p \in Player : Over(p) >= 0

\* Nobody, on a board or retired, has a count that is more than the attacks that are over
CountsOver ==
  \A p \in Player :
    /\ \A i \in 1 .. Len(boards[p]) : boards[p][i].count <= Over(p)
    /\ \A i \in 1 .. Len(agenda) : agenda[i].player = p => CarriesAtMost(agenda[i], Over(p))

MarchInv == FightType /\ IdsOnce /\ BlowLast /\ CountsOver

--------------------------------------------------------------------------------

\* What the calls of a kind carry
LEMMA CallIs ==
  ASSUME NEW c \in Call
  PROVE  /\ c.player \in Player
         /\ c.call = "Counter" => c \in Counters
         /\ c.call = "Survive" => c \in Survivals
         /\ c.call = "Damage" => c \in Damages
         /\ c.call = "AlliesOfRetired" => c \in AllyRetirals
         /\ c.call = "RivalsOfRetired" => c \in RivalRetirals
         /\ c.call = "Act" => c \in Acts
         /\ c.call = "AllyAct" => c \in AllyActs
         /\ c.call = "DamageId" => c \in DamageIds
         /\ c.call = "Set" => c \in Sets
BY SMT DEF Call, Pres, Counters, Survivals, Damages, AllyRetirals, RivalRetirals, Acts, AllyActs, DamageIds, Sets

\* The elements of a sequence
LEMMA SeqElements ==
  ASSUME NEW S, NEW s \in Seq(S)
  PROVE  Len(s) \in Nat /\ DOMAIN s = 1 .. Len(s) /\ \A i \in 1 .. Len(s) : s[i] \in S
BY LenProperties, ElementOfSeq, Zenon

\* A search finds the first that matches
LEMMA MarchMinIs ==
  ASSUME NEW n \in Nat, NEW S \in SUBSET (1 .. n), S # {}
  PROVE  Min(S) \in 1 .. n /\ Min(S) \in S
<1>1. S \in SUBSET Nat
  BY SMT
<1> QED  BY <1>1, MinNat, Zenon

\* get_board_abilities: indexes, and abilities that are wanted
LEMMA AbilitiesType ==
  ASSUME NEW board \in Seq(Fighter), NEW wanted
  PROVE  Abilities(board, wanted) \in Seq([index : Nat, ability : wanted])
<1> DEFINE R == [index : Nat, ability : wanted]
           Of(i, j) == LET ability == board[i].abilities[j]
                       IN  IF ability \in wanted THEN <<[index |-> i - 1, ability |-> ability]>> ELSE <<>>
           Row(i) == FlattenSeq([j \in DOMAIN board[i].abilities |-> Of(i, j)])
<1>1. Len(board) \in Nat /\ DOMAIN board = 1 .. Len(board) /\ \A i \in 1 .. Len(board) : board[i] \in Fighter
  BY SeqElements, Zenon
<1>2. ASSUME NEW i \in 1 .. Len(board) PROVE Row(i) \in Seq(R)
  <2>1. board[i].abilities \in Seq(Learnable) /\ i - 1 \in Nat
    BY <1>1, SMT DEF Fighter
  <2>2. /\ Len(board[i].abilities) \in Nat
        /\ DOMAIN board[i].abilities = 1 .. Len(board[i].abilities)
    BY <2>1, SeqElements, Zenon
  <2>3. ASSUME NEW j PROVE Of(i, j) \in Seq(R)
    <3>1. CASE board[i].abilities[j] \in wanted
      <4>1. [index |-> i - 1, ability |-> board[i].abilities[j]] \in R
        BY <2>1, <3>1
      <4> HIDE DEF R
      <4>2. <<[index |-> i - 1, ability |-> board[i].abilities[j]]>> \in Seq(R)
        BY <4>1, SMT
      <4> QED  BY <3>1, <4>2
    <3>2. CASE board[i].abilities[j] \notin wanted
      BY <3>2, EmptySeq, Zenon
    <3> QED  BY <3>1, <3>2
  <2> HIDE DEF Of, R
  <2>4. [j \in DOMAIN board[i].abilities |-> Of(i, j)] \in [1 .. Len(board[i].abilities) -> Seq(R)]
    BY <2>2, <2>3, Zenon
  <2>5. [j \in DOMAIN board[i].abilities |-> Of(i, j)] \in Seq(Seq(R))
    <3>1. \A s \in [1 .. Len(board[i].abilities) -> Seq(R)] : s \in Seq(Seq(R))
      BY <2>2, FunctionIsSeq, Zenon
    <3> QED  BY <2>4, <3>1
  <2> QED  BY <2>5, FlattenSeqType, Zenon
<1>3. Abilities(board, wanted) = FlattenSeq([i \in DOMAIN board |-> Row(i)])
  BY DEF Abilities
<1> HIDE DEF Row, R
<1>4. [i \in DOMAIN board |-> Row(i)] \in [1 .. Len(board) -> Seq(R)]
  BY <1>1, <1>2, Zenon
<1>5. [i \in DOMAIN board |-> Row(i)] \in Seq(Seq(R))
  BY <1>1, <1>4, FunctionIsSeq, Zenon
<1>6. Abilities(board, wanted) \in Seq(R)
  BY <1>3, <1>5, FlattenSeqType, Zenon
<1> QED  BY <1>6, Zenon DEF R

\* ... of an emo itself are never to have retire actions run again
LEMMA OneselfActs ==
  ASSUME NEW trigger, NEW a \in OfTrigger("Oneself", trigger)
  PROVE  a.action \in NormalActions
BY LearnableAssumption, SMT DEF LearnableAssumption, OfTrigger, NormalActions, Actions, IsSpecial

\* ... of an ally may be
LEMMA AllyActsType ==
  ASSUME NEW trigger, NEW a \in OfTrigger("Ally", trigger)
  PROVE  a.action \in AllyActions
BY LearnableAssumption, SMT DEF LearnableAssumption, OfTrigger, AllyActions, Actions, IsSpecial

--------------------------------------------------------------------------------

\* Calls that neither end an attack nor bring an emo that attacked more often than its
\* player's attacks that are over
Plain == {c \in Call : ~IsBlow(c) /\ CarriesAtMost(c, Over(c.player))}

\* What may take the place of a call: an attacker's part only that of an attacker's part
Follows(calls, c) ==
  \A i \in 1 .. Len(calls) :
    \/ calls[i] \in Plain
    \/ i = Len(calls) /\ IsBlow(c) /\ IsBlow(calls[i]) /\ calls[i].player = c.player

AgendaKept ==
  /\ agenda' \in Seq(Call)
  /\ BlowLast'
  /\ \A p \in Player :
       /\ Over(p) \in Nat /\ Over(p)' \in Nat /\ Over(p) <= Over(p)'
       /\ \A i \in 1 .. Len(agenda') : agenda'[i].player = p => CarriesAtMost(agenda'[i], Over(p)')

\* The attacks of a player are a number
LEMMA OverType ==
  ASSUME FightType, BlowLast, NEW p \in Player
  PROVE  Over(p) \in Nat /\ AttacksOf(p) \in Nat
<1>1. tick \in Nat
  BY MatchupsAssumption, SMT DEF FightType, MatchupsAssumption
<1>2. AttacksOf(p) \in Nat
  BY <1>1, SMT DEF AttacksOf
<1> QED  BY <1>2, SMT DEF BlowLast, Over

\* More may be carried when more is over
LEMMA CarriesMore ==
  ASSUME NEW c \in Call, NEW n \in Nat, NEW m \in Nat, n <= m, CarriesAtMost(c, n)
  PROVE  CarriesAtMost(c, m)
<1>1. CASE c.call \in {"Act", "AllyAct"}
  <2>1. c.retired \in Seq(Fighter)
    BY <1>1, CallIs, SMT DEF Acts, AllyActs
  <2>2. c.retired # <<>> => c.retired[1] \in Fighter
    <3>1. c.retired # <<>> => 1 \in 1 .. Len(c.retired)
      BY <2>1, EmptySeq, SMT
    <3> QED  BY <2>1, <3>1, SeqElements, Zenon
  <2>3. c.retired # <<>> => c.retired[1].count \in Nat
    BY <2>2 DEF Fighter
  <2> QED  BY <1>1, <2>3, SMT DEF CarriesAtMost
<1>2. CASE c.call \in {"AlliesOfRetired", "RivalsOfRetired"}
  <2>1. c.emo.count \in Nat
    BY <1>2, CallIs, SMT DEF AllyRetirals, RivalRetirals, Fighter
  <2> QED  BY <1>2, <2>1, SMT DEF CarriesAtMost
<1>3. CASE c.call = "Set"
  <2>1. c.count \in Nat
    BY <1>3, CallIs, SMT DEF Sets
  <2> QED  BY <1>3, <2>1, SMT DEF CarriesAtMost
<1> QED  BY <1>1, <1>2, <1>3, Zenon DEF CarriesAtMost

\* A blow carries nobody
LEMMA BlowCarries ==
  ASSUME NEW c, NEW n, IsBlow(c)
  PROVE  CarriesAtMost(c, n)
BY SMT DEF IsBlow, CarriesAtMost

\* The first call is replaced by those it makes
LEMMA PushKeeps ==
  ASSUME FightType, BlowLast, CountsOver, agenda # <<>>,
         NEW calls \in Seq(Call), Follows(calls, Head(agenda)), Push(calls), UNCHANGED <<tick, first>>
  PROVE  AgendaKept
<1> DEFINE n == Len(calls)
           m == Len(agenda)
           t == calls \o Tail(agenda)
<1>1. /\ agenda \in Seq(Call) /\ Tail(agenda) \in Seq(Call) /\ Len(Tail(agenda)) = m - 1
      /\ \A i \in 1 .. m - 1 : Tail(agenda)[i] = agenda[i + 1]
      /\ n \in Nat /\ m \in Nat \ {0} /\ Head(agenda) = agenda[1]
  <2>1. agenda \in Seq(Call)
    BY DEF FightType
  <2>2. /\ Tail(agenda) \in Seq(Call) /\ Len(Tail(agenda)) = m - 1
        /\ \A i \in 1 .. Len(Tail(agenda)) : Tail(agenda)[i] = agenda[i + 1]
    BY <2>1, HeadTailProperties, Zenon
  <2>3. n \in Nat /\ m \in Nat \ {0}
    BY <2>1, LenProperties, EmptySeq, Zenon
  <2> QED  BY <2>1, <2>2, <2>3, SMT
<1>2. /\ t \in Seq(Call) /\ Len(t) = n + Len(Tail(agenda))
      /\ \A i \in 1 .. n + Len(Tail(agenda)) : t[i] = IF i <= n THEN calls[i] ELSE Tail(agenda)[i - n]
  BY <1>1, ConcatProperties, Zenon
<1>3. agenda' = t
  BY DEF Push
<1> HIDE DEF t
<1>4. /\ Len(t) = n + m - 1
      /\ \A i \in 1 .. n : t[i] = calls[i]
      /\ \A i \in n + 1 .. n + m - 1 : t[i] = agenda[i - n + 1]
  <2> HIDE DEF n, m
  <2>1. Len(t) = n + m - 1
    BY <1>1, <1>2, SMT
  <2>2. ASSUME NEW i \in 1 .. n PROVE t[i] = calls[i]
    BY <1>1, <1>2, SMT
  <2>3. ASSUME NEW i \in n + 1 .. n + m - 1 PROVE t[i] = agenda[i - n + 1]
    <3>1. i \in 1 .. n + Len(Tail(agenda)) /\ ~(i <= n) /\ i - n \in 1 .. m - 1
      BY <1>1, SMT
    <3> QED  BY <1>1, <1>2, <3>1, Zenon
  <2> QED  BY <2>1, <2>2, <2>3
<1>5. /\ \A i \in 1 .. m - 1 : ~IsBlow(agenda[i])
      /\ IsBlow(Head(agenda)) => m = 1
  BY <1>1, SMT DEF BlowLast
<1>6. \A i \in 1 .. n : calls[i] \in Plain \/ (i = n /\ IsBlow(agenda[1]) /\ IsBlow(calls[i]) /\ calls[i].player = agenda[1].player)
  BY <1>1, Zenon DEF Follows
<1>7. \A c \in Plain : ~IsBlow(c) /\ CarriesAtMost(c, Over(c.player))
  BY DEF Plain
<1> HIDE DEF n, m
<1>8. \A i \in 1 .. Len(t) - 1 : ~IsBlow(t[i])
  <2> SUFFICES ASSUME NEW i \in 1 .. Len(t) - 1 PROVE ~IsBlow(t[i])
    OBVIOUS
  <2>1. CASE i <= n
    <3>1. i \in 1 .. n /\ t[i] = calls[i] /\ (m = 1 => i # n)
      BY <1>1, <1>4, <2>1, SMT
    <3> QED  BY <1>1, <1>5, <1>6, <1>7, <3>1, Zenon
  <2>2. CASE i > n
    <3>1. i - n + 1 \in 1 .. m - 1 /\ t[i] = agenda[i - n + 1]
      BY <1>1, <1>4, <2>2, SMT
    <3> QED  BY <1>5, <3>1, Zenon
  <2> QED  BY <1>1, <2>1, <2>2, SMT
<1>9. ASSUME NEW p \in Player, BlowDue(t, p) PROVE BlowDue(agenda, p)
  <2>1. t # <<>> /\ IsBlow(t[Len(t)]) /\ t[Len(t)].player = p
    BY <1>9 DEF BlowDue
  <2>2. Len(t) \in Nat \ {0}
    BY <1>2, <2>1, EmptySeq, Zenon
  <2>3. CASE m = 1
    <3>1. Len(t) = n /\ n \in 1 .. n /\ t[n] = calls[n]
      BY <1>1, <1>4, <2>2, <2>3, SMT
    <3>2. IsBlow(agenda[m]) /\ agenda[m].player = p
      BY <1>6, <1>7, <2>1, <2>3, <3>1, Zenon
    <3> QED  BY <3>2 DEF BlowDue, m
  <2>4. CASE m # 1
    <3>1. Len(t) \in n + 1 .. n + m - 1 /\ Len(t) - n + 1 = m
      BY <1>1, <1>4, <2>4, SMT
    <3>2. t[Len(t)] = agenda[m]
      BY <1>4, <3>1, Zenon
    <3> QED  BY <2>1, <3>2 DEF BlowDue, m
  <2> QED  BY <2>3, <2>4
<1>10. ASSUME NEW p \in Player
       PROVE  /\ Over(p) \in Nat /\ Over(p)' \in Nat /\ Over(p) <= Over(p)'
  <2>1. AttacksOf(p)' = AttacksOf(p)
    BY DEF AttacksOf
  <2>2. Over(p) \in Nat /\ AttacksOf(p) \in Nat
    BY OverType
  <2>3. Over(p) = AttacksOf(p) - (IF BlowDue(agenda, p) THEN 1 ELSE 0)
    BY DEF Over
  <2>4. Over(p)' = AttacksOf(p) - (IF BlowDue(t, p) THEN 1 ELSE 0)
    BY <1>3, <2>1 DEF Over
  <2> QED  BY <1>9, <2>2, <2>3, <2>4, SMT
<1>11. ASSUME NEW p \in Player, NEW i \in 1 .. Len(t), t[i].player = p
       PROVE  CarriesAtMost(t[i], Over(p)')
  <2>1. t[i] \in Call
    BY <1>2, ElementOfSeq, Zenon
  <2>2. CASE i <= n
    <3>1. i \in 1 .. n /\ t[i] = calls[i]
      BY <1>1, <1>4, <2>2, SMT
    <3>2. CASE calls[i] \in Plain
      BY <1>7, <1>10, <1>11, <2>1, <3>1, <3>2, CarriesMore, Zenon
    <3>3. CASE IsBlow(calls[i])
      BY <3>1, <3>3, BlowCarries, Zenon
    <3> QED  BY <1>6, <3>1, <3>2, <3>3, Zenon
  <2>3. CASE i > n
    <3>1. i - n + 1 \in 1 .. m /\ t[i] = agenda[i - n + 1]
      BY <1>1, <1>4, <2>3, SMT
    <3>2. CarriesAtMost(t[i], Over(p))
      BY <1>11, <3>1, Zenon DEF CountsOver, m
    <3> QED  BY <1>10, <2>1, <3>2, CarriesMore, Zenon
  <2> QED  BY <1>1, <2>2, <2>3, SMT
<1>12. BlowLast'
  <2>1. \A i \in 1 .. Len(agenda') - 1 : ~IsBlow(agenda'[i])
    BY <1>3, <1>8, Zenon
  <2>2. \A p \in Player : Over(p)' >= 0
    BY <1>10, SMT
  <2> QED  BY <2>1, <2>2 DEF BlowLast, IsBlow
<1>13. agenda' \in Seq(Call)
  BY <1>2, <1>3, Zenon
<1>14. \A p \in Player : \A i \in 1 .. Len(agenda') : agenda'[i].player = p => CarriesAtMost(agenda'[i], Over(p)')
  BY <1>3, <1>11, Zenon
<1> QED  BY <1>10, <1>12, <1>13, <1>14, Zenon DEF AgendaKept

\* ... by plain ones, or by none
LEMMA PlainFollows ==
  ASSUME NEW c, NEW calls \in Seq(Plain)
  PROVE  calls \in Seq(Call) /\ Follows(calls, c)
<1>1. \A i \in 1 .. Len(calls) : calls[i] \in Plain
  BY ElementOfSeq, Zenon
<1>2. Plain \subseteq Call
  BY DEF Plain
<1> QED  BY <1>1, <1>2, SeqMonotonic, Zenon DEF Follows

\* ... and then the agenda is kept
LEMMA PlainKeeps ==
  ASSUME FightType, BlowLast, CountsOver, agenda # <<>>,
         NEW calls \in Seq(Plain), Push(calls), UNCHANGED <<tick, first>>
  PROVE  AgendaKept
<1>1. calls \in Seq(Call) /\ Follows(calls, Head(agenda))
  BY PlainFollows, Zenon
<1> QED  BY <1>1, PushKeeps

--------------------------------------------------------------------------------

\* The boards are those of the same emos, wounded or strengthened
SameCrew ==
  /\ boards' \in [Player -> Seq(Fighter)]
  /\ \A p \in Player :
       /\ Len(boards'[p]) = Len(boards[p])
       /\ \A i \in 1 .. Len(boards[p]) :
            boards'[p][i].id = boards[p][i].id /\ boards'[p][i].count = boards[p][i].count

\* The board of a player
LEMMA BoardIs ==
  ASSUME FightType, NEW p \in Player
  PROVE  /\ boards[p] \in Seq(Fighter) /\ Len(boards[p]) \in Nat
         /\ DOMAIN boards[p] = 1 .. Len(boards[p])
         /\ \A i \in 1 .. Len(boards[p]) : boards[p][i] \in Fighter
<1>1. boards[p] \in Seq(Fighter)
  BY DEF FightType
<1> QED  BY <1>1, SeqElements, Zenon

\* Boards left alone
LEMMA SameBoards ==
  ASSUME FightType, UNCHANGED boards
  PROVE  SameCrew
BY SMT DEF FightType, SameCrew

\* A step that leaves everybody where they are
LEMMA CrewStep ==
  ASSUME MarchInv, AgendaKept, SameCrew, UNCHANGED <<tick, first, outcome, nextId>>
  PROVE  MarchInv'
<1>1. FightType'
  BY SMT DEF MarchInv, FightType, AgendaKept, SameCrew
<1>2. IdsOnce'
  BY SMT DEF MarchInv, IdsOnce, SameCrew
<1>3. CountsOver'
  <2> SUFFICES ASSUME NEW p \in Player PROVE
        /\ \A i \in 1 .. Len(boards'[p]) : boards'[p][i].count <= Over(p)'
        /\ \A i \in 1 .. Len(agenda') : agenda'[i].player = p => CarriesAtMost(agenda'[i], Over(p)')
    BY DEF CountsOver, CarriesAtMost
  <2>1. /\ Over(p) \in Nat /\ Over(p)' \in Nat /\ Over(p) <= Over(p)'
        /\ \A i \in 1 .. Len(agenda') : agenda'[i].player = p => CarriesAtMost(agenda'[i], Over(p)')
    BY Zenon DEF AgendaKept
  <2>2. ASSUME NEW i \in 1 .. Len(boards'[p]) PROVE boards'[p][i].count <= Over(p)'
    <3>1. i \in 1 .. Len(boards[p]) /\ boards'[p][i].count = boards[p][i].count
      BY Zenon DEF SameCrew
    <3>2. boards[p][i].count <= Over(p)
      BY <3>1, Zenon DEF MarchInv, CountsOver
    <3>3. boards[p][i].count \in Nat
      <4>1. boards[p][i] \in Fighter
        BY <3>1, BoardIs, Zenon DEF MarchInv
      <4> QED  BY <4>1, Zenon DEF Fighter
    <3>4. boards'[p][i].count <= Over(p)
      BY <3>1, <3>2, Zenon
    <3>5. boards'[p][i].count \in Nat
      BY <3>1, <3>3, Zenon
    <3> HIDE DEF Over
    <3> QED  BY <2>1, <3>4, <3>5, SMT
  <2> QED  BY <2>1, <2>2
<1> QED  BY <1>1, <1>2, <1>3 DEF MarchInv, AgendaKept

\* The first call
LEMMA HeadIs ==
  ASSUME MarchInv, agenda # <<>>
  PROVE  /\ Head(agenda) \in Call
         /\ Head(agenda).player \in Player
         /\ CarriesAtMost(Head(agenda), Over(Head(agenda).player))
<1>1. agenda \in Seq(Call)
  BY DEF MarchInv, FightType
<1>2. Head(agenda) = agenda[1] /\ 1 \in 1 .. Len(agenda)
  BY <1>1, EmptySeq, SMT
<1>3. Head(agenda) \in Call /\ Head(agenda).player \in Player
  BY <1>1, <1>2, ElementOfSeq, CallIs, Zenon
<1> QED  BY <1>2, <1>3, Zenon DEF MarchInv, CountsOver

\* An emo that is there
LEMMA EmoAtIs ==
  ASSUME MarchInv, NEW p \in Player, NEW index \in Nat, HasEmoAt(p, index)
  PROVE  /\ index + 1 \in 1 .. Len(boards[p])
         /\ EmoAt(p, index) = boards[p][index + 1]
         /\ EmoAt(p, index) \in Fighter
         /\ EmoAt(p, index).count \in Nat /\ EmoAt(p, index).count <= Over(p)
<1>1. Len(boards[p]) \in Nat /\ \A i \in 1 .. Len(boards[p]) : boards[p][i] \in Fighter
  BY BoardIs DEF MarchInv
<1>2. index + 1 \in 1 .. Len(boards[p])
  BY <1>1, SMT DEF HasEmoAt
<1>3. EmoAt(p, index) \in Fighter /\ boards[p][index + 1].count <= Over(p)
  BY <1>1, <1>2, Zenon DEF EmoAt, MarchInv, CountsOver
<1> QED  BY <1>2, <1>3, SMT DEF EmoAt, Fighter

\* Whoever acts: on the board, or retired and as it was
Actor(retired, p) == retired \in Seq(Fighter) /\ (retired # <<>> => retired[1].count <= Over(p))

\* Who retired was on a board
LEMMA ActorIs ==
  ASSUME NEW retired, NEW p, Actor(retired, p), retired # <<>>
  PROVE  retired[1] \in Fighter
<1>1. retired \in Seq(Fighter)
  BY DEF Actor
<1>2. 1 \in 1 .. Len(retired)
  BY <1>1, EmptySeq, SMT
<1> QED  BY <1>1, <1>2, SeqElements, Zenon

\* Nobody retired
LEMMA NobodyActs ==
  ASSUME NEW p
  PROVE  Actor(NotRetired, p)
BY EmptySeq, Zenon DEF Actor, NotRetired

\* ... or an emo that was on a board
LEMMA RetiredActs ==
  ASSUME NEW p, NEW emo \in Fighter, emo.count <= Over(p)
  PROVE  Actor(<<emo>>, p)
<1>1. <<emo>> \in Seq(Fighter) /\ <<emo>>[1] = emo
  BY SMT
<1> QED  BY <1>1, Zenon DEF Actor

\* A call of an ability of an emo itself is a plain one
LEMMA ActCallType ==
  ASSUME NEW p \in Player, NEW index \in Nat, NEW action \in NormalActions,
         NEW retired, Actor(retired, p)
  PROVE  ActCall(p, index, action, retired) \in Plain \cap Acts
<1> DEFINE c == ActCall(p, index, action, retired)
<1>1. c \in Acts /\ c.call = "Act" /\ c.player = p /\ c.retired = retired
  BY SMT DEF ActCall, Acts, Actor
<1> HIDE DEF c
<1>2. c \in Call
  BY <1>1, Zenon DEF Call
<1>3. ~IsBlow(c) /\ CarriesAtMost(c, Over(p))
  BY <1>1, SMT DEF IsBlow, CarriesAtMost, Actor
<1> QED  BY <1>1, <1>2, <1>3, Zenon DEF Plain, c

\* ... and so is one of an ally
LEMMA AllyActCallType ==
  ASSUME NEW p \in Player, NEW holder \in Nat, NEW index \in Nat, NEW action \in AllyActions,
         NEW retired, Actor(retired, p)
  PROVE  AllyActCall(p, holder, index, action, retired) \in Plain
<1> DEFINE c == AllyActCall(p, holder, index, action, retired)
<1>1. c \in AllyActs /\ c.call = "AllyAct" /\ c.player = p /\ c.retired = retired
  BY SMT DEF AllyActCall, AllyActs, Actor
<1> HIDE DEF c
<1>2. c \in Call
  BY <1>1, Zenon DEF Call
<1>3. ~IsBlow(c) /\ CarriesAtMost(c, Over(p))
  BY <1>1, SMT DEF IsBlow, CarriesAtMost, Actor
<1> QED  BY <1>1, <1>2, <1>3, Zenon DEF Plain, c

\* Emos that act on an event, and the calls it makes
LEMMA OneselfCalls ==
  ASSUME NEW trigger, NEW wanted \in SUBSET OfTrigger("Oneself", trigger),
         NEW board \in Seq(Fighter), NEW p \in Player
  PROVE  LET found == Abilities(board, wanted)
         IN  [i \in DOMAIN found |-> ActCall(p, found[i].index, found[i].ability.action, NotRetired)] \in Seq(Plain)
<1> DEFINE found == Abilities(board, wanted)
           Made(i) == ActCall(p, found[i].index, found[i].ability.action, NotRetired)
<1>1. found \in Seq([index : Nat, ability : wanted])
  BY AbilitiesType, Zenon
<1> HIDE DEF found
<1>2. Len(found) \in Nat /\ DOMAIN found = 1 .. Len(found)
      /\ \A i \in 1 .. Len(found) : found[i] \in [index : Nat, ability : wanted]
  BY <1>1, SeqElements, Zenon
<1>3. ASSUME NEW i \in 1 .. Len(found) PROVE Made(i) \in Plain
  <2>1. found[i].index \in Nat /\ found[i].ability \in OfTrigger("Oneself", trigger)
    BY <1>2, SMT
  <2>2. found[i].ability.action \in NormalActions
    BY <2>1, OneselfActs, Zenon
  <2> QED  BY <2>1, <2>2, NobodyActs, ActCallType
<1> HIDE DEF Made
<1>4. [i \in DOMAIN found |-> Made(i)] \in [1 .. Len(found) -> Plain]
  BY <1>2, <1>3, Zenon
<1>5. [i \in DOMAIN found |-> Made(i)] \in Seq(Plain)
  BY <1>2, <1>4, FunctionIsSeq, Zenon
<1> QED  BY <1>5 DEF found, Made

\* call_emo_retire_player_abilities, an emo's own: as the emo that is gone
LEMMA RetireCallsType ==
  ASSUME NEW p \in Player, NEW index \in Nat, NEW emo \in Fighter, emo.count <= Over(p)
  PROVE  RetireCalls(p, index, emo) \in Seq({c \in Plain \cap Acts : c.player = p})
<1> DEFINE S == {c \in Plain \cap Acts : c.player = p}
           own == OfTrigger("Oneself", "Retire")
           Made(i) == LET ability == emo.abilities[i]
                      IN  IF ability \in own THEN <<ActCall(p, index, ability.action, <<emo>>)>> ELSE <<>>
<1>1. emo.abilities \in Seq(Learnable)
  BY DEF Fighter
<1>2. Len(emo.abilities) \in Nat /\ DOMAIN emo.abilities = 1 .. Len(emo.abilities)
  BY <1>1, SeqElements, Zenon
<1>3. ASSUME NEW i PROVE Made(i) \in Seq(S)
  <2>1. CASE emo.abilities[i] \in own
    <3> DEFINE call == ActCall(p, index, emo.abilities[i].action, <<emo>>)
    <3>1. emo.abilities[i].action \in NormalActions /\ Actor(<<emo>>, p)
      BY <2>1, OneselfActs, RetiredActs, Zenon
    <3>2. call \in Plain \cap Acts
      BY <3>1, ActCallType, Zenon
    <3>3. call.player = p
      BY DEF ActCall
    <3>4. call \in S
      BY <3>2, <3>3, Zenon
    <3> HIDE DEF call, S
    <3>5. <<call>> \in Seq(S)
      BY <3>4, SMT
    <3> QED  BY <2>1, <3>5 DEF call
  <2>2. CASE emo.abilities[i] \notin own
    BY <2>2, EmptySeq, Zenon
  <2> QED  BY <2>1, <2>2
<1>4. RetireCalls(p, index, emo) = FlattenSeq([i \in DOMAIN emo.abilities |-> Made(i)])
  BY DEF RetireCalls
<1> HIDE DEF Made, S
<1>5. [i \in DOMAIN emo.abilities |-> Made(i)] \in [1 .. Len(emo.abilities) -> Seq(S)]
  BY <1>2, <1>3, Zenon
<1>6. [i \in DOMAIN emo.abilities |-> Made(i)] \in Seq(Seq(S))
  BY <1>2, <1>5, FunctionIsSeq, Zenon
<1>7. RetireCalls(p, index, emo) \in Seq(S)
  BY <1>4, <1>6, FlattenSeqType, Zenon
<1> QED  BY <1>7 DEF S

\* call_shield_removed_ability
LEMMA ShieldRemovedType ==
  ASSUME NEW p \in Player, NEW board \in Seq(Fighter), NEW emo \in Fighter
  PROVE  ShieldRemovedCalls(p, board, emo) \in Seq(Plain)
<1> DEFINE wanted == {a \in OfTrigger("Oneself", "AllyBattleAbilityRemoved") : Kind(emo) \in a.kinds}
           found == Abilities(board, wanted)
           Base(i) == ActCall(p, found[i].index, found[i].ability.action, NotRetired)
           Made(i) == [Base(i) EXCEPT !.except = IF found[i].ability.except THEN {emo.base} ELSE {}]
<1>1. found \in Seq([index : Nat, ability : wanted])
  BY AbilitiesType, Zenon
<1>2. ShieldRemovedCalls(p, board, emo) = [i \in DOMAIN found |-> Made(i)]
  BY DEF ShieldRemovedCalls
<1> HIDE DEF found
<1>3. Len(found) \in Nat /\ DOMAIN found = 1 .. Len(found)
      /\ \A i \in 1 .. Len(found) : found[i] \in [index : Nat, ability : wanted]
  BY <1>1, SeqElements, Zenon
<1>4. ASSUME NEW i \in 1 .. Len(found) PROVE Made(i) \in Plain
  <2> DEFINE x == IF found[i].ability.except THEN {emo.base} ELSE {}
             b == Base(i)
             made == [b EXCEPT !.except = x]
  <2>1. found[i].index \in Nat /\ found[i].ability \in OfTrigger("Oneself", "AllyBattleAbilityRemoved")
    BY <1>3, SMT
  <2>2. found[i].ability.action \in NormalActions
    BY <2>1, OneselfActs, Zenon
  <2>3. b \in Plain \cap Acts
    BY <2>1, <2>2, NobodyActs, ActCallType
  <2>4. b.retired = <<>>
    BY DEF ActCall, NotRetired
  <2>5. x \in SUBSET DOMAIN Bases
    <3>1. emo.base \in DOMAIN Bases
      BY DEF Fighter
    <3> QED  BY <3>1
  <2> HIDE DEF b, x
  <2>6. made \in Acts /\ made.call = "Act" /\ made.retired = <<>>
    BY <2>3, <2>4, <2>5, SMT DEF Acts
  <2> HIDE DEF made
  <2>7. made \in Call /\ ~IsBlow(made) /\ CarriesAtMost(made, Over(made.player))
    BY <2>6, SMT DEF Call, IsBlow, CarriesAtMost
  <2>8. made \in Plain
    BY <2>7, Zenon DEF Plain
  <2> QED  BY <2>8 DEF made, b, x
<1> HIDE DEF Made
<1>5. [i \in DOMAIN found |-> Made(i)] \in [1 .. Len(found) -> Plain]
  BY <1>3, <1>4, Zenon
<1>6. [i \in DOMAIN found |-> Made(i)] \in Seq(Plain)
  BY <1>3, <1>5, FunctionIsSeq, Zenon
<1> QED  BY <1>2, <1>6

--------------------------------------------------------------------------------

\* call_pre_abilities
LEMMA PreKeeps ==
  ASSUME MarchInv, Pre
  PROVE  MarchInv'
<1> DEFINE c == Head(agenda)
           found == Abilities(boards[c.player], OfTrigger("Oneself", "Pre"))
           calls == [i \in DOMAIN found |-> ActCall(c.player, found[i].index, found[i].ability.action, NotRetired)]
<1>1. agenda # <<>> /\ Push(calls) /\ UNCHANGED <<boards, tick, first, outcome, nextId>>
  BY DEF Pre, Step
<1>2. c.player \in Player
  BY <1>1, HeadIs
<1>3. calls \in Seq(Plain)
  BY <1>2, BoardIs, OneselfCalls, Zenon DEF MarchInv
<1> HIDE DEF calls
<1>4. AgendaKept
  BY <1>1, <1>3, PlainKeeps DEF MarchInv
<1>5. SameCrew
  BY <1>1, SameBoards DEF MarchInv
<1> QED  BY <1>1, <1>4, <1>5, CrewStep

\* call_emo_retire_rival_abilities
LEMMA RivalsOfRetiredKeeps ==
  ASSUME MarchInv, RivalsOfRetired
  PROVE  MarchInv'
<1> DEFINE c == Head(agenda)
           p == Rival(c.player)
           wanted == {a \in OfTrigger("Oneself", "RivalRetire") : Kind(c.emo) \in a.kinds}
           found == Abilities(boards[p], wanted)
           calls == [i \in DOMAIN found |-> ActCall(p, found[i].index, found[i].ability.action, NotRetired)]
<1>1. agenda # <<>> /\ Push(calls) /\ UNCHANGED <<boards, tick, first, outcome, nextId>>
  BY DEF RivalsOfRetired, Step
<1>2. p \in Player
  <2>1. c.player \in Player
    BY <1>1, HeadIs
  <2> QED  BY <2>1, SMT DEF Player, Rival
<1>3. calls \in Seq(Plain)
  <2>1. boards[p] \in Seq(Fighter) /\ wanted \in SUBSET OfTrigger("Oneself", "RivalRetire")
    BY <1>2, BoardIs DEF MarchInv
  <2> HIDE DEF wanted, p
  <2> QED  BY <1>2, <2>1, OneselfCalls, Zenon
<1> HIDE DEF calls
<1>4. AgendaKept
  BY <1>1, <1>3, PlainKeeps DEF MarchInv
<1>5. SameCrew
  BY <1>1, SameBoards DEF MarchInv
<1> QED  BY <1>1, <1>4, <1>5, CrewStep

\* call_emo_retire_player_abilities: the allies' part
LEMMA AlliesOfRetiredKeeps ==
  ASSUME MarchInv, AlliesOfRetired
  PROVE  MarchInv'
<1> DEFINE c == Head(agenda)
           Wanted(as) == {a \in OfTrigger(as, "AllyRetire") : Kind(c.emo) \in a.kinds}
           allies == Abilities(boards[c.player], Wanted("Ally"))
           selves == Abilities(boards[c.player], Wanted("Oneself"))
           Ally(i) == AllyActCall(c.player, allies[i].index, c.index, allies[i].ability.action, <<c.emo>>)
           ofAllies == [i \in DOMAIN allies |-> Ally(i)]
           ofSelves == [i \in DOMAIN selves |-> ActCall(c.player, selves[i].index, selves[i].ability.action, NotRetired)]
<1>1. agenda # <<>> /\ c.call = "AlliesOfRetired" /\ Push(ofAllies \o ofSelves)
      /\ UNCHANGED <<boards, tick, first, outcome, nextId>>
  BY DEF AlliesOfRetired, Step
<1>2. c \in Call /\ c.player \in Player /\ CarriesAtMost(c, Over(c.player))
  BY <1>1, HeadIs
<1>3. c.emo \in Fighter /\ c.index \in Nat /\ c.emo.count <= Over(c.player)
  <2>1. c \in AllyRetirals
    BY <1>1, <1>2, CallIs, Zenon
  <2>2. c.emo \in Fighter /\ c.index \in Nat
    BY <2>1, Zenon DEF AllyRetirals
  <2>3. c.emo.count <= Over(c.player)
    BY <1>1, <1>2, Zenon DEF CarriesAtMost
  <2> QED  BY <2>2, <2>3
<1>4. boards[c.player] \in Seq(Fighter)
  BY <1>2, BoardIs DEF MarchInv
<1>5. ofSelves \in Seq(Plain)
  <2>1. Wanted("Oneself") \in SUBSET OfTrigger("Oneself", "AllyRetire")
    OBVIOUS
  <2> HIDE DEF Wanted, c
  <2> QED  BY <1>2, <1>4, <2>1, OneselfCalls, Zenon
<1>6. ofAllies \in Seq(Plain)
  <2>1. allies \in Seq([index : Nat, ability : Wanted("Ally")])
    BY <1>4, AbilitiesType, Zenon
  <2> HIDE DEF allies
  <2>2. Len(allies) \in Nat /\ DOMAIN allies = 1 .. Len(allies)
        /\ \A i \in 1 .. Len(allies) : allies[i] \in [index : Nat, ability : Wanted("Ally")]
    BY <2>1, SeqElements, Zenon
  <2>3. ASSUME NEW i \in 1 .. Len(allies) PROVE Ally(i) \in Plain
    <3>1. allies[i].index \in Nat /\ allies[i].ability \in OfTrigger("Ally", "AllyRetire")
      BY <2>2, SMT
    <3>2. allies[i].ability.action \in AllyActions /\ Actor(<<c.emo>>, c.player)
      BY <1>3, <3>1, AllyActsType, RetiredActs, Zenon
    <3> QED  BY <1>2, <1>3, <3>1, <3>2, AllyActCallType
  <2> HIDE DEF Ally
  <2>4. ofAllies \in [1 .. Len(allies) -> Plain]
    BY <2>2, <2>3, Zenon
  <2> QED  BY <2>2, <2>4, FunctionIsSeq, Zenon
<1> HIDE DEF ofAllies, ofSelves
<1>7. ofAllies \o ofSelves \in Seq(Plain)
  BY <1>5, <1>6, ConcatProperties, Zenon
<1>8. AgendaKept
  BY <1>1, <1>7, PlainKeeps DEF MarchInv
<1>9. SameCrew
  BY <1>1, SameBoards DEF MarchInv
<1> QED  BY <1>1, <1>8, <1>9, CrewStep

--------------------------------------------------------------------------------

\* A hit, that of the attacker or not
LEMMA DamageCallType ==
  ASSUME NEW p \in Player, NEW index \in Nat, NEW damage \in Nat, NEW counts \in BOOLEAN
  PROVE  LET c == DamageCall(p, index, damage, counts)
         IN  /\ c \in Call /\ c.player = p /\ IsBlow(c) = counts
             /\ ~counts => c \in Plain
<1> DEFINE c == DamageCall(p, index, damage, counts)
<1>1. c \in Damages /\ c.call = "Damage" /\ c.player = p /\ c.counts = counts
  BY SMT DEF DamageCall, Damages
<1> HIDE DEF c
<1>2. c \in Call
  BY <1>1, Zenon DEF Call
<1>3. IsBlow(c) = counts /\ CarriesAtMost(c, Over(c.player))
  BY <1>1, SMT DEF IsBlow, CarriesAtMost
<1>4. ~counts => c \in Plain
  BY <1>2, <1>3, Zenon DEF Plain
<1> QED  BY <1>1, <1>2, <1>3, <1>4 DEF c

\* A single call
LEMMA OneFollows ==
  ASSUME NEW c, NEW call \in Call, call \in Plain \/ (IsBlow(c) /\ IsBlow(call) /\ call.player = c.player)
  PROVE  <<call>> \in Seq(Call) /\ Follows(<<call>>, c)
BY SMT DEF Follows

\* attack_damage: the attacker is hit back, if anybody is where it was
LEMMA CounterKeeps ==
  ASSUME MarchInv, Counter
  PROVE  MarchInv'
<1> DEFINE c == Head(agenda)
           hit == DamageCall(c.player, c.index, c.damage, TRUE)
           calls == IF HasEmoAt(c.player, c.index) THEN <<hit>> ELSE <<>>
<1>1. agenda # <<>> /\ c.call = "Counter" /\ Push(calls) /\ UNCHANGED <<boards, tick, first, outcome, nextId>>
  BY DEF Counter, Step
<1>2. c \in Call /\ c.player \in Player
  BY <1>1, HeadIs
<1>3. c.index \in Nat /\ c.damage \in Nat /\ IsBlow(c)
  BY <1>1, <1>2, CallIs, SMT DEF Counters, IsBlow
<1>4. hit \in Call /\ hit.player = c.player /\ IsBlow(hit)
  BY <1>2, <1>3, DamageCallType
<1> HIDE DEF hit
<1>5. calls \in Seq(Call) /\ Follows(calls, c)
  <2>1. <<>> \in Seq(Call) /\ Follows(<<>>, c)
    BY EmptySeq, SMT DEF Follows
  <2>2. <<hit>> \in Seq(Call) /\ Follows(<<hit>>, c)
    BY <1>3, <1>4, OneFollows, Zenon
  <2> QED  BY <2>1, <2>2
<1> HIDE DEF calls
<1>6. AgendaKept
  BY <1>1, <1>5, PushKeeps DEF MarchInv
<1>7. SameCrew
  BY <1>1, SameBoards DEF MarchInv
<1> QED  BY <1>1, <1>6, <1>7, CrewStep

\* What a hit that is survived is followed by
LEMMA SurvivorFollows ==
  ASSUME NEW c \in Damages
  PROVE  Survivor(c) \in Seq(Call) /\ Follows(Survivor(c), c)
<1> DEFINE s == [call |-> "Survive", player |-> c.player, index |-> c.index]
<1>1. c.call = "Damage" /\ c.player \in Player /\ c.index \in Nat /\ c.counts \in BOOLEAN
  BY SMT DEF Damages
<1>2. s \in Survivals /\ s.player = c.player /\ s.call = "Survive"
  BY <1>1, SMT DEF Survivals
<1> HIDE DEF s
<1>3. s \in Call /\ IsBlow(s)
  BY <1>2, SMT DEF Call, IsBlow
<1>4. CASE c.counts
  <2>1. <<s>> \in Seq(Call) /\ Follows(<<s>>, c)
    BY <1>1, <1>2, <1>3, <1>4, OneFollows, Zenon DEF IsBlow
  <2> QED  BY <1>4, <2>1 DEF Survivor, s
<1>5. CASE ~c.counts
  BY <1>5, EmptySeq, SMT DEF Survivor, Follows
<1> QED  BY <1>1, <1>4, <1>5

\* Plain calls before others
LEMMA PlainBefore ==
  ASSUME NEW c, NEW calls \in Seq(Plain), NEW more \in Seq(Call), Follows(more, c)
  PROVE  calls \o more \in Seq(Call) /\ Follows(calls \o more, c)
<1> DEFINE t == calls \o more
           n == Len(calls)
           k == Len(more)
<1>1. calls \in Seq(Call) /\ \A i \in 1 .. n : calls[i] \in Plain
  BY PlainFollows, ElementOfSeq, Zenon
<1>2. /\ t \in Seq(Call) /\ Len(t) = n + k
      /\ \A i \in 1 .. n + k : t[i] = IF i <= n THEN calls[i] ELSE more[i - n]
  BY <1>1, ConcatProperties, Zenon
<1>3. n \in Nat /\ k \in Nat
  BY LenProperties, Zenon
<1> HIDE DEF t
<1>4. Follows(t, c)
  <2> SUFFICES ASSUME NEW i \in 1 .. Len(t)
               PROVE  \/ t[i] \in Plain
                      \/ i = Len(t) /\ IsBlow(c) /\ IsBlow(t[i]) /\ t[i].player = c.player
    BY DEF Follows
  <2> HIDE DEF n, k
  <2>1. CASE i <= n
    BY <1>1, <1>2, <1>3, <2>1, SMT
  <2>2. CASE i > n
    <3>1. i - n \in 1 .. k /\ t[i] = more[i - n] /\ (i - n = k => i = Len(t))
      BY <1>2, <1>3, <2>2, SMT
    <3>2. \/ more[i - n] \in Plain
          \/ i - n = k /\ IsBlow(c) /\ IsBlow(more[i - n]) /\ more[i - n].player = c.player
      BY <3>1, Zenon DEF Follows, k
    <3> QED  BY <3>1, <3>2, Zenon
  <2> QED  BY <1>2, <1>3, <2>1, <2>2, SMT
<1> QED  BY <1>2, <1>4 DEF t

\* One emo is wounded, or loses its shield
LEMMA OneChanged ==
  ASSUME FightType, NEW p \in Player, NEW k \in 1 .. Len(boards[p]), NEW e \in Fighter,
         e.id = boards[p][k].id, e.count = boards[p][k].count,
         boards' = [boards EXCEPT ![p] = [boards[p] EXCEPT ![k] = e]]
  PROVE  SameCrew
<1> DEFINE b == [boards[p] EXCEPT ![k] = e]
<1>1. boards \in [Player -> Seq(Fighter)] /\ boards[p] \in Seq(Fighter)
  BY DEF FightType
<1>2. /\ b \in Seq(Fighter) /\ Len(b) = Len(boards[p])
      /\ \A i \in 1 .. Len(boards[p]) : b[i] = IF i = k THEN e ELSE boards[p][i]
  <2> DEFINE s == boards[p]
  <2>1. s \in Seq(Fighter) /\ k \in 1 .. Len(s)
    BY <1>1
  <2> HIDE DEF s
  <2>2. /\ [s EXCEPT ![k] = e] \in Seq(Fighter) /\ Len([s EXCEPT ![k] = e]) = Len(s)
        /\ \A i \in 1 .. Len(s) : [s EXCEPT ![k] = e][i] = IF i = k THEN e ELSE s[i]
    BY <2>1, ExceptSeq
  <2> QED  BY <2>2 DEF s
<1> HIDE DEF b
<1>3. boards' = [boards EXCEPT ![p] = b]
  BY DEF b
<1>4. boards' \in [Player -> Seq(Fighter)] /\ boards'[p] = b /\ \A q \in Player : q # p => boards'[q] = boards[q]
  BY <1>1, <1>2, <1>3, Zenon
<1>5. ASSUME NEW q \in Player
      PROVE  /\ Len(boards'[q]) = Len(boards[q])
             /\ \A i \in 1 .. Len(boards[q]) :
                  boards'[q][i].id = boards[q][i].id /\ boards'[q][i].count = boards[q][i].count
  <2>1. CASE q = p
    BY <1>2, <1>4, <2>1, Zenon
  <2>2. CASE q # p
    BY <1>4, <2>2, Zenon
  <2> QED  BY <2>1, <2>2
<1> QED  BY <1>4, <1>5 DEF SameCrew

\* damage_emo: who is hit, and with what
LEMMA HitIs ==
  ASSUME MarchInv, agenda # <<>>, Head(agenda).call = "Damage", HasEmoAt(Head(agenda).player, Head(agenda).index)
  PROVE  LET c == Head(agenda)
         IN  /\ c \in Damages /\ c.player \in Player /\ c.index \in Nat /\ c.damage \in Nat
             /\ c.index + 1 \in 1 .. Len(boards[c.player])
             /\ EmoAt(c.player, c.index) = boards[c.player][c.index + 1]
             /\ EmoAt(c.player, c.index) \in Fighter
             /\ EmoAt(c.player, c.index).count <= Over(c.player)
<1> DEFINE c == Head(agenda)
<1>1. c \in Damages /\ c.player \in Player
  BY HeadIs, CallIs, Zenon
<1>2. c.index \in Nat /\ c.damage \in Nat
  BY <1>1, SMT DEF Damages
<1> QED  BY <1>1, <1>2, EmoAtIs

\* An emo with other health or other abilities
LEMMA FighterWith ==
  ASSUME NEW emo \in Fighter
  PROVE  /\ \A h \in 1 .. StatMax :
              LET e == [emo EXCEPT !.health = h] IN e \in Fighter /\ e.id = emo.id /\ e.count = emo.count
         /\ \A as \in Seq(Learnable) :
              LET e == [emo EXCEPT !.abilities = as] IN e \in Fighter /\ e.id = emo.id /\ e.count = emo.count
<1>1. ASSUME NEW h \in 1 .. StatMax
      PROVE  [emo EXCEPT !.health = h] \in Fighter
  BY DEF Fighter
<1>2. ASSUME NEW as \in Seq(Learnable)
      PROVE  [emo EXCEPT !.abilities = as] \in Fighter
  BY DEF Fighter
<1>3. /\ \A h : [emo EXCEPT !.health = h].id = emo.id /\ [emo EXCEPT !.health = h].count = emo.count
      /\ \A as : [emo EXCEPT !.abilities = as].id = emo.id /\ [emo EXCEPT !.abilities = as].count = emo.count
  BY DEF Fighter
<1> QED  BY <1>1, <1>2, <1>3, Zenon

\* A hit that is survived leaves somebody with some health left
LEMMA WoundKeeps ==
  ASSUME MarchInv, Wound
  PROVE  MarchInv'
<1> DEFINE c == Head(agenda)
           p == c.player
           k == c.index + 1
           emo == EmoAt(c.player, c.index)
           health == emo.health - c.damage
           e == [emo EXCEPT !.health = health]
<1>1. /\ agenda # <<>> /\ c.call = "Damage" /\ HasEmoAt(c.player, c.index)
      /\ health > 0 \/ c.damage = 0
      /\ boards' = [boards EXCEPT ![c.player][c.index + 1].health = health]
      /\ Push(Survivor(c)) /\ UNCHANGED <<tick, first, outcome, nextId>>
  BY DEF Wound, Step
<1>2. /\ c \in Damages /\ p \in Player /\ c.damage \in Nat
      /\ k \in 1 .. Len(boards[p]) /\ emo = boards[p][k] /\ emo \in Fighter
  BY <1>1, HitIs
<1>3. boards' = [boards EXCEPT ![p] = [boards[p] EXCEPT ![k] = e]]
  BY <1>1, <1>2
<1> HIDE DEF emo, p, k
<1>4. e \in Fighter /\ e.id = emo.id /\ e.count = emo.count
  <2>1. emo.health \in 1 .. StatMax /\ StatMax \in Nat
    BY <1>2, BasesAssumption, SMT DEF Fighter, BasesAssumption
  <2>2. health \in 1 .. StatMax
    BY <1>1, <1>2, <2>1, SMT
  <2> HIDE DEF health
  <2> QED  BY <1>2, <2>2, FighterWith, Zenon
<1> HIDE DEF e
<1>5. SameCrew
  BY <1>2, <1>3, <1>4, OneChanged DEF MarchInv
<1>6. Survivor(c) \in Seq(Call) /\ Follows(Survivor(c), c)
  BY <1>2, SurvivorFollows
<1>7. AgendaKept
  BY <1>1, <1>6, PushKeeps DEF MarchInv
<1> QED  BY <1>1, <1>5, <1>7, CrewStep

\* remove_shield_if_exist: the first of them
LEMMA ShieldAt ==
  ASSUME NEW emo \in Fighter, Has(emo, Shield)
  PROVE  SelectInSeq(emo.abilities, LAMBDA a : a = Shield) \in 1 .. Len(emo.abilities)
<1> DEFINE I == {i \in 1 .. Len(emo.abilities) : emo.abilities[i] = Shield}
<1>1. SelectInSeq(emo.abilities, LAMBDA a : a = Shield) = IF I # {} THEN Min(I) ELSE 0
  BY Zenon DEF SelectInSeq
<1>2. emo.abilities \in Seq(Learnable)
  BY DEF Fighter
<1>3. Len(emo.abilities) \in Nat /\ DOMAIN emo.abilities = 1 .. Len(emo.abilities)
  BY <1>2, SeqElements, Zenon
<1>4. I # {} /\ I \in SUBSET (1 .. Len(emo.abilities))
  BY <1>3, Zenon DEF Has
<1> HIDE DEF I
<1>5. Min(I) \in 1 .. Len(emo.abilities)
  BY <1>3, <1>4, MarchMinIs, Zenon
<1> QED  BY <1>1, <1>4, <1>5

\* ... is used up by a hit
LEMMA RemoveShieldKeeps ==
  ASSUME MarchInv, RemoveShield
  PROVE  MarchInv'
<1> DEFINE c == Head(agenda)
           p == c.player
           k == c.index + 1
           emo == EmoAt(c.player, c.index)
           at == SelectInSeq(emo.abilities, LAMBDA a : a = Shield)
           left == RemoveAt(boards[c.player][c.index + 1].abilities, at)
           e == [boards[p][k] EXCEPT !.abilities = left]
           board == [boards[c.player] EXCEPT ![c.index + 1].abilities = RemoveAt(@, at)]
           reacting == ShieldRemovedCalls(c.player, board, emo)
<1>1. /\ agenda # <<>> /\ c.call = "Damage" /\ HasEmoAt(c.player, c.index) /\ Has(emo, Shield)
      /\ boards' = [boards EXCEPT ![c.player] = board]
      /\ Push(reacting \o Survivor(c)) /\ UNCHANGED <<tick, first, outcome, nextId>>
  BY DEF RemoveShield, Step
<1>2. /\ c \in Damages /\ p \in Player
      /\ k \in 1 .. Len(boards[p]) /\ emo = boards[p][k] /\ emo \in Fighter
  BY <1>1, HitIs
<1>3. at \in 1 .. Len(emo.abilities)
  BY <1>1, <1>2, ShieldAt
<1> HIDE DEF at
<1>4. left \in Seq(Learnable)
  <2>1. emo.abilities \in Seq(Learnable)
    BY <1>2 DEF Fighter
  <2>2. RemoveAt(emo.abilities, at) \in Seq(Learnable)
    BY <1>3, <2>1, RemoveAtIs, Zenon
  <2>3. boards[c.player][c.index + 1] = emo
    BY <1>2, Zenon
  <2> QED  BY <2>2, <2>3, Zenon
<1>5. board = [boards[p] EXCEPT ![k] = e]
  BY <1>2
<1> HIDE DEF left, emo
<1>6. e \in Fighter /\ e.id = emo.id /\ e.count = emo.count
  <2>1. e = [emo EXCEPT !.abilities = left]
    BY <1>2, Zenon
  <2> QED  BY <1>2, <1>4, <2>1, FighterWith, Zenon
<1> HIDE DEF e, board, k
<1>7. board \in Seq(Fighter)
  <2>1. boards[p] \in Seq(Fighter)
    BY <1>2, BoardIs DEF MarchInv
  <2> QED  BY <1>2, <1>5, <1>6, <2>1, ExceptSeq, Zenon
<1>8. reacting \in Seq(Plain)
  BY <1>2, <1>7, ShieldRemovedType
<1>9. SameCrew
  <2>1. boards' = [boards EXCEPT ![p] = [boards[p] EXCEPT ![k] = e]]
    BY <1>1, <1>5
  <2> HIDE DEF p
  <2> QED  BY <1>2, <1>6, <2>1, OneChanged DEF MarchInv
<1>10. Survivor(c) \in Seq(Call) /\ Follows(Survivor(c), c)
  BY <1>2, SurvivorFollows
<1> HIDE DEF reacting
<1>11. reacting \o Survivor(c) \in Seq(Call) /\ Follows(reacting \o Survivor(c), c)
  BY <1>8, <1>10, PlainBefore, Zenon
<1>12. AgendaKept
  BY <1>1, <1>11, PushKeeps DEF MarchInv
<1> QED  BY <1>1, <1>9, <1>12, CrewStep

\* damage_all_emos: whoever still has the id is hit
LEMMA DamageIdKeeps ==
  ASSUME MarchInv, DamageId
  PROVE  MarchInv'
<1> DEFINE c == Head(agenda)
           board == boards[c.player]
           I == {i \in 1 .. Len(board) : board[i].id = c.id}
           at == SelectInSeq(boards[c.player], LAMBDA emo : emo.id = c.id)
           calls == IF at = 0 THEN <<>> ELSE <<DamageCall(c.player, at - 1, c.damage, FALSE)>>
<1>1. agenda # <<>> /\ c.call = "DamageId" /\ Push(calls) /\ UNCHANGED <<boards, tick, first, outcome, nextId>>
  BY DEF DamageId, Step
<1>2. c \in DamageIds /\ c.player \in Player
  BY <1>1, HeadIs, CallIs, Zenon
<1>3. c.damage \in Nat
  BY <1>2, SMT DEF DamageIds
<1>4. at \in Nat
  <2>1. at = IF I # {} THEN Min(I) ELSE 0
    BY Zenon DEF SelectInSeq
  <2>2. Len(board) \in Nat
    BY <1>2, BoardIs DEF MarchInv
  <2>3. I \in SUBSET (1 .. Len(board))
    OBVIOUS
  <2> HIDE DEF I, at
  <2>4. I # {} => Min(I) \in 1 .. Len(board)
    BY <2>2, <2>3, MarchMinIs, Zenon
  <2> QED  BY <2>1, <2>2, <2>4, SMT
<1> HIDE DEF at
<1>5. calls \in Seq(Call) /\ Follows(calls, c)
  <2>1. <<>> \in Seq(Call) /\ Follows(<<>>, c)
    BY EmptySeq, SMT DEF Follows
  <2>2. CASE at # 0
    <3> DEFINE hit == DamageCall(c.player, at - 1, c.damage, FALSE)
    <3>1. at - 1 \in Nat
      BY <1>4, <2>2, SMT
    <3>2. hit \in Call /\ hit \in Plain
      BY <1>2, <1>3, <3>1, DamageCallType
    <3> HIDE DEF hit
    <3>3. <<hit>> \in Seq(Call) /\ Follows(<<hit>>, c)
      BY <3>2, OneFollows, Zenon
    <3> QED  BY <2>2, <3>3 DEF hit
  <2> QED  BY <2>1, <2>2
<1> HIDE DEF calls
<1>6. AgendaKept
  BY <1>1, <1>5, PushKeeps DEF MarchInv
<1>7. SameCrew
  BY <1>1, SameBoards DEF MarchInv
<1> QED  BY <1>1, <1>6, <1>7, CrewStep

--------------------------------------------------------------------------------

\* What the steps that change who is on the boards must show
LEMMA InvFrom ==
  ASSUME MarchInv, AgendaKept, boards' \in [Player -> Seq(Fighter)], IdsOnce',
         \A p \in Player : \A i \in 1 .. Len(boards'[p]) : boards'[p][i].count <= Over(p)',
         UNCHANGED <<tick, first, outcome>>, nextId' \in Nat
  PROVE  MarchInv'
<1>1. FightType'
  BY SMT DEF MarchInv, FightType, AgendaKept
<1>2. \A p \in Player : \A i \in 1 .. Len(agenda') : agenda'[i].player = p => CarriesAtMost(agenda'[i], Over(p)')
  BY Zenon DEF AgendaKept
<1>3. CountsOver'
  BY <1>2 DEF CountsOver, CarriesAtMost
<1> QED  BY <1>1, <1>3 DEF MarchInv, AgendaKept

\* A survived blow ends the attack, and is counted once it has
LEMMA SurviveKeeps ==
  ASSUME MarchInv, Survive
  PROVE  MarchInv'
<1> DEFINE c == Head(agenda)
           k == c.index + 1
<1>0. PICK p \in Player : p = c.player
  BY HeadIs DEF Survive, Step
<1> DEFINE old == boards[p][k]
           e == [old EXCEPT !.count = @ + 1]
           board == [boards[p] EXCEPT ![k] = e]
<1>1. /\ agenda # <<>> /\ c.call = "Survive" /\ HasEmoAt(p, c.index) /\ Push(<<>>)
      /\ boards' = [boards EXCEPT ![p] = board]
      /\ UNCHANGED <<tick, first, outcome, nextId>>
  BY <1>0 DEF Survive, Step
<1>2. c \in Survivals /\ p \in Player
  BY <1>0, <1>1, HeadIs, CallIs, Zenon
<1>3. c.index \in Nat /\ IsBlow(c)
  BY <1>1, <1>2, SMT DEF Survivals, IsBlow
<1>4. k \in 1 .. Len(boards[p]) /\ old \in Fighter /\ old.count \in Nat /\ old.count <= Over(p)
  BY <1>1, <1>2, <1>3, EmoAtIs
<1>5. AgendaKept
  <2>1. <<>> \in Seq(Call) /\ Follows(<<>>, c)
    BY EmptySeq, SMT DEF Follows
  <2> QED  BY <1>1, <2>1, PushKeeps DEF MarchInv
<1>6. agenda \in Seq(Call)
  BY DEF MarchInv, FightType
<1>7. Len(agenda) = 1 /\ agenda[1] = c
  <2>1. Len(agenda) \in Nat \ {0} /\ agenda[1] = c
    BY <1>1, <1>6, EmptySeq, SMT
  <2>2. Len(agenda) # 1 => 1 \in 1 .. Len(agenda) - 1
    BY <2>1, SMT
  <2> QED  BY <1>3, <2>1, <2>2, Zenon DEF MarchInv, BlowLast
<1>8. agenda' = <<>>
  <2>1. Tail(agenda) = <<>>
    <3>1. Tail(agenda) \in Seq(Call) /\ Len(Tail(agenda)) = Len(agenda) - 1
      BY <1>1, <1>6, HeadTailProperties, Zenon
    <3>2. Len(Tail(agenda)) = 0
      BY <1>7, <3>1, SMT
    <3>3. Len(Tail(agenda)) \notin Nat \ {0}
      BY <3>2
    <3> QED  BY <3>1, <3>3, EmptySeq, Zenon
  <2> QED  BY <1>1, <2>1 DEF Push
<1>9. Over(p)' = Over(p) + 1
  <2>1. AttacksOf(p)' = AttacksOf(p)
    BY <1>1 DEF AttacksOf
  <2>2. BlowDue(agenda, p)
    BY <1>0, <1>1, <1>3, <1>7 DEF BlowDue
  <2>3. ~BlowDue(agenda', p)
    BY <1>8 DEF BlowDue
  <2>4. Over(p) = AttacksOf(p) - 1 /\ AttacksOf(p) \in Nat
    BY <1>2, <2>2, OverType DEF Over, MarchInv
  <2>5. Over(p)' = AttacksOf(p)
    <3>1. Over(p)' = AttacksOf(p)' - (IF BlowDue(agenda', p) THEN 1 ELSE 0)
      BY DEF Over, BlowDue, IsBlow
    <3> QED  BY <2>1, <2>3, <2>4, <3>1, SMT
  <2> QED  BY <2>4, <2>5, SMT
<1>10. boards \in [Player -> Seq(Fighter)] /\ boards[p] \in Seq(Fighter)
  BY <1>2, BoardIs DEF MarchInv, FightType
<1> HIDE DEF old, c, k
<1>11. e \in Fighter /\ e.id = old.id /\ e.count = old.count + 1
  BY <1>4, SMT DEF Fighter
<1> HIDE DEF e
<1>12. /\ board \in Seq(Fighter) /\ Len(board) = Len(boards[p])
       /\ \A i \in 1 .. Len(boards[p]) : board[i] = IF i = k THEN e ELSE boards[p][i]
  <2> DEFINE s == boards[p]
  <2>1. s \in Seq(Fighter) /\ k \in 1 .. Len(s)
    BY <1>4, <1>10
  <2> HIDE DEF s
  <2>2. /\ [s EXCEPT ![k] = e] \in Seq(Fighter) /\ Len([s EXCEPT ![k] = e]) = Len(s)
        /\ \A i \in 1 .. Len(s) : [s EXCEPT ![k] = e][i] = IF i = k THEN e ELSE s[i]
    BY <1>11, <2>1, ExceptSeq
  <2> QED  BY <2>2 DEF s
<1> HIDE DEF board
<1>13. boards' \in [Player -> Seq(Fighter)] /\ boards'[p] = board /\ \A q \in Player : q # p => boards'[q] = boards[q]
  BY <1>1, <1>2, <1>10, <1>12, Zenon
<1>14. ASSUME NEW q \in Player
       PROVE  /\ Len(boards'[q]) = Len(boards[q])
              /\ \A i \in 1 .. Len(boards[q]) : boards'[q][i].id = boards[q][i].id
              /\ \A i \in 1 .. Len(boards[q]) : boards'[q][i].count <= Over(q)'
  <2>1. Over(q) \in Nat /\ Over(q)' \in Nat /\ Over(q) <= Over(q)'
    BY <1>5, Zenon DEF AgendaKept
  <2>2. ASSUME NEW i \in 1 .. Len(boards[q]) PROVE boards[q][i].count <= Over(q) /\ boards[q][i].count \in Nat
    <3>1. boards[q][i].count <= Over(q) /\ boards[q][i] \in Fighter
      BY BoardIs, Zenon DEF MarchInv, CountsOver
    <3> QED  BY <3>1 DEF Fighter
  <2>3. \A i \in 1 .. Len(boards[q]) : boards[q][i].count <= Over(q)'
    BY <2>1, <2>2, SMT
  <2>4. CASE q = p
    <3>1. e.count <= Over(p)'
      BY <1>4, <1>9, <1>11, <2>1, <2>4, SMT
    <3>2. \A i \in 1 .. Len(boards[q]) : board[i].id = boards[q][i].id /\ board[i].count <= Over(q)'
      <4>1. e.id = boards[p][k].id
        BY <1>11 DEF old
      <4> QED  BY <1>12, <2>3, <2>4, <3>1, <4>1, Zenon
    <3> QED  BY <1>12, <1>13, <2>4, <3>2, Zenon
  <2>5. CASE q # p
    BY <1>13, <2>3, <2>5, Zenon
  <2> QED  BY <2>4, <2>5
<1>15. IdsOnce'
  BY <1>1, <1>14, SMT DEF MarchInv, IdsOnce
<1>16. nextId' \in Nat
  BY <1>1 DEF MarchInv, FightType
<1> QED  BY <1>1, <1>5, <1>13, <1>14, <1>15, <1>16, InvFrom

\* retire_emo: the emos right of the retired one move up
LEMMA RetireKeeps ==
  ASSUME MarchInv, Retire
  PROVE  MarchInv'
<1> DEFINE c == Head(agenda)
           p == c.player
           k == c.index + 1
           emo == EmoAt(c.player, c.index)
           ofAllies == [call |-> "AlliesOfRetired", player |-> p, index |-> c.index, emo |-> emo]
           ofRivals == [call |-> "RivalsOfRetired", player |-> p, emo |-> emo]
           own == RetireCalls(p, c.index, emo)
           board == RemoveAt(boards[p], k)
<1>1. /\ agenda # <<>> /\ c.call = "Damage" /\ HasEmoAt(p, c.index)
      /\ boards' = [boards EXCEPT ![p] = board]
      /\ Push(own \o <<ofAllies, ofRivals>>)
      /\ UNCHANGED <<tick, first, outcome, nextId>>
  BY DEF Retire, Step
<1>2. /\ p \in Player /\ c.index \in Nat /\ k \in 1 .. Len(boards[p])
      /\ emo \in Fighter /\ emo.count <= Over(p)
  BY <1>1, HitIs
<1> HIDE DEF c, p, k, emo
<1>3. ofAllies \in Plain /\ ofRivals \in Plain
  <2>1. ofAllies \in AllyRetirals /\ ofRivals \in RivalRetirals
    BY <1>2, SMT DEF AllyRetirals, RivalRetirals
  <2>2. /\ ofAllies.call = "AlliesOfRetired" /\ ofAllies.player = p /\ ofAllies.emo = emo
        /\ ofRivals.call = "RivalsOfRetired" /\ ofRivals.player = p /\ ofRivals.emo = emo
    OBVIOUS
  <2> HIDE DEF ofAllies, ofRivals
  <2>3. ofAllies \in Call /\ ofRivals \in Call
    BY <2>1, Zenon DEF Call
  <2>4. /\ ~IsBlow(ofAllies) /\ CarriesAtMost(ofAllies, Over(p))
        /\ ~IsBlow(ofRivals) /\ CarriesAtMost(ofRivals, Over(p))
    BY <1>2, <2>2, SMT DEF IsBlow, CarriesAtMost
  <2> QED  BY <2>2, <2>3, <2>4, Zenon DEF Plain
<1> HIDE DEF ofAllies, ofRivals
<1>4. <<ofAllies, ofRivals>> \in Seq(Plain)
  BY <1>3, SMT
<1>5. own \in Seq(Plain)
  <2> DEFINE S == {x \in Plain \cap Acts : x.player = p}
  <2>1. own \in Seq(S)
    BY <1>2, RetireCallsType, Zenon
  <2>2. S \subseteq Plain
    OBVIOUS
  <2> HIDE DEF S
  <2> QED  BY <2>1, <2>2, SeqMonotonic, Zenon
<1> HIDE DEF own
<1>6. own \o <<ofAllies, ofRivals>> \in Seq(Plain)
  BY <1>4, <1>5, ConcatProperties, Zenon
<1>7. AgendaKept
  BY <1>1, <1>6, PlainKeeps DEF MarchInv
<1>8. boards \in [Player -> Seq(Fighter)] /\ boards[p] \in Seq(Fighter) /\ Len(boards[p]) \in Nat
  BY <1>2, BoardIs DEF MarchInv, FightType
<1>9. /\ board \in Seq(Fighter) /\ Len(board) = Len(boards[p]) - 1
      /\ \A j \in 1 .. Len(boards[p]) - 1 : board[j] = IF j < k THEN boards[p][j] ELSE boards[p][j + 1]
  BY <1>2, <1>8, RemoveAtIs, Zenon
<1> HIDE DEF board
<1>10. boards' \in [Player -> Seq(Fighter)] /\ boards'[p] = board /\ \A q \in Player : q # p => boards'[q] = boards[q]
  BY <1>1, <1>2, <1>8, <1>9, Zenon
<1>11. ASSUME NEW q \in Player, NEW i \in 1 .. Len(boards'[q])
       PROVE  \E j \in 1 .. Len(boards[q]) :
                boards'[q][i] = boards[q][j] /\ (q = p => j = IF i < k THEN i ELSE i + 1) /\ (q # p => j = i)
  <2>1. CASE q = p
    <3> DEFINE j == IF i < k THEN i ELSE i + 1
    <3>1. i \in 1 .. Len(boards[p]) - 1 /\ board[i] = boards[p][j] /\ j \in 1 .. Len(boards[p])
      BY <1>2, <1>8, <1>9, <1>10, <2>1, SMT
    <3> QED  BY <1>10, <2>1, <3>1
  <2>2. CASE q # p
    BY <1>10, <2>2, Zenon
  <2> QED  BY <2>1, <2>2
<1>12. IdsOnce'
  <2> SUFFICES ASSUME NEW q \in Player
               PROVE  /\ Len(boards'[q]) <= BoardMax
                      /\ \A i \in 1 .. Len(boards'[q]) :
                           /\ boards'[q][i].id < nextId'
                           /\ \A j \in 1 .. Len(boards'[q]) : boards'[q][i].id = boards'[q][j].id => i = j
    BY DEF IdsOnce
  <2>1. Len(boards[q]) <= BoardMax /\ Len(boards[q]) \in Nat /\ BoardMax \in Nat
    BY BoardIs, BasesAssumption DEF MarchInv, IdsOnce, BasesAssumption
  <2>2. Len(boards'[q]) <= BoardMax
    <3>1. CASE q = p
      BY <1>8, <1>9, <1>10, <2>1, <3>1, SMT
    <3>2. CASE q # p
      BY <1>10, <2>1, <3>2, Zenon
    <3> QED  BY <3>1, <3>2
  <2>3. ASSUME NEW i \in 1 .. Len(boards'[q])
        PROVE  /\ boards'[q][i].id < nextId'
               /\ \A j \in 1 .. Len(boards'[q]) : boards'[q][i].id = boards'[q][j].id => i = j
    <3>1. PICK a \in 1 .. Len(boards[q]) :
            boards'[q][i] = boards[q][a] /\ (q = p => a = IF i < k THEN i ELSE i + 1) /\ (q # p => a = i)
      BY <1>11, Zenon
    <3>2. boards'[q][i].id < nextId'
      BY <1>1, <3>1, Zenon DEF MarchInv, IdsOnce
    <3>3. ASSUME NEW j \in 1 .. Len(boards'[q]), boards'[q][i].id = boards'[q][j].id PROVE i = j
      <4>1. PICK b \in 1 .. Len(boards[q]) :
              boards'[q][j] = boards[q][b] /\ (q = p => b = IF j < k THEN j ELSE j + 1) /\ (q # p => b = j)
        BY <1>11, Zenon
      <4>2. a = b
        BY <3>1, <3>3, <4>1, Zenon DEF MarchInv, IdsOnce
      <4> QED  BY <1>2, <3>1, <4>1, <4>2, SMT
    <3> QED  BY <3>2, <3>3
  <2> QED  BY <2>2, <2>3
<1>13. ASSUME NEW q \in Player, NEW i \in 1 .. Len(boards'[q]) PROVE boards'[q][i].count <= Over(q)'
  <2>1. PICK a \in 1 .. Len(boards[q]) : boards'[q][i] = boards[q][a]
    BY <1>11, Zenon
  <2>2. boards[q][a].count <= Over(q) /\ boards[q][a] \in Fighter
    BY BoardIs, Zenon DEF MarchInv, CountsOver
  <2>3. boards[q][a].count \in Nat
    BY <2>2 DEF Fighter
  <2>4. Over(q) \in Nat /\ Over(q)' \in Nat /\ Over(q) <= Over(q)'
    BY <1>7, Zenon DEF AgendaKept
  <2> QED  BY <2>1, <2>2, <2>3, <2>4, SMT
<1>14. nextId' \in Nat
  BY <1>1 DEF MarchInv, FightType
<1> QED  BY <1>1, <1>7, <1>10, <1>12, <1>13, <1>14, InvFrom

\* An attack: one more, which is over when the attacker's part is done
LEMMA AttackKeeps ==
  ASSUME MarchInv, Attack
  PROVE  MarchInv'
<1> DEFINE rival == Rival(AttackPlayer)
           at == AttackIndex(boards[AttackPlayer])
<1>1. /\ agenda = <<>> /\ ~OneBoardEmpty /\ tick < TickMax /\ tick' = tick + 1
      /\ UNCHANGED <<boards, first, outcome, nextId>>
  BY DEF Attack
<1>2. PICK player \in Player : player = AttackPlayer
  BY SMT DEF AttackPlayer, Rival, Player, MarchInv, FightType
<1>3. rival \in Player /\ rival = Rival(player)
  BY <1>2, SMT DEF Rival, Player
<1>4. /\ boards[player] \in Seq(Fighter) /\ boards[player] # <<>>
      /\ boards[rival] \in Seq(Fighter) /\ boards[rival] # <<>>
  <2>1. boards[0] # <<>> /\ boards[1] # <<>>
    BY <1>1 DEF OneBoardEmpty
  <2> HIDE DEF rival
  <2>2. boards[player] \in Seq(Fighter) /\ boards[rival] \in Seq(Fighter)
    BY <1>3, BoardIs DEF MarchInv
  <2> QED  BY <1>3, <2>1, <2>2, SMT DEF Player
<1>5. PICK defender \in DefenseIndexes(boards[rival], Has(EmoAt(player, at), LowestAttack)) :
        agenda' = <<DamageCall(rival, defender, EmoAt(player, at).attack, FALSE),
                    [call |-> "Counter", player |-> player, index |-> at, damage |-> EmoAt(rival, defender).attack]>>
  BY <1>2 DEF Attack
<1>6. at + 1 \in 1 .. Len(boards[player]) /\ at \in Nat
  <2> DEFINE board == boards[player]
             counts == {board[i].count : i \in DOMAIN board}
             I == {i \in DOMAIN board : board[i].count = Min(counts)}
  <2>1. Len(board) \in Nat \ {0} /\ DOMAIN board = 1 .. Len(board) /\ \A i \in 1 .. Len(board) : board[i].count \in Nat
    <3>1. Len(board) \in Nat \ {0}
      BY <1>4, EmptySeq, Zenon
    <3>2. DOMAIN board = 1 .. Len(board) /\ \A i \in 1 .. Len(board) : board[i] \in Fighter
      BY <1>4, SeqElements, Zenon
    <3> QED  BY <3>1, <3>2, SMT DEF Fighter
  <2>2. at = Min(I) - 1
    BY <1>2 DEF AttackIndex
  <2> HIDE DEF board, at
  <2>3. counts \in SUBSET Nat
    BY <2>1
  <2>4. board[1].count \in counts
    <3>1. 1 \in 1 .. Len(board)
      BY <2>1, SMT
    <3> QED  BY <2>1, <3>1
  <2>5. Min(counts) \in counts
    <3> HIDE DEF counts
    <3> QED  BY <2>3, <2>4, MinNat, Zenon
  <2>6. I # {} /\ I \in SUBSET (1 .. Len(board))
    <3>1. PICK i \in DOMAIN board : board[i].count = Min(counts)
      BY <2>5, Zenon
    <3> HIDE DEF counts
    <3> QED  BY <2>1, <3>1
  <2> HIDE DEF I, counts
  <2>7. Min(I) \in 1 .. Len(board)
    BY <2>1, <2>6, MarchMinIs, Zenon
  <2> QED  BY <2>1, <2>2, <2>7, SMT DEF board
<1>7. defender + 1 \in 1 .. Len(boards[rival]) /\ defender \in Nat
  <2>1. DOMAIN boards[rival] = 1 .. Len(boards[rival]) /\ Len(boards[rival]) \in Nat
    BY <1>4, SeqElements, Zenon
  <2>2. PICK i \in DOMAIN boards[rival] : defender = i - 1
    BY <1>5, Zenon DEF DefenseIndexes
  <2> HIDE DEF rival
  <2> QED  BY <2>1, <2>2, SMT
<1>8. EmoAt(player, at).attack \in Nat /\ EmoAt(rival, defender).attack \in Nat
  <2> HIDE DEF at, rival
  <2>1. EmoAt(player, at) \in Fighter /\ EmoAt(rival, defender) \in Fighter
    BY <1>4, <1>6, <1>7, SeqElements, Zenon DEF EmoAt
  <2> QED  BY <2>1, BasesAssumption, SMT DEF Fighter, BasesAssumption
<1> DEFINE hit == DamageCall(rival, defender, EmoAt(player, at).attack, FALSE)
           counter == [call |-> "Counter", player |-> player, index |-> at, damage |-> EmoAt(rival, defender).attack]
<1>9. hit \in Call /\ ~IsBlow(hit) /\ CarriesAtMost(hit, 0) /\ \A n : CarriesAtMost(hit, n)
  <2>1. hit \in Call /\ ~IsBlow(hit)
    BY <1>3, <1>7, <1>8, DamageCallType
  <2>2. hit.call = "Damage"
    BY DEF DamageCall
  <2> HIDE DEF hit
  <2> QED  BY <2>1, <2>2, SMT DEF CarriesAtMost
<1>10. counter \in Call /\ IsBlow(counter) /\ counter.player = player /\ \A n : CarriesAtMost(counter, n)
  <2>1. counter \in Counters /\ counter.call = "Counter" /\ counter.player = player
    BY <1>6, <1>8, SMT DEF Counters
  <2> HIDE DEF counter
  <2>2. counter \in Call /\ IsBlow(counter)
    BY <2>1, SMT DEF Call, IsBlow
  <2> QED  BY <2>1, <2>2, BlowCarries, Zenon
<1> HIDE DEF hit, counter
<1>11. /\ agenda' = <<hit, counter>> /\ agenda' \in Seq(Call) /\ Len(agenda') = 2
       /\ agenda'[1] = hit /\ agenda'[2] = counter
  <2>1. agenda' = <<hit, counter>>
    BY <1>5 DEF hit, counter
  <2>2. /\ <<hit, counter>> \in Seq(Call) /\ Len(<<hit, counter>>) = 2
        /\ <<hit, counter>>[1] = hit /\ <<hit, counter>>[2] = counter
    BY <1>9, <1>10, SMT
  <2> QED  BY <2>1, <2>2, Zenon
<1>12. tick \in Nat /\ TickMax \in Nat /\ first \in Player
  BY MatchupsAssumption, SMT DEF MarchInv, FightType, MatchupsAssumption
<1>13. ASSUME NEW p \in Player PROVE Over(p)' = Over(p) /\ Over(p) \in Nat
  <2>1. Over(p) = AttacksOf(p) /\ AttacksOf(p) \in Nat
    BY <1>1, OverType, SMT DEF Over, BlowDue, MarchInv
  <2>2. Over(p)' = AttacksOf(p)' - (IF BlowDue(agenda', p) THEN 1 ELSE 0)
    BY DEF Over, BlowDue, IsBlow
  <2>3. BlowDue(agenda', p) <=> p = player
    BY <1>10, <1>11, SMT DEF BlowDue
  <2>4. AttacksOf(p)' = IF p = player THEN AttacksOf(p) + 1 ELSE AttacksOf(p)
    BY <1>1, <1>2, <1>12, SMT DEF AttacksOf, AttackPlayer, Rival, Player
  <2> QED  BY <2>1, <2>2, <2>3, <2>4, SMT
<1>14. BlowLast'
  <2>1. \A i \in 1 .. Len(agenda') - 1 : ~IsBlow(agenda'[i])
    BY <1>9, <1>11, SMT
  <2>2. \A p \in Player : Over(p)' >= 0
    BY <1>13, SMT
  <2> QED  BY <2>1, <2>2 DEF BlowLast, IsBlow
<1>15. CountsOver'
  <2>1. \A i \in 1 .. Len(agenda') : \A n : CarriesAtMost(agenda'[i], n)
    BY <1>9, <1>10, <1>11, SMT
  <2>2. \A p \in Player : \A i \in 1 .. Len(boards'[p]) : boards'[p][i].count <= Over(p)'
    BY <1>1, <1>13 DEF MarchInv, CountsOver
  <2> QED  BY <2>1, <2>2 DEF CountsOver, CarriesAtMost
<1>16. FightType'
  BY <1>1, <1>11, <1>12, SMT DEF MarchInv, FightType
<1>17. IdsOnce'
  BY <1>1, SMT DEF MarchInv, IdsOnce
<1> QED  BY <1>14, <1>15, <1>16, <1>17 DEF MarchInv

\* The end of a fight, good or bad
LEMMA EndKeeps ==
  ASSUME MarchInv, Finish \/ TickOverflow \/ Fail
  PROVE  MarchInv'
<1>1. outcome' \in {"finished", "failed"} /\ UNCHANGED <<boards, agenda, tick, first, nextId>>
  BY DEF Finish, TickOverflow, Fail
<1>2. FightType'
  BY <1>1, SMT DEF MarchInv, FightType
<1>3. IdsOnce'
  BY <1>1, SMT DEF MarchInv, IdsOnce
<1>4. \A p : Over(p)' = Over(p)
  BY <1>1 DEF Over, AttacksOf, BlowDue, IsBlow
<1>5. BlowLast'
  BY <1>1, <1>4 DEF MarchInv, BlowLast, IsBlow
<1>6. CountsOver'
  BY <1>1, <1>4 DEF MarchInv, CountsOver, CarriesAtMost
<1> QED  BY <1>2, <1>3, <1>5, <1>6 DEF MarchInv

--------------------------------------------------------------------------------

\* u16::saturating_add, and a triple emo's attributes
LEMMA StatsType ==
  ASSUME NEW n \in Nat, NEW triple \in BOOLEAN
  PROVE  /\ SaturatingU16(n) \in 0 .. StatMax
         /\ n > 0 => SaturatingU16(n) \in 1 .. StatMax
         /\ DoubleIf(triple, n) \in Nat
         /\ n \in 1 .. StatMax => DoubleIf(triple, n) \in 1 .. StatMax
<1>1. StatMax \in Nat \ {0}
  BY BasesAssumption DEF BasesAssumption
<1>2. \A m \in Nat : SaturatingU16(m) = IF m <= StatMax THEN m ELSE StatMax
  <2> SUFFICES ASSUME NEW m \in Nat PROVE SaturatingU16(m) = IF m <= StatMax THEN m ELSE StatMax
    OBVIOUS
  <2>1. m \in Int /\ StatMax \in Int
    BY <1>1, SMT
  <2> QED  BY <2>1, MinPair, Zenon DEF SaturatingU16
<1>3. 2 * n \in Nat
  BY SMT
<1> QED  BY <1>1, <1>2, <1>3, SMT DEF DoubleIf

\* decrease_emo_stats leaves an emo alive
LEMMA LeastOneType ==
  ASSUME NEW n \in 1 .. StatMax, NEW m \in Nat
  PROVE  LeastOne(n - m) \in 1 .. StatMax
<1>1. StatMax \in Nat
  BY BasesAssumption DEF BasesAssumption
<1> DEFINE d == n - m
           S == {d, 1}
<1>2. d \in Int
  BY <1>1, SMT
<1> HIDE DEF d
<1>3. PICK x \in S : \A y \in S : x >= y
  BY <1>2, SMT
<1>4. Max(S) \in S /\ \A y \in S : Max(S) >= y
  BY <1>3, Zenon DEF Max
<1>5. LeastOne(d) = Max(S)
  BY DEF LeastOne
<1>6. LeastOne(d) \in {d, 1} /\ LeastOne(d) >= 1
  BY <1>4, <1>5
<1>7. d <= StatMax
  BY <1>1, SMT DEF d
<1> QED  BY <1>1, <1>2, <1>6, <1>7, SMT DEF d

\* Emos of a player that are changed where they are
LEMMA CrewChanged ==
  ASSUME FightType, NEW p \in Player, NEW board,
         board \in [1 .. Len(boards[p]) -> Fighter],
         \A i \in 1 .. Len(boards[p]) : board[i].id = boards[p][i].id /\ board[i].count = boards[p][i].count,
         boards' = [boards EXCEPT ![p] = board]
  PROVE  SameCrew
<1>1. boards \in [Player -> Seq(Fighter)] /\ Len(boards[p]) \in Nat
  BY BoardIs DEF FightType
<1>2. board \in Seq(Fighter) /\ Len(board) = Len(boards[p])
  BY <1>1, FunctionIsSeq, Zenon
<1>3. boards' \in [Player -> Seq(Fighter)] /\ boards'[p] = board /\ \A q \in Player : q # p => boards'[q] = boards[q]
  BY <1>1, <1>2, Zenon
<1>4. ASSUME NEW q \in Player
      PROVE  /\ Len(boards'[q]) = Len(boards[q])
             /\ \A i \in 1 .. Len(boards[q]) :
                  boards'[q][i].id = boards[q][i].id /\ boards'[q][i].count = boards[q][i].count
  <2>1. CASE q = p
    BY <1>2, <1>3, <2>1, Zenon
  <2>2. CASE q # p
    BY <1>3, <2>2, Zenon
  <2> QED  BY <2>1, <2>2
<1> QED  BY <1>3, <1>4 DEF SameCrew

\* An emo with other stats is an emo
LEMMA StatsChanged ==
  ASSUME NEW e \in Fighter, NEW a \in 1 .. StatMax, NEW h \in 1 .. StatMax
  PROVE  LET new == [e EXCEPT !.attack = a, !.health = h]
         IN  new \in Fighter /\ new.id = e.id /\ new.count = e.count
<1> DEFINE new == [e EXCEPT !.attack = a, !.health = h]
           half == [e EXCEPT !.attack = a]
<1>1. half \in Fighter /\ half.id = e.id /\ half.count = e.count
  BY SMT DEF Fighter
<1>2. new = [half EXCEPT !.health = h]
  BY Zenon
<1>3. ASSUME NEW x \in Fighter
      PROVE  [x EXCEPT !.health = h] \in Fighter /\ [x EXCEPT !.health = h].id = x.id /\ [x EXCEPT !.health = h].count = x.count
  BY SMT DEF Fighter
<1> HIDE DEF half
<1> QED  BY <1>1, <1>2, <1>3, Zenon

\* increase_stats, of whoever is reached
LEMMA RunIncreaseKeeps ==
  ASSUME FightType, NEW p \in Player, NEW index, NEW retired, NEW triple \in BOOLEAN, NEW to,
         NEW attack0 \in Nat, NEW health0 \in Nat,
         RunIncrease(p, index, retired, triple, to, attack0, health0)
  PROVE  SameCrew
<1> DEFINE attack == DoubleIf(triple, attack0)
           health == DoubleIf(triple, health0)
           Increased(emo) == [emo EXCEPT !.attack = SaturatingU16(@ + attack), !.health = SaturatingU16(@ + health)]
<1>1. attack \in Nat /\ health \in Nat
  BY StatsType
<1>2. PICK targets \in TargetSets(boards[p], index, retired, to) :
        ChangeStats(p, targets, "IncreaseStats", attack, health, Increased)
  BY DEF RunIncrease
<1> HIDE DEF attack, health
<1> DEFINE board == [i \in DOMAIN boards[p] |-> IF i - 1 \in targets THEN Increased(boards[p][i]) ELSE boards[p][i]]
<1>3. UNCHANGED boards \/ boards' = [boards EXCEPT ![p] = board]
  BY <1>2 DEF ChangeStats
<1>4. DOMAIN boards[p] = 1 .. Len(boards[p]) /\ \A i \in 1 .. Len(boards[p]) : boards[p][i] \in Fighter
  BY BoardIs
<1>5. ASSUME NEW e \in Fighter
      PROVE  Increased(e) \in Fighter /\ Increased(e).id = e.id /\ Increased(e).count = e.count
  <2> DEFINE a == SaturatingU16(e.attack + attack)
             h == SaturatingU16(e.health + health)
  <2>1. e.attack + attack \in Nat /\ e.attack + attack > 0 /\ e.health + health \in Nat /\ e.health + health > 0
    BY <1>1, BasesAssumption, SMT DEF Fighter, BasesAssumption
  <2>2. a \in 1 .. StatMax /\ h \in 1 .. StatMax
    <3> DEFINE x == e.attack + attack
               y == e.health + health
    <3>1. x \in Nat /\ x > 0 /\ y \in Nat /\ y > 0
      BY <2>1
    <3> HIDE DEF x, y
    <3>2. SaturatingU16(x) \in 1 .. StatMax /\ SaturatingU16(y) \in 1 .. StatMax
      BY <3>1, StatsType
    <3> QED  BY <3>2 DEF x, y
  <2> QED  BY <2>2, StatsChanged DEF a, h
<1> HIDE DEF Increased
<1>6. board \in [1 .. Len(boards[p]) -> Fighter]
  BY <1>4, <1>5
<1>7. \A i \in 1 .. Len(boards[p]) : board[i].id = boards[p][i].id /\ board[i].count = boards[p][i].count
  BY <1>4, <1>5
<1> HIDE DEF board
<1> QED  BY <1>3, <1>6, <1>7, SameBoards, CrewChanged

\* decrease_stats
LEMMA RunDecreaseKeeps ==
  ASSUME FightType, NEW p \in Player, NEW index, NEW retired, NEW triple \in BOOLEAN, NEW to,
         NEW attack0 \in Nat, NEW health0 \in Nat,
         RunDecrease(p, index, retired, triple, to, attack0, health0)
  PROVE  SameCrew
<1> DEFINE attack == DoubleIf(triple, attack0)
           health == DoubleIf(triple, health0)
           Decreased(emo) == [emo EXCEPT !.attack = LeastOne(@ - attack), !.health = LeastOne(@ - health)]
<1>1. attack \in Nat /\ health \in Nat
  BY StatsType
<1>2. PICK targets \in TargetSets(boards[p], index, retired, to) :
        ChangeStats(p, targets, "DecreaseStats", attack, health, Decreased)
  BY DEF RunDecrease
<1> HIDE DEF attack, health
<1> DEFINE board == [i \in DOMAIN boards[p] |-> IF i - 1 \in targets THEN Decreased(boards[p][i]) ELSE boards[p][i]]
<1>3. UNCHANGED boards \/ boards' = [boards EXCEPT ![p] = board]
  BY <1>2 DEF ChangeStats
<1>4. DOMAIN boards[p] = 1 .. Len(boards[p]) /\ \A i \in 1 .. Len(boards[p]) : boards[p][i] \in Fighter
  BY BoardIs
<1>5. ASSUME NEW e \in Fighter
      PROVE  Decreased(e) \in Fighter /\ Decreased(e).id = e.id /\ Decreased(e).count = e.count
  <2> DEFINE a == LeastOne(e.attack - attack)
             h == LeastOne(e.health - health)
  <2>1. e.attack \in 1 .. StatMax /\ e.health \in 1 .. StatMax
    BY DEF Fighter
  <2>2. a \in 1 .. StatMax /\ h \in 1 .. StatMax
    BY <1>1, <2>1, LeastOneType
  <2> QED  BY <2>2, StatsChanged DEF a, h
<1> HIDE DEF Decreased
<1>6. board \in [1 .. Len(boards[p]) -> Fighter]
  BY <1>4, <1>5
<1>7. \A i \in 1 .. Len(boards[p]) : board[i].id = boards[p][i].id /\ board[i].count = boards[p][i].count
  BY <1>4, <1>5
<1> HIDE DEF board
<1> QED  BY <1>3, <1>6, <1>7, SameBoards, CrewChanged

\* add_battle_ability
LEMMA RunAddAbilityKeeps ==
  ASSUME FightType, NEW p \in Player, NEW index, NEW retired, NEW triple, NEW to, NEW ability \in Learnable,
         RunAddAbility(p, index, retired, triple, to, ability)
  PROVE  SameCrew
<1>1. PICK reached :
        boards' = [boards EXCEPT ![p] =
                     [i \in DOMAIN boards[p] |->
                        IF i - 1 \in reached
                        THEN [boards[p][i] EXCEPT !.abilities = Append(@, ability)] ELSE boards[p][i]]]
  BY DEF RunAddAbility
<1> DEFINE With(e) == [e EXCEPT !.abilities = Append(e.abilities, ability)]
           board == [i \in DOMAIN boards[p] |-> IF i - 1 \in reached THEN With(boards[p][i]) ELSE boards[p][i]]
<1>2. boards' = [boards EXCEPT ![p] = board]
  BY <1>1
<1>3. DOMAIN boards[p] = 1 .. Len(boards[p]) /\ \A i \in 1 .. Len(boards[p]) : boards[p][i] \in Fighter
  BY BoardIs
<1>4. ASSUME NEW e \in Fighter
      PROVE  With(e) \in Fighter /\ With(e).id = e.id /\ With(e).count = e.count
  <2> DEFINE new == Append(e.abilities, ability)
  <2>1. e.abilities \in Seq(Learnable)
    BY DEF Fighter
  <2>2. new \in Seq(Learnable)
    BY <2>1, AppendProperties, Zenon
  <2> HIDE DEF new
  <2>3. [e EXCEPT !.abilities = new] \in Fighter
    BY <2>2, SMT DEF Fighter
  <2>4. [e EXCEPT !.abilities = new].id = e.id /\ [e EXCEPT !.abilities = new].count = e.count
    BY SMT DEF Fighter
  <2> QED  BY <2>3, <2>4 DEF new
<1> HIDE DEF With
<1>5. board \in [1 .. Len(boards[p]) -> Fighter]
  BY <1>3, <1>4
<1>6. \A i \in 1 .. Len(boards[p]) : board[i].id = boards[p][i].id /\ board[i].count = boards[p][i].count
  BY <1>3, <1>4
<1> HIDE DEF board
<1> QED  BY <1>2, <1>5, <1>6, CrewChanged

--------------------------------------------------------------------------------

\* Plain calls of one kind, as many as there are of something
LEMMA PlainCalls ==
  ASSUME NEW n \in Nat, NEW calls \in [1 .. n -> Plain]
  PROVE  calls \in Seq(Plain)
BY FunctionIsSeq, Zenon

\* set_emo and set_emos_by_attack_div: the count goes along
LEMMA SetCallsType ==
  ASSUME NEW p \in Player, NEW index \in Nat, NEW emo \in Fighter, emo.count <= Over(p), NEW retired,
         NEW triple \in BOOLEAN, NEW action, IsAction(action), action.act \in {"SetEmo", "SetEmosByAttackDiv"}
  PROVE  SetCalls(p, emo, index, retired, triple, action) \in Seq(Plain)
<1> DEFINE one == SetCall(p, NewIndex(index, retired), action, triple, emo.count)
           quotient == emo.attack \div action.divisor
           times == IF action.act = "SetEmo" THEN 1 ELSE Min({quotient, BoardMax})
<1>1. action.side \in Side /\ action.base \in DOMAIN Bases
  BY SMT DEF IsAction
<1>2. NewIndex(index, retired) \in Nat
  BY SMT DEF NewIndex
<1>3. emo.count \in Nat /\ emo.attack \in Nat
  BY BasesAssumption, SMT DEF Fighter, BasesAssumption
<1>4. one \in Sets /\ one.call = "Set" /\ one.player = p /\ one.count = emo.count
  <2> DEFINE at == NewIndex(index, retired)
  <2>1. at \in Nat
    BY <1>2
  <2> HIDE DEF at
  <2>2. SetCall(p, at, action, triple, emo.count) \in Sets
    BY <1>1, <1>3, <2>1, SMT DEF SetCall, Sets
  <2> QED  BY <2>2 DEF SetCall, at
<1> HIDE DEF one
<1>5. one \in Call
  BY <1>4, Zenon DEF Call
<1>6. ~IsBlow(one) /\ CarriesAtMost(one, Over(p))
  BY <1>4, SMT DEF IsBlow, CarriesAtMost
<1>7. one \in Plain
  BY <1>4, <1>5, <1>6, Zenon DEF Plain
<1>8. times \in Nat
  <2>1. CASE action.act = "SetEmo"
    BY <2>1
  <2>2. CASE action.act = "SetEmosByAttackDiv"
    <3>1. action.divisor \in Nat /\ action.divisor > 0
      BY <2>2, SMT DEF IsAction
    <3>2. quotient \in Nat
      BY <1>3, <3>1, SMT
    <3>3. BoardMax \in Nat
      BY BasesAssumption DEF BasesAssumption
    <3> HIDE DEF quotient
    <3>4. Min({quotient, BoardMax}) = IF quotient <= BoardMax THEN quotient ELSE BoardMax
      BY <3>2, <3>3, MinPair, SMT
    <3> QED  BY <2>2, <3>2, <3>3, <3>4
  <2> QED  BY <2>1, <2>2
<1> HIDE DEF times
<1>9. [i \in 1 .. times |-> one] \in [1 .. times -> Plain]
  BY <1>7, Zenon
<1>10. SetCalls(p, emo, index, retired, triple, action) = [i \in 1 .. times |-> one]
  BY DEF SetCalls, one, times
<1> QED  BY <1>8, <1>9, <1>10, PlainCalls, Zenon

\* damage_all_emos
LEMMA DamageAllCallsType ==
  ASSUME FightType, NEW p \in Player, NEW triple \in BOOLEAN, NEW action, IsAction(action), action.act = "DamageAll"
  PROVE  DamageAllCalls(p, triple, action) \in Seq(Plain)
<1> DEFINE target == IF action.side = "Ally" THEN p ELSE Rival(p)
           damage == DoubleIf(triple, action.damage)
           Made(i) == [call |-> "DamageId", player |-> target, id |-> boards[target][i].id, damage |-> damage]
<1>1. target \in Player
  BY SMT DEF Rival, Player
<1>2. damage \in Nat
  <2>1. action.damage \in Nat
    BY SMT DEF IsAction
  <2> QED  BY <2>1, StatsType
<1>3. DamageAllCalls(p, triple, action) = [i \in DOMAIN boards[target] |-> Made(i)]
  BY DEF DamageAllCalls
<1> HIDE DEF target, damage
<1>4. Len(boards[target]) \in Nat /\ DOMAIN boards[target] = 1 .. Len(boards[target])
      /\ \A i \in 1 .. Len(boards[target]) : boards[target][i] \in Fighter
  BY <1>1, BoardIs
<1>5. ASSUME NEW i \in 1 .. Len(boards[target]) PROVE Made(i) \in Plain
  <2> DEFINE made == Made(i)
  <2>1. boards[target][i].id \in Nat
    BY <1>4 DEF Fighter
  <2>2. made \in DamageIds /\ made.call = "DamageId"
    BY <1>1, <1>2, <2>1, SMT DEF DamageIds
  <2> HIDE DEF made
  <2>3. made \in Call
    BY <2>2, Zenon DEF Call
  <2>4. ~IsBlow(made) /\ CarriesAtMost(made, Over(made.player))
    BY <2>2, SMT DEF IsBlow, CarriesAtMost
  <2>5. made \in Plain
    BY <2>3, <2>4, Zenon DEF Plain
  <2> QED  BY <2>5 DEF made
<1> HIDE DEF Made
<1>6. [i \in DOMAIN boards[target] |-> Made(i)] \in [1 .. Len(boards[target]) -> Plain]
  BY <1>4, <1>5, Zenon
<1> QED  BY <1>3, <1>4, <1>6, PlainCalls, Zenon

\* A count of emos on a board
LEMMA CountOfType ==
  ASSUME FightType, NEW p \in Player, NEW index, NEW action
  PROVE  CountOf(p, index, action) \in Nat
<1> DEFINE q == IF action.side = "Ally" THEN p ELSE Rival(p)
           S == {i \in DOMAIN boards[q] : /\ action.side = "Ally" => i - 1 # index
                                          /\ Kind(boards[q][i]) \in action.of}
<1>1. q \in Player
  BY SMT DEF Rival, Player
<1>2. CountOf(p, index, action) = Cardinality(S)
  BY DEF CountOf
<1> HIDE DEF q
<1>3. Len(boards[q]) \in Nat /\ DOMAIN boards[q] = 1 .. Len(boards[q])
  BY <1>1, BoardIs
<1>4. IsFiniteSet(1 .. Len(boards[q])) /\ S \subseteq 1 .. Len(boards[q])
  BY <1>3, FS_Interval
<1> HIDE DEF S
<1>5. Cardinality(S) \in Nat
  BY <1>4, FS_Subset, FS_CardinalityType
<1> QED  BY <1>2, <1>5

\* call_ability_normal_action: emos change where they are, and plain calls are made
LEMMA PerformIs ==
  ASSUME MarchInv, NEW p \in Player, NEW index \in Nat, NEW action, IsAction(action),
         NEW retired, Actor(retired, p), retired = NotRetired => HasEmoAt(p, index),
         NEW triple \in BOOLEAN, Perform(p, index, action, retired, triple)
  PROVE  SameCrew /\ \E calls \in Seq(Plain) : Push(calls)
<1> DEFINE emo == IF retired # NotRetired THEN retired[1] ELSE EmoAt(p, index)
<1>1. emo \in Fighter /\ emo.count <= Over(p)
  <2>1. CASE retired # NotRetired
    BY <2>1, ActorIs DEF Actor, NotRetired
  <2>2. CASE retired = NotRetired
    BY <2>2, EmoAtIs
  <2> QED  BY <2>1, <2>2
<1>2. FightType /\ <<>> \in Seq(Plain)
  BY EmptySeq DEF MarchInv
<1>3. CASE action.act \in {"SetEmo", "SetEmosByAttackDiv"}
  <2>1. Push(SetCalls(p, emo, index, retired, triple, action)) /\ UNCHANGED boards
    <3>1. CASE action.act = "SetEmo"
      BY <3>1, Zenon DEF Perform
    <3>2. CASE action.act = "SetEmosByAttackDiv"
      BY <3>2, Zenon DEF Perform
    <3> QED  BY <1>3, <3>1, <3>2, Zenon
  <2>2. SetCalls(p, emo, index, retired, triple, action) \in Seq(Plain)
    BY <1>1, <1>3, SetCallsType
  <2> QED  BY <1>2, <2>1, <2>2, SameBoards
<1>4. CASE action.act = "DamageAll"
  <2>1. Push(DamageAllCalls(p, triple, action)) /\ UNCHANGED boards
    BY <1>4, SMT DEF Perform
  <2>2. DamageAllCalls(p, triple, action) \in Seq(Plain)
    BY <1>2, <1>4, DamageAllCallsType
  <2> QED  BY <1>2, <2>1, <2>2, SameBoards
<1>5. CASE action.act = "IncreaseStats"
  <2>1. Push(<<>>) /\ RunIncrease(p, index, retired, triple, action.to, action.attack, action.health)
    BY <1>5, SMT DEF Perform
  <2>2. action.attack \in Nat /\ action.health \in Nat
    BY <1>5, SMT DEF IsAction
  <2> QED  BY <1>2, <2>1, <2>2, RunIncreaseKeeps
<1>6. CASE action.act = "DecreaseStats"
  <2>1. Push(<<>>) /\ RunDecrease(p, index, retired, triple, action.to, action.attack, action.health)
    BY <1>6, SMT DEF Perform
  <2>2. action.attack \in Nat /\ action.health \in Nat
    BY <1>6, SMT DEF IsAction
  <2> QED  BY <1>2, <2>1, <2>2, RunDecreaseKeeps
<1>7. CASE action.act = "ByEmoCount"
  <2> DEFINE count == CountOf(p, index, action)
             attack == SaturatingU16(action.attack * count)
             health == SaturatingU16(action.health * count)
  <2>1. Push(<<>>) /\ RunIncrease(p, index, retired, triple, action.to, attack, health)
    BY <1>7, SMT DEF Perform
  <2>2. action.attack \in Nat /\ action.health \in Nat /\ count \in Nat
    BY <1>2, <1>7, CountOfType, SMT DEF IsAction
  <2> HIDE DEF count
  <2>3. action.attack * count \in Nat /\ action.health * count \in Nat
    BY <2>2, SMT
  <2>4. attack \in Nat /\ health \in Nat
    <3>1. attack \in 0 .. StatMax /\ health \in 0 .. StatMax
      BY <2>3, StatsType
    <3>2. StatMax \in Nat
      BY BasesAssumption DEF BasesAssumption
    <3> HIDE DEF attack, health
    <3> QED  BY <3>1, <3>2, SMT
  <2> HIDE DEF attack, health
  <2> QED  BY <1>2, <2>1, <2>4, RunIncreaseKeeps
<1>8. CASE action.act = "AddBattleAbility"
  <2>1. Push(<<>>) /\ RunAddAbility(p, index, retired, triple, action.to, action.ability)
    BY <1>8, SMT DEF Perform
  <2>2. action.ability \in Learnable
    BY <1>8, SMT DEF IsAction
  <2> QED  BY <1>2, <2>1, <2>2, RunAddAbilityKeeps
<1> QED  BY <1>3, <1>4, <1>5, <1>6, <1>7, <1>8, Zenon DEF IsAction

\* An ability's action, of the emo itself
LEMMA ActKeeps ==
  ASSUME MarchInv, Act
  PROVE  MarchInv'
<1> DEFINE c == Head(agenda)
           triple == IF c.retired # NotRetired THEN c.retired[1].triple ELSE EmoAt(c.player, c.index).triple
<1>1. agenda # <<>> /\ c.call = "Act" /\ Resolvable(c) /\ UNCHANGED <<tick, first, outcome, nextId>>
  BY DEF Act, Step
<1>2. c \in Acts /\ c.player \in Player /\ CarriesAtMost(c, Over(c.player))
  BY <1>1, HeadIs, CallIs, Zenon
<1>3. c.index \in Nat /\ c.action \in NormalActions /\ c.retired \in Seq(Fighter)
  BY <1>2, SMT DEF Acts
<1>4. Actor(c.retired, c.player) /\ IsAction(c.action)
  BY <1>1, <1>2, <1>3, SMT DEF Actor, CarriesAtMost, NormalActions
<1>5. c.retired = NotRetired => HasEmoAt(c.player, c.index)
  BY <1>1, SMT DEF Resolvable
<1>6. triple \in BOOLEAN
  <2>1. CASE c.retired # NotRetired
    <3>1. c.retired[1] \in Fighter
      BY <1>4, <2>1, ActorIs DEF NotRetired
    <3> QED  BY <2>1, <3>1 DEF Fighter
  <2>2. CASE c.retired = NotRetired
    <3>1. EmoAt(c.player, c.index) \in Fighter
      BY <1>2, <1>3, <1>5, <2>2, EmoAtIs
    <3> QED  BY <2>2, <3>1 DEF Fighter
  <2> QED  BY <2>1, <2>2
<1>7. \/ Push(<<>>) /\ UNCHANGED boards
      \/ Perform(c.player, c.index, c.action, c.retired, triple)
  BY DEF Act
<1> HIDE DEF triple
<1>8. SameCrew /\ \E calls \in Seq(Plain) : Push(calls)
  <2>1. CASE Push(<<>>) /\ UNCHANGED boards
    BY <2>1, SameBoards, EmptySeq DEF MarchInv
  <2>2. CASE Perform(c.player, c.index, c.action, c.retired, triple)
    <3> HIDE DEF c
    <3> QED  BY <1>2, <1>3, <1>4, <1>5, <1>6, <2>2, PerformIs, Zenon
  <2> QED  BY <1>7, <2>1, <2>2
<1>9. AgendaKept
  BY <1>1, <1>8, PlainKeeps DEF MarchInv
<1> QED  BY <1>1, <1>8, <1>9, CrewStep

\* Retire actions run again, maybe twice
AgainCalls(p, index, emo, retired, twice) ==
  LET again == [i \in DOMAIN RetireCalls(p, index, emo) |->
                  [RetireCalls(p, index, emo)[i] EXCEPT !.retired = retired]]
  IN  FlattenSeq([i \in DOMAIN again |-> IF twice THEN <<again[i], again[i]>> ELSE <<again[i]>>])

\* ... are plain calls too
LEMMA AgainType ==
  ASSUME NEW p \in Player, NEW index \in Nat, NEW emo \in Fighter, emo.count <= Over(p),
         NEW retired, Actor(retired, p), NEW twice
  PROVE  AgainCalls(p, index, emo, retired, twice) \in Seq(Plain)
<1> DEFINE S == {c \in Plain \cap Acts : c.player = p}
           own == RetireCalls(p, index, emo)
           Again(i) == [own[i] EXCEPT !.retired = retired]
           again == [i \in DOMAIN own |-> Again(i)]
           Made(i) == IF twice THEN <<again[i], again[i]>> ELSE <<again[i]>>
<1>1. own \in Seq(S)
  BY RetireCallsType, Zenon
<1> HIDE DEF own, S
<1>2. Len(own) \in Nat /\ DOMAIN own = 1 .. Len(own) /\ \A i \in 1 .. Len(own) : own[i] \in S
  BY <1>1, SeqElements, Zenon
<1>3. ASSUME NEW c \in S PROVE [c EXCEPT !.retired = retired] \in Plain
  <2> DEFINE new == [c EXCEPT !.retired = retired]
  <2>1. c \in Acts /\ c.player = p /\ retired \in Seq(Fighter)
    BY DEF S, Actor
  <2>2. new \in Acts /\ new.call = "Act" /\ new.retired = retired /\ new.player = p
    BY <2>1, SMT DEF Acts
  <2> HIDE DEF new
  <2>3. new \in Call
    BY <2>2, Zenon DEF Call
  <2>4. ~IsBlow(new) /\ CarriesAtMost(new, Over(p))
    BY <2>2, SMT DEF IsBlow, CarriesAtMost, Actor
  <2>5. new \in Plain
    BY <2>2, <2>3, <2>4, Zenon DEF Plain
  <2> QED  BY <2>5 DEF new
<1>4. ASSUME NEW i \in 1 .. Len(own) PROVE again[i] \in Plain
  <2>1. own[i] \in S /\ again[i] = Again(i)
    BY <1>2
  <2> QED  BY <1>3, <2>1
<1>5. DOMAIN again = 1 .. Len(own)
  BY <1>2
<1> HIDE DEF again
<1>6. ASSUME NEW i \in 1 .. Len(own) PROVE Made(i) \in Seq(Plain)
  BY <1>4, SMT
<1> HIDE DEF Made
<1>7. [i \in DOMAIN again |-> Made(i)] \in [1 .. Len(own) -> Seq(Plain)]
  BY <1>5, <1>6, Zenon
<1>8. [i \in DOMAIN again |-> Made(i)] \in Seq(Seq(Plain))
  BY <1>2, <1>7, FunctionIsSeq, Zenon
<1>9. FlattenSeq([i \in DOMAIN again |-> Made(i)]) \in Seq(Plain)
  BY <1>8, FlattenSeqType, Zenon
<1> QED  BY <1>9 DEF AgainCalls, Made, again, own

\* An ability's action, of an ally
LEMMA AllyActKeeps ==
  ASSUME MarchInv, AllyAct
  PROVE  MarchInv'
<1> DEFINE c == Head(agenda)
           emo == IF c.retired # NotRetired THEN c.retired[1] ELSE EmoAt(c.player, c.index)
           holder == EmoAt(c.player, c.holder)
           calls == AgainCalls(c.player, c.index, emo, c.retired, holder.triple)
<1>1. agenda # <<>> /\ c.call = "AllyAct" /\ Resolvable(c) /\ UNCHANGED <<tick, first, outcome, nextId>>
  BY DEF AllyAct, Step
<1>2. c \in AllyActs /\ c.player \in Player /\ CarriesAtMost(c, Over(c.player))
  BY <1>1, HeadIs, CallIs, Zenon
<1>3. c.index \in Nat /\ c.holder \in Nat /\ c.action \in AllyActions /\ c.retired \in Seq(Fighter)
  BY <1>2, SMT DEF AllyActs
<1>4. Actor(c.retired, c.player)
  BY <1>1, <1>2, <1>3, SMT DEF Actor, CarriesAtMost
<1>5. HasEmoAt(c.player, c.holder) /\ (c.retired = NotRetired => HasEmoAt(c.player, c.index))
  BY <1>1, SMT DEF Resolvable
<1>6. emo \in Fighter /\ emo.count <= Over(c.player)
  <2>1. CASE c.retired # NotRetired
    <3>1. c.retired[1] \in Fighter /\ c.retired[1].count <= Over(c.player)
      BY <1>4, <2>1, ActorIs DEF Actor, NotRetired
    <3> QED  BY <2>1, <3>1
  <2>2. CASE c.retired = NotRetired
    BY <1>2, <1>3, <1>5, <2>2, EmoAtIs
  <2> QED  BY <2>1, <2>2
<1>7. holder.triple \in BOOLEAN
  <2>1. holder \in Fighter
    BY <1>2, <1>3, <1>5, EmoAtIs
  <2> QED  BY <2>1 DEF Fighter
<1>8. \/ c.action.act = "TriggerRetireActions" /\ Push(calls) /\ UNCHANGED boards
      \/ c.action.act # "TriggerRetireActions" /\ Perform(c.player, c.index, c.action, c.retired, holder.triple)
  BY DEF AllyAct, AgainCalls
<1> HIDE DEF c, emo, holder
<1>9. calls \in Seq(Plain)
  BY <1>2, <1>3, <1>4, <1>6, AgainType, Zenon
<1> HIDE DEF calls
<1>10. SameCrew /\ \E pushed \in Seq(Plain) : Push(pushed)
  <2>1. CASE Push(calls) /\ UNCHANGED boards
    BY <1>9, <2>1, SameBoards DEF MarchInv
  <2>2. CASE c.action.act # "TriggerRetireActions" /\ Perform(c.player, c.index, c.action, c.retired, holder.triple)
    <3>1. IsAction(c.action)
      BY <1>3, <2>2 DEF AllyActions
    <3> QED  BY <1>2, <1>3, <1>4, <1>5, <1>7, <2>2, <3>1, PerformIs, Zenon
  <2> QED  BY <1>8, <2>1, <2>2
<1>11. AgendaKept
  BY <1>1, <1>10, PlainKeeps DEF MarchInv
<1> QED  BY <1>1, <1>10, <1>11, CrewStep

--------------------------------------------------------------------------------

\* BattleEmo::new_with_base
LEMMA NewEmoType ==
  ASSUME NEW id \in Nat, NEW base \in DOMAIN Bases, NEW triple \in BOOLEAN, NEW count \in Nat
  PROVE  LET emo == NewEmo(id, base, triple, count)
         IN  emo \in Fighter /\ emo.id = id /\ emo.count = count
<1> DEFINE attack == DoubleIf(triple, Bases[base].attack)
           health == DoubleIf(triple, Bases[base].health)
<1>1. /\ Bases[base].attack \in 1 .. StatMax /\ Bases[base].health \in 1 .. StatMax
      /\ Bases[base].abilities \in Seq(Learnable)
  BY BasesAssumption DEF BasesAssumption
<1>2. Bases[base].attack \in Nat /\ Bases[base].health \in Nat
  BY <1>1, BasesAssumption, SMT DEF BasesAssumption
<1>3. attack \in 1 .. StatMax /\ health \in 1 .. StatMax
  BY <1>1, <1>2, StatsType
<1> HIDE DEF attack, health
<1>4. NewEmo(id, base, triple, count) =
        [id |-> id, count |-> count, base |-> base, triple |-> triple,
         attack |-> attack, health |-> health, abilities |-> Bases[base].abilities]
  BY SMT DEF NewEmo, BattleEmo, Attributes, attack, health
<1> QED  BY <1>1, <1>3, <1>4, SMT DEF Fighter

\* set_emo_rival: what the last of the rivals has
LEMMA InheritedCountType ==
  ASSUME MarchInv, NEW c \in Sets, c.count <= Over(c.player)
  PROVE  LET p == IF c.side = "Ally" THEN c.player ELSE Rival(c.player)
         IN  InheritedCount(c) \in Nat /\ InheritedCount(c) <= Over(p)
<1>1. c.player \in Player /\ c.count \in Nat
  BY SMT DEF Sets
<1>2. CASE c.side = "Ally"
  BY <1>1, <1>2 DEF InheritedCount
<1>3. CASE c.side # "Ally"
  <2> DEFINE q == Rival(c.player)
  <2>1. q \in Player
    BY <1>1, SMT DEF Rival, Player
  <2>2. Over(q) \in Nat
    BY <2>1, OverType DEF MarchInv
  <2>3. CASE boards[q] = <<>>
    BY <1>3, <2>2, <2>3, SMT DEF InheritedCount
  <2>4. CASE boards[q] # <<>>
    <3>1. boards[q] \in Seq(Fighter)
      BY <2>1, BoardIs DEF MarchInv
    <3>2. Len(boards[q]) \in 1 .. Len(boards[q])
      BY <2>4, <3>1, EmptySeq, SMT
    <3>3. Last(boards[q]) \in Fighter /\ Last(boards[q]).count <= Over(q)
      BY <2>1, <3>1, <3>2, SeqElements, Zenon DEF Last, MarchInv, CountsOver
    <3>4. InheritedCount(c) = Last(boards[q]).count
      BY <1>3, <2>4 DEF InheritedCount
    <3> QED  BY <1>3, <3>3, <3>4 DEF Fighter
  <2> QED  BY <2>3, <2>4
<1> QED  BY <1>2, <1>3

\* add_emo: the allies on the new board are told
ToldCalls(p, index, board, emo) ==
  LET told == Abilities(board, {a \in OfTrigger("Ally", "AllySet") : Kind(emo) \in a.kinds})
  IN  FlattenSeq([i \in DOMAIN told |->
        IF told[i].index = index THEN <<>>
        ELSE <<AllyActCall(p, told[i].index, index, told[i].ability.action, NotRetired)>>])

\* ... by plain calls
LEMMA ToldType ==
  ASSUME NEW p \in Player, NEW index \in Nat, NEW board \in Seq(Fighter), NEW emo
  PROVE  ToldCalls(p, index, board, emo) \in Seq(Plain)
<1> DEFINE wanted == {a \in OfTrigger("Ally", "AllySet") : Kind(emo) \in a.kinds}
           told == Abilities(board, wanted)
           Call1(i) == AllyActCall(p, told[i].index, index, told[i].ability.action, NotRetired)
           Made(i) == IF told[i].index = index THEN <<>> ELSE <<Call1(i)>>
<1>1. told \in Seq([index : Nat, ability : wanted])
  BY AbilitiesType, Zenon
<1> HIDE DEF told
<1>2. Len(told) \in Nat /\ DOMAIN told = 1 .. Len(told)
      /\ \A i \in 1 .. Len(told) : told[i] \in [index : Nat, ability : wanted]
  BY <1>1, SeqElements, Zenon
<1>3. ASSUME NEW i \in 1 .. Len(told) PROVE Made(i) \in Seq(Plain)
  <2>1. told[i].index \in Nat /\ told[i].ability \in OfTrigger("Ally", "AllySet")
    BY <1>2, SMT
  <2>2. told[i].ability.action \in AllyActions
    BY <2>1, AllyActsType, Zenon
  <2>3. Call1(i) \in Plain
    BY <2>1, <2>2, NobodyActs, AllyActCallType
  <2> HIDE DEF Call1
  <2>4. <<Call1(i)>> \in Seq(Plain)
    BY <2>3, SMT
  <2> QED  BY <2>4, EmptySeq, Zenon
<1> HIDE DEF Made
<1>4. [i \in DOMAIN told |-> Made(i)] \in [1 .. Len(told) -> Seq(Plain)]
  BY <1>2, <1>3, Zenon
<1>5. [i \in DOMAIN told |-> Made(i)] \in Seq(Seq(Plain))
  BY <1>2, <1>4, FunctionIsSeq, Zenon
<1>6. FlattenSeq([i \in DOMAIN told |-> Made(i)]) \in Seq(Plain)
  BY <1>5, FlattenSeqType, Zenon
<1> QED  BY <1>6 DEF ToldCalls, Made, told

\* What is known of everybody on a board
LEMMA CrewIs ==
  ASSUME MarchInv, NEW q \in Player, NEW i \in 1 .. Len(boards[q])
  PROVE  /\ boards[q][i] \in Fighter
         /\ boards[q][i].id \in Nat /\ boards[q][i].id < nextId
         /\ boards[q][i].count \in Nat /\ boards[q][i].count <= Over(q)
<1>1. boards[q][i] \in Fighter /\ boards[q][i].id < nextId /\ boards[q][i].count <= Over(q)
  BY BoardIs, Zenon DEF MarchInv, IdsOnce, CountsOver
<1> QED  BY <1>1 DEF Fighter

\* Nobody is set on a full board; the id is used up
LEMMA FullKeeps ==
  ASSUME MarchInv, Push(<<>>), UNCHANGED boards, agenda # <<>>,
         nextId' = nextId + 1, UNCHANGED <<tick, first, outcome>>
  PROVE  MarchInv'
<1>1. AgendaKept
  BY PlainKeeps, EmptySeq DEF MarchInv
<1>2. boards' \in [Player -> Seq(Fighter)] /\ nextId \in Nat /\ nextId' \in Nat
  BY SMT DEF MarchInv, FightType
<1>3. IdsOnce'
  <2> SUFFICES ASSUME NEW p \in Player
               PROVE  /\ Len(boards[p]) <= BoardMax
                      /\ \A i \in 1 .. Len(boards[p]) :
                           /\ boards[p][i].id < nextId'
                           /\ \A j \in 1 .. Len(boards[p]) : boards[p][i].id = boards[p][j].id => i = j
    BY DEF IdsOnce
  <2>1. ASSUME NEW i \in 1 .. Len(boards[p]) PROVE boards[p][i].id < nextId'
    <3>1. boards[p][i].id \in Nat /\ boards[p][i].id < nextId
      BY CrewIs
    <3> QED  BY <1>2, <3>1, SMT
  <2> QED  BY <2>1, Zenon DEF MarchInv, IdsOnce
<1>4. ASSUME NEW p \in Player, NEW i \in 1 .. Len(boards'[p]) PROVE boards'[p][i].count <= Over(p)'
  <2>1. Over(p) \in Nat /\ Over(p)' \in Nat /\ Over(p) <= Over(p)'
    BY <1>1, Zenon DEF AgendaKept
  <2>2. boards[p][i].count \in Nat /\ boards[p][i].count <= Over(p)
    BY CrewIs
  <2> QED  BY <2>1, <2>2, SMT
<1> QED  BY <1>1, <1>2, <1>3, <1>4, InvFrom

\* Who is on a board after a new emo is set at an index
Joined(board, old, index, emo) ==
  /\ board \in Seq(Fighter) /\ Len(board) = Len(old) + 1 /\ Len(old) \in Nat
  /\ \A i \in 1 .. Len(board) :
       \/ i = index + 1 /\ board[i] = emo
       \/ i # index + 1 /\ \E j \in 1 .. Len(old) : board[i] = old[j] /\ j = IF i < index + 1 THEN i ELSE i - 1

\* ... by Vec::insert
LEMMA JoinedIs ==
  ASSUME NEW old \in Seq(Fighter), NEW index \in Nat, index <= Len(old), NEW emo \in Fighter,
         NEW board, board = InsertAt(old, index + 1, emo)
  PROVE  Joined(board, old, index, emo)
<1>1. Len(old) \in Nat
  BY SeqElements
<1>2. PICK at : at = index + 1
  OBVIOUS
<1>3. at \in 1 .. Len(old) + 1
  BY <1>1, <1>2, SMT
<1>4. /\ board \in Seq(Fighter) /\ Len(board) = Len(old) + 1
      /\ \A j \in 1 .. Len(old) + 1 :
           board[j] = IF j < at THEN old[j] ELSE IF j = at THEN emo ELSE old[j - 1]
  <2>1. board = InsertAt(old, at, emo)
    BY <1>2
  <2>2. /\ InsertAt(old, at, emo) \in Seq(Fighter)
        /\ Len(InsertAt(old, at, emo)) = Len(old) + 1
        /\ \A j \in 1 .. Len(old) + 1 :
             InsertAt(old, at, emo)[j] = IF j < at THEN old[j] ELSE IF j = at THEN emo ELSE old[j - 1]
    BY <1>3, InsertAtIs
  <2> QED  BY <2>1, <2>2
<1>5. ASSUME NEW i \in 1 .. Len(board)
      PROVE  \/ i = at /\ board[i] = emo
             \/ i # at /\ \E j \in 1 .. Len(old) : board[i] = old[j] /\ j = IF i < at THEN i ELSE i - 1
  <2>1. i \in 1 .. Len(old) + 1 /\ i \in Nat /\ at \in Nat
    BY <1>1, <1>3, <1>4, SMT
  <2>2. board[i] = IF i < at THEN old[i] ELSE IF i = at THEN emo ELSE old[i - 1]
    BY <1>4, <2>1, Zenon
  <2>3. CASE i = at
    BY <2>1, <2>2, <2>3, SMT
  <2>4. CASE i # at
    <3>1. PICK j : j = IF i < at THEN i ELSE i - 1
      OBVIOUS
    <3>2. j \in 1 .. Len(old)
      BY <1>1, <1>3, <2>1, <2>4, <3>1, SMT
    <3>3. board[i] = old[j]
      BY <2>1, <2>2, <2>4, <3>1, SMT
    <3> QED  BY <2>4, <3>1, <3>2, <3>3
  <2> QED  BY <2>3, <2>4
<1> QED  BY <1>1, <1>2, <1>4, <1>5 DEF Joined

\* A new emo comes to a board that has room
LEMMA JoinKeeps ==
  ASSUME MarchInv, agenda # <<>>, NEW p \in Player, Len(boards[p]) < BoardMax,
         NEW index \in Nat, index <= Len(boards[p]),
         NEW emo \in Fighter, emo.id = nextId, emo.count <= Over(p),
         boards' = [boards EXCEPT ![p] = InsertAt(boards[p], index + 1, emo)],
         NEW calls \in Seq(Plain), Push(calls),
         nextId' = nextId + 1, UNCHANGED <<tick, first, outcome>>
  PROVE  MarchInv'
<1>1. PICK board : board = InsertAt(boards[p], index + 1, emo)
  OBVIOUS
<1>2. /\ FightType /\ boards \in [Player -> Seq(Fighter)] /\ boards[p] \in Seq(Fighter)
      /\ nextId \in Nat /\ BoardMax \in Nat
  BY BasesAssumption DEF MarchInv, FightType, BasesAssumption
<1>3. /\ board \in Seq(Fighter) /\ Len(board) = Len(boards[p]) + 1 /\ Len(boards[p]) \in Nat
      /\ \A i \in 1 .. Len(board) :
           \/ i = index + 1 /\ board[i] = emo
           \/ i # index + 1 /\ \E j \in 1 .. Len(boards[p]) :
                board[i] = boards[p][j] /\ j = IF i < index + 1 THEN i ELSE i - 1
  <2>1. Joined(board, boards[p], index, emo)
    BY <1>1, <1>2, JoinedIs
  <2> QED  BY <2>1 DEF Joined
<1>4. boards' \in [Player -> Seq(Fighter)] /\ boards'[p] = board /\ \A q \in Player : q # p => boards'[q] = boards[q]
  BY <1>1, <1>2, <1>3, Zenon
<1>5. AgendaKept
  BY PlainKeeps DEF MarchInv
<1>6. nextId' \in Nat /\ emo.count \in Nat
  BY <1>2, SMT DEF Fighter
<1>7. IdsOnce'
  <2> SUFFICES ASSUME NEW q \in Player
               PROVE  /\ Len(boards'[q]) <= BoardMax
                      /\ \A i \in 1 .. Len(boards'[q]) :
                           /\ boards'[q][i].id < nextId'
                           /\ \A j \in 1 .. Len(boards'[q]) : boards'[q][i].id = boards'[q][j].id => i = j
    BY DEF IdsOnce
  <2>1. CASE q # p
    <3>1. boards'[q] = boards[q]
      BY <1>4, <2>1, Zenon
    <3>2. ASSUME NEW i \in 1 .. Len(boards[q]) PROVE boards[q][i].id < nextId'
      <4>1. boards[q][i].id \in Nat /\ boards[q][i].id < nextId
        BY CrewIs
      <4> QED  BY <1>2, <4>1, SMT
    <3>3. /\ Len(boards[q]) <= BoardMax
          /\ \A i, j \in 1 .. Len(boards[q]) : boards[q][i].id = boards[q][j].id => i = j
      BY DEF MarchInv, IdsOnce
    <3> QED  BY <3>1, <3>2, <3>3
  <2>2. CASE q = p
    <3>1. Len(board) <= BoardMax
      BY <1>2, <1>3, SMT
    <3>2. ASSUME NEW j \in 1 .. Len(boards[p]) PROVE boards[p][j].id \in Nat /\ boards[p][j].id < nextId
      BY CrewIs
    <3>3. ASSUME NEW i \in 1 .. Len(board) PROVE board[i].id < nextId'
      <4>1. CASE board[i] = emo
        BY <1>2, <4>1, SMT
      <4>2. CASE \E j \in 1 .. Len(boards[p]) : board[i] = boards[p][j]
        BY <1>2, <3>2, <4>2, SMT
      <4> QED  BY <1>3, <4>1, <4>2, Zenon
    <3>4. ASSUME NEW i \in 1 .. Len(board), NEW j \in 1 .. Len(board), board[i].id = board[j].id PROVE i = j
      <4>1. CASE i = index + 1 /\ board[i] = emo
        <5>1. ~(\E k \in 1 .. Len(boards[p]) : board[j] = boards[p][k])
          BY <1>2, <3>2, <3>4, <4>1, SMT
        <5> QED  BY <1>3, <4>1, <5>1, Zenon
      <4>2. CASE j = index + 1 /\ board[j] = emo
        <5>1. ~(\E k \in 1 .. Len(boards[p]) : board[i] = boards[p][k])
          BY <1>2, <3>2, <3>4, <4>2, SMT
        <5> QED  BY <1>3, <4>2, <5>1, Zenon
      <4>3. CASE i # index + 1 /\ j # index + 1
        <5>1. PICK a \in 1 .. Len(boards[p]) : board[i] = boards[p][a] /\ a = IF i < index + 1 THEN i ELSE i - 1
          BY <1>3, <4>3, Zenon
        <5>2. PICK b \in 1 .. Len(boards[p]) : board[j] = boards[p][b] /\ b = IF j < index + 1 THEN j ELSE j - 1
          BY <1>3, <4>3, Zenon
        <5>3. a = b
          BY <3>4, <5>1, <5>2, Zenon DEF MarchInv, IdsOnce
        <5>4. i \in Nat /\ j \in Nat
          BY <1>3, SMT
        <5> QED  BY <4>3, <5>1, <5>2, <5>3, <5>4, SMT
      <4> QED  BY <1>3, <4>1, <4>2, <4>3, Zenon
    <3> QED  BY <1>4, <2>2, <3>1, <3>3, <3>4
  <2> QED  BY <2>1, <2>2
<1>8. ASSUME NEW q \in Player, NEW i \in 1 .. Len(boards'[q]) PROVE boards'[q][i].count <= Over(q)'
  <2>1. Over(q) \in Nat /\ Over(q)' \in Nat /\ Over(q) <= Over(q)'
    BY <1>5, Zenon DEF AgendaKept
  <2>2. boards'[q][i].count \in Nat /\ boards'[q][i].count <= Over(q)
    <3>1. CASE q # p
      <4>1. boards'[q] = boards[q]
        BY <1>4, <3>1, Zenon
      <4> QED  BY <4>1, CrewIs
    <3>2. CASE q = p
      <4>1. i \in 1 .. Len(board) /\ boards'[q][i] = board[i]
        BY <1>4, <3>2
      <4>2. CASE board[i] = emo
        BY <1>6, <3>2, <4>1, <4>2
      <4>3. CASE \E j \in 1 .. Len(boards[p]) : board[i] = boards[p][j]
        <5>1. PICK j \in 1 .. Len(boards[p]) : board[i] = boards[p][j]
          BY <4>3
        <5> QED  BY <3>2, <4>1, <5>1, CrewIs
      <4> QED  BY <1>3, <4>1, <4>2, <4>3, Zenon
    <3> QED  BY <3>1, <3>2
  <2> QED  BY <2>1, <2>2, SMT
<1> QED  BY <1>4, <1>5, <1>6, <1>7, <1>8, InvFrom

\* set_emo_ally and set_emo_rival: a new emo, under an id of its own, with the count of
\* its neighbour
LEMMA SetKeeps ==
  ASSUME MarchInv, Set
  PROVE  MarchInv'
<1> DEFINE c == Head(agenda)
           side == IF c.side = "Ally" THEN c.player ELSE Rival(c.player)
           at == IF c.side = "Ally" THEN c.index ELSE Len(boards[side])
           count == InheritedCount(c)
           new == NewEmo(nextId, c.base, c.triple, count)
           joined == InsertAt(boards[side], at + 1, new)
<1>1. /\ agenda # <<>> /\ c.call = "Set" /\ Resolvable(c)
      /\ nextId' = nextId + 1 /\ UNCHANGED <<tick, first, outcome>>
      /\ \/ Len(boards[side]) >= BoardMax /\ Push(<<>>) /\ UNCHANGED boards
         \/ /\ ~(Len(boards[side]) >= BoardMax)
            /\ Push(ToldCalls(side, at, joined, new))
            /\ boards' = [boards EXCEPT ![side] = joined]
  BY DEF Set, Step, ToldCalls
<1>2. c \in Sets /\ c.player \in Player /\ CarriesAtMost(c, Over(c.player))
  BY <1>1, HeadIs, CallIs, Zenon
<1> HIDE DEF c
<1>3. c.index \in Nat /\ c.base \in DOMAIN Bases /\ c.triple \in BOOLEAN
  BY <1>2, SMT DEF Sets
<1>4. c.count <= Over(c.player)
  BY <1>1, <1>2, Zenon DEF CarriesAtMost
<1>5. PICK p \in Player : p = side
  BY <1>2, SMT DEF Rival, Player
<1>6. p = IF c.side = "Ally" THEN c.player ELSE Rival(c.player)
  BY <1>5
<1> HIDE DEF side, count, new, joined
<1>7. PICK index : index = at
  OBVIOUS
<1>8. index = IF c.side = "Ally" THEN c.index ELSE Len(boards[p])
  BY <1>5, <1>7
<1> HIDE DEF at
<1>9. PICK emo : emo = new
  OBVIOUS
<1>10. PICK board : board = joined
  OBVIOUS
<1>11. nextId \in Nat /\ BoardMax \in Nat /\ boards[p] \in Seq(Fighter) /\ Len(boards[p]) \in Nat
  BY BasesAssumption, BoardIs DEF MarchInv, FightType, BasesAssumption
<1>12. emo \in Fighter /\ emo.id = nextId /\ emo.count <= Over(p)
  <2>1. count \in Nat /\ count <= Over(p)
    BY <1>2, <1>4, <1>6, InheritedCountType DEF count
  <2> QED  BY <1>3, <1>9, <1>11, <2>1, NewEmoType DEF new
<1>13. \/ Len(boards[p]) >= BoardMax /\ Push(<<>>) /\ UNCHANGED boards
       \/ /\ ~(Len(boards[p]) >= BoardMax)
          /\ Push(ToldCalls(p, index, board, emo))
          /\ boards' = [boards EXCEPT ![p] = board]
  BY <1>1, <1>5, <1>7, <1>9, <1>10
<1>14. CASE Len(boards[p]) >= BoardMax /\ Push(<<>>) /\ UNCHANGED boards
  BY <1>1, <1>14, FullKeeps
<1>15. CASE /\ ~(Len(boards[p]) >= BoardMax)
            /\ Push(ToldCalls(p, index, board, emo))
            /\ boards' = [boards EXCEPT ![p] = board]
  <2>1. Len(boards[p]) < BoardMax
    BY <1>11, <1>15, SMT
  <2>2. index \in Nat /\ index <= Len(boards[p])
    <3>1. CASE c.side = "Ally"
      <4>1. index = c.index /\ p = c.player
        BY <1>6, <1>8, <3>1
      <4>2. c.side = "Ally" /\ Len(boards[c.player]) < BoardMax => c.index <= Len(boards[c.player])
        BY <1>1, Zenon DEF Resolvable
      <4> QED  BY <1>3, <2>1, <3>1, <4>1, <4>2
    <3>2. CASE c.side # "Ally"
      BY <1>8, <1>11, <3>2, SMT
    <3> QED  BY <3>1, <3>2
  <2>3. board = InsertAt(boards[p], index + 1, emo)
    BY <1>5, <1>7, <1>9, <1>10 DEF joined
  <2>4. board \in Seq(Fighter)
    BY <1>11, <1>12, <2>2, <2>3, JoinedIs DEF Joined
  <2>5. ToldCalls(p, index, board, emo) \in Seq(Plain)
    BY <2>2, <2>4, ToldType
  <2>6. boards' = [boards EXCEPT ![p] = InsertAt(boards[p], index + 1, emo)]
    BY <1>15, <2>3
  <2> QED  BY <1>1, <1>12, <1>15, <2>1, <2>2, <2>5, <2>6, JoinKeeps
<1> QED  BY <1>13, <1>14, <1>15

--------------------------------------------------------------------------------

\* build_battle_emos_from_board: the emos of a board have attacked nobody, and ids of their own
LEMMA BattleEmosType ==
  ASSUME NEW pair \in Matchups, NEW k \in {1, 2}, NEW ids \in Nat
  PROVE  LET board == BattleEmos(pair[k], ids)
         IN  /\ board \in Seq(Fighter) /\ Len(board) \in Nat /\ Len(board) <= BoardMax
             /\ \A i \in 1 .. Len(board) : board[i].id = ids + i /\ board[i].count = 0
<1> DEFINE Brought == [base : DOMAIN Bases, triple : BOOLEAN, attack : 1 .. StatMax, health : 1 .. StatMax,
                       abilities : Seq(Learnable)]
           emos == pair[k]
           board == BattleEmos(emos, ids)
<1>1. emos \in Seq(Brought) /\ Len(emos) <= BoardMax
  BY MatchupsAssumption DEF MatchupsAssumption
<1> HIDE DEF emos
<1>2. Len(emos) \in Nat /\ DOMAIN emos = 1 .. Len(emos) /\ \A i \in 1 .. Len(emos) : emos[i] \in Brought
  <2> HIDE DEF Brought
  <2> QED  BY <1>1, SeqElements, Zenon
<1>3. ASSUME NEW i \in 1 .. Len(emos)
      PROVE  LET emo == BattleEmo(ids + i, 0, emos[i]) IN emo \in Fighter /\ emo.id = ids + i /\ emo.count = 0
  <2>1. PICK emo : emo = emos[i]
    OBVIOUS
  <2>2. emo \in Brought
    BY <1>2, <2>1
  <2>3. PICK id \in Nat : id = ids + i
    BY <1>2, SMT
  <2>4. BattleEmo(id, 0, emo) \in Fighter /\ BattleEmo(id, 0, emo).id = id /\ BattleEmo(id, 0, emo).count = 0
    BY <2>2, SMT DEF BattleEmo, Fighter
  <2> QED  BY <2>1, <2>3, <2>4
<1>4. /\ board = [i \in 1 .. Len(emos) |-> BattleEmo(ids + i, 0, emos[i])]
      /\ board \in [1 .. Len(emos) -> Fighter]
  BY <1>2, <1>3 DEF BattleEmos
<1>5. \A i \in 1 .. Len(emos) : board[i].id = ids + i /\ board[i].count = 0
  BY <1>3, <1>4
<1> HIDE DEF board
<1>6. board \in Seq(Fighter) /\ Len(board) = Len(emos)
  BY <1>2, <1>4, FunctionIsSeq
<1>7. /\ board \in Seq(Fighter) /\ Len(board) \in Nat /\ Len(board) <= BoardMax
      /\ \A i \in 1 .. Len(board) : board[i].id = ids + i /\ board[i].count = 0
  BY <1>1, <1>2, <1>5, <1>6
<1> QED  BY <1>7 DEF board, emos

\* march starts with the abilities that act before the first attack
LEMMA MarchInitInv ==
  ASSUME MarchInit
  PROVE  MarchInv
<1>1. PICK pair \in Matchups : \E player \in FirstPlayers(pair) :
        /\ boards = [p \in {0, 1} |-> BattleEmos(pair[p + 1], BoardMax * p)]
        /\ agenda = <<[call |-> "Pre", player |-> player], [call |-> "Pre", player |-> Rival(player)]>>
        /\ first = player
        /\ tick = 0 /\ outcome = "fighting" /\ logs = <<>> /\ nextId = 2 * BoardMax + 1
  BY DEF MarchInit
<1>2. PICK player \in FirstPlayers(pair) :
        /\ boards = [p \in {0, 1} |-> BattleEmos(pair[p + 1], BoardMax * p)]
        /\ agenda = <<[call |-> "Pre", player |-> player], [call |-> "Pre", player |-> Rival(player)]>>
        /\ first = player
        /\ tick = 0 /\ outcome = "fighting" /\ logs = <<>> /\ nextId = 2 * BoardMax + 1
  BY <1>1
<1>3. player \in Player /\ Rival(player) \in Player
  BY SMT DEF FirstPlayers, Rival, Player
<1>4. BoardMax \in Nat /\ TickMax \in Nat
  BY BasesAssumption, MatchupsAssumption DEF BasesAssumption, MatchupsAssumption
<1>5. ASSUME NEW p \in Player
      PROVE  /\ boards[p] \in Seq(Fighter) /\ Len(boards[p]) \in Nat /\ Len(boards[p]) <= BoardMax
             /\ \A i \in 1 .. Len(boards[p]) : boards[p][i].id = BoardMax * p + i /\ boards[p][i].count = 0
  <2>1. PICK k \in {1, 2} : k = p + 1
    BY SMT DEF Player
  <2>2. PICK ids \in Nat : ids = BoardMax * p
    BY <1>4, SMT DEF Player
  <2>3. boards[p] = BattleEmos(pair[k], ids)
    BY <1>2, <2>1, <2>2 DEF Player
  <2>4. LET board == BattleEmos(pair[k], ids)
        IN  /\ board \in Seq(Fighter) /\ Len(board) \in Nat /\ Len(board) <= BoardMax
            /\ \A i \in 1 .. Len(board) : board[i].id = ids + i /\ board[i].count = 0
    BY BattleEmosType
  <2> QED  BY <2>2, <2>3, <2>4
<1>6. /\ agenda \in Seq(Call) /\ Len(agenda) = 2
      /\ \A i \in 1 .. 2 : agenda[i].call = "Pre"
  <2>1. PICK a, b : a = [call |-> "Pre", player |-> player] /\ b = [call |-> "Pre", player |-> Rival(player)]
    OBVIOUS
  <2>2. a \in Pres /\ b \in Pres /\ a.call = "Pre" /\ b.call = "Pre"
    BY <1>3, <2>1, SMT DEF Pres
  <2>3. a \in Call /\ b \in Call
    BY <2>2, Zenon DEF Call
  <2>4. agenda = <<a, b>>
    BY <1>2, <2>1
  <2> QED  BY <2>2, <2>3, <2>4, SMT
<1>7. ASSUME NEW i \in 1 .. Len(agenda) PROVE ~IsBlow(agenda[i]) /\ \A n : CarriesAtMost(agenda[i], n)
  BY <1>6, SMT DEF IsBlow, CarriesAtMost
<1>8. ASSUME NEW p \in Player PROVE Over(p) = 0
  <2>1. AttacksOf(p) = 0
    BY <1>2, SMT DEF AttacksOf
  <2>2. Len(agenda) \in 1 .. Len(agenda)
    BY <1>6
  <2>3. ~BlowDue(agenda, p)
    BY <1>7, <2>2, Zenon DEF BlowDue
  <2>4. Over(p) = AttacksOf(p) - (IF BlowDue(agenda, p) THEN 1 ELSE 0)
    BY DEF Over
  <2>5. Over(p) = AttacksOf(p) - 0
    BY <2>3, <2>4
  <2> QED  BY <2>1, <2>5, SMT
<1>9. boards \in [Player -> Seq(Fighter)]
  <2>1. boards = [p \in Player |-> boards[p]]
    BY <1>2 DEF Player
  <2> QED  BY <1>5, <2>1, Zenon
<1>10. FightType
  BY <1>2, <1>3, <1>4, <1>6, <1>9, SMT DEF FightType
<1>11. IdsOnce
  <2> SUFFICES ASSUME NEW p \in Player
               PROVE  /\ Len(boards[p]) <= BoardMax
                      /\ \A i \in 1 .. Len(boards[p]) :
                           /\ boards[p][i].id < nextId
                           /\ \A j \in 1 .. Len(boards[p]) : boards[p][i].id = boards[p][j].id => i = j
    BY DEF IdsOnce
  <2>1. BoardMax * p \in Nat /\ BoardMax * p <= BoardMax
    <3>1. CASE p = 0
      BY <1>4, <3>1, SMT
    <3>2. CASE p = 1
      BY <1>4, <3>2, SMT
    <3> QED  BY <3>1, <3>2 DEF Player
  <2>2. PICK ids \in Nat : ids = BoardMax * p /\ ids <= BoardMax
    BY <2>1
  <2>3. \A i \in 1 .. Len(boards[p]) : boards[p][i].id = ids + i
    BY <1>5, <2>2
  <2>4. Len(boards[p]) \in Nat /\ Len(boards[p]) <= BoardMax
    BY <1>5
  <2>5. nextId = 2 * BoardMax + 1
    BY <1>2
  <2>6. ASSUME NEW i \in 1 .. Len(boards[p])
        PROVE  /\ boards[p][i].id < nextId
               /\ \A j \in 1 .. Len(boards[p]) : boards[p][i].id = boards[p][j].id => i = j
    <3>1. i \in Nat /\ i <= BoardMax
      BY <1>4, <2>4, SMT
    <3>2. boards[p][i].id < nextId
      BY <1>4, <2>2, <2>3, <2>5, <3>1, SMT
    <3>3. ASSUME NEW j \in 1 .. Len(boards[p]), boards[p][i].id = boards[p][j].id PROVE i = j
      <4>1. ids + i = ids + j
        BY <2>3, <3>3
      <4> QED  BY <2>2, <2>4, <4>1, SMT
    <3> QED  BY <3>2, <3>3
  <2> QED  BY <2>4, <2>6
<1>12. BlowLast
  <2>1. \A i \in 1 .. Len(agenda) - 1 : ~IsBlow(agenda[i])
    BY <1>6, <1>7, SMT
  <2> QED  BY <1>8, <2>1, SMT DEF BlowLast
<1>13. CountsOver
  <2> SUFFICES ASSUME NEW p \in Player
               PROVE  /\ \A i \in 1 .. Len(boards[p]) : boards[p][i].count <= Over(p)
                      /\ \A i \in 1 .. Len(agenda) : agenda[i].player = p => CarriesAtMost(agenda[i], Over(p))
    BY DEF CountsOver
  <2>1. \A i \in 1 .. Len(boards[p]) : boards[p][i].count <= Over(p)
    BY <1>5, <1>8
  <2> QED  BY <1>7, <2>1
<1> QED  BY <1>10, <1>11, <1>12, <1>13 DEF MarchInv

\* Every call keeps it
LEMMA MarchNextInv ==
  ASSUME MarchInv, [MarchNext]_vars
  PROVE  MarchInv'
<1>1. CASE Finish \/ TickOverflow \/ Fail
  BY <1>1, EndKeeps
<1>2. CASE Attack
  BY <1>2, AttackKeeps
<1>3. CASE Pre
  BY <1>3, PreKeeps
<1>4. CASE Counter
  BY <1>4, CounterKeeps
<1>5. CASE Survive
  BY <1>5, SurviveKeeps
<1>6. CASE RemoveShield
  BY <1>6, RemoveShieldKeeps
<1>7. CASE Wound
  BY <1>7, WoundKeeps
<1>8. CASE Retire
  BY <1>8, RetireKeeps
<1>9. CASE AlliesOfRetired
  BY <1>9, AlliesOfRetiredKeeps
<1>10. CASE RivalsOfRetired
  BY <1>10, RivalsOfRetiredKeeps
<1>11. CASE Act
  BY <1>11, ActKeeps
<1>12. CASE AllyAct
  BY <1>12, AllyActKeeps
<1>13. CASE DamageId
  BY <1>13, DamageIdKeeps
<1>14. CASE Set
  BY <1>14, SetKeeps
<1>15. CASE UNCHANGED vars
  <2>1. /\ boards' = boards /\ agenda' = agenda /\ tick' = tick
        /\ first' = first /\ outcome' = outcome /\ nextId' = nextId
    BY <1>15, Zenon DEF vars
  <2>2. FightType'
    BY <2>1, Zenon DEF MarchInv, FightType
  <2>3. IdsOnce'
    BY <2>1, Zenon DEF MarchInv, IdsOnce
  <2>4. \A p : Over(p)' = Over(p)
    BY <2>1, Zenon DEF Over, AttacksOf
  <2>5. BlowLast'
    BY <2>1, <2>4, Zenon DEF MarchInv, BlowLast
  <2>6. CountsOver'
    BY <2>1, <2>4, Zenon DEF MarchInv, CountsOver
  <2> QED  BY <2>2, <2>3, <2>5, <2>6, Zenon DEF MarchInv
<1> QED  BY <1>1, <1>2, <1>3, <1>4, <1>5, <1>6, <1>7, <1>8, <1>9, <1>10, <1>11, <1>12, <1>13, <1>14, <1>15,
             Zenon DEF MarchNext

\* The blow of an attacker is the last call of its attack, so no count of those on the
\* boards or retired is more than the attacks that are over; ids are given once
THEOREM MarchSpecInv == MarchSpec => []MarchInv
<1>1. MarchInit => MarchInv
  BY MarchInitInv
<1>2. MarchInv /\ [MarchNext]_vars => MarchInv'
  BY MarchNextInv
<1> QED  BY <1>1, <1>2, PTL DEF MarchSpec

\* Whoever is on a board has attack and health left, whatever the abilities did to it
\* (decrease_emo_stats stops at 1, damage_emo retires at 0); a board is never longer than
\* BOARD_EMO_MAX (add_emo), and BATTLE_EMO_ID_GENERATOR gives no id twice
THEOREM MarchTypeOK == MarchSpec => []TypeOK
<1>1. ASSUME MarchInv PROVE TypeOK
  <2>1. FightType /\ IdsOnce
    BY <1>1 DEF MarchInv
  <2>2. ASSUME NEW p \in {0, 1}, NEW i \in DOMAIN boards[p]
        PROVE  /\ boards[p][i].base \in DOMAIN Bases
               /\ boards[p][i].attack \in 1 .. StatMax /\ boards[p][i].health \in 1 .. StatMax
               /\ boards[p][i].abilities \in Seq(Learnable)
               /\ \A j \in DOMAIN boards[p] : boards[p][i].id = boards[p][j].id => i = j
    <3>1. DOMAIN boards[p] = 1 .. Len(boards[p]) /\ boards[p][i] \in Fighter
      BY <2>1, BoardIs DEF Player
    <3>2. \A j \in DOMAIN boards[p] : boards[p][i].id = boards[p][j].id => i = j
      BY <2>1, <3>1 DEF IdsOnce, Player
    <3> QED  BY <3>1, <3>2 DEF Fighter
  <2>3. \A p \in {0, 1} : Len(boards[p]) <= BoardMax
    BY <2>1 DEF IdsOnce, Player
  <2>4. outcome \in {"fighting", "finished", "failed"} /\ tick \in 0 .. TickMax
    BY <2>1 DEF FightType
  <2> QED  BY <2>2, <2>3, <2>4 DEF TypeOK
<1> QED  BY <1>1, MarchSpecInv, PTL

\* attack_and_survived_count, a u8, is never more than the attacks its player has had, also
\* of those set by set_emo_ally or set_emo_rival, which inherit it: it does not overflow
THEOREM MarchCountsFit == MarchSpec => []CountsFit
<1>1. ASSUME MarchInv PROVE CountsFit
  <2> SUFFICES ASSUME NEW p \in {0, 1}, NEW i \in DOMAIN boards[p]
               PROVE  boards[p][i].count <= AttacksOf(p)
    BY DEF CountsFit
  <2>1. p \in Player /\ FightType /\ BlowLast
    BY <1>1 DEF MarchInv, Player
  <2>2. i \in 1 .. Len(boards[p])
    BY <2>1, BoardIs
  <2>3. boards[p][i].count \in Nat /\ boards[p][i].count <= Over(p)
    BY <1>1, <2>1, <2>2, CrewIs
  <2>4. AttacksOf(p) \in Nat /\ Over(p) \in Nat
    BY <2>1, OverType
  <2>5. Over(p) <= AttacksOf(p)
    BY <2>4, SMT DEF Over
  <2> QED  BY <2>3, <2>4, <2>5, SMT
<1> QED  BY <1>1, MarchSpecInv, PTL

\* The client's plays only show a fight: what holds of every fight holds of the one they
\* show, however the plays interleave
THEOREM ReplayShowsAFight == ReplaySpec => MarchSpec
<1>1. ReplayInit => MarchInit
  BY DEF ReplayInit
<1>2. [ReplayNext]_<<vars, replayVars, initial>> => [MarchNext]_vars
  BY DEF ReplayNext, Play, Begin, End, Done, vars, replayVars
<1> QED  BY <1>1, <1>2, PTL DEF ReplaySpec, MarchSpec

================================================================================
