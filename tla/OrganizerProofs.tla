---------------------------- MODULE OrganizerProofs ----------------------------
(***************************************************************************)
(* Lemmas about EpRules and Organizer: what a settlement does to an EP,    *)
(* and a round to the record of a match.                                   *)
(***************************************************************************)
EXTENDS Organizer, TLAPS, FiniteSetTheorems, SequenceLemmas

\* The EPs are an interval of the naturals
LEMMA EpIs == MIN_EP \in Nat /\ MAX_EP \in Nat /\ MIN_EP <= MAX_EP
BY DEF MIN_EP, MAX_EP

\* An EP is a natural number up to MAX_EP
LEMMA EpIsNat ==
  ASSUME NEW ep \in Ep
  PROVE  ep \in Nat /\ ep <= MAX_EP
BY EpIs, SMT DEF Ep

\* A reduced EP is an EP, and never more than before (ep::reduce_ep)
LEMMA ReduceEpType ==
  ASSUME NEW ep \in Ep, NEW minus \in Nat
  PROVE  ReduceEp(ep, minus) \in Ep /\ ReduceEp(ep, minus) <= ep
BY EpIs DEF ReduceEp, Ep

\* An EP plus points saturates at MAX_EP (u16::saturating_add)
LEMMA SaturatingAddType ==
  ASSUME NEW ep \in Ep, NEW a \in Nat
  PROVE  SaturatingAdd(a, ep) \in Ep /\ SaturatingAdd(a, ep) >= ep
BY EpIs DEF SaturatingAdd, Ep

\* The gain of a first or second place is at least one point
LEMMA GainPositive ==
  ASSUME NEW plus \in Nat, plus > 0, NEW ep \in Ep
  PROVE  Gain(plus, ep) \in 1 .. plus
<1> DEFINE x == (ep - INITIAL_EP) \div 40
<1>1. ep \in Nat /\ INITIAL_EP \in Nat
  BY EpIsNat, SMT DEF INITIAL_EP
<1>2. ep > INITIAL_EP => x \in Nat
  BY <1>1, SMT
<1> HIDE DEF x
<1>3. Gain(plus, ep) = IF ep > INITIAL_EP THEN (IF x < plus THEN plus - x ELSE 1) ELSE plus
  BY Zenon DEF Gain, x
<1> QED  BY <1>2, <1>3, SMT

\* calc_new_ep never leaves the EPs, and never panics on the places of a match
THEOREM CalcNewEpType ==
  ASSUME NEW place \in 1 .. 4, NEW ep \in Ep
  PROVE  CalcNewEp(place, ep) \in Ep
<1>1. CASE place = 1
  <2>1. CalcNewEp(place, ep) = SaturatingAdd(Gain(70, ep), ep)
    BY <1>1 DEF CalcNewEp
  <2>2. Gain(70, ep) \in Nat
    BY SMTT(30), GainPositive
  <2> QED  BY <2>1, <2>2, SaturatingAddType, Zenon
<1>2. CASE place = 2
  <2>1. CalcNewEp(place, ep) = SaturatingAdd(Gain(50, ep), ep)
    BY <1>2 DEF CalcNewEp
  <2>2. Gain(50, ep) \in Nat
    BY SMTT(30), GainPositive
  <2> QED  BY <2>1, <2>2, SaturatingAddType, Zenon
<1>3. CASE place \in {3, 4}
  <2>1. ReduceEp(ep, 30) \in Ep /\ ReduceEp(ep, 50) \in Ep
    BY ReduceEpType
  <2> QED  BY <1>3, <2>1 DEF CalcNewEp
<1> QED  BY <1>1, <1>2, <1>3, SMT

--------------------------------------------------------------------------------

\* Every ghost starts with some health (build_initial_ghost_states)
LEMMA InitialGhostHealthType ==
  ASSUME NEW ep \in Ep
  PROVE  InitialGhostHealth(ep) \in 14 .. 30
<1>1. GetEpBand(ep) \in Nat
  BY EpIsNat, SMT DEF GetEpBand, EP_BANDWIDTH
<1> QED  BY <1>1, SMT DEF InitialGhostHealth

\* A match starts playable (start_mtc)
LEMMA NewMatchPlayable ==
  ASSUME NEW bases, NEW ep \in Ep
  PROVE  NewMatch(ep) \in MatchRecord(bases) /\ Playable(NewMatch(ep))
<1> DEFINE m == NewMatch(ep)
<1>1. InitialGhostHealth(ep) \in 14 .. 30
  BY InitialGhostHealthType
<1>2. m.ghost_states = [i \in GhostIndex |-> Active(InitialGhostHealth(ep))]
  BY DEF NewMatch
<1>3. /\ m.ghost_states \in [GhostIndex -> GhostState]
      /\ \A i \in GhostIndex : IsActive(m.ghost_states[i]) /\ m.ghost_states[i].health \in 1 .. 30
  BY <1>1, <1>2, SMT DEF Active, IsActive, GhostState
<1>4. /\ m.health = 30 /\ m.history = <<>> /\ m.upgrade_coin = 5 /\ m.battle_ghost_index = 0
  BY SMT DEF NewMatch, PLAYER_INITIAL_HEALTH, GetUpgradeCoin
<1>5. m \in MatchRecord(bases)
  BY <1>3, <1>4, SMT DEF NewMatch, MatchRecord, Recording, PLAYER_INITIAL_HEALTH, GhostIndex, GetUpgradeCoin
<1>6. Playable(m)
  <2> HIDE DEF m
  <2> QED  BY <1>3, <1>4, SMT DEF Playable, Live, GhostIndex, PLAYER_INITIAL_HEALTH
<1> QED  BY <1>5, <1>6

\* A march leaves grades on at most one board (get_remaining_grades_if_finished)
LEMMA MarchResultsType ==
  ASSUME NEW board0, NEW board1, NEW r \in MarchResults(board0, board1)
  PROVE  r[1] \in 0 .. 42 /\ r[2] \in 0 .. 42 /\ (r[1] = 0 \/ r[2] = 0)
BY OrganizerAssumption, SMT DEF MarchResults, OrganizerAssumption

\* Damage never raises a health, and one grade left is enough to do some
\* (damage_health)
LEMMA DamageHealthType ==
  ASSUME NEW board_grade \in Nat, NEW grade \in Nat, NEW health \in Nat
  PROVE  /\ DamageHealth(board_grade, grade, health) \in 0 .. health
         /\ board_grade = 0 => DamageHealth(board_grade, grade, health) = health
BY SMT DEF DamageHealth

\* The state of a ghost by the end of a turn
GhostDone(state, turn) ==
  /\ state \in GhostState
  /\ IF IsActive(state) THEN state.health \in 1 .. 30 ELSE state.final_turn \in 1 .. turn

\* A ghost retires with the turn of the round it falls in, and stays retired
\* (damage_ghost_health)
LEMMA DamageGhostHealthType ==
  ASSUME NEW board_grade \in Nat, NEW grade \in Nat, NEW turn \in Nat \ {0}, NEW state,
         GhostDone(state, turn)
  PROVE  /\ GhostDone(DamageGhostHealth(board_grade, grade, state, turn), turn)
         /\ ~IsActive(state) => DamageGhostHealth(board_grade, grade, state, turn) = state
<1>1. CASE ~IsActive(state)
  BY <1>1 DEF DamageGhostHealth
<1>2. CASE IsActive(state)
  <2> DEFINE health == DamageHealth(board_grade, grade, state.health)
  <2>1. state.health \in 1 .. 30
    BY <1>2 DEF GhostDone
  <2>2. health \in 0 .. 30
    BY <2>1, SMT DEF DamageHealth
  <2>3. DamageGhostHealth(board_grade, grade, state, turn)
          = IF health = 0 THEN Retired(turn) ELSE Active(health)
    BY <1>2 DEF DamageGhostHealth
  <2>4. GhostDone(Retired(turn), turn)
    BY SMT DEF GhostDone, Retired, GhostState, IsActive
  <2>5. health # 0 => GhostDone(Active(health), turn)
    <3> HIDE DEF health
    <3> QED  BY <2>2, SMT DEF GhostDone, Active, GhostState, IsActive
  <2> QED  BY <1>2, <2>3, <2>4, <2>5
<1> QED  BY <1>1, <1>2

\* What a ghost brings to a turn is one of its recorded boards, or the empty one
\* (get_grade_and_ghost_board never indexes out of bounds)
LEMMA GradeAndGhostBoardType ==
  ASSUME NEW bases, NEW ghost \in Recording(bases), NEW turn \in Nat \ {0}, NEW state,
         GhostDone(state, turn)
  PROVE  GradeAndGhostBoard(ghost, state, turn) \in [grade : 1 .. 6, board : SUBSET bases]
<1>1. CASE Len(ghost) = 0
  <2>1. GradeAndGhostBoard(ghost, state, turn) = [grade |-> 1, board |-> {}]
    BY <1>1 DEF GradeAndGhostBoard
  <2> QED  BY <2>1, SMT
<1>2. CASE Len(ghost) # 0
  <2> DEFINE effective_turn == IF IsActive(state) THEN turn ELSE Min({turn, state.final_turn})
  <2>1. effective_turn \in Nat \ {0}
    <3>1. CASE IsActive(state)
      BY <3>1
    <3>2. CASE ~IsActive(state)
      <4>1. state.final_turn \in 1 .. turn
        BY <3>2 DEF GhostDone
      <4>2. Min({turn, state.final_turn}) = state.final_turn
        BY <4>1, MinPair, SMT
      <4> QED  BY <3>2, <4>1, <4>2, SMT
    <3> QED  BY <3>1, <3>2
  <2>2. GradeAndGhostBoard(ghost, state, turn) = ghost[Min({effective_turn, Len(ghost)})]
    BY <1>2, Zenon DEF GradeAndGhostBoard
  <2>3. Len(ghost) \in Nat \ {0}
    BY <1>2, SMT DEF Recording
  <2> HIDE DEF effective_turn
  <2>4. Min({effective_turn, Len(ghost)}) \in 1 .. Len(ghost)
    BY <2>1, <2>3, MinPair, SMT
  <2>5. ghost[Min({effective_turn, Len(ghost)})] \in [grade : 1 .. 6, board : SUBSET bases]
    BY <2>4, ElementOfSeq, Zenon DEF Recording
  <2> QED  BY <2>2, <2>5
<1> QED  BY <1>1, <1>2

\* The player always fights a live ghost (battle_all)
LEMMA OpponentIsLive ==
  ASSUME NEW states, NEW index \in Live(states)
  PROVE  Opponent(states, index) \in Live(states)
<1>1. \E i \in GhostIndex : i \in Live(states)
  BY DEF Live
<1>2. (CHOOSE i \in GhostIndex : i \in Live(states)) \in Live(states)
  BY <1>1, Zenon
<1> QED  BY <1>2, Zenon DEF Opponent

\* The other two ghosts are the other two (battle_pvg_and_gvg)
LEMMA OthersAreOther ==
  ASSUME NEW opponent \in GhostIndex
  PROVE  /\ FirstOther(opponent) \in GhostIndex \ {opponent}
         /\ SecondOther(opponent) \in GhostIndex \ {opponent, FirstOther(opponent)}
BY SMT DEF FirstOther, SecondOther, GhostIndex

\* A round leaves every ghost active with some health, or retired in a turn up to this
\* one; one that was retired before is left alone (battle_pvg, battle_gvg)
LEMMA StatesAfterRoundType ==
  ASSUME NEW states \in [GhostIndex -> GhostState], NEW opponent \in GhostIndex,
         NEW pvg, pvg[1] \in Nat, NEW gvg, gvg[1] \in Nat, gvg[2] \in Nat,
         NEW grade \in Nat, NEW boards, \A i \in GhostIndex : boards[i].grade \in Nat,
         NEW turn \in Nat \ {0}, \A i \in GhostIndex : GhostDone(states[i], turn),
         NEW after, after = StatesAfterRound(states, opponent, pvg, gvg, grade, boards, turn)
  PROVE  /\ after \in [GhostIndex -> GhostState]
         /\ \A i \in GhostIndex : GhostDone(after[i], turn)
         /\ \A i \in GhostIndex : ~IsActive(states[i]) => after[i] = states[i]
<1> DEFINE Fine(ss) == /\ ss \in [GhostIndex -> GhostState]
                       /\ \A i \in GhostIndex : GhostDone(ss[i], turn)
                       /\ \A i \in GhostIndex : ~IsActive(states[i]) => ss[i] = states[i]
<1>1. ASSUME NEW ss, Fine(ss), NEW i \in GhostIndex, NEW g \in Nat, NEW h \in Nat
      PROVE  Fine([ss EXCEPT ![i] = DamageGhostHealth(g, h, @, turn)])
  <2> DEFINE s == DamageGhostHealth(g, h, ss[i], turn)
  <2>1. GhostDone(s, turn) /\ (~IsActive(ss[i]) => s = ss[i])
    BY <1>1, DamageGhostHealthType
  <2>2. s \in GhostState
    BY <2>1 DEF GhostDone
  <2> HIDE DEF s
  <2>3. Fine([ss EXCEPT ![i] = s])
    BY <1>1, <2>1, <2>2, Zenon
  <2> QED  BY <2>3 DEF s
<1>2. Fine(states)
  OBVIOUS
<1> DEFINE pvgStates == StatesAfterPvg(states, opponent, pvg, grade, turn)
<1>3. Fine(pvgStates)
  <2> HIDE DEF Fine
  <2> QED  BY <1>1, <1>2, Zenon DEF StatesAfterPvg
<1> DEFINE a  == FirstOther(opponent)
           b  == SecondOther(opponent)
           sa == DamageGhostHealth(gvg[2], boards[b].grade, pvgStates[a], turn)
           sb == DamageGhostHealth(gvg[1], boards[a].grade, pvgStates[b], turn)
<1>4. a \in GhostIndex /\ b \in GhostIndex /\ a # b
  BY OthersAreOther, Zenon
<1>5. /\ GhostDone(sa, turn) /\ (~IsActive(pvgStates[a]) => sa = pvgStates[a])
      /\ GhostDone(sb, turn) /\ (~IsActive(pvgStates[b]) => sb = pvgStates[b])
  <2> HIDE DEF pvgStates, a, b
  <2> QED  BY <1>3, <1>4, DamageGhostHealthType
<1>6. StatesAfterGvg(pvgStates, opponent, gvg, boards, turn)
        = [pvgStates EXCEPT ![a] = sa, ![b] = sb]
  <2> HIDE DEF pvgStates
  <2> QED  BY Zenon DEF StatesAfterGvg
<1>7. Fine([pvgStates EXCEPT ![a] = sa, ![b] = sb])
  <2>1. sa \in GhostState /\ sb \in GhostState
    BY <1>5 DEF GhostDone
  <2> HIDE DEF pvgStates, a, b, sa, sb
  <2> QED  BY <1>3, <1>4, <1>5, <2>1
<1>8. after = pvgStates \/ after = StatesAfterGvg(pvgStates, opponent, gvg, boards, turn)
  BY Zenon DEF StatesAfterRound
<1>9. Fine(after)
  <2> HIDE DEF Fine, pvgStates
  <2> QED  BY <1>3, <1>6, <1>7, <1>8, Zenon
<1> QED  BY <1>9

\* A place is one of four; a match without one goes on with a live player and at least
\* one live ghost, and only the survivor of all three is first (calc_final_place)
LEMMA CalcFinalPlaceType ==
  ASSUME NEW health \in Nat, NEW pre_health, NEW states, NEW pre_states,
         NEW place, place = CalcFinalPlace(health, pre_health, states, pre_states)
  PROVE  /\ place \in NoPlace .. 4
         /\ place = NoPlace => health > 0 /\ Live(states) # {}
<1> DEFINE ahead == {i \in GhostIndex :
                       \/ IsActive(states[i])
                       \/ IsActive(pre_states[i]) /\ pre_states[i].health > pre_health}
<1>1. Cardinality(ahead) \in 0 .. 3
  <2>1. IsFiniteSet(GhostIndex) /\ Cardinality(GhostIndex) = 3
    <3>1. IsFiniteSet(0 .. 2) /\ Cardinality(0 .. 2) = IF 0 > 2 THEN 0 ELSE 2 - 0 + 1
      BY 0 \in Int, 2 \in Int, FS_Interval, Zenon
    <3> QED  BY <3>1, SMT DEF GhostIndex
  <2>2. ahead \in SUBSET GhostIndex
    OBVIOUS
  <2>3. IsFiniteSet(ahead) /\ Cardinality(ahead) <= 3
    <3> HIDE DEF ahead
    <3> QED  BY <2>1, <2>2, FS_Subset, Zenon
  <2>4. Cardinality(ahead) \in Nat
    <3> HIDE DEF ahead
    <3> QED  BY <2>3, FS_CardinalityType, Zenon
  <2> QED  BY <2>3, <2>4, SMT
<1>2. CASE Live(states) = {}
  <2>1. place = 1
    BY <1>2 DEF CalcFinalPlace
  <2> QED  BY <2>1, SMT DEF NoPlace
<1>3. CASE Live(states) # {} /\ health = 0
  <2>1. place = 1 + Cardinality(ahead)
    BY <1>3 DEF CalcFinalPlace
  <2> HIDE DEF ahead
  <2> QED  BY <1>1, <2>1, SMT DEF NoPlace
<1>4. CASE Live(states) # {} /\ health # 0
  <2>1. place = NoPlace
    BY <1>4 DEF CalcFinalPlace
  <2> QED  BY <1>4, <2>1, SMT DEF NoPlace
<1> QED  BY <1>2, <1>3, <1>4

\* A shop phase keeps the grades between 1 and 6 and leaves the player a board
LEMMA ShopResultsType ==
  ASSUME NEW bases, NEW m \in MatchRecord(bases), NEW boards \in SUBSET SUBSET bases,
         NEW shop \in ShopResults(m, boards)
  PROVE  shop.grade \in 1 .. 6 /\ shop.upgrade_coin \in 0 .. 9 /\ shop.board \in SUBSET bases
<1>1. PreviousGrade(m) \in 1 .. 6
  <2>1. m.history \in Seq([grade : 1 .. 6, board : SUBSET bases])
    BY DEF MatchRecord, Recording
  <2>2. CASE m.history = <<>>
    BY <2>2, SMT DEF PreviousGrade
  <2>3. CASE m.history # <<>>
    <3>1. Len(m.history) \in 1 .. Len(m.history)
      BY <2>1, <2>3, EmptySeq, SMT
    <3> DEFINE Entry == [grade : 1 .. 6, board : SUBSET bases]
    <3>2. m.history[Len(m.history)] \in Entry
      <4>1. m.history \in Seq(Entry)
        BY <2>1
      <4> HIDE DEF Entry
      <4> QED  BY <3>1, <4>1, ElementOfSeq, Zenon
    <3> QED  BY <2>3, <3>2 DEF PreviousGrade
  <2> QED  BY <2>2, <2>3
<1>2. PICK grade \in PreviousGrade(m) .. LastGrade, board \in boards :
        shop = [grade        |-> grade,
                upgrade_coin |-> IF grade = PreviousGrade(m) THEN m.upgrade_coin
                                 ELSE GetUpgradeCoin[grade],
                board        |-> board]
  BY SMT DEF ShopResults
<1>3. grade \in 1 .. 6
  BY <1>1, <1>2, OrganizerAssumption, SMT DEF OrganizerAssumption
<1>4. GetUpgradeCoin[grade] \in 0 .. 9
  BY <1>3, SMT DEF GetUpgradeCoin
<1>5. m.upgrade_coin \in 0 .. 9
  BY DEF MatchRecord
<1> QED  BY <1>2, <1>3, <1>4, <1>5

\* The rules of a match, from one turn to the next: a played round has a place, or it
\* has none and every next turn can be played (battle_all, update_player_mtc_mutable_
\* after_battle)
THEOREM RoundKeepsPlayable ==
  ASSUME NEW bases, NEW m \in MatchRecord(bases), Playable(m),
         NEW boards \in SUBSET SUBSET bases, NEW shop \in ShopResults(m, boards),
         NEW ghosts \in [GhostIndex -> Recording(bases)],
         NEW round \in Rounds(m, shop, ghosts)
  PROVE  /\ round.place \in NoPlace .. 4
         /\ round.match.history \in Recording(bases)
         /\ round.match.history # <<>>
         /\ round.place = NoPlace =>
              \A next \in NextTurns(round.match) :
                /\ next \in MatchRecord(bases) /\ Playable(next)
                /\ Len(next.history) = Len(m.history) + 1
<1> DEFINE turn     == Turn(m)
           fielded  == GhostBoards(ghosts, m.ghost_states, turn)
           opponent == Opponent(m.ghost_states, m.battle_ghost_index)
<1>1. /\ m.health \in 0 .. 30 /\ m.history \in Recording(bases) /\ m.upgrade_coin \in 0 .. 9
      /\ m.ghost_states \in [GhostIndex -> GhostState]
  BY DEF MatchRecord, PLAYER_INITIAL_HEALTH
<1>2. /\ m.health \in 1 .. 30 /\ m.battle_ghost_index \in Live(m.ghost_states)
      /\ \A i \in GhostIndex :
           IF IsActive(m.ghost_states[i]) THEN m.ghost_states[i].health \in 1 .. 30
           ELSE m.ghost_states[i].final_turn \in DOMAIN m.history
  BY Zenon DEF Playable, PLAYER_INITIAL_HEALTH
<1>3. Len(m.history) \in Nat /\ DOMAIN m.history = 1 .. Len(m.history) /\ turn = Len(m.history) + 1
  BY <1>1, LenProperties, Zenon DEF Turn, Recording
<1>4. \A i \in GhostIndex : GhostDone(m.ghost_states[i], turn)
  <2> HIDE DEF turn
  <2> QED  BY <1>1, <1>2, <1>3, SMT DEF GhostDone
<1>5. turn \in Nat \ {0}
  <2> HIDE DEF turn
  <2> QED  BY <1>3, SMT
<1>6. \A i \in GhostIndex : fielded[i] \in [grade : 1 .. 6, board : SUBSET bases]
  <2> HIDE DEF turn
  <2>1. ASSUME NEW i \in GhostIndex PROVE fielded[i] \in [grade : 1 .. 6, board : SUBSET bases]
    <3>1. fielded[i] = GradeAndGhostBoard(ghosts[i], m.ghost_states[i], turn)
      BY DEF GhostBoards
    <3>2. ghosts[i] \in Recording(bases)
      OBVIOUS
    <3> HIDE DEF fielded
    <3> QED  BY <1>4, <1>5, <3>1, <3>2, GradeAndGhostBoardType
  <2> QED  BY <2>1, Zenon
<1>7. opponent \in GhostIndex
  <2>1. opponent \in Live(m.ghost_states)
    BY <1>2, OpponentIsLive, Zenon
  <2> QED  BY <2>1 DEF Live
<1>8. /\ shop.grade \in 1 .. 6 /\ shop.upgrade_coin \in 0 .. 9 /\ shop.board \in SUBSET bases
  BY ShopResultsType, Zenon
<1>9. PICK pvg \in MarchResults(shop.board, fielded[opponent].board),
           gvg \in MarchResults(fielded[FirstOther(opponent)].board, fielded[SecondOther(opponent)].board) :
        round = Round(m, shop, ghosts, pvg, gvg)
  BY SMT DEF Rounds
<1>10. /\ pvg[1] \in Nat /\ pvg[2] \in 0 .. 42
       /\ gvg[1] \in Nat /\ gvg[2] \in Nat
  <2>1. /\ pvg[1] \in 0 .. 42 /\ pvg[2] \in 0 .. 42
        /\ gvg[1] \in 0 .. 42 /\ gvg[2] \in 0 .. 42
    BY MarchResultsType, Zenon
  <2> QED  BY <2>1, SMT
<1> DEFINE entry  == [grade |-> shop.grade, board |-> shop.board]
           health == HealthAfterRound(m.health, opponent, pvg, fielded)
           states == StatesAfterRound(m.ghost_states, opponent, pvg, gvg, shop.grade, fielded, turn)
<1>11. /\ round.match = [m EXCEPT !.health = health, !.history = Append(@, entry),
                                  !.upgrade_coin = shop.upgrade_coin, !.ghost_states = states]
       /\ round.place = CalcFinalPlace(health, m.health, states, m.ghost_states)
  BY <1>9, Zenon DEF Round
<1>12. health \in 0 .. 30
  <2>1. fielded[opponent].grade \in Nat
    <3> HIDE DEF fielded, opponent
    <3> QED  BY <1>6, <1>7, SMT
  <2>2. health = DamageHealth(pvg[2], fielded[opponent].grade, m.health)
    BY DEF HealthAfterRound
  <2> DEFINE grade == fielded[opponent].grade
  <2>3. DamageHealth(pvg[2], grade, m.health) \in 0 .. m.health
    <3>1. pvg[2] \in Nat /\ m.health \in Nat /\ grade \in Nat
      BY <1>2, <1>10, <2>1, SMT
    <3> HIDE DEF grade
    <3> QED  BY <3>1, DamageHealthType
  <2> HIDE DEF fielded, opponent, health, grade
  <2> QED  BY <1>2, <2>2, <2>3, SMT DEF grade
<1>13. /\ states \in [GhostIndex -> GhostState]
       /\ \A i \in GhostIndex : GhostDone(states[i], turn)
  <2>1. \A i \in GhostIndex : fielded[i].grade \in Nat
    <3> HIDE DEF fielded
    <3> QED  BY <1>6, SMT
  <2>2. shop.grade \in Nat
    BY <1>8, SMT
  <2> HIDE DEF fielded, opponent, turn
  <2> QED  BY <1>1, <1>4, <1>5, <1>7, <1>10, <2>1, <2>2, StatesAfterRoundType
<1> HIDE DEF health, states, turn, fielded, opponent
<1>14. /\ round.place \in NoPlace .. 4
       /\ round.place = NoPlace => health > 0 /\ Live(states) # {}
  <2>1. health \in Nat
    BY <1>12, SMT
  <2> QED  BY <1>11, <2>1, CalcFinalPlaceType, Zenon
<1>15. /\ Append(m.history, entry) \in Recording(bases)
       /\ Len(Append(m.history, entry)) = turn
       /\ DOMAIN Append(m.history, entry) = 1 .. turn
  <2> DEFINE Entry == [grade : 1 .. 6, board : SUBSET bases]
  <2>1. entry \in Entry
    BY <1>8, SMT
  <2>2. m.history \in Seq(Entry)
    BY <1>1 DEF Recording
  <2> HIDE DEF Entry, entry
  <2>3. Append(m.history, entry) \in Seq(Entry) /\ Len(Append(m.history, entry)) = Len(m.history) + 1
    BY <2>1, <2>2, SMT
  <2>4. DOMAIN Append(m.history, entry) = 1 .. Len(Append(m.history, entry))
    BY <2>3, LenProperties, Zenon
  <2> QED  BY <1>3, <2>3, <2>4, SMT DEF Recording, Entry
<1>16. round.match \in MatchRecord(bases)
  <2>1. shop.upgrade_coin \in 0 .. 9
    BY <1>8
  <2> HIDE DEF entry
  <2> QED  BY <1>11, <1>12, <1>13, <1>15, <2>1, Zenon DEF MatchRecord, PLAYER_INITIAL_HEALTH
<1>17. /\ round.match.health = health /\ round.match.history = Append(m.history, entry)
       /\ round.match.upgrade_coin = shop.upgrade_coin /\ round.match.ghost_states = states
       /\ round.match.battle_ghost_index = m.battle_ghost_index
  <2> HIDE DEF entry
  <2> QED  BY <1>11, SMT DEF MatchRecord
<1>18. ASSUME round.place = NoPlace, NEW next \in NextTurns(round.match)
       PROVE  /\ next \in MatchRecord(bases) /\ Playable(next)
              /\ Len(next.history) = Len(m.history) + 1
  <2>1. PICK index \in SelectBattleGhostIndex(round.match.ghost_states, round.match.battle_ghost_index) :
          next = [round.match EXCEPT !.upgrade_coin = DecreaseUpgradeCoin(@),
                                     !.battle_ghost_index = index]
    BY Zenon DEF NextTurns
  <2>2. index \in Live(states) /\ index \in GhostIndex
    BY <1>17, Zenon DEF SelectBattleGhostIndex, Live
  <2>3. DecreaseUpgradeCoin(round.match.upgrade_coin) \in 0 .. 9
    BY <1>8, <1>17, SMT DEF DecreaseUpgradeCoin
  <2> HIDE DEF entry
  <2>4. next \in MatchRecord(bases)
    BY <1>16, <2>1, <2>2, <2>3, Zenon DEF MatchRecord
  <2>5. /\ next.health = health /\ next.history = Append(m.history, entry)
        /\ next.ghost_states = states /\ next.battle_ghost_index = index
        /\ next.upgrade_coin \in 0 .. 9
    BY <1>16, <1>17, <2>1, <2>3, SMT DEF MatchRecord
  <2>6. health \in 1 .. 30
    BY <1>12, <1>14, <1>18, SMT
  <2>7. \A i \in GhostIndex :
          IF IsActive(states[i]) THEN states[i].health \in 1 .. 30
          ELSE states[i].final_turn \in DOMAIN Append(m.history, entry)
    BY <1>13, <1>15, Zenon DEF GhostDone
  <2>8. Playable(next)
    BY <2>2, <2>5, <2>6, <2>7, Zenon DEF Playable, PLAYER_INITIAL_HEALTH
  <2>9. Len(next.history) = Len(m.history) + 1
    BY <1>3, <1>15, <2>5, Zenon
  <2> QED  BY <2>4, <2>8, <2>9
<1>19. round.match.history # <<>>
  <2> HIDE DEF entry
  <2>1. Len(<<>>) = 0
    OBVIOUS
  <2>2. Len(round.match.history) # 0
    BY <1>5, <1>15, <1>17, SMT
  <2> QED  BY <2>1, <2>2, Zenon
<1> QED
  <2> HIDE DEF entry
  <2>1. round.place \in NoPlace .. 4
    BY <1>14
  <2>2. round.match.history \in Recording(bases)
    BY <1>15, <1>17
  <2> QED  BY <1>18, <1>19, <2>1, <2>2, Zenon

================================================================================
