------------------------------ MODULE MatchProofs ------------------------------
(***************************************************************************)
(* Theorems about Match: a match in progress can always be played on, its  *)
(* retired ghosts stay what they were, the player does not meet the same   *)
(* one twice in a row, and the place it ends in is deserved, whatever the  *)
(* ghosts, the boards and the marches.                                     *)
(***************************************************************************)
EXTENDS Match, OrganizerProofs

\* What a fight may do to a ghost (damage_ghost_health)
LEMMA DamagedGhost ==
  ASSUME NEW board_grade, NEW grade, NEW state, NEW turn,
         NEW after, after = DamageGhostHealth(board_grade, grade, state, turn)
  PROVE  /\ ~IsActive(state) => after = state
         /\ IsActive(state) => IsActive(after) \/ after = Retired(turn)
         /\ IsActive(state) /\ board_grade = 0 /\ state.health # 0 => IsActive(after)
<1>1. \A h : IsActive(Active(h))
  BY SMT DEF IsActive, Active
<1>2. CASE ~IsActive(state)
  BY <1>2 DEF DamageGhostHealth
<1>3. CASE IsActive(state)
  <2> DEFINE health == DamageHealth(board_grade, grade, state.health)
  <2>1. DamageGhostHealth(board_grade, grade, state, turn)
          = IF health = 0 THEN Retired(turn) ELSE Active(health)
    BY <1>3, Zenon DEF DamageGhostHealth
  <2>2. board_grade = 0 => health = state.health
    BY Zenon DEF DamageHealth
  <2> HIDE DEF health
  <2> QED  BY <1>1, <1>3, <2>1, <2>2, Zenon
<1> QED  BY <1>2, <1>3

\* Nobody is active and retired
LEMMA RetiredIsNotActive ==
  ASSUME NEW turn
  PROVE  ~IsActive(Retired(turn)) /\ Retired(turn).final_turn = turn
BY SMT DEF IsActive, Retired

\* Ghosts only ever fall, and in the turn they fall in
Falls(before, after, turn) ==
  \A i \in GhostIndex :
    /\ ~IsActive(before[i]) => after[i] = before[i]
    /\ IsActive(before[i]) => IsActive(after[i]) \/ after[i] = Retired(turn)

\* ... in a round (battle_pvg, battle_gvg), in which the ghost whose board lost nothing
\* to the player stays alive
LEMMA RoundFalls ==
  ASSUME NEW states \in [GhostIndex -> GhostState], NEW opponent \in GhostIndex,
         NEW pvg, NEW gvg, NEW grade, NEW boards, NEW turn,
         NEW after, after = StatesAfterRound(states, opponent, pvg, gvg, grade, boards, turn)
  PROVE  /\ Falls(states, after, turn)
         /\ IsActive(states[opponent]) /\ states[opponent].health # 0 /\ pvg[1] = 0 => IsActive(after[opponent])
<1> DEFINE Fun(ss) == DOMAIN ss = GhostIndex
           Fate(state, d) == /\ ~IsActive(state) => d = state
                             /\ IsActive(state) => IsActive(d) \/ d = Retired(turn)
           With(ss, i, d) == [ss EXCEPT ![i] = d]
           a  == FirstOther(opponent)
           b  == SecondOther(opponent)
           pvgStates == StatesAfterPvg(states, opponent, pvg, grade, turn)
           gvgStates == StatesAfterGvg(pvgStates, opponent, gvg, boards, turn)
           so == DamageGhostHealth(pvg[1], grade, states[opponent], turn)
           sa == DamageGhostHealth(gvg[2], boards[b].grade, pvgStates[a], turn)
           sb == DamageGhostHealth(gvg[1], boards[a].grade, pvgStates[b], turn)
<1>1. ASSUME NEW ss, Fun(ss), Falls(states, ss, turn), NEW i \in GhostIndex, NEW d, Fate(ss[i], d)
      PROVE  /\ Fun(With(ss, i, d)) /\ Falls(states, With(ss, i, d), turn)
             /\ \A j \in GhostIndex \ {i} : With(ss, i, d)[j] = ss[j]
  <2> DEFINE next == With(ss, i, d)
  <2>1. DOMAIN next = GhostIndex /\ next[i] = d /\ \A j \in GhostIndex : j # i => next[j] = ss[j]
    BY <1>1, Zenon
  <2> HIDE DEF next
  <2>2. Falls(states, next, turn)
    BY <1>1, <2>1, RetiredIsNotActive, Zenon DEF Falls
  <2> QED  BY <2>1, <2>2, Zenon DEF next
<1>2. Fun(states) /\ Falls(states, states, turn)
  BY Zenon DEF Falls
<1>3. pvgStates = With(states, opponent, so)
  BY Zenon DEF StatesAfterPvg
<1>4. Fate(states[opponent], so)
  <2> HIDE DEF so
  <2> QED  BY DamagedGhost DEF so
<1>5. Fun(pvgStates) /\ Falls(states, pvgStates, turn)
  <2> HIDE DEF Fun, Fate, With, so, pvgStates
  <2> QED  BY <1>1, <1>2, <1>3, <1>4, Zenon
<1>6. a \in GhostIndex /\ b \in GhostIndex /\ a # b /\ a # opponent /\ b # opponent
  BY OthersAreOther, Zenon
<1>7. gvgStates = With(With(pvgStates, a, sa), b, sb)
  <2> HIDE DEF pvgStates
  <2> QED  BY Zenon DEF StatesAfterGvg
<1>8. Fate(pvgStates[a], sa) /\ Fate(pvgStates[b], sb)
  <2> HIDE DEF pvgStates, a, b, sa, sb
  <2> QED  BY DamagedGhost DEF sa, sb
<1>9. Fun(gvgStates) /\ Falls(states, gvgStates, turn) /\ gvgStates[opponent] = pvgStates[opponent]
  <2> DEFINE half == With(pvgStates, a, sa)
  <2> HIDE DEF Fun, Fate, With, pvgStates, gvgStates, a, b, sa, sb
  <2>1. Fun(half) /\ Falls(states, half, turn) /\ \A j \in GhostIndex \ {a} : half[j] = pvgStates[j]
    BY <1>1, <1>5, <1>6, <1>8, Zenon
  <2>2. Fate(half[b], sb)
    BY <1>6, <1>8, <2>1, Zenon
  <2> HIDE DEF half
  <2>3. /\ gvgStates = With(half, b, sb)
        /\ Fun(gvgStates) /\ Falls(states, gvgStates, turn)
        /\ \A j \in GhostIndex \ {b} : gvgStates[j] = half[j]
    <3>1. gvgStates = With(half, b, sb)
      BY <1>7, Zenon DEF half
    <3> QED  BY <1>1, <1>6, <2>1, <2>2, <3>1, Zenon
  <2> QED  BY <1>6, <2>1, <2>3, Zenon
<1>10. after = pvgStates \/ after = gvgStates
  BY Zenon DEF StatesAfterRound
<1>11. IsActive(states[opponent]) /\ states[opponent].health # 0 /\ pvg[1] = 0 => IsActive(pvgStates[opponent])
  <2>1. pvgStates[opponent] = so
    <3> HIDE DEF pvgStates, so
    <3> QED  BY <1>2, <1>3, Zenon
  <2> HIDE DEF pvgStates, so
  <2>2. IsActive(states[opponent]) /\ pvg[1] = 0 /\ states[opponent].health # 0 => IsActive(so)
    BY DamagedGhost DEF so
  <2> QED  BY <2>1, <2>2, Zenon
<1> HIDE DEF Fun, pvgStates, gvgStates
<1> QED  BY <1>5, <1>9, <1>10, <1>11, Zenon

\* There are three ghosts
LEMMA GhostsFinite ==
  ASSUME NEW S \in SUBSET GhostIndex
  PROVE  IsFiniteSet(S) /\ Cardinality(S) \in 0 .. 3
<1>1. IsFiniteSet(GhostIndex) /\ Cardinality(GhostIndex) = 3
  <2>1. IsFiniteSet(0 .. 2) /\ Cardinality(0 .. 2) = IF 0 > 2 THEN 0 ELSE 2 - 0 + 1
    BY 0 \in Int, 2 \in Int, FS_Interval, Zenon
  <2> QED  BY <2>1, SMT DEF GhostIndex
<1>2. IsFiniteSet(S) /\ Cardinality(S) <= 3
  BY <1>1, FS_Subset, Zenon
<1>3. Cardinality(S) \in Nat
  BY <1>2, FS_CardinalityType, Zenon
<1> QED  BY <1>2, <1>3, SMT

\* A player who falls, falls to a live ghost and is behind everyone still standing and
\* ahead of everyone who fell before (calc_final_place)
LEMMA PlaceOfRound ==
  ASSUME NEW before, NEW after, NEW turn, Falls(before, after, turn),
         NEW health \in Nat, NEW pre_health, health = 0 => Live(after) # {},
         NEW final, final = CalcFinalPlace(health, pre_health, after, before), final # NoPlace
  PROVE  /\ final = 1 <=> health > 0
         /\ final = 1 <=> Live(after) = {}
         /\ final > Cardinality(Live(after))
         /\ \A F \in SUBSET GhostIndex :
              (\A i \in F : ~IsActive(before[i])) => final <= 4 - Cardinality(F)
<1> DEFINE ahead == {i \in GhostIndex :
                       \/ IsActive(after[i])
                       \/ IsActive(before[i]) /\ before[i].health > pre_health}
<1>1. Live(after) \in SUBSET GhostIndex /\ Live(after) \in SUBSET ahead /\ ahead \in SUBSET GhostIndex
  BY Zenon DEF Live
<1>2. CASE Live(after) = {}
  <2>1. final = 1
    BY <1>2 DEF CalcFinalPlace
  <2>2. Cardinality(Live(after)) = 0
    BY <1>2, FS_EmptySet, Zenon
  <2>3. \A F \in SUBSET GhostIndex : Cardinality(F) \in 0 .. 3
    BY GhostsFinite, Zenon
  <2> QED  BY <1>2, <2>1, <2>2, <2>3, SMT
<1>3. CASE Live(after) # {}
  <2>1. health = 0 /\ final = 1 + Cardinality(ahead)
    BY <1>3 DEF CalcFinalPlace
  <2> HIDE DEF ahead
  <2>2. IsFiniteSet(ahead) /\ Cardinality(ahead) \in 0 .. 3
    BY <1>1, GhostsFinite, Zenon
  <2>3. /\ Cardinality(Live(after)) <= Cardinality(ahead)
        /\ Cardinality(Live(after)) \in 0 .. 3 /\ Cardinality(Live(after)) # 0
    <3>1. IsFiniteSet(Live(after)) /\ Cardinality(Live(after)) \in 0 .. 3
      BY <1>1, GhostsFinite, Zenon
    <3>2. Cardinality(Live(after)) <= Cardinality(ahead)
      BY <1>1, <2>2, FS_Subset, Zenon
    <3> QED  BY <1>3, <3>1, <3>2, FS_EmptySet, Zenon
  <2>4. ASSUME NEW F \in SUBSET GhostIndex, \A i \in F : ~IsActive(before[i])
        PROVE  Cardinality(ahead) + Cardinality(F) <= 3
    <3>1. ahead \cap F = {}
      BY <2>4, Zenon DEF ahead, Falls
    <3>2. IsFiniteSet(F) /\ Cardinality(F) \in 0 .. 3
      BY GhostsFinite, Zenon
    <3>3. Cardinality(ahead \cup F) = Cardinality(ahead) + Cardinality(F) - Cardinality(ahead \cap F)
      BY <2>2, <3>2, FS_Union, Zenon
    <3>4. Cardinality(ahead \cap F) = 0
      BY <3>1, FS_EmptySet, Zenon
    <3>5. Cardinality(ahead \cup F) \in 0 .. 3
      BY <1>1, GhostsFinite, Zenon
    <3> QED  BY <2>2, <3>2, <3>3, <3>4, <3>5, SMT
  <2>5. \A F \in SUBSET GhostIndex :
          (\A i \in F : ~IsActive(before[i])) => Cardinality(ahead) + Cardinality(F) <= 3 /\ Cardinality(F) \in 0 .. 3
    BY <2>4, GhostsFinite, Zenon
  <2>6. \A F \in SUBSET GhostIndex : (\A i \in F : ~IsActive(before[i])) => final <= 4 - Cardinality(F)
    BY <2>1, <2>2, <2>5, SMT
  <2> QED  BY <1>3, <2>1, <2>2, <2>3, <2>6, SMT
<1> QED  BY <1>2, <1>3, Zenon

\* What a round does to the record of a playable match (battle_all)
LEMMA RoundOutcome ==
  ASSUME NEW bases, NEW m \in MatchRecord(bases), Playable(m),
         NEW boards \in SUBSET SUBSET bases, NEW shop \in ShopResults(m, boards),
         NEW rivals \in [GhostIndex -> Recording(bases)],
         NEW round \in Rounds(m, shop, rivals)
  PROVE  /\ Falls(m.ghost_states, round.match.ghost_states, Turn(m))
         /\ round.match.battle_ghost_index = m.battle_ghost_index
         /\ round.match.health \in Nat
         /\ round.match.health = 0 => Live(round.match.ghost_states) # {}
         /\ round.place = CalcFinalPlace(round.match.health, m.health, round.match.ghost_states, m.ghost_states)
         /\ Len(round.match.history) = Turn(m)
         /\ \A next \in NextTurns(round.match) :
              /\ next.ghost_states = round.match.ghost_states
              /\ next.history = round.match.history
              /\ next.battle_ghost_index
                   \in SelectBattleGhostIndex(round.match.ghost_states, m.battle_ghost_index)
<1> DEFINE turn     == Turn(m)
           fielded  == GhostBoards(rivals, m.ghost_states, turn)
           opponent == Opponent(m.ghost_states, m.battle_ghost_index)
<1>1. /\ m.history \in Recording(bases) /\ m.ghost_states \in [GhostIndex -> GhostState]
      /\ m.health \in 1 .. 30
      /\ m.battle_ghost_index \in Live(m.ghost_states)
      /\ \A i \in GhostIndex : IsActive(m.ghost_states[i]) => m.ghost_states[i].health \in 1 .. 30
  BY Zenon DEF MatchRecord, Playable, PLAYER_INITIAL_HEALTH
<1>2. opponent \in GhostIndex /\ IsActive(m.ghost_states[opponent]) /\ m.ghost_states[opponent].health # 0
  <2>1. opponent \in Live(m.ghost_states)
    BY <1>1, OpponentIsLive, Zenon
  <2>2. opponent \in GhostIndex /\ IsActive(m.ghost_states[opponent])
    BY <2>1, Zenon DEF Live
  <2> HIDE DEF opponent
  <2> QED  BY <1>1, <2>2, SMT
<1>3. PICK pvg \in MarchResults(shop.board, fielded[opponent].board),
           gvg \in MarchResults(fielded[FirstOther(opponent)].board, fielded[SecondOther(opponent)].board) :
        round = Round(m, shop, rivals, pvg, gvg)
  BY SMT DEF Rounds
<1>4. pvg[1] \in 0 .. 42 /\ pvg[2] \in 0 .. 42 /\ (pvg[1] = 0 \/ pvg[2] = 0)
  BY MarchResultsType, Zenon
<1> DEFINE entry  == [grade |-> shop.grade, board |-> shop.board]
           health == HealthAfterRound(m.health, opponent, pvg, fielded)
           states == StatesAfterRound(m.ghost_states, opponent, pvg, gvg, shop.grade, fielded, turn)
<1>5. /\ round.match = [m EXCEPT !.health = health, !.history = Append(@, entry),
                                 !.upgrade_coin = shop.upgrade_coin, !.ghost_states = states]
      /\ round.place = CalcFinalPlace(health, m.health, states, m.ghost_states)
  BY <1>3, Zenon DEF Round
<1> HIDE DEF states, health, fielded, opponent, entry, turn
<1>6. /\ round.match.health = health /\ round.match.history = Append(m.history, entry)
      /\ round.match.ghost_states = states /\ round.match.battle_ghost_index = m.battle_ghost_index
  BY <1>5, SMT DEF MatchRecord
<1>7. /\ Falls(m.ghost_states, states, turn)
      /\ pvg[1] = 0 => IsActive(states[opponent])
  <2>1. /\ Falls(m.ghost_states, states, turn)
        /\ IsActive(m.ghost_states[opponent]) /\ m.ghost_states[opponent].health # 0 /\ pvg[1] = 0
             => IsActive(states[opponent])
    BY <1>1, <1>2, RoundFalls DEF states
  <2> QED  BY <1>2, <2>1, Zenon
<1>8. /\ health \in Nat
      /\ pvg[2] = 0 => health = m.health
  <2>1. health = DamageHealth(pvg[2], fielded[opponent].grade, m.health)
    BY DEF health, HealthAfterRound
  <2>2. fielded[opponent].grade \in Nat
    <3>1. /\ Len(m.history) \in Nat /\ DOMAIN m.history = 1 .. Len(m.history)
          /\ turn = Len(m.history) + 1
      BY <1>1, LenProperties, Zenon DEF turn, Turn, Recording
    <3>2. GhostDone(m.ghost_states[opponent], turn) /\ turn \in Nat \ {0}
      <4>1. m.ghost_states[opponent] \in GhostState
        BY <1>1, <1>2, Zenon
      <4> QED  BY <1>1, <1>2, <3>1, <4>1, SMT DEF GhostDone
    <3>3. fielded[opponent] = GradeAndGhostBoard(rivals[opponent], m.ghost_states[opponent], turn)
      BY <1>2, Zenon DEF fielded, GhostBoards
    <3>4. rivals[opponent] \in Recording(bases)
      BY <1>2
    <3>5. fielded[opponent] \in [grade : 1 .. 6, board : SUBSET bases]
      BY <3>2, <3>3, <3>4, GradeAndGhostBoardType
    <3> QED  BY <3>5, SMT
  <2>3. pvg[2] \in Nat /\ m.health \in Nat
    BY <1>1, <1>4, SMT
  <2> DEFINE grade == fielded[opponent].grade
  <2> HIDE DEF grade
  <2>4. grade \in Nat /\ health = DamageHealth(pvg[2], grade, m.health)
    BY <2>1, <2>2, Zenon DEF grade
  <2>5. /\ DamageHealth(pvg[2], grade, m.health) \in 0 .. m.health
        /\ pvg[2] = 0 => DamageHealth(pvg[2], grade, m.health) = m.health
    BY <2>3, <2>4, DamageHealthType
  <2> QED  BY <2>3, <2>4, <2>5, SMT
<1>9. health = 0 => Live(states) # {}
  <2>1. health = 0 => IsActive(states[opponent])
    BY <1>1, <1>4, <1>7, <1>8, SMT
  <2> QED  BY <1>2, <2>1, Zenon DEF Live
<1>10. Len(Append(m.history, entry)) = turn
  <2>1. m.history \in Seq([grade : 1 .. 6, board : SUBSET bases])
    BY <1>1 DEF Recording
  <2> QED  BY <2>1, SMT DEF turn, Turn
<1>11. ASSUME NEW next \in NextTurns(round.match)
       PROVE  /\ next.ghost_states = round.match.ghost_states
              /\ next.history = round.match.history
              /\ next.battle_ghost_index
                   \in SelectBattleGhostIndex(round.match.ghost_states, m.battle_ghost_index)
  <2>1. PICK index \in SelectBattleGhostIndex(round.match.ghost_states, round.match.battle_ghost_index) :
          next = [round.match EXCEPT !.upgrade_coin = DecreaseUpgradeCoin(@),
                                     !.battle_ghost_index = index]
    BY Zenon DEF NextTurns
  <2>2. DOMAIN round.match = {"health", "history", "upgrade_coin", "ghost_states", "battle_ghost_index"}
    BY <1>5, SMT DEF MatchRecord
  <2>3. /\ next.ghost_states = round.match.ghost_states /\ next.history = round.match.history
        /\ next.battle_ghost_index = index
    BY <2>1, <2>2, SMT
  <2> QED  BY <1>6, <2>1, <2>3, Zenon
<1> QED  BY <1>5, <1>6, <1>7, <1>8, <1>9, <1>10, <1>11, Zenon DEF turn

--------------------------------------------------------------------------------

\* A ghost has fallen in the turn its state says
FallenIs ==
  \A i \in GhostIndex :
    IF IsActive(match.ghost_states[i]) THEN fallen[i].turn = 0
    ELSE match.ghost_states[i] = Retired(fallen[i].turn)

\* The inductive invariant of a match
MatchIInv ==
  /\ ghosts \in [GhostIndex -> Recording(EmoIds)]
  /\ place \in NoPlace .. 4
  /\ place = NoPlace => match \in MatchRecord(EmoIds) /\ Playable(match) /\ FallenIs
  /\ PlaceIsDeserved

\* What PlayTurn does, for a match that can be played on
LEMMA PlayTurnOutcome ==
  ASSUME MatchIInv, NEW shop \in ShopResults(match, Boards), PlayTurn(shop)
  PROVE  /\ place = NoPlace
         /\ place' \in NoPlace .. 4
         /\ Falls(match.ghost_states, match'.ghost_states, Turn(match))
         /\ Len(match'.history) = Turn(match)
         /\ place' = NoPlace =>
              /\ match' \in MatchRecord(EmoIds) /\ Playable(match')
              /\ match'.battle_ghost_index
                   \in SelectBattleGhostIndex(match'.ghost_states, match.battle_ghost_index)
         /\ place' # NoPlace =>
              /\ match'.health \in Nat
              /\ match'.health = 0 => Live(match'.ghost_states) # {}
              /\ place' = CalcFinalPlace(match'.health, match.health, match'.ghost_states, match.ghost_states)
<1>1. place = NoPlace /\ match \in MatchRecord(EmoIds) /\ Playable(match)
      /\ ghosts \in [GhostIndex -> Recording(EmoIds)]
  BY Zenon DEF PlayTurn, MatchIInv
<1>2. Boards \in SUBSET SUBSET EmoIds
  BY Zenon DEF EmoIds
<1>3. PICK round \in Rounds(match, shop, ghosts) :
        /\ place' = round.place
        /\ IF round.place = NoPlace THEN match' \in NextTurns(round.match)
           ELSE match' = round.match
  BY Zenon DEF PlayTurn
<1>4. /\ round.place \in NoPlace .. 4
      /\ round.place = NoPlace =>
           \A next \in NextTurns(round.match) : next \in MatchRecord(EmoIds) /\ Playable(next)
  BY <1>1, <1>2, RoundKeepsPlayable
<1>5. /\ Falls(match.ghost_states, round.match.ghost_states, Turn(match))
      /\ round.match.health \in Nat
      /\ round.match.health = 0 => Live(round.match.ghost_states) # {}
      /\ round.place = CalcFinalPlace(round.match.health, match.health, round.match.ghost_states,
                                      match.ghost_states)
      /\ Len(round.match.history) = Turn(match)
      /\ \A next \in NextTurns(round.match) :
           /\ next.ghost_states = round.match.ghost_states
           /\ next.history = round.match.history
           /\ next.battle_ghost_index
                \in SelectBattleGhostIndex(round.match.ghost_states, match.battle_ghost_index)
  BY <1>1, <1>2, RoundOutcome
<1>6. CASE round.place = NoPlace
  <2>1. match' \in NextTurns(round.match) /\ place' = NoPlace
    BY <1>3, <1>6, Zenon
  <2> QED  BY <1>1, <1>3, <1>4, <1>5, <1>6, <2>1, Zenon
<1>7. CASE round.place # NoPlace
  <2>1. match' = round.match /\ place' # NoPlace
    BY <1>3, <1>7, Zenon
  <2> QED  BY <1>1, <1>3, <1>4, <1>5, <1>7, <2>1, Zenon
<1> QED  BY <1>6, <1>7, Zenon

\* The turns of the fallen after a round: the ghosts that fell before it keep theirs
LEMMA FallenAfter ==
  ASSUME MatchIInv, NEW shop \in ShopResults(match, Boards), PlayTurn(shop)
  PROVE  /\ FallenIs'
         /\ \A i \in GhostIndex :
              fallen'[i].turn \in 1 .. Len(match'.history) - 1 => ~IsActive(match.ghost_states[i])
<1>1. /\ FallenIs /\ match.history \in Recording(EmoIds)
  <2>1. place = NoPlace
    BY Zenon DEF PlayTurn
  <2> QED  BY <2>1, Zenon DEF MatchIInv, MatchRecord
<1>2. Falls(match.ghost_states, match'.ghost_states, Turn(match)) /\ Len(match'.history) = Turn(match)
  BY PlayTurnOutcome, Zenon
<1>3. Turn(match) \in Nat
  BY <1>1, SMT DEF Turn, Recording
<1>4. ASSUME NEW i \in GhostIndex
      PROVE  /\ IF IsActive(match'.ghost_states[i]) THEN fallen'[i].turn = 0
                ELSE match'.ghost_states[i] = Retired(fallen'[i].turn)
             /\ fallen'[i].turn \in 1 .. Len(match'.history) - 1 => ~IsActive(match.ghost_states[i])
  <2> DEFINE falls == IsActive(match.ghost_states[i]) /\ ~IsActive(match'.ghost_states[i])
  <2>1. fallen'[i] = IF falls THEN [turn |-> Turn(match), health |-> match.ghost_states[i].health]
                     ELSE fallen[i]
    BY Zenon DEF PlayTurn
  <2>2. CASE falls
    <3>1. fallen'[i].turn = Turn(match)
      <4> HIDE DEF falls
      <4> QED  BY <2>1, <2>2, SMT
    <3>2. match'.ghost_states[i] = Retired(Turn(match))
      BY <1>2, <2>2, Zenon DEF Falls
    <3>3. Turn(match) \notin 1 .. Len(match'.history) - 1
      BY <1>2, <1>3, SMT
    <3> QED  BY <2>2, <3>1, <3>2, <3>3, Zenon
  <2>3. CASE ~falls
    <3>1. fallen'[i] = fallen[i]
      BY <2>1, <2>3, Zenon
    <3>2. CASE IsActive(match.ghost_states[i])
      <4>1. fallen[i].turn = 0 /\ IsActive(match'.ghost_states[i])
        BY <1>1, <2>3, <3>2, Zenon DEF FallenIs
      <4>2. 0 \notin 1 .. Len(match'.history) - 1
        BY <1>2, <1>3, SMT
      <4> QED  BY <3>1, <4>1, <4>2, Zenon
    <3>3. CASE ~IsActive(match.ghost_states[i])
      <4>1. match'.ghost_states[i] = match.ghost_states[i]
        BY <1>2, <3>3, Zenon DEF Falls
      <4> QED  BY <1>1, <3>1, <3>3, <4>1, Zenon DEF FallenIs
    <3> QED  BY <3>2, <3>3
  <2> QED  BY <2>2, <2>3
<1> QED  BY <1>4, Zenon DEF FallenIs

\* A round that ends the match ends it in a place the player deserves
LEMMA PlaceAfter ==
  ASSUME MatchIInv, NEW shop \in ShopResults(match, Boards), PlayTurn(shop)
  PROVE  PlaceIsDeserved'
<1> DEFINE F == {i \in GhostIndex : fallen'[i].turn \in 1 .. Len(match'.history) - 1}
<1>1. CASE place' = NoPlace
  BY <1>1, Zenon DEF PlaceIsDeserved
<1>2. CASE place' # NoPlace
  <2>1. /\ Falls(match.ghost_states, match'.ghost_states, Turn(match))
        /\ match'.health \in Nat
        /\ match'.health = 0 => Live(match'.ghost_states) # {}
        /\ place' = CalcFinalPlace(match'.health, match.health, match'.ghost_states, match.ghost_states)
    BY <1>2, PlayTurnOutcome, Zenon
  <2>2. /\ place' = 1 <=> match'.health > 0
        /\ place' = 1 <=> Live(match'.ghost_states) = {}
        /\ place' > Cardinality(Live(match'.ghost_states))
        /\ \A G \in SUBSET GhostIndex :
             (\A i \in G : ~IsActive(match.ghost_states[i])) => place' <= 4 - Cardinality(G)
    BY <1>2, <2>1, PlaceOfRound
  <2>3. F \in SUBSET GhostIndex /\ \A i \in F : ~IsActive(match.ghost_states[i])
    BY FallenAfter, Zenon
  <2>4. place' <= 4 - Cardinality(F)
    <3> HIDE DEF F
    <3> QED  BY <2>2, <2>3, Zenon
  <2> QED  BY <2>2, <2>4 DEF PlaceIsDeserved
<1> QED  BY <1>1, <1>2

\* A match starts playable, with three live ghosts
LEMMA MatchInit == Init => MatchIInv
<1> SUFFICES ASSUME Init PROVE MatchIInv
  OBVIOUS
<1>1. PICK ep \in StartEps : match = NewMatch(ep)
  BY DEF Init
<1>2. match \in MatchRecord(EmoIds) /\ Playable(match)
  BY <1>1, MatchAssumption, NewMatchPlayable DEF MatchAssumption
<1>3. ghosts \in [GhostIndex -> Recording(EmoIds)]
  BY MatchAssumption DEF Init, MatchAssumption
<1>4. FallenIs
  <2>1. \A i \in GhostIndex : match.ghost_states[i] = Active(InitialGhostHealth(ep))
    BY <1>1, SMT DEF NewMatch
  <2>2. \A i \in GhostIndex : IsActive(match.ghost_states[i])
    BY <2>1, SMT DEF IsActive, Active
  <2>3. \A i \in GhostIndex : fallen[i].turn = 0
    BY SMT DEF Init
  <2> QED  BY <2>2, <2>3, Zenon DEF FallenIs
<1>5. place = NoPlace /\ place \in NoPlace .. 4
  BY SMT DEF Init, NoPlace
<1> QED  BY <1>2, <1>3, <1>4, <1>5, Zenon DEF MatchIInv, PlaceIsDeserved

\* ... and every turn keeps the invariant
LEMMA MatchStep == MatchIInv /\ [Next]_matchVars => MatchIInv'
<1> SUFFICES ASSUME MatchIInv, [Next]_matchVars PROVE MatchIInv'
  OBVIOUS
<1>1. CASE UNCHANGED matchVars
  BY <1>1, Zenon DEF MatchIInv, matchVars, FallenIs, PlaceIsDeserved
<1>2. ASSUME NEW shop \in ShopResults(match, Boards), PlayTurn(shop) PROVE MatchIInv'
  <2>1. ghosts' = ghosts
    BY <1>2 DEF PlayTurn
  <2>2. /\ place' \in NoPlace .. 4
        /\ place' = NoPlace => match' \in MatchRecord(EmoIds) /\ Playable(match')
    BY <1>2, PlayTurnOutcome, Zenon
  <2>3. FallenIs' /\ PlaceIsDeserved'
    BY <1>2, FallenAfter, PlaceAfter
  <2>4. ghosts' \in [GhostIndex -> Recording(EmoIds)]
    BY <2>1, Zenon DEF MatchIInv
  <2> QED  BY <2>2, <2>3, <2>4 DEF MatchIInv
<1> QED  BY <1>1, <1>2, Zenon DEF Next

\* The invariant of finish_mtc_shop over the turns of one match
THEOREM MatchInvariant == Spec => []MatchIInv
BY MatchInit, MatchStep, PTL DEF Spec

\* An unfinished match can be played on: the player and the next opponent are alive and a
\* retired ghost is looked up in a turn that was played (battle_all,
\* select_battle_ghost_index, get_grade_and_ghost_board)
THEOREM MatchIsPlayable == Spec => []MatchInv
<1>1. MatchIInv => MatchInv
  BY Zenon DEF MatchIInv, MatchInv
<1> QED  BY <1>1, MatchInvariant, PTL

\* The place a match ends in is the one its rounds earned (calc_final_place)
THEOREM PlacesAreDeserved == Spec => []PlaceIsDeserved
<1>1. MatchIInv => PlaceIsDeserved
  BY Zenon DEF MatchIInv
<1> QED  BY <1>1, MatchInvariant, PTL

\* The player never meets the same ghost twice in a row while another one is alive
\* (select_battle_ghost_index)
THEOREM OpponentsAlternate == Spec => NoRepeatedOpponent
<1> DEFINE Changes == place' = NoPlace =>
                        \/ match'.battle_ghost_index # match.battle_ghost_index
                        \/ Live(match'.ghost_states) = {match'.battle_ghost_index}
<1>1. MatchIInv /\ [Next]_matchVars => [Changes]_match
  <2> SUFFICES ASSUME MatchIInv, [Next]_matchVars PROVE Changes \/ match' = match
    OBVIOUS
  <2>1. CASE UNCHANGED matchVars
    BY <2>1, Zenon DEF matchVars
  <2>2. ASSUME NEW shop \in ShopResults(match, Boards), PlayTurn(shop), place' = NoPlace
        PROVE  Changes
    <3> DEFINE states == match'.ghost_states
               index  == match'.battle_ghost_index
    <3>1. index \in SelectBattleGhostIndex(states, match.battle_ghost_index)
      BY <2>2, PlayTurnOutcome, Zenon
    <3>2. CASE Cardinality(Live(states)) = 1
      <4>1. IsFiniteSet(Live(states))
        <5>1. Live(states) \in SUBSET GhostIndex
          BY DEF Live
        <5> QED  BY <5>1, GhostsFinite, Zenon
      <4>2. PICK x : Live(states) = {x}
        BY <3>2, <4>1, FS_Singleton, Zenon
      <4>3. index \in Live(states)
        BY <3>1, <3>2, Zenon DEF SelectBattleGhostIndex
      <4> QED  BY <4>2, <4>3, Zenon
    <3>3. CASE Cardinality(Live(states)) # 1
      <4>1. index \in Live(states) \ {match.battle_ghost_index}
        BY <3>1, <3>3, Zenon DEF SelectBattleGhostIndex
      <4> QED  BY <4>1, Zenon
    <3> QED  BY <3>2, <3>3
  <2> QED  BY <2>1, <2>2, Zenon DEF Next
<1> QED  BY <1>1, MatchInvariant, PTL DEF Spec, NoRepeatedOpponent

\* What a ghost that retired in a turn brings to any later one is what it brought to that
\* one (get_grade_and_ghost_board)
LEMMA RetiredGhostBoard ==
  ASSUME NEW ghost, NEW final \in Nat, NEW turn \in Nat, final <= turn
  PROVE  GradeAndGhostBoard(ghost, Retired(final), turn) = GradeAndGhostBoard(ghost, Active(1), final)
<1>1. ~IsActive(Retired(final)) /\ Retired(final).final_turn = final
  BY RetiredIsNotActive
<1>2. IsActive(Active(1))
  BY SMT DEF IsActive, Active
<1>3. Min({turn, final}) = final
  BY MinPair, SMT
<1> QED  BY <1>1, <1>2, <1>3, Zenon DEF GradeAndGhostBoard

\* A retired ghost stays retired and keeps fielding the board of its last turn
\* (damage_ghost_health, get_grade_and_ghost_board)
THEOREM RetiredGhostsStay == Spec => RetiredGhostsFrozen
<1> DEFINE Frozen(i) ==
             ~IsActive(match.ghost_states[i]) =>
               /\ match'.ghost_states[i] = match.ghost_states[i]
               /\ GradeAndGhostBoard(ghosts[i], match'.ghost_states[i], Turn(match'))
                    = GradeAndGhostBoard(ghosts[i], Active(1), fallen[i].turn)
<1>1. MatchIInv /\ [Next]_matchVars => [\A i \in GhostIndex : Frozen(i)]_match
  <2> SUFFICES ASSUME MatchIInv, [Next]_matchVars
               PROVE  (\A i \in GhostIndex : Frozen(i)) \/ match' = match
    OBVIOUS
  <2>1. CASE UNCHANGED matchVars
    BY <2>1, Zenon DEF matchVars
  <2>2. ASSUME NEW shop \in ShopResults(match, Boards), PlayTurn(shop),
               NEW i \in GhostIndex, ~IsActive(match.ghost_states[i])
        PROVE  /\ match'.ghost_states[i] = match.ghost_states[i]
               /\ GradeAndGhostBoard(ghosts[i], match'.ghost_states[i], Turn(match'))
                    = GradeAndGhostBoard(ghosts[i], Active(1), fallen[i].turn)
    <3> DEFINE final == fallen[i].turn
    <3>1. /\ Falls(match.ghost_states, match'.ghost_states, Turn(match))
          /\ Len(match'.history) = Turn(match) /\ place = NoPlace
      BY <2>2, PlayTurnOutcome, Zenon
    <3>2. match'.ghost_states[i] = match.ghost_states[i]
      BY <2>2, <3>1, Zenon DEF Falls
    <3>3. /\ match.ghost_states[i] = Retired(final)
          /\ match.ghost_states[i].final_turn \in DOMAIN match.history
          /\ match.history \in Recording(EmoIds)
      BY <2>2, <3>1, Zenon DEF MatchIInv, FallenIs, Playable, MatchRecord
    <3>4. DOMAIN match.history = 1 .. Len(match.history) /\ Len(match.history) \in Nat
      BY <3>3, LenProperties, Zenon DEF Recording
    <3> HIDE DEF final
    <3>5. final \in 1 .. Len(match.history)
      BY <3>3, <3>4, RetiredIsNotActive, Zenon
    <3>6. final \in Nat /\ Turn(match') \in Nat /\ final <= Turn(match')
      <4>1. Turn(match') = Len(match.history) + 2
        BY <3>1, <3>4, SMT DEF Turn
      <4> QED  BY <3>4, <3>5, <4>1, SMT
    <3>7. GradeAndGhostBoard(ghosts[i], Retired(final), Turn(match'))
            = GradeAndGhostBoard(ghosts[i], Active(1), final)
      BY <3>6, RetiredGhostBoard
    <3> QED  BY <3>2, <3>3, <3>7, Zenon DEF final
  <2> QED  BY <2>1, <2>2, Zenon DEF Next
<1> QED  BY <1>1, MatchInvariant, PTL DEF Spec, RetiredGhostsFrozen

================================================================================
