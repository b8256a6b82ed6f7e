------------------------------- MODULE Organizer -------------------------------
(***************************************************************************)
(* One round of a match: common/rs/src/mtc/battle/organizer.rs.            *)
(*                                                                         *)
(* A player meets three rivals, the ghosts 0, 1, 2.  A ghost is Active     *)
(* with some health, or Retired since a turn.  In a round the player       *)
(* fights one live ghost and, while more than one ghost is live, the two   *)
(* others fight each other.  A fight is a `march`, whose result is the     *)
(* pair of the grades left on the two boards; the model takes it from      *)
(* MarchResults, so every operator below is a function of the results.     *)
(*                                                                         *)
(* A board is the set of the base ids on it: a round only depends on       *)
(* whether a board is empty.  A ghost is the sequence of the [grade, board]*)
(* of each turn of the match it was recorded from.                         *)
(***************************************************************************)
EXTENDS EpRules, Sequences, FiniteSets, FiniteSetsExt

CONSTANTS
  MarchGrades,  \* the sums of surviving grades a won march may leave
  LastGrade,    \* the highest player grade (6)
  TurnLimit     \* a shop phase is refused from this turn on (40)

ASSUME OrganizerAssumption ==
  /\ MarchGrades \subseteq 1 .. 42
  /\ LastGrade \in 1 .. 6
  /\ TurnLimit \in Nat \ {0}

GhostIndex == 0 .. 2

Active(health)      == [tag |-> "Active",  health |-> health]
Retired(final_turn) == [tag |-> "Retired", final_turn |-> final_turn]

IsActive(state) == state.tag = "Active"

GhostState == [tag : {"Active"}, health : Nat] \cup [tag : {"Retired"}, final_turn : Nat]

\* The turns of a match, as its record and the ghosts made from it keep them
Recording(bases) == Seq([grade : 1 .. 6, board : SUBSET bases])

\* The ghosts still in the match
Live(states) == {i \in GhostIndex : IsActive(states[i])}

\* march: the winner keeps some emos, the loser none; both may lose everything,
\* and nothing happens between two empty boards
MarchResults(board0, board1) ==
  IF board0 = {} /\ board1 = {}
  THEN {<<0, 0>>}
  ELSE {<<0, 0>>} \cup {<<g, 0>> : g \in MarchGrades} \cup {<<0, g>> : g \in MarchGrades}

\* damage_health: u8 saturating_sub of the winner's board and player grades
DamageHealth(board_grade, grade, health) ==
  IF board_grade = 0 THEN health
  ELSE IF health > board_grade + grade THEN health - (board_grade + grade) ELSE 0

\* damage_ghost_health: a retired ghost takes no damage, a ghost at 0 retires
DamageGhostHealth(board_grade, grade, state, turn) ==
  IF ~IsActive(state) THEN state
  ELSE LET health == DamageHealth(board_grade, grade, state.health)
       IN  IF health = 0 THEN Retired(turn) ELSE Active(health)

\* Mutant: a retired ghost is looked up like a live one
GradeAndGhostBoardOfTurn(ghost, state, turn) ==
  IF Len(ghost) = 0 THEN [grade |-> 1, board |-> {}] ELSE ghost[Min({turn, Len(ghost)})]

\* get_grade_and_ghost_board: what a ghost brings to a turn.  A retired ghost
\* keeps its last living board, a ghost with a shorter history its last one.
GradeAndGhostBoard(ghost, state, turn) ==
  IF Len(ghost) = 0 THEN [grade |-> 1, board |-> {}]
  ELSE LET effective_turn == IF IsActive(state) THEN turn ELSE Min({turn, state.final_turn})
       IN  ghost[Min({effective_turn, Len(ghost)})]

\* battle_all: the ghost the player fights
Opponent(states, battle_ghost_index) ==
  IF Cardinality(Live(states)) > 1
  THEN battle_ghost_index
  ELSE CHOOSE i \in GhostIndex : i \in Live(states)

\* battle_pvg_and_gvg: the two other ghosts, after swapping the opponent to the front
FirstOther(opponent)  == IF opponent = 1 THEN 0 ELSE 1
SecondOther(opponent) == IF opponent = 2 THEN 0 ELSE 2

\* What the three ghosts bring to this turn
GhostBoards(ghosts, states, turn) ==
  [i \in GhostIndex |-> GradeAndGhostBoard(ghosts[i], states[i], turn)]

\* battle_pvg: `pvg` holds the grades left on the player's and on the ghost's board
HealthAfterRound(health, opponent, pvg, boards) ==
  DamageHealth(pvg[2], boards[opponent].grade, health)

StatesAfterPvg(states, opponent, pvg, grade, turn) ==
  [states EXCEPT ![opponent] = DamageGhostHealth(pvg[1], grade, @, turn)]

\* battle_gvg: `gvg` holds the grades left on the boards of the two other ghosts
StatesAfterGvg(states, opponent, gvg, boards, turn) ==
  LET a == FirstOther(opponent)
      b == SecondOther(opponent)
  IN  [states EXCEPT ![a] = DamageGhostHealth(gvg[2], boards[b].grade, @, turn),
                     ![b] = DamageGhostHealth(gvg[1], boards[a].grade, @, turn)]

\* battle_all: the ghosts only fight each other while more than one is live
StatesAfterRound(states, opponent, pvg, gvg, grade, boards, turn) ==
  LET afterPvg == StatesAfterPvg(states, opponent, pvg, grade, turn)
  IN  IF Cardinality(Live(states)) > 1
      THEN StatesAfterGvg(afterPvg, opponent, gvg, boards, turn)
      ELSE afterPvg

\* calc_final_place: None, the match goes on
NoPlace == 0

\* Mutant: `let mut place = 0`
CalcFinalPlaceFromZero(health, pre_health, states, pre_states) ==
  LET ahead == {i \in GhostIndex :
                  \/ IsActive(states[i])
                  \/ IsActive(pre_states[i]) /\ pre_states[i].health > pre_health}
  IN  CASE Live(states) = {} -> 1
        [] Live(states) # {} /\ health = 0 -> Cardinality(ahead)
        [] OTHER -> NoPlace

\* A player out of health ranks behind the ghosts still active and the ghosts that
\* retired in the same round from a higher health
CalcFinalPlace(health, pre_health, states, pre_states) ==
  LET ahead == {i \in GhostIndex :
                  \/ IsActive(states[i])
                  \/ IsActive(pre_states[i]) /\ pre_states[i].health > pre_health}
  IN  CASE Live(states) = {} -> 1
        [] Live(states) # {} /\ health = 0 -> 1 + Cardinality(ahead)
        [] OTHER -> NoPlace

\* Mutant: the filter on live indexes is missing
SelectAnyGhostIndex(states, previous_index) ==
  IF Cardinality(Live(states)) = 1 THEN Live(states) ELSE GhostIndex \ {previous_index}

\* Mutant: the filter on the previous index is missing
SelectAnyLiveGhostIndex(states, previous_index) == Live(states)

\* select_battle_ghost_index: the indexes the seed may choose; empty is an error
SelectBattleGhostIndex(states, previous_index) ==
  IF Cardinality(Live(states)) = 1 THEN Live(states)
  ELSE Live(states) \ {previous_index}

--------------------------------------------------------------------------------

(***************************************************************************)
(* The record the contract keeps of a match (storage::PlayerMutable) and   *)
(* what a turn does to it.                                                 *)
(***************************************************************************)

PLAYER_INITIAL_HEALTH == 30

\* coin::get_upgrade_coin, the price of the grades 2 .. 6, and its fall every turn
GetUpgradeCoin == <<0, 5, 7, 8, 9, 9>>
DecreaseUpgradeCoin(coin) == IF coin > 0 THEN coin - 1 ELSE 0

MatchRecord(bases) ==
  [health             : 0 .. PLAYER_INITIAL_HEALTH,
   history            : Recording(bases),
   upgrade_coin       : 0 .. 9,
   ghost_states       : [GhostIndex -> GhostState],
   battle_ghost_index : GhostIndex]

\* start_mtc, for a player who starts on an EP
NewMatch(ep) ==
  [health             |-> PLAYER_INITIAL_HEALTH,
   history            |-> <<>>,
   upgrade_coin       |-> GetUpgradeCoin[2],
   ghost_states       |-> [i \in GhostIndex |-> Active(InitialGhostHealth(ep))],
   battle_ghost_index |-> 0]

\* finish::get_turn_and_previous_grade_and_board
Turn(m)          == Len(m.history) + 1
PreviousGrade(m) == IF m.history = <<>> THEN 1 ELSE m.history[Len(m.history)].grade

\* verify_player_operations_and_update, by what it may return: the player may have
\* upgraded any number of times and leaves some board.  What the operations cost is
\* not part of this module.
ShopResults(m, boards) ==
  {[grade        |-> grade,
    upgrade_coin |-> IF grade = PreviousGrade(m) THEN m.upgrade_coin ELSE GetUpgradeCoin[grade],
    board        |-> board] :
   grade \in PreviousGrade(m) .. LastGrade, board \in boards}

\* The ghosts whose boards battle_all reads in this turn
Fighting(m) ==
  IF Cardinality(Live(m.ghost_states)) > 1 THEN GhostIndex
  ELSE {Opponent(m.ghost_states, m.battle_ghost_index)}

\* battle_all for given results of the two marches: the record with the turn in its
\* history, and the final place
Round(m, shop, ghosts, pvg, gvg) ==
  LET turn     == Turn(m)
      boards   == GhostBoards(ghosts, m.ghost_states, turn)
      opponent == Opponent(m.ghost_states, m.battle_ghost_index)
      health   == HealthAfterRound(m.health, opponent, pvg, boards)
      states   == StatesAfterRound(m.ghost_states, opponent, pvg, gvg, shop.grade, boards, turn)
  IN  [match |-> [m EXCEPT !.health = health,
                           !.history = Append(@, [grade |-> shop.grade, board |-> shop.board]),
                           !.upgrade_coin = shop.upgrade_coin,
                           !.ghost_states = states],
       place |-> CalcFinalPlace(health, m.health, states, m.ghost_states)]

\* ... and for every result they may have
Rounds(m, shop, ghosts) ==
  LET boards   == GhostBoards(ghosts, m.ghost_states, Turn(m))
      opponent == Opponent(m.ghost_states, m.battle_ghost_index)
  IN  {Round(m, shop, ghosts, pvg, gvg) :
         pvg \in MarchResults(shop.board, boards[opponent].board),
         gvg \in MarchResults(boards[FirstOther(opponent)].board, boards[SecondOther(opponent)].board)}

\* Mutant: the next opponent is not selected
NextTurnsSameGhost(m) == {[m EXCEPT !.upgrade_coin = DecreaseUpgradeCoin(@)]}

\* update_player_mtc_mutable_after_battle, for every index the seed may select
NextTurns(m) ==
  {[m EXCEPT !.upgrade_coin = DecreaseUpgradeCoin(@), !.battle_ghost_index = index] :
     index \in SelectBattleGhostIndex(m.ghost_states, m.battle_ghost_index)}

--------------------------------------------------------------------------------

\* A match can be played on: the player and the next opponent are alive, so battle_all
\* and select_battle_ghost_index never fail, and a retired ghost retired in a turn that
\* was played, so its board is looked up at a valid index
Playable(m) ==
  /\ m.health \in 1 .. PLAYER_INITIAL_HEALTH
  /\ m.upgrade_coin \in 0 .. 9
  /\ m.battle_ghost_index \in Live(m.ghost_states)
  /\ \A i \in GhostIndex :
       IF IsActive(m.ghost_states[i]) THEN m.ghost_states[i].health \in 1 .. 30
       ELSE m.ghost_states[i].final_turn \in DOMAIN m.history

================================================================================
