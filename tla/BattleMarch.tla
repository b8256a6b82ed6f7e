------------------------------ MODULE BattleMarch ------------------------------
(***************************************************************************)
(* One fight of two boards: common/rs/src/mtc/battle/march.rs, board.rs    *)
(* and common.rs, which the contract runs to decide a round and the client *)
(* to show it.                                                             *)
(*                                                                         *)
(* The code is one deep recursion: damage retires an emo, whose abilities  *)
(* set, strengthen or damage others, whose abilities ...  Here what is     *)
(* still to be called is an `agenda`, a stack of calls with the player and *)
(* the board indexes they were given; a step performs the first call and   *)
(* puts those it makes in its place.  An index is thus as stale here when  *)
(* its call comes up as it is in the code.                                 *)
(*                                                                         *)
(* What the random generator decides is any choice.  Indexes and players   *)
(* count from 0, as in the code.                                           *)
(***************************************************************************)
EXTENDS EmoAbility, Sequences, SequencesExt, FiniteSets

CONSTANTS
  Matchups,  \* the pairs of boards that may fight
  Learnable, \* the abilities an emo can have in them
  TickMax    \* the largest u8: no attack after that many

Side == {"Ally", "Rival"}

\* emo::ability::battle::NormalAction, and what one may name: a base there is, a damage,
\* an ability
IsAction(action) ==
  \/ action.act = "SetEmo" /\ action.side \in Side /\ action.base \in DOMAIN Bases
  \/ action.act = "SetEmosByAttackDiv" /\ action.side \in Side /\ action.base \in DOMAIN Bases
     /\ action.divisor \in Nat \ {0}
  \/ action.act = "DamageAll" /\ action.side \in Side /\ action.damage \in Nat
  \/ action.act \in {"IncreaseStats", "DecreaseStats", "ByEmoCount"} /\ action.attack \in Nat /\ action.health \in Nat
  \/ action.act = "AddBattleAbility" /\ action.ability \in Learnable

\* emo::ability::battle::Battle: only an ally may have the others' retire actions run again
ASSUME LearnableAssumption ==
  \A a \in Learnable :
    a.phase = "Battle" /\ ~IsSpecial(a) =>
      IsAction(a.action) \/ (a.as = "Ally" /\ a.action.act = "TriggerRetireActions")

\* Of every base an emo can be made, of u16 stats
ASSUME BasesAssumption ==
  /\ StatMax \in Nat \ {0} /\ BoardMax \in Nat
  /\ \A b \in DOMAIN Bases :
       /\ Bases[b].attack \in 1 .. StatMax /\ Bases[b].health \in 1 .. StatMax
       /\ Bases[b].abilities \in Seq(Learnable)

\* The boards of a match are short enough, and nobody on them is weakened to death
ASSUME MatchupsAssumption ==
  /\ TickMax \in Nat
  /\ \A pair \in Matchups : \A p \in {1, 2} :
       /\ Len(pair[p]) <= BoardMax
       /\ pair[p] \in Seq([base : DOMAIN Bases, triple : BOOLEAN, attack : 1 .. StatMax, health : 1 .. StatMax,
                            abilities : Seq(Learnable)])

VARIABLES
  boards,  \* player -> its emos, [id, base, attack, health, abilities, triple, count]
  agenda,  \* the pending calls
  tick,    \* attacks so far
  first,   \* first_attack_player_index
  outcome, \* "fighting", "finished" or "failed"
  logs,    \* what the client will show
  nextId   \* BATTLE_EMO_ID_GENERATOR

vars == <<boards, agenda, tick, first, outcome, logs, nextId>>

--------------------------------------------------------------------------------

Rival(player) == 1 - player

\* BattleEmo::new_with_attributes
BattleEmo(id, count, emo) ==
  [id |-> id, count |-> count, base |-> emo.base, triple |-> emo.triple,
   attack |-> emo.attack, health |-> emo.health, abilities |-> emo.abilities]

\* BattleEmo::new_with_base
NewEmo(id, base, triple, count) == BattleEmo(id, count, Attributes(base, triple))

\* build_battle_emos_from_board: of the emos a player brings to a fight
BattleEmos(board, ids) == [i \in DOMAIN board |-> BattleEmo(ids + i, 0, board[i])]

\* mtc::battle::Log
AttackLog(player, attacker, defender) ==
  [log |-> "Attack", player |-> player, index |-> attacker, defender |-> defender]
DamageLog(player, index, health) == [log |-> "Damage", player |-> player, index |-> index, health |-> health]
RemoveLog(player, index)         == [log |-> "Remove", player |-> player, index |-> index]
AddLog(player, index, emo)       == [log |-> "Add", player |-> player, index |-> index, emo |-> emo]
AddBattleAbilityLog(player, index, ability, triple) ==
  [log |-> "AddBattleAbility", player |-> player, index |-> index, ability |-> ability, triple |-> triple]
RemoveBattleAbilityLog(player, index, at, ability) ==
  [log |-> "RemoveBattleAbility", player |-> player, index |-> index, abilityIndex |-> at, ability |-> ability]
\* IncreaseStats and DecreaseStats
StatsLog(log, player, index, attack, health, emo) ==
  [log |-> log, player |-> player, index |-> index, attack |-> attack, health |-> health,
   calculated |-> [attack |-> emo.attack, health |-> emo.health]]

HasEmoAt(player, index) == index < Len(boards[player])
EmoAt(player, index)    == boards[player][index + 1]

Has(emo, special) == \E i \in DOMAIN emo.abilities : emo.abilities[i] = special

\* The abilities that act as an emo itself or as its ally, on a trigger
OfTrigger(as, trigger) == {a \in Learnable : a.phase = "Battle" /\ a.as = as /\ a.trigger = trigger}

\* get_board_abilities: those wanted, each with the index of its emo
Abilities(board, wanted) ==
  FlattenSeq([i \in DOMAIN board |->
    FlattenSeq([j \in DOMAIN board[i].abilities |->
      LET ability == board[i].abilities[j]
      IN  IF ability \in wanted THEN <<[index |-> i - 1, ability |-> ability]>> ELSE <<>>])])

--------------------------------------------------------------------------------

(***************************************************************************)
(* The calls on the agenda.  `retired` is <<emo>> when the emo at `index`  *)
(* acts on its retirement, and <<>> when it is on the board.               *)
(***************************************************************************)
NotRetired == <<>>

ActCall(player, index, action, retired) ==
  [call |-> "Act", player |-> player, index |-> index, action |-> action, retired |-> retired, except |-> {}]
AllyActCall(player, holder, index, action, retired) ==
  [call |-> "AllyAct", player |-> player, holder |-> holder, index |-> index, action |-> action, retired |-> retired]
DamageCall(player, index, damage, counts) ==
  [call |-> "Damage", player |-> player, index |-> index, damage |-> damage, counts |-> counts]
SetCall(player, index, action, triple, count) ==
  [call |-> "Set", player |-> player, index |-> index, side |-> action.side, base |-> action.base,
   triple |-> triple, count |-> count]

\* The own Retire abilities, as actions of an emo that is no longer there
RetireCalls(player, index, emo) ==
  FlattenSeq([i \in DOMAIN emo.abilities |->
    LET ability == emo.abilities[i]
    IN  IF ability \in OfTrigger("Oneself", "Retire") THEN <<ActCall(player, index, ability.action, <<emo>>)>> ELSE <<>>])

Log(entries) == logs' = logs \o entries

\* The first call is replaced by those it makes
Push(calls) == agenda' = calls \o Tail(agenda)

Step(call) ==
  /\ outcome = "fighting"
  /\ agenda # <<>>
  /\ Head(agenda).call = call

--------------------------------------------------------------------------------

\* get_attack_emo_index: the leftmost of those that attacked and survived least often
AttackIndex(board) ==
  LET least == Min({board[i].count : i \in DOMAIN board})
  IN  Min({i \in DOMAIN board : board[i].count = least}) - 1

\* get_defense_emo_index
DefenseIndexes(board, lowest) ==
  LET weakest    == Min({board[i].attack : i \in DOMAIN board})
      attractive == {i \in DOMAIN board : Has(board[i], Attractive)}
      candidates == IF lowest THEN {i \in DOMAIN board : board[i].attack = weakest}
                    ELSE IF attractive # {} THEN attractive
                    ELSE DOMAIN board
  IN  {i - 1 : i \in candidates}

\* get_remaining_grades_if_finished
OneBoardEmpty == boards[0] = <<>> \/ boards[1] = <<>>

\* sum_grades: what is left on a board
RemainingGrades(board) == FoldLeft(LAMBDA sum, emo : Min({sum + Bases[emo.base].grade, 255}), 0, board)

\* Tick::attack_player_index
AttackPlayer == IF tick % 2 = 0 THEN first ELSE Rival(first)

\* march: nothing is pending and a board is empty
Finish ==
  /\ outcome = "fighting" /\ agenda = <<>> /\ OneBoardEmpty
  /\ outcome' = "finished"
  /\ UNCHANGED <<boards, agenda, tick, first, logs, nextId>>

\* attack: both values are read before either is hit
Attack ==
  /\ outcome = "fighting" /\ agenda = <<>> /\ ~OneBoardEmpty /\ tick < TickMax
  /\ LET player   == AttackPlayer
         attacker == AttackIndex(boards[player])
     IN \E defender \in DefenseIndexes(boards[Rival(player)], Has(EmoAt(player, attacker), LowestAttack)) :
          /\ agenda' = <<DamageCall(Rival(player), defender, EmoAt(player, attacker).attack, FALSE),
                         [call |-> "Counter", player |-> player, index |-> attacker,
                          damage |-> EmoAt(Rival(player), defender).attack]>>
          /\ Log(<<AttackLog(player, attacker, defender)>>)
  /\ tick' = tick + 1
  /\ UNCHANGED <<boards, first, outcome, nextId>>

\* Tick::next, "reached maximum tick"
TickOverflow ==
  /\ outcome = "fighting" /\ agenda = <<>> /\ ~OneBoardEmpty /\ tick = TickMax
  /\ outcome' = "failed"
  /\ UNCHANGED <<boards, agenda, tick, first, logs, nextId>>

\* attack_damage: the defender hits back at where the attacker was
Counter ==
  /\ Step("Counter")
  /\ LET c == Head(agenda)
     IN  Push(IF HasEmoAt(c.player, c.index)
              THEN <<DamageCall(c.player, c.index, c.damage, TRUE)>> ELSE <<>>)
  /\ UNCHANGED <<boards, tick, first, outcome, logs, nextId>>

\* The end of attack_damage, after a hit that the emo at the index survived
Survive ==
  /\ Step("Survive")
  /\ LET c == Head(agenda)
     IN  /\ HasEmoAt(c.player, c.index)
         /\ boards' = [boards EXCEPT ![c.player][c.index + 1].count = @ + 1]
  /\ Push(<<>>)
  /\ UNCHANGED <<tick, first, outcome, logs, nextId>>

--------------------------------------------------------------------------------

\* Mutant: whoever survives a hit is taken for an attacker that was hit back
SurvivorAlways(c) == <<[call |-> "Survive", player |-> c.player, index |-> c.index]>>

\* The end of attack_damage is left to the attacker that survives
Survivor(c) == IF c.counts THEN <<[call |-> "Survive", player |-> c.player, index |-> c.index]>> ELSE <<>>

\* call_shield_removed_ability: what the allies, and the emo itself, do about it
ShieldRemovedCalls(player, board, emo) ==
  LET reacting == Abilities(board, {a \in OfTrigger("Oneself", "AllyBattleAbilityRemoved") : Kind(emo) \in a.kinds})
  IN  [i \in DOMAIN reacting |->
        [ActCall(player, reacting[i].index, reacting[i].ability.action, NotRetired) EXCEPT
           !.except = IF reacting[i].ability.except THEN {emo.base} ELSE {}]]

\* damage_emo: a shield is used up instead
RemoveShield ==
  /\ Step("Damage")
  /\ LET c == Head(agenda)
     IN  /\ HasEmoAt(c.player, c.index)
         /\ Has(EmoAt(c.player, c.index), Shield)
         /\ LET emo   == EmoAt(c.player, c.index)
                at    == SelectInSeq(emo.abilities, LAMBDA a : a = Shield)
                board == [boards[c.player] EXCEPT ![c.index + 1].abilities = RemoveAt(@, at)]
            IN  /\ boards' = [boards EXCEPT ![c.player] = board]
                /\ Log(<<RemoveBattleAbilityLog(c.player, c.index, at - 1, Shield)>>)
                /\ Push(ShieldRemovedCalls(c.player, board, emo) \o Survivor(c))
  /\ UNCHANGED <<tick, first, outcome, nextId>>

\* damage_emo: a hit that is survived, or that does nothing
Wound ==
  /\ Step("Damage")
  /\ LET c == Head(agenda)
     IN  /\ HasEmoAt(c.player, c.index)
         /\ LET emo    == EmoAt(c.player, c.index)
                health == emo.health - c.damage
            IN  /\ ~Has(emo, Shield)
                /\ health > 0 \/ c.damage = 0
                /\ boards' = [boards EXCEPT ![c.player][c.index + 1].health = health]
                /\ Log(IF c.damage = 0 THEN <<>>
                       ELSE <<DamageLog(c.player, c.index, health)>>)
                /\ Push(Survivor(c))
  /\ UNCHANGED <<tick, first, outcome, nextId>>

\* retire_emo
Retire ==
  /\ Step("Damage")
  /\ LET c == Head(agenda)
     IN  /\ HasEmoAt(c.player, c.index)
         /\ LET emo == EmoAt(c.player, c.index)
            IN  /\ ~Has(emo, Shield)
                /\ emo.health <= c.damage /\ c.damage # 0
                /\ boards' = [boards EXCEPT ![c.player] = RemoveAt(@, c.index + 1)]
                /\ Log(<<DamageLog(c.player, c.index, 0), RemoveLog(c.player, c.index)>>)
                /\ Push(RetireCalls(c.player, c.index, emo) \o
                        <<[call |-> "AlliesOfRetired", player |-> c.player, index |-> c.index, emo |-> emo],
                          [call |-> "RivalsOfRetired", player |-> c.player, emo |-> emo]>>)
  /\ UNCHANGED <<tick, first, outcome, nextId>>

\* call_emo_retire_player_abilities, the allies' part: abilities and indexes are
\* collected once, before the first of them is run
AlliesOfRetired ==
  /\ Step("AlliesOfRetired")
  /\ LET c       == Head(agenda)
         Of(as)  == Abilities(boards[c.player], {a \in OfTrigger(as, "AllyRetire") : Kind(c.emo) \in a.kinds})
         allies  == Of("Ally")
         selves  == Of("Oneself")
     IN  Push([i \in DOMAIN allies |->
                 AllyActCall(c.player, allies[i].index, c.index, allies[i].ability.action, <<c.emo>>)] \o
              [i \in DOMAIN selves |->
                 ActCall(c.player, selves[i].index, selves[i].ability.action, NotRetired)])
  /\ UNCHANGED <<boards, tick, first, outcome, logs, nextId>>

\* call_emo_retire_rival_abilities
RivalsOfRetired ==
  /\ Step("RivalsOfRetired")
  /\ LET c      == Head(agenda)
         rivals == Abilities(boards[Rival(c.player)],
                             {a \in OfTrigger("Oneself", "RivalRetire") : Kind(c.emo) \in a.kinds})
     IN  Push([i \in DOMAIN rivals |->
                 ActCall(Rival(c.player), rivals[i].index, rivals[i].ability.action, NotRetired)])
  /\ UNCHANGED <<boards, tick, first, outcome, logs, nextId>>

\* call_pre_abilities, of one player
Pre ==
  /\ Step("Pre")
  /\ LET c     == Head(agenda)
         calls == Abilities(boards[c.player], OfTrigger("Oneself", "Pre"))
     IN  Push([i \in DOMAIN calls |->
                 ActCall(c.player, calls[i].index, calls[i].ability.action, NotRetired)])
  /\ UNCHANGED <<boards, tick, first, outcome, logs, nextId>>

--------------------------------------------------------------------------------

(***************************************************************************)
(* Actions.  Each is run by an emo on the board at `index`, or by a        *)
(* retired one that was there; `triple` doubles it.                        *)
(***************************************************************************)

\* new_emo_index: where a retired emo was, or right of the one that acts
NewIndex(index, retired) == IF retired # NotRetired THEN index ELSE index + 1

\* The others that match, when the emo that acts is on the board itself
OtherIndexes(board, index, retired, kinds) ==
  {i \in 0 .. Len(board) - 1 : (retired # NotRetired \/ i # index) /\ Kind(board[i + 1]) \in kinds}

\* "left emo not found, invalid state"
LeftMissing(board, index, to) == to.at = "Left" /\ index > Len(board)

\* get_matched_emo_indexs_from_board_by_target_or_random, in the order of the board;
\* the order a random choice is shuffled into is only seen in the logs
TargetSets(board, index, retired, to) ==
  LET others == OtherIndexes(board, index, retired, to.kinds)
  IN  CASE to.at = "Oneself" -> {IF retired # NotRetired THEN {} ELSE {index}}
        [] to.at = "Right"   -> {others \cap {NewIndex(index, retired)}}
        [] to.at = "Left"    -> {others \cap {index - 1}}
        [] to.at = "All"     -> {others}
        [] to.at = "Random"  -> kSubset(Min({to.count, Cardinality(others)}), others)

\* An action's logs, one for each target
StatsLogs(log, player, targets, board, attack, health) ==
  LET order == SetToSortSeq(targets, <)
  IN  [i \in DOMAIN order |->
        StatsLog(log, player, order[i], attack, health, board[order[i] + 1])]

\* increase_emo_stats and decrease_emo_stats of the targets
ChangeStats(player, targets, log, attack, health, Changed(_)) ==
  LET board == [i \in DOMAIN boards[player] |->
                  IF i - 1 \in targets THEN Changed(boards[player][i]) ELSE boards[player][i]]
  IN  IF attack = 0 /\ health = 0
      THEN UNCHANGED <<boards, logs>>
      ELSE /\ boards' = [boards EXCEPT ![player] = board]
           /\ Log(StatsLogs(log, player, targets, board, attack, health))

\* increase_stats, saturating
RunIncrease(player, index, retired, triple, to, attack0, health0) ==
  LET attack == DoubleIf(triple, attack0)
      health == DoubleIf(triple, health0)
      Increased(emo) == [emo EXCEPT !.attack = SaturatingU16(@ + attack), !.health = SaturatingU16(@ + health)]
  IN  \E targets \in TargetSets(boards[player], index, retired, to) :
        ChangeStats(player, targets, "IncreaseStats", attack, health, Increased)

\* Mutant: an emo may be weakened to death without retiring
LeastOne0(n) == Max({n, 0})

\* decrease_emo_stats: nobody retires of it
LeastOne(n) == Max({n, 1})

\* decrease_stats
RunDecrease(player, index, retired, triple, to, attack0, health0) ==
  LET attack == DoubleIf(triple, attack0)
      health == DoubleIf(triple, health0)
      Decreased(emo) == [emo EXCEPT !.attack = LeastOne(@ - attack), !.health = LeastOne(@ - health)]
  IN  \E targets \in TargetSets(boards[player], index, retired, to) :
        ChangeStats(player, targets, "DecreaseStats", attack, health, Decreased)

\* increase_stats_by_emo_count: the emo at the index does not count, be it the one
\* that acts or, after its retirement, whoever is there now
CountOf(player, index, action) ==
  LET board == boards[IF action.side = "Ally" THEN player ELSE Rival(player)]
  IN  Cardinality({i \in DOMAIN board :
                     /\ action.side = "Ally" => i - 1 # index
                     /\ Kind(board[i]) \in action.of})

\* add_battle_ability: a special one is not added twice, and a random choice of a
\* triple emo reaches twice as many
RunAddAbility(player, index, retired, triple, to, ability) ==
  LET board    == boards[player]
      Lacking(i) == ~(IsSpecial(ability) /\ Has(board[i + 1], ability))
      lacking  == {i \in OtherIndexes(board, index, retired, to.kinds) : Lacking(i)}
      count    == to.count * (IF triple THEN 2 ELSE 1)
      choices  == IF to.at = "Random" THEN kSubset(Min({count, Cardinality(lacking)}), lacking)
                  ELSE TargetSets(board, index, retired, to)
  IN  \E targets \in choices :
        LET reached == {i \in targets : Lacking(i)}
            order   == SetToSortSeq(reached, <)
        IN  /\ boards' = [boards EXCEPT ![player] =
                            [i \in DOMAIN board |->
                               IF i - 1 \in reached
                               THEN [board[i] EXCEPT !.abilities = Append(@, ability)] ELSE board[i]]]
            /\ Log([i \in DOMAIN order |->
                      AddBattleAbilityLog(player, order[i], ability, board[order[i] + 1].triple)])

\* The emos an action sets, one after the other at the same place
SetCalls(player, emo, index, retired, triple, action) ==
  LET one   == SetCall(player, NewIndex(index, retired), action, triple, emo.count)
      times == IF action.act = "SetEmo" THEN 1 ELSE Min({emo.attack \div action.divisor, BoardMax})
  IN  [i \in 1 .. times |-> one]

\* damage_all_emos: by id, those still there when their turn comes
DamageAllCalls(player, triple, action) ==
  LET target == IF action.side = "Ally" THEN player ELSE Rival(player)
  IN  [i \in DOMAIN boards[target] |->
        [call |-> "DamageId", player |-> target, id |-> boards[target][i].id,
         damage |-> DoubleIf(triple, action.damage)]]

\* call_ability_normal_action
Perform(player, index, action, retired, triple) ==
  LET emo == IF retired # NotRetired THEN retired[1] ELSE EmoAt(player, index)
  IN  CASE action.act \in {"SetEmo", "SetEmosByAttackDiv"} ->
             Push(SetCalls(player, emo, index, retired, triple, action)) /\ UNCHANGED <<boards, logs>>
        [] action.act = "DamageAll" ->
             Push(DamageAllCalls(player, triple, action)) /\ UNCHANGED <<boards, logs>>
        [] action.act = "IncreaseStats" ->
             Push(<<>>) /\ RunIncrease(player, index, retired, triple, action.to, action.attack, action.health)
        [] action.act = "DecreaseStats" ->
             Push(<<>>) /\ RunDecrease(player, index, retired, triple, action.to, action.attack, action.health)
        [] action.act = "ByEmoCount" ->
             LET count == CountOf(player, index, action)
             IN  /\ Push(<<>>)
                 /\ RunIncrease(player, index, retired, triple, action.to,
                                SaturatingU16(action.attack * count), SaturatingU16(action.health * count))
        [] action.act = "AddBattleAbility" ->
             Push(<<>>) /\ RunAddAbility(player, index, retired, triple, action.to, action.ability)

--------------------------------------------------------------------------------

\* The lookups of a call, all made before it changes anything: of the emo that acts,
\* of the emo left of it, and of a place to set an emo at ("invalid emo_index")
Resolvable(c) ==
  LET board == boards[c.player]
      acts  == c.call \in {"Act", "AllyAct"}
  IN  /\ c.call \in {"Damage", "Survive"} \/ (acts /\ c.retired = NotRetired) => HasEmoAt(c.player, c.index)
      /\ c.call = "AllyAct" => HasEmoAt(c.player, c.holder)
      /\ acts /\ "to" \in DOMAIN c.action => ~LeftMissing(board, c.index, c.action.to)
      /\ c.call = "Set" => (c.side = "Ally" /\ Len(board) < BoardMax => c.index <= Len(board))

\* An error of any call is the error of the whole fight
Fail ==
  /\ outcome = "fighting" /\ agenda # <<>>
  /\ ~Resolvable(Head(agenda))
  /\ outcome' = "failed"
  /\ UNCHANGED <<boards, agenda, tick, first, logs, nextId>>

\* call_ability_normal_action_as_oneself, unless it is about emos of other bases only
Act ==
  /\ Step("Act")
  /\ LET c == Head(agenda)
     IN  /\ Resolvable(c)
         /\ IF c.except # {} /\ EmoAt(c.player, c.index).base \in c.except
            THEN Push(<<>>) /\ UNCHANGED <<boards, logs>>
            ELSE Perform(c.player, c.index, c.action, c.retired,
                         IF c.retired # NotRetired THEN c.retired[1].triple
                         ELSE EmoAt(c.player, c.index).triple)
  /\ UNCHANGED <<tick, first, outcome, nextId>>

\* call_ability_general_as_ally_action: an ally acts in the place of the emo at
\* `index`, or runs its Retire actions again, twice if the ally is triple
AllyAct ==
  /\ Step("AllyAct")
  /\ LET c     == Head(agenda)
         emo   == IF c.retired # NotRetired THEN c.retired[1] ELSE EmoAt(c.player, c.index)
         again == [i \in DOMAIN RetireCalls(c.player, c.index, emo) |->
                     [RetireCalls(c.player, c.index, emo)[i] EXCEPT !.retired = c.retired]]
     IN  /\ Resolvable(c)
         /\ IF c.action.act = "TriggerRetireActions"
            THEN /\ Push(FlattenSeq([i \in DOMAIN again |->
                           IF EmoAt(c.player, c.holder).triple THEN <<again[i], again[i]>> ELSE <<again[i]>>]))
                 /\ UNCHANGED <<boards, logs>>
            ELSE Perform(c.player, c.index, c.action, c.retired, EmoAt(c.player, c.holder).triple)
  /\ UNCHANGED <<tick, first, outcome, nextId>>

\* damage_all_emos: the loop's body
DamageId ==
  /\ Step("DamageId")
  /\ LET c  == Head(agenda)
         at == SelectInSeq(boards[c.player], LAMBDA emo : emo.id = c.id)
     IN  Push(IF at = 0 THEN <<>> ELSE <<DamageCall(c.player, at - 1, c.damage, FALSE)>>)
  /\ UNCHANGED <<boards, tick, first, outcome, logs, nextId>>

\* Mutant: a new emo starts to count its attacks at 0
InheritedCountZero(c) == 0

\* set_emo_ally and set_emo_rival: a new emo has its turn when its neighbour has
InheritedCount(c) ==
  LET rivals == boards[Rival(c.player)]
  IN  IF c.side = "Ally" THEN c.count
      ELSE IF rivals = <<>> THEN 0 ELSE Last(rivals).count

\* add_emo: nothing on a full board; otherwise the allies are told
Set ==
  /\ Step("Set")
  /\ LET c      == Head(agenda)
         player == IF c.side = "Ally" THEN c.player ELSE Rival(c.player)
         index  == IF c.side = "Ally" THEN c.index ELSE Len(boards[player])
         emo    == NewEmo(nextId, c.base, c.triple, InheritedCount(c))
         board  == InsertAt(boards[player], index + 1, emo)
         told   == Abilities(board, {a \in OfTrigger("Ally", "AllySet") : Kind(emo) \in a.kinds})
     IN  /\ Resolvable(c)
         /\ IF Len(boards[player]) >= BoardMax
            THEN Push(<<>>) /\ UNCHANGED <<boards, logs>>
            ELSE /\ boards' = [boards EXCEPT ![player] = board]
                 /\ Log(<<AddLog(player, index, emo)>>)
                 /\ Push(FlattenSeq([i \in DOMAIN told |->
                      IF told[i].index = index THEN <<>>
                      ELSE <<AllyActCall(player, told[i].index, index, told[i].ability.action, NotRetired)>>]))
  /\ nextId' = nextId + 1
  /\ UNCHANGED <<tick, first, outcome>>

--------------------------------------------------------------------------------

\* get_first_attack_player_index: the longer board, or any of two of one length
FirstPlayers(pair) ==
  IF Len(pair[1]) > Len(pair[2]) THEN {0} ELSE IF Len(pair[1]) < Len(pair[2]) THEN {1} ELSE {0, 1}

MarchInit ==
  \E pair \in Matchups : \E player \in FirstPlayers(pair) :
    /\ boards = [p \in {0, 1} |-> BattleEmos(pair[p + 1], BoardMax * p)]
    /\ agenda = <<[call |-> "Pre", player |-> player], [call |-> "Pre", player |-> Rival(player)]>>
    /\ first = player
    /\ tick = 0 /\ outcome = "fighting" /\ logs = <<>> /\ nextId = 2 * BoardMax + 1

MarchNext ==
  \/ Finish \/ Attack \/ TickOverflow \/ Fail
  \/ Pre \/ Counter \/ Survive \/ RemoveShield \/ Wound \/ Retire
  \/ AlliesOfRetired \/ RivalsOfRetired \/ Act \/ AllyAct \/ DamageId \/ Set

MarchSpec == MarchInit /\ [][MarchNext]_vars

--------------------------------------------------------------------------------

\* The types of a fight: whoever is on a board has attack and health left, also after
\* decrease_emo_stats, and no two emos have one id
TypeOK ==
  /\ outcome \in {"fighting", "finished", "failed"}
  /\ tick \in 0 .. TickMax
  /\ \A p \in {0, 1} :
       /\ Len(boards[p]) <= BoardMax
       /\ \A i \in DOMAIN boards[p] :
            /\ boards[p][i].base \in DOMAIN Bases
            /\ boards[p][i].attack \in 1 .. StatMax /\ boards[p][i].health \in 1 .. StatMax
            /\ boards[p][i].abilities \in Seq(Learnable)
            /\ \A j \in DOMAIN boards[p] : boards[p][i].id = boards[p][j].id => i = j

\* The attacks of a player so far
AttacksOf(player) == (IF player = first THEN tick + 1 ELSE tick) \div 2

\* attack_and_survived_count is a u8 that is counted up without a check: nobody, set by
\* others or not, has attacked and survived more often than its player has had an attack,
\* and those are at most 128
CountsFit == \A p \in {0, 1} : \A i \in DOMAIN boards[p] : boards[p][i].count <= AttacksOf(p)

\* Emos take turns (get_attack_emo_index), from the left: between two attacks nobody has
\* attacked and survived more often than an emo right of it by more than one, or less often
TakesTurns ==
  agenda = <<>> =>
    \A p \in {0, 1} : \A i, j \in DOMAIN boards[p] :
      i < j => boards[p][i].count - boards[p][j].count \in {0, 1}

\* No fight fails: every index an ability was given is still good when it is used, and
\* `ensure!(len >= emo_index, "invalid emo_index")` of add_emo holds
FightNeverFails == outcome # "failed"

================================================================================
