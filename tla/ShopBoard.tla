------------------------------- MODULE ShopBoard -------------------------------
(***************************************************************************)
(* The board of the shop phase: common/rs/src/mtc/shop/board.rs, which the *)
(* verifier and, compiled to Wasm, the client both run.                    *)
(*                                                                         *)
(* Setting an emo calls its own abilities, then those of its allies, then  *)
(* merges three alike into a triple.  An ability may set another emo, for  *)
(* which all of this happens again in the middle of the first call, so an  *)
(* emo is held on to by an id; whoever is merged away meanwhile is no      *)
(* longer found under its id, and the whole operation fails.               *)
(*                                                                         *)
(* An emo is [id, base, triple, attack, health, abilities, ids], where     *)
(* `ids` are the pool emos it is made of.  Every change is also logged,    *)
(* for the client to show it; the indexes of the logs count from 0.        *)
(***************************************************************************)
EXTENDS EmoAbility, Sequences, SequencesExt, FiniteSets

EMO_TRIPLE_REWARD_COIN == 5
EMO_SELL_COIN          == 1

\* The state of one operation: the emos on the board, the next fresh id, the coins
\* gotten so far, the logs, and whether every lookup so far has succeeded
Op(emos) ==
  [emos |-> [i \in DOMAIN emos |-> [id |-> i] @@ emos[i]],
   next |-> Len(emos) + 1, coin |-> 0, logs |-> <<>>, ok |-> TRUE]

Fail(op) == [op EXCEPT !.ok = FALSE]

\* into_board_emo: an emo without the id of its operation
BoardEmo(emo) == [field \in DOMAIN emo \ {"id"} |-> emo[field]]

\* What an operation leaves on the board
Emos(op) == [i \in DOMAIN op.emos |-> BoardEmo(op.emos[i])]

\* u8::saturating_add
SaturatingU8(coin) == IF coin > 255 THEN 255 ELSE coin

Gain(op, coin) == [op EXCEPT !.coin = SaturatingU8(@ + coin)]

\* mtc::shop::BoardLog
AddLog(index, emo)           == [log |-> "Add", index |-> index, emo |-> emo]
RemoveLog(index)             == [log |-> "Remove", index |-> index]
MoveLog(from, to)            == [log |-> "Move", from |-> from, to |-> to]
TripleLog(removed)           == [log |-> "Triple", removed |-> removed]
AddAbilityLog(index, ability, triple) ==
  [log |-> "AddAbility", index |-> index, ability |-> ability, triple |-> triple]
IncreaseStatsLog(index, attack, health, emo) ==
  [log |-> "IncreaseStats", index |-> index, attack |-> attack, health |-> health,
   calculated |-> [attack |-> emo.attack, health |-> emo.health]]

Log(op, entry) == [op EXCEPT !.logs = Append(@, entry)]

\* Mutant: a comparison off by one
HasRoomForOneMore(op) == Len(op.emos) <= BoardMax

HasRoom(op) == Len(op.emos) < BoardMax

\* get_emo_index_by_id, from 1; 0 is an error
IndexOf(op, id) == SelectInSeq(op.emos, LAMBDA e : e.id = id)

\* The abilities of a trigger, in the order of the emo
Triggered(emo, trigger) ==
  SelectSeq(emo.abilities, LAMBDA a : a.phase = "Shop" /\ a.trigger = trigger)

--------------------------------------------------------------------------------

(***************************************************************************)
(* An emo that acts, EmoPointer: on the board, or removed from before some *)
(* index                                                                   *)
(***************************************************************************)
OnBoard(id)         == [id |-> id, removed |-> FALSE]
Removed(emo, index) == [id |-> emo.id, removed |-> TRUE, emo |-> emo, index |-> index]

IsLost(op, pointer) == ~pointer.removed /\ IndexOf(op, pointer.id) = 0

\* EmoPointer::get_emo
EmoOf(op, pointer) == IF pointer.removed THEN pointer.emo ELSE op.emos[IndexOf(op, pointer.id)]

\* The places next to it, from 1: get_left_emo_id, get_right_emo_id
RightOf(op, pointer) == (IF pointer.removed THEN pointer.index ELSE IndexOf(op, pointer.id)) + 1
LeftOf(op, pointer)  == IF pointer.removed THEN pointer.index ELSE IndexOf(op, pointer.id) - 1

\* get_emo_ids_by_target: the places of those an action is about
Targets(op, pointer, to) ==
  LET others == {i \in DOMAIN op.emos : op.emos[i].id # pointer.id /\ Kind(op.emos[i]) \in to.kinds}
  IN  CASE to.at = "Oneself" -> IF pointer.removed THEN {} ELSE {IndexOf(op, pointer.id)}
        [] to.at = "Right"   -> others \cap {RightOf(op, pointer)}
        [] to.at = "Left"    -> others \cap {LeftOf(op, pointer)}
        [] to.at = "All"     -> others

\* The lookups on the way there that fail: of the emo that acts, for all but "All", and
\* of a left neighbour that should be there
TargetsFail(op, pointer, to) ==
  \/ to.at # "All" /\ IsLost(op, pointer)
  \/ to.at = "Left" /\ LeftOf(op, pointer) > Len(op.emos)

InOrder(places) == SetToSortSeq(places, <)

\* add_attack_and_health_to_emos
Strengthen(op, places, attack, health) ==
  LET One(o, i) ==
        LET emo == [o.emos[i] EXCEPT !.attack = SaturatingU16(@ + attack), !.health = SaturatingU16(@ + health)]
        IN  Log([o EXCEPT !.emos[i] = emo], IncreaseStatsLog(i - 1, attack, health, emo))
  IN  FoldLeft(One, op, places)

\* add_ability: a special one is not added twice
GiveAbility(op, places, ability) ==
  LET One(o, i) ==
        IF IsSpecial(ability) /\ ability \in Range(o.emos[i].abilities) THEN o
        ELSE Log([o EXCEPT !.emos[i].abilities = Append(@, ability)],
                 AddAbilityLog(i - 1, ability, o.emos[i].triple))
  IN  FoldLeft(One, op, places)

\* increase_stats_of_adjacent_menagerie: both neighbours, or the left one of two of a typ
Menagerie(op, pointer) ==
  LET left  == {LeftOf(op, pointer)} \cap DOMAIN op.emos
      right == {RightOf(op, pointer)} \cap DOMAIN op.emos
      Typ(i) == Bases[op.emos[i].base].typ
  IN  left \union {i \in right : \A j \in left : Typ(i) # Typ(j)}

\* shuffle: how a generator seeded with `seed` orders n emos
Shuffled(seed, n) == SelectSeq(seed, LAMBDA i : i <= n)

\* increase_stats_of_menagerie: the first others of each typ, until there are enough
RandomMenagerie(op, id, count, seed) ==
  LET Typ(i) == Bases[op.emos[i].base].typ
      Choose(chosen, i) ==
        IF \/ op.emos[i].id = id
           \/ Len(chosen) >= count
           \/ \E k \in DOMAIN chosen : Typ(chosen[k]) = Typ(i)
        THEN chosen ELSE Append(chosen, i)
  IN  FoldLeft(Choose, <<>>, Shuffled(seed, Len(op.emos)))

--------------------------------------------------------------------------------

RECURSIVE AddEmo(_, _, _, _)

\* set_emo: right of the emo that acts, or where it was, if there is room
RunSetEmo(op, base, pointer, triple) ==
  IF ~HasRoom(op) THEN op
  ELSE IF IsLost(op, pointer) THEN Fail(op)
  ELSE AddEmo(op, Attributes(base, triple), <<>>, RightOf(op, pointer) - 1)

\* count_emos_by_typ_and_triple: of the others on the board
CountOf(op, of, pointer) ==
  Cardinality({i \in DOMAIN op.emos : op.emos[i].id # pointer.id /\ Kind(op.emos[i]) \in of})

\* What the targets of an action get: increase_stats, increase_stats_by_grade and
\* increase_stats_by_emo_count
Raise(op, action, pointer, triple, stat) ==
  LET raise == DoubleIf(triple, stat)
  IN  CASE action.act = "ByGrade"    -> SaturatingU16(raise * Bases[EmoOf(op, pointer).base].grade)
        [] action.act = "ByEmoCount" -> SaturatingU16(raise * CountOf(op, action.of, pointer))
        [] OTHER                     -> raise

RunStats(op, action, pointer, triple) ==
  LET Raised(stat) == Raise(op, action, pointer, triple, stat)
  IN  IF TargetsFail(op, pointer, action.to) \/ (action.act = "ByGrade" /\ IsLost(op, pointer)) THEN Fail(op)
      ELSE Strengthen(op, InOrder(Targets(op, pointer, action.to)), Raised(action.attack), Raised(action.health))

RunMenagerie(op, action, pointer, triple) ==
  IF IsLost(op, pointer) \/ LeftOf(op, pointer) > Len(op.emos) THEN Fail(op)
  ELSE Strengthen(op, InOrder(Menagerie(op, pointer)),
                  DoubleIf(triple, action.attack), DoubleIf(triple, action.health))

RunAddAbility(op, action, pointer) ==
  IF TargetsFail(op, pointer, action.to) THEN Fail(op)
  ELSE GiveAbility(op, InOrder(Targets(op, pointer, action.to)), action.ability)

\* get_coin, get_coin_by_emo_count_div
RunCoin(op, action, pointer, triple) ==
  LET coin == IF action.act = "GetCoin" THEN action.coin ELSE CountOf(op, action.of, pointer) \div action.divisor
  IN  Gain(op, IF triple THEN 2 * coin ELSE coin)

\* call_ability_action
RunAction(op, action, pointer, triple) ==
  CASE ~op.ok -> op
    [] op.ok /\ action.act = "SetEmo" -> RunSetEmo(op, action.base, pointer, triple)
    [] op.ok /\ action.act \in {"IncreaseStats", "ByGrade", "ByEmoCount"} -> RunStats(op, action, pointer, triple)
    [] op.ok /\ action.act = "OfAdjacentMenagerie" -> RunMenagerie(op, action, pointer, triple)
    [] op.ok /\ action.act = "AddAbility" -> RunAddAbility(op, action, pointer)
    [] op.ok /\ action.act \in {"GetCoin", "GetCoinByCount"} -> RunCoin(op, action, pointer, triple)

\* call_ability_action_as_oneself
RunAsOneself(op, action, pointer) ==
  IF ~op.ok THEN op
  ELSE IF IsLost(op, pointer) THEN Fail(op)
  ELSE RunAction(op, action, pointer, EmoOf(op, pointer).triple)

\* Mutant: once for a triple, too
RepeatOnce(calls, triple) == calls

\* The Set abilities that are run again, twice each for a triple ally
Repeated(calls, triple) ==
  IF triple THEN FlattenSeq([i \in DOMAIN calls |-> <<calls[i], calls[i]>>]) ELSE calls

\* trigger_set_actions of an emo
RunSetActions(op, pointer, allyTriple) ==
  LET emo == EmoOf(op, pointer)
  IN  IF IsLost(op, pointer) THEN Fail(op)
      ELSE FoldLeft(LAMBDA o, a : RunAction(o, a.action, pointer, emo.triple),
                    op, Repeated(Triggered(emo, "Set"), allyTriple))

\* call_ability_action_as_ally, and the call for AsOneself beside it: what an ally does
\* about an emo that was set
RunAllySet(op, ally, ability, id) ==
  LET index == IndexOf(op, ally)
  IN  IF ~op.ok THEN op
      ELSE IF index = 0 THEN Fail(op)
      ELSE IF ability.action.act = "TriggerSetActions"
           THEN RunSetActions(op, OnBoard(id), op.emos[index].triple)
      ELSE RunAction(op, ability.action, OnBoard(IF ability.as = "Ally" THEN id ELSE ally),
                     op.emos[index].triple)

\* The allies' part of call_emo_addition_abilities: all is collected before any is run
RunAlliesOf(op, emo) ==
  LET allies == SelectSeq(op.emos, LAMBDA e : e.id # emo.id)
      calls  == FlattenSeq([i \in DOMAIN allies |->
                  LET abilities == SelectSeq(Triggered(allies[i], "AllySet"), LAMBDA a : Kind(emo) \in a.kinds)
                  IN  [j \in DOMAIN abilities |-> [ally |-> allies[i].id, ability |-> abilities[j]]]])
  IN  FoldLeft(LAMBDA o, c : RunAllySet(o, c.ally, c.ability, emo.id), op, calls)

\* call_emo_addition_abilities
RunAddition(op, emo) ==
  RunAlliesOf(FoldLeft(LAMBDA o, a : RunAsOneself(o, a.action, OnBoard(emo.id)), op, Triggered(emo, "Set")), emo)

--------------------------------------------------------------------------------

\* Mutant: the place of a triple is not moved by the emos removed from before it
TripleIndexUnmoved(index, alike) == index - 1

\* The place of a triple: that of its last emo, less the emos removed from before it
TripleIndex(index, alike) == index - 1 - Cardinality({i \in alike : i < index})

\* Mutant: a triple keeps the pool emos of its first emo only
MergedIdsOfFirst(sources) == sources[1].ids

\* build_triple_emo: the pool emos of a triple
MergedIds(sources) == FlattenSeq([i \in DOMAIN sources |-> sources[i].ids])

\* build_triple_emo_nums: the doubled base and what each of them had gained.  The sum is
\* not saturating: in the build of the front, which does not check for overflow, it wraps.
MergedStat(base, gained) ==
  SaturatingU16(DoubleIf(TRUE, base) + (FoldLeft(+, 0, gained) % (StatMax + 1)))

\* build_triple_abilities: those of the base, and those each of them was given
MergedAbilities(base, sources) ==
  base \o FlattenSeq([i \in DOMAIN sources |-> SelectSeq(sources[i].abilities, LAMBDA a : a \notin Range(base))])

Merged(base, sources) ==
  LET Gained(stat) == [i \in DOMAIN sources |-> Max({sources[i][stat] - Bases[base][stat], 0})]
  IN  [base |-> base, triple |-> TRUE,
       attack |-> MergedStat(Bases[base].attack, Gained("attack")),
       health |-> MergedStat(Bases[base].health, Gained("health")),
       abilities |-> MergedAbilities(Bases[base].abilities, sources)]

\* Mutant: only more than three merge
IsTripleOfFour(alike) == Cardinality(alike) > 3

IsTriple(alike) == Cardinality(alike) >= 3

\* process_triple, build_triple_emo: all emos alike, if they are three, become one
ProcessTriple(op, id) ==
  LET index   == IndexOf(op, id)
      base    == op.emos[index].base
      alike   == {i \in DOMAIN op.emos : op.emos[i].base = base /\ ~op.emos[i].triple}
      places  == InOrder(alike)
      At(is)  == [k \in DOMAIN is |-> op.emos[is[k]]]
      sources == At(places)
      rest    == [op EXCEPT !.emos = At(InOrder(DOMAIN op.emos \ alike))]
      logged  == Log(rest, TripleLog([k \in DOMAIN places |-> places[k] - 1]))
  IN  IF ~op.ok THEN op
      ELSE IF index = 0 THEN Fail(op)
      ELSE IF ~IsTriple(alike) THEN op
      ELSE Gain(AddEmo(logged, Merged(base, sources), MergedIds(sources), TripleIndex(index, alike)),
                EMO_TRIPLE_REWARD_COIN)

\* The `ensure!`s of add_emo_with_board_emo
Addable(op, index) == HasRoom(op) /\ index <= Len(op.emos)

\* add_emo_with_board_emo
AddEmo(op, attributes, ids, index) ==
  LET emo   == [id |-> op.next, ids |-> ids] @@ attributes
      added == [op EXCEPT !.emos = InsertAt(@, index + 1, emo), !.next = @ + 1,
                          !.logs = Append(@, AddLog(index, BoardEmo(emo)))]
      done  == RunAddition(added, emo)
  IN  IF ~op.ok THEN op
      ELSE IF ~Addable(op, index) THEN Fail(op)
      ELSE IF emo.triple THEN done
      ELSE ProcessTriple(done, emo.id)

\* add_emo, of a pool emo
SetPoolEmo(op, base, ids, index) == AddEmo(op, Attributes(base, FALSE), ids, index)

\* sell_emo
SellEmo(op, index) ==
  LET sold == op.emos[index + 1]
      left == Gain(Log([op EXCEPT !.emos = RemoveAt(@, index + 1)], RemoveLog(index)),
                   EMO_SELL_COIN)
  IN  IF ~(index < Len(op.emos)) THEN Fail(op)
      ELSE FoldLeft(LAMBDA o, a : RunAsOneself(o, a.action, Removed(sold, index)),
                    left, Triggered(sold, "Sell"))

\* call_pre_ability
RunPre(op, action, id, seed) ==
  LET emo == op.emos[IndexOf(op, id)]
  IN  IF action.act # "OfMenagerie" THEN RunAsOneself(op, action, OnBoard(id))
      ELSE IF ~op.ok THEN op
      ELSE IF IndexOf(op, id) = 0 THEN Fail(op)
      ELSE Strengthen(op, RandomMenagerie(op, id, action.count, seed),
                      DoubleIf(emo.triple, action.attack), DoubleIf(emo.triple, action.health))

\* start_shop: the Pre abilities of the board as it was
StartShop(op, seed) ==
  LET calls == FlattenSeq([i \in DOMAIN op.emos |->
                 LET abilities == Triggered(op.emos[i], "Pre")
                 IN  [j \in DOMAIN abilities |-> [id |-> op.emos[i].id, action |-> abilities[j].action]]])
  IN  FoldLeft(LAMBDA o, c : RunPre(o, c.action, c.id, seed), op, calls)

\* move_emo: a swap with a neighbour
MoveEmo(op, index, isRight) ==
  LET to == IF isRight THEN index + 1 ELSE index - 1
  IN  IF ~(index < Len(op.emos) /\ to \in 0 .. Len(op.emos) - 1) THEN Fail(op)
      ELSE Log([op EXCEPT !.emos[index + 1] = op.emos[to + 1], !.emos[to + 1] = op.emos[index + 1]],
               MoveLog(index, to))

\* The types of a board; what the storage keeps of its emos
IsBoard(emos, poolIds) ==
  /\ Len(emos) <= BoardMax
  /\ \A i \in DOMAIN emos :
       /\ emos[i].base \in DOMAIN Bases /\ emos[i].ids \in Seq(poolIds) /\ emos[i].triple \in BOOLEAN
       /\ emos[i].attack \in 0 .. StatMax /\ emos[i].health \in 0 .. StatMax

================================================================================
