------------------------------ MODULE BattleReplay -----------------------------
(***************************************************************************)
(* The client shows a fight by playing its logs on two lines of page       *)
(* elements: front/src/components/common/MtcBattleBoards with the element  *)
(* functions of front/src/misc.                                            *)
(*                                                                         *)
(* A play is an async function.  Every log is played in two steps: what    *)
(* runs before its first await, where elements are looked up by index or   *)
(* inserted, and what runs after the animation, where the elements that    *)
(* were found are written to or removed.  The Replay button starts a play  *)
(* whether or not another one is still under way.                          *)
(***************************************************************************)
EXTENDS BattleMarch, EmoElement

CONSTANTS
  PlayMax,   \* how often a fight is played
  OverlapMax \* a play overlaps another one in fights with at most that many logs

VARIABLES
  initial, \* the boards the plays start from
  shown,   \* player -> the elements on its line
  plays    \* the plays so far

replayVars == <<shown, plays>>

--------------------------------------------------------------------------------

\* The elements a play makes are told apart by the play and what they are made for: an
\* emo of a board, or a log
BoardKey(play, player, index) == <<play, player, index>>
LogKey(play, at)              == <<play, 2, at>>

\* createEmoWithBoardEmo
Keyed(key, emo) == [key |-> key] @@ Element(emo)

Elements(board, play, player) == [i \in DOMAIN board |-> Keyed(BoardKey(play, player, i), board[i])]

\* Element functions find an element anywhere, also when it has left the page
Write(lines, keys, Written(_)) ==
  [p \in {0, 1} |-> [i \in DOMAIN lines[p] |->
     IF lines[p][i].key \in keys THEN Written(lines[p][i]) ELSE lines[p][i]]]

Detach(lines, keys) == [p \in {0, 1} |-> SelectSeq(lines[p], LAMBDA e : e.key \notin keys)]

KeyOf(lines, player, index) == lines[player][index + 1].key

--------------------------------------------------------------------------------

(***************************************************************************)
(* A play is [at, held, status, alone]: the log played next, the elements  *)
(* held over an await, each with its log, and whether it is "playing",     *)
(* "waiting" for an animation, "done" or has "thrown".  `alone` says that  *)
(* no other play ran while it did.                                         *)
(***************************************************************************)

Running(play) == play.status \in {"playing", "waiting"}

\* updateStatsBatch: may the next log be played together with this one?
SameChange(a, b) ==
  a.log = b.log /\ a.player = b.player /\ a.attack = b.attack /\ a.health = b.health

IsStatsLog(l) == l.log \in {"IncreaseStats", "DecreaseStats"}

\* The last log of the batch that begins at a log: a run of the same change, of
\* different emos
BatchEnd(at) ==
  LET Batch(to) == \A i, j \in at .. to : i < j => SameChange(logs[i], logs[j]) /\ logs[i].index # logs[j].index
  IN  IF IsStatsLog(logs[at]) THEN Max({to \in at .. Len(logs) : Batch(to)}) ELSE at

\* Mutant: the defender is looked for on the attacker's line
LookupsOnOneLine(l) ==
  CASE l.log = "Attack" -> {<<l.player, l.index>>, <<l.player, l.defender>>}
    [] l.log = "Add"    -> {}
    [] OTHER            -> {<<l.player, l.index>>}

\* The elements that a log looks up
Lookups(l) ==
  CASE l.log = "Attack" -> {<<l.player, l.index>>, <<Rival(l.player), l.defender>>}
    [] l.log = "Add"    -> {}
    [] OTHER            -> {<<l.player, l.index>>}

\* Mutant: the row of the ability's place among the battle abilities
HideFirstRow(element, l) ==
  [element EXCEPT !.rows = Tail(@), !.icons = @ \ IconOf(l.ability)]

\* removeInfoAbility and removeSpecial
HideAbility(element, l) ==
  [element EXCEPT !.rows = RemoveAt(@, l.abilityIndex + 1), !.icons = @ \ IconOf(l.ability)]

\* Whether every element of a log is there, and the row that it removes
IsPlayable(lines, l) ==
  /\ \A look \in Lookups(l) : HasChild(lines[look[1]], look[2])
  /\ l.log = "RemoveBattleAbility" => l.abilityIndex < Len(lines[l.player][l.index + 1].rows)

\* What a log does to the lines before its first await
BeginLog(lines, l, key) ==
  CASE l.log = "Add" ->
         [lines EXCEPT ![l.player] = InsertElement(@, l.index, Keyed(key, l.emo))]
    [] l.log = "AddBattleAbility" ->
         Write(lines, {KeyOf(lines, l.player, l.index)}, LAMBDA e : WithAbility(e, l.ability, l.triple))
    [] l.log = "RemoveBattleAbility" ->
         Write(lines, {KeyOf(lines, l.player, l.index)}, LAMBDA e : HideAbility(e, l))
    [] OTHER -> lines

\* What it does after its animation, to the element it found
EndLog(lines, held) ==
  LET l == held.log
  IN  CASE l.log = "Damage"  -> Write(lines, {held.key}, LAMBDA e : [e EXCEPT !.health = l.health])
        [] l.log = "Remove"  -> Detach(lines, {held.key})
        [] IsStatsLog(l)     -> Write(lines, {held.key}, LAMBDA e : WithStats(e, l))
        [] OTHER             -> lines

--------------------------------------------------------------------------------

\* setupBoards
SetupBoards(play) == [p \in {0, 1} |-> Elements(initial[p], play, p)]

\* play, from the effect that runs when the page is mounted or from the Replay button
Play ==
  /\ outcome = "finished" \* marchPvg throws if the fight failed
  /\ Len(plays) < PlayMax
  /\ Len(logs) <= OverlapMax \/ \A i \in DOMAIN plays : ~Running(plays[i])
  /\ shown' = SetupBoards(Len(plays) + 1)
  /\ LET others == {i \in DOMAIN plays : Running(plays[i])}
     IN  plays' = Append([i \in DOMAIN plays |-> IF i \in others THEN [plays[i] EXCEPT !.alone = FALSE] ELSE plays[i]],
                         [at |-> 1, held |-> <<>>, status |-> "playing", alone |-> others = {}])
  /\ UNCHANGED <<vars, initial>>

\* animate: the part of a log, or of a batch of them, before the await
Begin(i) ==
  /\ plays[i].status = "playing" /\ plays[i].at <= Len(logs)
  /\ LET at    == plays[i].at
         end   == BatchEnd(at)
         found == \A k \in at .. end : IsPlayable(shown, logs[k])
     IN  IF found
         THEN /\ shown' = BeginLog(shown, logs[at], LogKey(i, at))
              /\ plays' = [plays EXCEPT ![i].status = "waiting", ![i].at = end + 1,
                             ![i].held = [k \in 1 .. end - at + 1 |->
                               LET l == logs[at + k - 1]
                               IN  [log |-> l, key |-> IF l.log = "Add" THEN LogKey(i, at)
                                                       ELSE KeyOf(shown, l.player, l.index)]]]
         ELSE plays' = [plays EXCEPT ![i].status = "thrown"] /\ UNCHANGED shown
  /\ UNCHANGED <<vars, initial>>

\* The part after it
End(i) ==
  /\ plays[i].status = "waiting"
  /\ shown' = FoldLeft(EndLog, shown, plays[i].held)
  /\ plays' = [plays EXCEPT ![i].status = "playing", ![i].held = <<>>]
  /\ UNCHANGED <<vars, initial>>

\* The last log is played
Done(i) ==
  /\ plays[i].status = "playing" /\ plays[i].at > Len(logs)
  /\ plays' = [plays EXCEPT ![i].status = "done"]
  /\ UNCHANGED <<vars, initial, shown>>

ReplayInit ==
  /\ MarchInit
  /\ initial = boards
  /\ shown = [p \in {0, 1} |-> <<>>] /\ plays = <<>>

ReplayNext ==
  \/ MarchNext /\ UNCHANGED <<replayVars, initial>>
  \/ Play
  \/ \E i \in DOMAIN plays : Begin(i)
  \/ \E i \in DOMAIN plays : End(i)
  \/ \E i \in DOMAIN plays : Done(i)

ReplaySpec == ReplayInit /\ [][ReplayNext]_<<vars, replayVars, initial>>

--------------------------------------------------------------------------------

\* An emo that damages a whole board when it retires
Sweeps(emo) == \E i \in DOMAIN emo.abilities : ~IsSpecial(emo.abilities[i]) /\ emo.abilities[i].action.act = "DamageAll"

\* While nobody sweeps a board, so that no emo left of the attacker is gone when it is hit
\* back, emos take turns: whoever was set in between, it counts as its neighbour does
TurnsKept == (\A p \in {0, 1} : \A i \in DOMAIN initial[p] : ~Sweeps(initial[p][i])) => TakesTurns

\* Whether one of the boards brought such an emo with one special ability twice, as
\* merging leaves it: its icon is hidden with the first of them
BroughtTwice(p, kind) ==
  \E i \in DOMAIN initial[p] :
    Kind(initial[p][i]) = kind /\ ~IsInjective(SelectSeq(initial[p][i].abilities, IsSpecial))

Shows(element, emo, p) ==
  LET expected == Element(emo)
  IN  /\ \A field \in DOMAIN expected \ {"icons"} : element[field] = expected[field]
      /\ element.icons = expected.icons \/ BroughtTwice(p, Kind(emo))

\* A play that no other play ran into leaves on the page the boards the fight left:
\* the same emos in the same order, with their stats, the texts of their abilities and icons
ShownAsFought ==
  \A i \in DOMAIN plays :
    i = Len(plays) /\ plays[i].alone /\ plays[i].status = "done" =>
      \A p \in {0, 1} :
        /\ Len(shown[p]) = Len(boards[p])
        /\ \A k \in DOMAIN boards[p] : Shows(shown[p][k], boards[p][k], p)

\* The lookups of such a play never miss an element: the logs' indexes are those of the
\* moment each log is shown in
AlonePlayGoesThrough == \A i \in DOMAIN plays : plays[i].alone => plays[i].status # "thrown"

--------------------------------------------------------------------------------

\* The actions an emo, or an ally of it, is about to run, and what the page says of them
\* on the row of the emo that has the ability
IsActing == outcome = "fighting" /\ agenda # <<>> /\ Head(agenda).call \in {"Act", "AllyAct"}
IsExcepted(c) == c.call = "Act" /\ c.except # {} /\ EmoAt(c.player, c.index).base \in c.except

SaidOf(c) ==
  LET actor == IF c.call = "AllyAct" THEN EmoAt(c.player, c.holder)
               ELSE IF c.retired # NotRetired THEN c.retired[1] ELSE EmoAt(c.player, c.index)
  IN  IF c.call = "AllyAct" THEN BattleActionAsAlly(c.action, actor.triple) ELSE BattleAction(c.action, actor.triple)

PlayerOf(side, player) == IF side = "Ally" THEN player ELSE Rival(player)

\* Whom a text gives something, when the emo at an index acts
IsGiven(whom, player, index, log) ==
  /\ log.player = player
  /\ whom.give = "Gain" => log.index = index
  /\ whom.give = "Left" => log.index = index - 1
  /\ whom.give # "Gain" => Kind(EmoAt(player, log.index)) \in whom.of.emos

\* What has been logged and is about to be called is what the text says: these stats,
\* for each of those emos; this ability for so many; this damage; this emo, so often
IsTrue(text, c, logged, called) ==
  LET each == IF "each" \in DOMAIN text
              THEN LET of == PlayerOf(text.side, c.player)
                   IN  Cardinality({i \in DOMAIN boards[of] :
                         (of = c.player => i - 1 # c.index) /\ Kind(boards[of][i]) \in text.each.emos})
              ELSE 1
  IN  CASE text.does = "Give" ->
             \A i \in DOMAIN logged :
               /\ logged[i].log = text.stats.sign
               /\ logged[i].attack = each * text.stats.attack /\ logged[i].health = each * text.stats.health
               /\ IsGiven(text.whom, c.player, c.index, logged[i])
        [] text.does = "Teach" ->
             /\ text.whom.give = "Random" => Len(logged) <= text.whom.count
             /\ \A i \in DOMAIN logged :
                  logged[i].ability = text.ability /\ IsGiven(text.whom, c.player, c.index, logged[i])
        [] text.does = "Damage" ->
             /\ Len(called) = Len(boards[PlayerOf(text.side, c.player)])
             /\ \A i \in DOMAIN called :
                  called[i].player = PlayerOf(text.side, c.player) /\ called[i].damage = text.damage
        [] text.does = "Set" ->
             \A i \in DOMAIN called :
               [base |-> called[i].base, triple |-> called[i].triple] = text.emo /\ called[i].side = text.side
        [] text.does = "Trigger" ->
             LET emo == IF c.retired # NotRetired THEN c.retired[1] ELSE EmoAt(c.player, c.index)
             IN  Len(called) = (text.times - 1) * Len(RetireCalls(c.player, c.index, emo))
        [] OTHER -> FALSE

\* Whatever an ability does in a fight is what its text on the page has announced,
\* doubled for a triple emo or not: the texts are written apart from the code that runs
\* the abilities
TextsComeTrue ==
  [][IsActing /\ outcome' # "failed" /\ ~IsExcepted(Head(agenda)) /\ agenda' # agenda =>
       LET c == Head(agenda)
       IN  IsTrue(SaidOf(c), c, SubSeq(logs', Len(logs) + 1, Len(logs')),
                  SubSeq(agenda', 1, Len(agenda') - Len(agenda) + 1))]_<<vars, replayVars, initial>>

================================================================================
