------------------------------- MODULE ShopReplay -------------------------------
(***************************************************************************)
(* The client shows an operation on the shop board by playing its logs on  *)
(* the line of page elements: front/src/components/common/MtcShopBoard.    *)
(*                                                                         *)
(* The buttons are disabled from an operation's start to the end of its    *)
(* last animation, and every log is awaited, so nothing comes between the  *)
(* logs and a play is a function of the line.  The line is set up once, by *)
(* the operation that a turn begins with; the board is never shown again   *)
(* from its data, so what an operation shows wrongly stays wrong.          *)
(***************************************************************************)
EXTENDS ShopBoard, EmoElement

\* setupEmoLineEmosElement
Line(board) == [i \in DOMAIN board |-> Element(board[i])]

\* A play: the line so far, and whether every element was there
Playing(line) == [line |-> line, ok |-> TRUE]
Thrown(play)  == [play EXCEPT !.ok = FALSE]

\* add
ShowAdd(line, l) == InsertElement(line, l.index, Element(l.emo))

\* remove
ShowRemove(line, l) == RemoveAt(line, l.index + 1)

\* move: the one on the right is put before the one on the left
ShowMove(line, l) ==
  LET right == Max({l.from, l.to})
      left  == Min({l.from, l.to})
  IN  InsertAt(RemoveAt(line, right + 1), left + 1, line[right + 1])

\* increaseStats
ShowStats(line, l) == [line EXCEPT ![l.index + 1] = WithStats(@, l)]

\* addAbility
ShowAbility(line, l) == [line EXCEPT ![l.index + 1] = WithAbility(@, l.ability, l.triple)]

\* Mutant: each is removed before the next one is looked up
RemovedInTurn(line, l) == FoldLeft(LAMBDA rest, index : RemoveAt(rest, Min({index + 1, Len(rest)})), line, l.removed)

\* triple: all are found before the first is removed
ShowTriple(line, l) ==
  LET left == SetToSortSeq({i \in DOMAIN line : \A k \in DOMAIN l.removed : l.removed[k] # i - 1}, <)
  IN  [k \in DOMAIN left |-> line[left[k]]]

\* The elements a log looks up with getChildDivByIndex
LookedUp(l) ==
  CASE l.log = "Add"    -> {}
    [] l.log = "Move"   -> {l.from, l.to}
    [] l.log = "Triple" -> Range(l.removed)
    [] OTHER            -> {l.index}

\* animate: one log
Animate(play, l) ==
  IF ~play.ok THEN play
  ELSE IF \E index \in LookedUp(l) : ~HasChild(play.line, index) THEN Thrown(play)
  ELSE [play EXCEPT !.line = CASE l.log = "Add"           -> ShowAdd(@, l)
                               [] l.log = "Remove"        -> ShowRemove(@, l)
                               [] l.log = "Move"          -> ShowMove(@, l)
                               [] l.log = "IncreaseStats" -> ShowStats(@, l)
                               [] l.log = "AddAbility"    -> ShowAbility(@, l)
                               [] l.log = "Triple"        -> ShowTriple(@, l)]

\* The line after an operation on the board it shows
Played(line, op) == FoldLeft(Animate, Playing(line), op.logs)

--------------------------------------------------------------------------------

\* What the page says that an ability's action gives an emo, and what running it on a
\* board logs and gains, when nothing that it sets off goes on from there
Said(ability, triple) == Text(ability, triple).action

\* The others on a board that a text counts
Counted(emos, id, of) == Cardinality({i \in DOMAIN emos : emos[i].id # id /\ Kind(emos[i]) \in of.emos})

IsTold(whom, emos, at, log) ==
  /\ whom.give = "Gain"  => log.index = at - 1
  /\ whom.give = "Left"  => log.index = at - 2
  /\ whom.give = "Right" => log.index = at
  /\ whom.give \in {"Left", "Right", "All"} => Kind(emos[log.index + 1]) \in whom.of.emos

\* Whether a run from `op` to `after`, by or, as its ally, for the emo at a place, did
\* what the text says
IsTrue(text, op, at, after) ==
  LET id     == op.emos[at].id
      logged == SubSeq(after.logs, Len(op.logs) + 1, Len(after.logs))
      times  == IF "byGrade" \in DOMAIN text THEN Bases[op.emos[at].base].grade
                ELSE IF "each" \in DOMAIN text THEN Counted(op.emos, id, text.each) ELSE 1
  IN  CASE text.does = "Give" ->
             \A k \in DOMAIN logged :
               /\ logged[k].log = "IncreaseStats"
               /\ logged[k].attack = times * text.stats.attack /\ logged[k].health = times * text.stats.health
               /\ IsTold(text.whom, op.emos, at, logged[k])
        [] text.does = "Teach" ->
             \A k \in DOMAIN logged :
               /\ logged[k].log = "AddAbility"
               /\ text.ability \in {logged[k].ability, Text(logged[k].ability, FALSE)}
               /\ IsTold(text.whom, op.emos, at, logged[k])
        [] text.does = "Set" ->
             Len(op.emos) < BoardMax =>
               /\ logged[1].log = "Add" /\ logged[1].index = at
               /\ [base |-> logged[1].emo.base, triple |-> logged[1].emo.triple] = text.emo
        [] text.does = "Get" ->
             after.coin - op.coin = IF "each" \in DOMAIN text THEN text.times * (times \div text.divisor) ELSE text.coin
        [] OTHER -> FALSE

================================================================================
