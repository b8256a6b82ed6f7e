-------------------------------- MODULE MtcDebug --------------------------------
(***************************************************************************)
(* The page front/src/components/pages/MtcDebug.tsx: a shop board and its  *)
(* battles without coins, catalogs or a contract, where any base may be    *)
(* set at any time.  Both of its boards are the MtcShopBoard of a match,   *)
(* and neither touches the other, so one is modelled here; what is shown   *)
(* of a battle is BattleReplay's.                                          *)
(*                                                                         *)
(* The buttons of a board and those around it are disabled from the start  *)
(* of an operation to its end, so an operation is one step.  Which pool    *)
(* emos an emo is made of does not matter here.                            *)
(***************************************************************************)
EXTENDS ShopReplay

CONSTANTS
  Worlds, \* what the bases may be: `sale`, those on the page, and `left`, a bound on the
          \* operations, or -1
  Seeds   \* what a seed may make of a shuffle

VARIABLES
  world,
  phase, \* "shop" or "battle"
  board,
  shown  \* the play so far, of the line of page elements

vars == <<world, phase, board, shown>>

Start == Op(board)

DebugInit ==
  /\ world \in Worlds
  /\ phase = "shop"
  /\ board = <<>>
  /\ shown = Playing(<<>>)

\* operate: an operation that fails throws, and its buttons stay disabled
Operate(op, line) ==
  /\ world.left # 0
  /\ op.ok
  /\ world' = [world EXCEPT !.left = IF @ = -1 THEN @ ELSE @ - 1]
  /\ board' = Emos(op)
  /\ shown' = Played(line, op)

\* A Buy button of Bases, then a Set button, which are there if there is room
SetBase(base, index) ==
  /\ phase = "shop"
  /\ Len(board) < BoardMax
  /\ Operate(SetPoolEmo(Start, base, <<>>, index), shown.line)
  /\ UNCHANGED phase

\* The Sell buttons of EmoLineButtons, and the arrows: none leads off the board
HasArrow(index, isRight) == IF isRight THEN index + 1 < Len(board) ELSE index > 0

SellAt(index) ==
  /\ phase = "shop"
  /\ Operate(SellEmo(Start, index), shown.line)
  /\ UNCHANGED phase

Move(index, isRight) ==
  /\ phase = "shop"
  /\ HasArrow(index, isRight)
  /\ Operate(MoveEmo(Start, index, isRight), shown.line)
  /\ UNCHANGED phase

\* startBattle: the Shop and its line are unmounted
StartBattle ==
  /\ phase = "shop"
  /\ phase' = "battle"
  /\ shown' = Playing(<<>>)
  /\ UNCHANGED <<world, board>>

\* finishBattle: the Shop is mounted again, with a new line and the operation "pre-shop"
FinishBattle(seed) ==
  /\ phase = "battle"
  /\ phase' = "shop"
  /\ Operate(StartShop(Start, seed), Line(board))

DebugNext ==
  \/ \E base \in world.sale, index \in 0 .. Len(board) : SetBase(base, index)
  \/ \E index \in 0 .. Len(board) - 1 : SellAt(index)
  \/ \E index \in 0 .. Len(board) - 1, isRight \in BOOLEAN : Move(index, isRight)
  \/ StartBattle
  \/ \E seed \in Seeds : FinishBattle(seed)

DebugSpec == DebugInit /\ [][DebugNext]_vars

--------------------------------------------------------------------------------

\* The types of the board, which never holds more than BOARD_EMO_MAX_COUNT emos and no
\* stat beyond the largest u16, whatever its abilities set and give
TypeOK == IsBoard(board, {}) /\ phase \in {"shop", "battle"}

\* No lookup of an emo fails in the middle of an operation, whatever sets, merges and
\* repeats happen inside it: whatever the page has a button for succeeds
OperationsSucceed ==
  /\ phase = "shop" /\ Len(board) < BoardMax =>
       \A base \in world.sale, index \in 0 .. Len(board) : SetPoolEmo(Start, base, <<>>, index).ok
  /\ phase = "shop" => \A index \in 0 .. Len(board) - 1 :
       /\ SellEmo(Start, index).ok
       /\ \A isRight \in BOOLEAN : HasArrow(index, isRight) => MoveEmo(Start, index, isRight).ok
  /\ phase = "battle" => \A seed \in Seeds : StartShop(Start, seed).ok

\* Three alike are always merged, also those that abilities set and those that come to
\* be alike while another operation is under way
AtMostTwoAlike ==
  \A i \in DOMAIN board :
    board[i].triple \/ Cardinality({j \in DOMAIN board : board[j].base = board[i].base /\ ~board[j].triple}) <= 2

\* The page shows the board: the elements, which only ever follow the logs of the
\* operations, are those of its emos, in order, with their stats, icons and texts, and
\* no log looked for an element that was not there
ShownAsSet == phase = "shop" => shown = Playing(Line(board))

\* Whatever an ability of an emo on the board would do now is what its text on the page
\* says, doubled for a triple emo or not
ShopTextsComeTrue ==
  phase = "shop" => \A at \in DOMAIN board : \A k \in DOMAIN board[at].abilities :
    LET ability == board[at].abilities[k]
        text    == Said(ability, board[at].triple)
        id      == Start.emos[at].id
        True(run, place) == IsTrue(text, Start, place, run)
    IN  ability.phase = "Shop" =>
          IF ability.action.act = "TriggerSetActions"
          THEN \A calls \in {Triggered(board[i], "Set") : i \in DOMAIN board} :
                 Len(Repeated(calls, board[at].triple)) = (text.times - 1) * Len(calls)
          ELSE IF ability.trigger = "Pre" THEN \A seed \in Seeds : True(RunPre(Start, ability.action, id, seed), at)
          ELSE IF ability.as = "Ally"
          THEN \A i \in DOMAIN board \ {at} : True(RunAllySet(Start, id, ability, Start.emos[i].id), i)
          ELSE ability.trigger # "Sell" => True(RunAsOneself(Start, ability.action, OnBoard(id)), at)

================================================================================
