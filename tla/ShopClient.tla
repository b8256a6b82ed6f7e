------------------------------- MODULE ShopClient -------------------------------
(***************************************************************************)
(* The shop phases of a match in the client: front/src/components/common/  *)
(* Mtc/Shop, MtcShopBoard and pages/Mtc.  The client runs the operations   *)
(* of ShopBoard itself, keeps its own coins and prices, and sends what the *)
(* player did to the contract, which executes it again (ShopVerifier).     *)
(*                                                                         *)
(* An operation on the board takes time: it is animated, and only its end  *)
(* writes the shop's state, from the state the operation began with.       *)
(* Battles are left out: they change neither boards nor grades.            *)
(***************************************************************************)
EXTENDS ShopVerifier

CONSTANTS
  NoEmo,   \* no emo is selected: null
  MaxTurn, \* bound on the turns of a match
  MaxOps   \* bound on the operations of a phase

VARIABLES
  turn,      \* MtcState.turn
  catalog,   \* the catalog of this turn
  mtc,       \* MtcState: [board, grade, price]
  shop,      \* State of the Shop: [coin, line, counter, sold, ops]
  selected,  \* selectedCatalogLineEmo, or NoEmo
  operation, \* the operation of MtcShopBoard, with the state it began with
  phase,     \* "shop", "battle", or "refused": waiting for a transaction that failed
  contract,  \* what the contract has of the match: [board, grade, price]
  overspent  \* whether an emo was bought in this phase for more coins than the player had

vars == <<turn, catalog, mtc, shop, selected, operation, phase, contract, overspent>>

NoOperation == [kind |-> "none"]

\* useState of the Shop, when its component is mounted
NewShop(t) == [coin |-> GetInitialCoinByTurn(t), line |-> 1, counter |-> 0, sold |-> {}, ops |-> <<>>]

PreShop(board, state) == [kind |-> "pre-shop", board |-> board, shop |-> state]

\* buildInitialMtcState
Init ==
  LET match == [board |-> <<>>, grade |-> 1, price |-> GetUpgradeCoin(2)]
  IN  /\ turn = 1
      /\ catalog \in GetCatalogs(<<>>)
      /\ mtc = match
      /\ contract = match
      /\ shop = NewShop(1)
      /\ selected = NoEmo
      /\ operation = PreShop(<<>>, NewShop(1))
      /\ phase = "shop"
      /\ overspent = FALSE

--------------------------------------------------------------------------------

\* Nav and Catalog are disabled while an operation on the board is under way
Idle == phase = "shop" /\ operation = NoOperation

\* The Buy button of Catalog's current line
SelectEmo(id) ==
  /\ Idle
  /\ id \in catalog[shop.line]
  /\ Len(mtc.board) < BoardMax
  /\ shop.coin >= EMO_BUY_COIN
  /\ id \notin Range(IdsOf(mtc.board)) \union shop.sold
  /\ Bases[PoolBase[id]].grade <= mtc.grade
  /\ selected' = id
  /\ UNCHANGED <<turn, catalog, mtc, shop, operation, phase, contract, overspent>>

\* The Unselect button of Catalog
Unselect ==
  /\ phase = "shop"
  /\ selected # NoEmo
  /\ selected' = NoEmo
  /\ UNCHANGED <<turn, catalog, mtc, shop, operation, phase, contract, overspent>>

\* A button of EmoLineButtons: an operation begins
Operate(kind, index) ==
  /\ Idle
  /\ Len(shop.ops) < MaxOps
  /\ operation' = [kind |-> kind, index |-> index, id |-> selected, board |-> mtc.board, shop |-> shop]
  /\ selected' = NoEmo
  /\ UNCHANGED <<turn, catalog, mtc, shop, phase, contract, overspent>>

SetEmoAt(index) == selected # NoEmo /\ Operate("set", index)
SellAt(index)   == selected = NoEmo /\ Operate("sell", index)
MoveLeft(index)  == selected = NoEmo /\ index > 0 /\ Operate("left", index)
MoveRight(index) == selected = NoEmo /\ index < Len(mtc.board) - 1 /\ Operate("right", index)

\* operate, of MtcShopBoard/tasks.ts: the shared code, run in the client
Operated(o) ==
  CASE o.kind = "pre-shop" -> StartShop(Op(o.board), Seeds[turn])
    [] o.kind = "set"      -> SetPoolEmo(Op(o.board), PoolBase[o.id], <<o.id>>, o.index)
    [] o.kind = "sell"     -> SellEmo(Op(o.board), o.index)
    [] o.kind = "left"     -> MoveEmo(Op(o.board), o.index, FALSE)
    [] o.kind = "right"    -> MoveEmo(Op(o.board), o.index, TRUE)

\* The indexes of a move on top of those of the move before it
MovedIndexes(indexes, o) ==
  LET from == o.index + 1
      to   == IF o.kind = "right" THEN from + 1 ELSE from - 1
  IN  [indexes EXCEPT ![from] = indexes[to], ![to] = indexes[from]]

\* Mutant: the new move is applied to the board's order, not to the last move's
RecordedMoveAlone(ops, o) ==
  LET merges == ops # <<>> /\ ops[Len(ops)].kind = "Move"
  IN  Append(IF merges THEN Front(ops) ELSE ops,
             MoveOf(MovedIndexes([i \in DOMAIN o.board |-> i - 1], o)))

\* A move is merged with the move before it
RecordedMove(ops, o) ==
  LET merges  == ops # <<>> /\ ops[Len(ops)].kind = "Move"
      indexes == IF merges THEN ops[Len(ops)].indexes ELSE [i \in DOMAIN o.board |-> i - 1]
  IN  Append(IF merges THEN Front(ops) ELSE ops, MoveOf(MovedIndexes(indexes, o)))

\* finishShopBoardOperation: the shop's state after an operation
OperatedShop(o) ==
  CASE o.kind = "pre-shop" -> o.shop
    [] o.kind = "set"      -> [o.shop EXCEPT !.coin = @ - EMO_BUY_COIN,
                                             !.ops = Append(@, BuyOf(o.id, o.index))]
    [] o.kind = "sell"     -> [o.shop EXCEPT !.sold = @ \union Range(o.board[o.index + 1].ids),
                                             !.ops = Append(@, SellOf(o.index))]
    [] OTHER               -> [o.shop EXCEPT !.ops = RecordedMove(@, o)]

\* onFinishOperation.  An operation that fails throws before, and never ends.
FinishOperation ==
  LET result == Operated(operation)
  IN  /\ phase = "shop"
      /\ operation # NoOperation
      /\ result.ok
      /\ operation' = NoOperation
      /\ mtc' = [mtc EXCEPT !.board = Emos(result)]
      /\ shop' = [OperatedShop(operation) EXCEPT !.coin = @ + result.coin]
      /\ overspent' = (overspent \/ (operation.kind = "set" /\ operation.shop.coin < EMO_BUY_COIN))
      /\ UNCHANGED <<turn, catalog, selected, phase, contract>>

--------------------------------------------------------------------------------

\* isMulliganAvailable
IsMulligan == turn = 1 /\ shop.counter < MULLIGAN_COUNT

\* Mutant: isNextCatalogLineAvailable compares with the length of the catalog
IsNextLineLeftAlways == Len(catalog) >= shop.line

\* isNextCatalogLineAvailable
IsNextLineLeft == Len(catalog) > shop.line

\* The Next Catalog Line button of Nav: nextCatalogLineFn is there, and not disabled
CanTakeNextLine ==
  /\ Idle
  /\ IsMulligan \/ shop.coin >= NEXT_CATALOG_LINE_COIN
  /\ IsNextLineLeft

\* nextCatalogLineFn
NextCatalogLine ==
  /\ CanTakeNextLine
  /\ Len(shop.ops) < MaxOps
  /\ selected' = NoEmo
  /\ shop' = [shop EXCEPT !.coin = IF IsMulligan THEN @ ELSE @ - NEXT_CATALOG_LINE_COIN,
                          !.line = @ + 1,
                          !.counter = @ + 1,
                          !.ops = Append(@, NextCatalogLineOp)]
  /\ UNCHANGED <<turn, catalog, mtc, operation, phase, contract, overspent>>

\* Mutant: Nav is not disabled while an operation is under way
CanUpgradeAnytime == phase = "shop" /\ mtc.price # None /\ mtc.price <= shop.coin

\* The Upgrade button of Nav
CanUpgrade == Idle /\ mtc.price # None /\ mtc.price <= shop.coin

\* upgradeFn
Upgrade ==
  /\ CanUpgrade
  /\ Len(shop.ops) < MaxOps
  /\ shop' = [shop EXCEPT !.coin = @ - mtc.price, !.ops = Append(@, UpgradeOp)]
  /\ mtc' = [mtc EXCEPT !.grade = @ + 1, !.price = GetUpgradeCoin(mtc.grade + 2)]
  /\ UNCHANGED <<turn, catalog, selected, operation, phase, contract, overspent>>

\* finish_mtc_shop, with the price of update_player_mtc_mutable_after_battle
Verified == Verify(contract, catalog, turn, shop.ops)

\* The Battle! button of Nav
CanFinish == Idle

\* startBattle.  A refused transaction leaves the page waiting: withToggleAsync does not
\* come to its second toggle.
StartBattle ==
  /\ CanFinish
  /\ IF Verified.op.ok
     THEN /\ contract' = [board |-> Emos(Verified.op), grade |-> Verified.grade,
                          price |-> DecreaseUpgradeCoin(Verified.price)]
          /\ phase' = "battle"
     ELSE phase' = "refused" /\ UNCHANGED contract
  /\ UNCHANGED <<turn, catalog, mtc, shop, selected, operation, overspent>>

\* finish, finishBattle: the next turn, with a new Shop
FinishBattle ==
  /\ phase = "battle"
  /\ turn < MaxTurn
  /\ turn' = turn + 1
  /\ catalog' \in GetCatalogs(mtc.board)
  /\ mtc' = [mtc EXCEPT !.price = DecreaseUpgradeCoin(@)]
  /\ shop' = NewShop(turn')
  /\ selected' = NoEmo
  /\ operation' = PreShop(mtc.board, NewShop(turn'))
  /\ phase' = "shop"
  /\ overspent' = FALSE
  /\ UNCHANGED contract

Next ==
  \/ \E id \in DOMAIN PoolBase : SelectEmo(id)
  \/ Unselect
  \/ \E index \in 0 .. Len(mtc.board) : SetEmoAt(index)
  \/ \E index \in 0 .. Len(mtc.board) - 1 : SellAt(index) \/ MoveLeft(index) \/ MoveRight(index)
  \/ FinishOperation
  \/ NextCatalogLine
  \/ Upgrade
  \/ StartBattle
  \/ FinishBattle

Spec == Init /\ [][Next]_vars

--------------------------------------------------------------------------------

\* The types of the client's state.  A line number past the catalog makes Catalog.tsx
\* throw ("Invalid state: currentCatalogLine").
TypeOK ==
  /\ turn \in 1 .. MaxTurn
  /\ IsBoard(mtc.board, DOMAIN PoolBase)
  /\ mtc.grade \in 1 .. LAST_GRADE
  /\ mtc.price \in {None} \union 0 .. 9
  /\ shop.line \in DOMAIN catalog
  /\ selected \in {NoEmo} \union DOMAIN PoolBase
  /\ phase \in {"shop", "battle", "refused"}

\* docs/tech.md, step 4 of the gameplay flow: the chain re-executes the operations and
\* builds the board the client shows.  As long as no emo was bought with coins the
\* player did not have, the contract accepts the phase at any moment, and has the same board, the
\* same grade and no fewer coins.
SolventPhaseAccepted ==
  Idle /\ ~overspent =>
    /\ Verified.op.ok
    /\ Emos(Verified.op) = mtc.board
    /\ Verified.grade = mtc.grade
    /\ Verified.op.coin >= shop.coin

\* ensureNoStateDiff of pages/Mtc/tasks.ts: whatever phase the contract has accepted, the
\* client battles with the contract's board and grade
NoStateDiff == phase = "battle" => mtc.board = contract.board /\ mtc.grade = contract.grade

\* Merging loses and doubles no pool emo: the emos on the board are made of those it had
\* at the start of the phase and those bought since, less those sold, each once.  What
\* Catalog offers and `buy` refuses depends on it.
EveryEmoAccounted ==
  LET onBoard == IdsOf(mtc.board)
      bought  == {o.id : o \in {o \in Range(shop.ops) : o.kind = "Buy"}}
  IN  Idle => /\ IsInjective(onBoard)
              /\ Range(onBoard) = (Range(IdsOf(contract.board)) \union bought) \ shop.sold

\* docs/tech.md, step 4 of the gameplay flow, without the provision of
\* SolventPhaseAccepted: the contract never refuses what the client lets a player do
PhaseAccepted == phase # "refused"

\* docs/tech.md, "Avoiding Duplicate Implementation": client and chain agree on the price
\* of the next grade when a phase begins
UpgradePriceAgrees == Idle /\ shop.ops = <<>> => mtc.price = contract.price

================================================================================
