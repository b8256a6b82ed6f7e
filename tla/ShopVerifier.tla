------------------------------ MODULE ShopVerifier ------------------------------
(***************************************************************************)
(* What the chain makes of a shop phase:                                   *)
(* common/rs/src/mtc/shop/player_operation.rs, coin.rs and catalog.rs.     *)
(*                                                                         *)
(* A player's operations are executed one after the other, from the board, *)
(* grade and upgrade price of the last turn.  The first illegal one        *)
(* refuses them all.  A catalog is a sequence of lines, a line the set of  *)
(* the pool emos on sale.                                                  *)
(***************************************************************************)
EXTENDS ShopBoard

CONSTANTS
  PoolBase,     \* pool emo -> its base
  Seeds,        \* turn -> what its seed makes of a shuffle, a permutation
  CatalogCount, \* the lines of a catalog, CATALOG_COUNT (5)
  LineSize      \* the emos of a line, CATALOG_LINE_EMO_COUNT (7)

NEXT_CATALOG_LINE_COIN == 1
EMO_BUY_COIN           == 3
LAST_GRADE             == 6
MULLIGAN_COUNT         == 2
MAX_COIN               == 8

None == -1 \* Option::None, for the price of a grade

\* mtc::shop::PlayerOperation
BuyOf(id, index)   == [kind |-> "Buy", id |-> id, index |-> index]
SellOf(index)      == [kind |-> "Sell", index |-> index]
MoveOf(indexes)    == [kind |-> "Move", indexes |-> indexes]
NextCatalogLineOp  == [kind |-> "NextCatalogLine"]
UpgradeOp          == [kind |-> "Upgrade"]

GetInitialCoinByTurn(turn) == IF turn + 2 > MAX_COIN THEN MAX_COIN ELSE turn + 2

GetUpgradeCoin(grade) == IF grade \in 2 .. 6 THEN <<0, 5, 7, 8, 9, 9>>[grade] ELSE None

DecreaseUpgradeCoin(price) == IF price > 0 THEN price - 1 ELSE price

\* The pool emos some emos are made of, in order
IdsOf(emos) == FlattenSeq([i \in DOMAIN emos |-> emos[i].ids])

\* get_catalog: what the random generator may draw from the pool emos not on the board
GetCatalogs(board) ==
  LET left  == DOMAIN PoolBase \ Range(IdsOf(board))
      lines == {line \in SUBSET left : Cardinality(line) = LineSize}
  IN  {catalog \in [1 .. CatalogCount -> lines] :
         \A i, j \in 1 .. CatalogCount : i # j => catalog[i] \cap catalog[j] = {}}

--------------------------------------------------------------------------------
(***************************************************************************)
(* The state of a verification: `op` is the operation on the shop board,   *)
(* whose coins are those the player has left.                              *)
(***************************************************************************)

Begin(match, turn) ==
  [op |-> StartShop([Op(match.board) EXCEPT !.coin = GetInitialCoinByTurn(turn)], Seeds[turn]),
   grade |-> match.grade, price |-> match.price, line |-> 1, counter |-> 0, sold |-> {}]

Refuse(v) == [v EXCEPT !.op = Fail(@)]

\* checked_sub
Pay(v, price) == IF v.op.coin < price THEN Refuse(v) ELSE [v EXCEPT !.op.coin = @ - price]

Buy(v, catalog, id, index) ==
  IF /\ id \notin v.sold \union Range(IdsOf(v.op.emos))
     /\ v.line \in DOMAIN catalog
     /\ id \in catalog[v.line]
     /\ Bases[PoolBase[id]].grade <= v.grade
  THEN [Pay(v, EMO_BUY_COIN) EXCEPT !.op = SetPoolEmo(@, PoolBase[id], <<id>>, index)]
  ELSE Refuse(v)

Sell(v, index) ==
  IF index < Len(v.op.emos)
  THEN [v EXCEPT !.op = SellEmo(@, index), !.sold = @ \union Range(v.op.emos[index + 1].ids)]
  ELSE Refuse(v)

\* mov: an emo is swapped to its place, from wherever the swaps before have left it
Mov(v, indexes) ==
  LET start == [i \in DOMAIN v.op.emos |-> i - 1]
      Place(current, i) ==
        LET actual == SelectInSeq(current, LAMBDA index : index = indexes[i])
        IN  [current EXCEPT ![i] = current[actual], ![actual] = current[i]]
      places == FoldLeftDomain(Place, start, indexes)
  IN  IF Len(indexes) = Len(v.op.emos) /\ Range(indexes) \subseteq Range(start)
      THEN [v EXCEPT !.op.emos = [i \in DOMAIN @ |-> @[places[i] + 1]]]
      ELSE Refuse(v)

NextLine(v, turn) ==
  LET free == turn <= 1 /\ v.counter < MULLIGAN_COUNT
      paid == IF free THEN v ELSE Pay(v, NEXT_CATALOG_LINE_COIN)
  IN  [paid EXCEPT !.counter = @ + 1, !.line = @ + 1]

UpgradeGrade(v) ==
  IF v.price # None /\ v.grade < LAST_GRADE
  THEN [Pay(v, v.price) EXCEPT !.grade = @ + 1, !.price = GetUpgradeCoin(v.grade + 1)]
  ELSE Refuse(v)

\* verify_player_operations_and_update.  The limit of 200 operations is out of reach of
\* the coins of a phase, and the counters with it.
Verify(match, catalog, turn, ops) ==
  LET Execute(v, o) ==
        IF ~v.op.ok THEN v
        ELSE CASE o.kind = "Buy"             -> Buy(v, catalog, o.id, o.index)
               [] o.kind = "Sell"            -> Sell(v, o.index)
               [] o.kind = "Move"            -> Mov(v, o.indexes)
               [] o.kind = "NextCatalogLine" -> NextLine(v, turn)
               [] o.kind = "Upgrade"         -> UpgradeGrade(v)
  IN  FoldLeft(Execute, Begin(match, turn), ops)

================================================================================
