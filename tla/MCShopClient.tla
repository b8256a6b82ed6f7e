------------------------------ MODULE MCShopClient ------------------------------
(***************************************************************************)
(* ShopClient with a small pool and the abilities of four shipped bases.  *)
(***************************************************************************)
EXTENDS ShopClient, TLC

CONSTANTS e1, e2, e3, e4 \* the pool

Kinds(bases) == [base : bases, triple : BOOLEAN]

Base(grade, attack, abilities) ==
  [grade |-> grade, typ |-> "Object", attack |-> attack, health |-> 1, abilities |-> abilities]

\* data/emoBases.json: 24 sets a token, 45 of grade 2 pays a coin when it is sold, and, as
\* 52 does, for the others on the board when it is set.  78 strengthens others at random
\* when a turn starts.
MCBases ==
  [token |-> Base(1, 1, <<>>),
   set   |-> Base(1, 1, <<ShopAsOneself("Set", {}, ShopSetEmo("token"))>>),
   coin  |-> Base(2, 1, <<ShopAsOneself("Sell", {}, GetCoin(1)),
                          ShopAsOneself("Set", {}, GetCoinByCount(Kinds({"token"}), 1)),
                          ShopPre(OfMenagerie(1, 1, 0))>>)]
MCSeeds == [t \in 1 .. MaxTurn |-> IF t = 2 THEN <<7, 6, 5, 4, 3, 2, 1>> ELSE <<1, 2, 3, 4, 5, 6, 7>>]
MCPoolBase  == [emo \in {e1, e2, e3} |-> "set"] @@ (e4 :> "coin")

\* The pool emos of a base are alike: nothing orders them
Alike == Permutations({e1, e2, e3})

================================================================================
