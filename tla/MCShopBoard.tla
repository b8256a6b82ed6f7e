------------------------------ MODULE MCShopBoard ------------------------------
(***************************************************************************)
(* The page MtcDebug: what purchases, sales, moves and battles lead to on  *)
(* a shop board, and what the page shows of it.                            *)
(*                                                                         *)
(* In one world are the abilities that change who is on the board, and any *)
(* number of operations.  The other worlds have the abilities that change  *)
(* what an emo is, and a number of operations that suffices for a triple.  *)
(***************************************************************************)
EXTENDS MtcDebug

CONSTANT Budget \* bound on the operations of a world in which stats grow

--------------------------------------------------------------------------------

Nature == {"repeat", "fright"}
Human  == {"teach", "rally", "tokens", "pre", "row", "push"}
Food   == {"token", "set", "feast"}
Object == {"sell", "trade", "both", "near", "grade", "trophy", "collect", "bonus"}

Kinds(bases) == [base : bases, triple : BOOLEAN]
AnyEmo       == Kinds(Nature \union Human \union Food \union Object)

Base(grade, typ, attack, health, abilities) ==
  [grade |-> grade, typ |-> typ, attack |-> attack, health |-> health, abilities |-> abilities]

OnSet(action)             == ShopAsOneself("Set", {}, action)
OnSell(action)            == ShopAsOneself("Sell", {}, action)
OnAllySet(bases, action)  == ShopAsOneself("AllySet", Kinds(bases), action)

\* Emos of data/emoBases.json, stats divided by ten: its ids are, from `rally` on, 18, 20,
\* 24, 69, 41, 47, 48, 49, 50, 51, 54, 59, 68, 73, 74, 78, 79 and 80.  `pre` sets a token
\* here, and `fright` picks two of the four types.
MCBases ==
  [token   |-> Base(1, "Food", 1, 1, <<>>),
   rally   |-> Base(2, "Human", 3, 3, <<OnSet(IncreaseStats(Others("All", Kinds(Human)), 2, 0))>>),
   teach   |-> Base(4, "Human", 1, 2, <<OnSet(IncreaseStats(Others("Left", Kinds(Human)), 1, 2)),
                                        OnSet(AddAbility(Others("Left", Kinds(Human)), Shield)),
                                        OnSet(AddAbility(Others("Left", Kinds(Human)), Attractive))>>),
   set     |-> Base(1, "Food", 2, 1, <<OnSet(ShopSetEmo("token"))>>),
   feast   |-> Base(3, "Food", 4, 2, <<OnSet(ShopByEmoCount(Kinds(Food), Oneself, 2, 1))>>),
   sell    |-> Base(1, "Object", 2, 2, <<OnSell(ShopSetEmo("token"))>>),
   collect |-> Base(3, "Object", 4, 4, <<OnSet(GetCoinByCount(Kinds(Object), 2))>>),
   trophy  |-> Base(4, "Object", 6, 6, <<ShopPre(ShopByEmoCount({kind \in AnyEmo : kind.triple}, Oneself, 2, 2))>>),
   both    |-> Base(4, "Object", 2, 3, <<OnSet(IncreaseStats(Others("Left", AnyEmo), 1, 1)),
                                         OnSet(AddAbility(Others("Left", AnyEmo), Attractive)),
                                         OnSet(IncreaseStats(Others("Right", AnyEmo), 1, 1)),
                                         OnSet(AddAbility(Others("Right", AnyEmo), Attractive))>>),
   near    |-> Base(4, "Object", 3, 3, <<OnSet(OfAdjacentMenagerie(3, 2))>>),
   bonus   |-> Base(5, "Object", 6, 6, <<OnAllySet(Object, GetCoin(1))>>),
   grade   |-> Base(6, "Object", 4, 4, <<ShopAsAlly(Kinds(Object), ByGrade(Others("Left", Kinds(Object)), 1, 1))>>),
   tokens  |-> Base(3, "Human", 3, 1, <<OnSet(AddAbility(Others("Left", AnyEmo), AsOneself("Retire", {}, SetEmo("Ally", "token"))))>>),
   push    |-> Base(1, "Human", 2, 1, <<OnSet(IncreaseStats(Others("Right", AnyEmo), 4, 4))>>),
   trade   |-> Base(1, "Object", 1, 4, <<OnSell(IncreaseStats(Others("Left", Kinds(Object)), 1, 1))>>),
   row     |-> Base(3, "Human", 2, 2, <<ShopPre(OfAdjacentMenagerie(1, 1))>>),
   fright  |-> Base(5, "Nature", 2, 1, <<ShopPre(OfMenagerie(2, 2, 2))>>),
   repeat  |-> Base(5, "Nature", 4, 6, <<ShopAsAlly(AnyEmo, TriggerSetActions)>>),
   pre     |-> Base(4, "Human", 5, 6, <<ShopPre(ShopSetEmo("token"))>>)]

MCWorlds ==
  {[sale |-> {"token", "set", "sell", "pre", "repeat"}, left |-> -1]} \union
  {[sale |-> sale, left |-> Budget] :
     sale \in {{"rally", "teach", "repeat"}, {"both", "near", "grade"}, {"set", "feast", "repeat"},
               {"trade", "trophy", "fright"}, {"tokens", "push", "row"}, {"collect", "bonus", "sell"}}}

\* What a seed may make of a shuffle
MCSeeds == {<<1, 2, 3, 4, 5>>, <<5, 3, 1, 2, 4>>}

================================================================================
