-------------------------------- MODULE MCBattle -------------------------------
(***************************************************************************)
(* Fights of bases of data/emoBases.json, under their ids there, and the   *)
(* plays of their logs.  The matchups are chosen so that every ability is  *)
(* run, most of them in the middle of another one.                         *)
(***************************************************************************)
EXTENDS BattleReplay, TLC

Nature == {1, 2, 3, 4, 5, 6, 7, 8, 9, 13, 40}
Human  == {16, 17, 21, 22, 39, 56, 57, 58, 60, 67}
Food   == {27, 28, 37}

Kinds(bases) == [base : bases, triple : BOOLEAN]
AnyEmo == Kinds(Nature \cup Human \cup Food)

Base(grade, attack, health, abilities) ==
  [grade |-> grade, typ |-> "Any", attack |-> attack, health |-> health, abilities |-> abilities]

OnRetire(action)        == AsOneself("Retire", {}, action)
OnPre(action)           == AsOneself("Pre", {}, action)
OnAllyRetire(of, action)  == AsOneself("AllyRetire", Kinds(of), action)
OnRivalRetire(of, action) == AsOneself("RivalRetire", Kinds(of), action)
OnShieldRemoved(except, action) ==
  [AsOneself("AllyBattleAbilityRemoved", AnyEmo, action) EXCEPT !.except = except]

MCBases ==
  1 :> Base(1, 10, 10, <<OnRetire(SetEmo("Ally", 2))>>) @@
  2 :> Base(1, 20, 20, <<>>) @@
  3 :> Base(1, 20, 20, <<OnAllyRetire(Nature, IncreaseStats(Oneself, 20, 10))>>) @@
  4 :> Base(3, 20, 20, <<OnRetire(SetEmosByAttackDiv("Ally", 5, 10))>>) @@
  5 :> Base(1, 10, 10, <<>>) @@
  6 :> Base(2, 30, 10, <<OnRetire(SetEmo("Ally", 7)), OnRetire(SetEmo("Ally", 7))>>) @@
  7 :> Base(1, 20, 10, <<>>) @@
  8 :> Base(3, 90, 70, <<OnRetire(SetEmo("Rival", 9))>>) @@
  9 :> Base(1, 30, 30, <<>>) @@
  13 :> Base(6, 50, 50, <<AsAlly("AllySet", Kinds(Nature), IncreaseStats(Oneself, 50, 50))>>) @@
  16 :> Base(1, 10, 10, <<Shield, Attractive>>) @@
  17 :> Base(1, 20, 10, <<OnRetire(AddBattleAbility(Random(1, AnyEmo), Shield))>>) @@
  21 :> Base(5, 30, 60, <<OnShieldRemoved(FALSE, IncreaseStats(Oneself, 20, 20))>>) @@
  22 :> Base(6, 70, 40, <<OnRetire(AddBattleAbility(Others("All", Kinds(Human)), Shield))>>) @@
  27 :> Base(2, 30, 30, <<OnPre(IncreaseStats(Others("All", Kinds(Food)), 20, 0)),
                          OnRetire(DecreaseStats(Others("All", Kinds(Food)), 20, 0))>>) @@
  28 :> Base(2, 20, 40, <<OnPre(IncreaseStatsByEmoCount("Ally", Kinds(Food), Oneself, 10, 0)),
                          OnPre(IncreaseStatsByEmoCount("Rival", Kinds(Food), Oneself, 10, 0)),
                          OnAllyRetire(Food, DecreaseStats(Oneself, 10, 0)),
                          OnRivalRetire(Food, DecreaseStats(Oneself, 10, 0))>>) @@
  37 :> Base(5, 10, 50, <<AsAlly("AllyRetire", AnyEmo, TriggerRetireActions)>>) @@
  39 :> Base(6, 70, 50, <<LowestAttack>>) @@
  40 :> Base(6, 20, 30, <<OnRetire(DamageAll("Rival", 30)), OnRetire(DamageAll("Ally", 30))>>) @@
  56 :> Base(2, 10, 20, <<OnPre(SetEmo("Rival", 57))>>) @@
  57 :> Base(2, 10, 10, <<Attractive, OnRetire(DecreaseStats(Others("All", AnyEmo), 0, 20))>>) @@
  58 :> Base(3, 30, 40, <<Shield>>) @@
  60 :> Base(1, 10, 10, <<>>) @@
  67 :> Base(3, 70, 30, <<OnShieldRemoved(TRUE, AddBattleAbility(Oneself, Shield))>>)

\* An emo as it is bought, or merged of three
Emo(base)    == [base |-> base, triple |-> FALSE] @@
                [attack |-> MCBases[base].attack, health |-> MCBases[base].health, abilities |-> MCBases[base].abilities]
Triple(base) == [Emo(base) EXCEPT !.triple = TRUE, !.attack = 2 * @, !.health = 2 * @]

Emos(ids) == [i \in DOMAIN ids |-> Emo(ids[i])]

\* Base 59 is set right of an emo and gives it this
WithTokens(emo) == [emo EXCEPT !.abilities = @ \o <<OnRetire(SetEmo("Ally", 60)), OnRetire(SetEmo("Ally", 60))>>]

\* An emo that outlives many hits
Giant(base) == [Emo(base) EXCEPT !.health = 400]

\* A retired emo damages its ally before it sets an emo at its own, now stale index
LostPlace == <<<<Emo(60), WithTokens(Emo(40))>>, Emos(<<58, 2>>)>>

\* Bases 20 and 22 give a human another base's Shield: merging three keeps each of them
Shielded == [Triple(16) EXCEPT !.abilities = @ \o <<Shield>>]

\* The attacker's blow makes its victim sweep the board: with the first emo gone, the third
\* is where the attacker was
Swept == <<Emos(<<21, 8, 58>>), Emos(<<5, 40, 58>>)>>

MCMatchups ==
  {<<<<Shielded>>, Emos(<<5>>)>>,
   <<<<Triple(3), Emo(2), Triple(57)>>, <<Triple(40), Emo(8)>>>>,
   <<Emos(<<1, 3>>), Emos(<<16, 17>>)>>,
   <<Emos(<<27, 28>>), Emos(<<28>>)>>,
   <<Emos(<<8>>), Emos(<<40, 9>>)>>,
   <<Emos(<<56, 9>>), Emos(<<21, 16>>)>>,
   <<<<[Emo(4) EXCEPT !.attack = 80], Emo(13)>>, <<Emo(39), Emo(2)>>>>,
   <<Emos(<<6, 37>>), <<Triple(2)>>>>,
   <<<<Emo(6), Triple(37)>>, Emos(<<9, 2>>)>>,
   <<Emos(<<67, 58>>), Emos(<<22, 17>>)>>,
   <<<<Triple(17), Emo(2), Emo(60), Emo(5)>>, Emos(<<9>>)>>,
   <<<<Giant(60)>>, <<Giant(5)>>>>,
   <<<<[Emo(8) EXCEPT !.attack = 10]>>, <<Giant(5)>>>>,
   <<<<>>, Emos(<<56>>)>>,
   <<Emos(<<2, 1, 13>>), Emos(<<3, 9, 40>>)>>,
   <<Emos(<<3, 2, 21>>), <<Emo(58), WithTokens(Emo(16)), Emo(57)>>>>,
   LostPlace,
   Swept}

\* The abilities of the bases and of the emos brought, and what others are given by those
MCLearnable ==
  LET had == UNION {ToSet(MCBases[b].abilities) : b \in DOMAIN MCBases}
             \cup UNION {UNION {ToSet(emo.abilities) : emo \in ToSet(pair[1]) \cup ToSet(pair[2])} : pair \in MCMatchups}
  IN  had \cup {a.action.ability : a \in {b \in had : ~IsSpecial(b) /\ b.action.act = "AddBattleAbility"}}

LostPlaceMatchups == {LostPlace}
SweptMatchups == {Swept}

================================================================================
