------------------------------- MODULE EmoAbility -------------------------------
(***************************************************************************)
(* What an emo is and what it can do: emo::Attributes and emo::ability of  *)
(* common/rs/src/codec_types.rs, which both phases of a turn work with,    *)
(* and the arithmetic they share, common/rs/src/mtc/utils.rs.              *)
(*                                                                         *)
(* An ability is a record of its phase, of `as` whom it acts, the trigger, *)
(* the `kinds` of emo that trigger it and the action.  The kinds are the   *)
(* [base, triple] that a typ_and_triple of the code matches.               *)
(***************************************************************************)
EXTENDS Integers, FiniteSetsExt

CONSTANTS
  Bases,    \* base -> [grade, typ, attack, health, abilities]
  BoardMax, \* BOARD_EMO_MAX_COUNT (7)
  StatMax   \* the largest u16

SaturatingU16(n) == Min({n, StatMax})
DoubleIf(triple, n) == IF triple THEN SaturatingU16(2 * n) ELSE n

\* What is_matched_typ_and_triple tells emos apart by
Kind(emo) == [base |-> emo.base, triple |-> emo.triple]

\* build_emo_attributes, of an emo of a base
Attributes(base, triple) ==
  [base |-> base, triple |-> triple, attack |-> DoubleIf(triple, Bases[base].attack),
   health |-> DoubleIf(triple, Bases[base].health), abilities |-> Bases[base].abilities]

--------------------------------------------------------------------------------

\* emo::ability::Target and TargetOrRandom
Oneself              == [at |-> "Oneself", kinds |-> {}]
Others(at, kinds)    == [at |-> at, kinds |-> kinds]  \* "Left", "Right" or "All"
Random(count, kinds) == [at |-> "Random", kinds |-> kinds, count |-> count]

\* Actions of both phases
IncreaseStats(to, attack, health) == [act |-> "IncreaseStats", to |-> to, attack |-> attack, health |-> health]

--------------------------------------------------------------------------------

(***************************************************************************)
(* Abilities of the battle, emo::ability::battle                           *)
(***************************************************************************)
Special(name) == [phase |-> "Battle", as |-> "Special", special |-> name]
AsOneself(trigger, kinds, action) ==
  [phase |-> "Battle", as |-> "Oneself", trigger |-> trigger, kinds |-> kinds, except |-> FALSE, action |-> action]
AsAlly(trigger, kinds, action) ==
  [phase |-> "Battle", as |-> "Ally", trigger |-> trigger, kinds |-> kinds, action |-> action]

Shield       == Special("Shield")
Attractive   == Special("Attractive")
LowestAttack == Special("AttackLowestAttack")

IsSpecial(ability) == ability.as = "Special"

SetEmo(side, base)                == [act |-> "SetEmo", side |-> side, base |-> base]
SetEmosByAttackDiv(side, base, n) == [act |-> "SetEmosByAttackDiv", side |-> side, base |-> base, divisor |-> n]
DecreaseStats(to, attack, health) == [act |-> "DecreaseStats", to |-> to, attack |-> attack, health |-> health]
IncreaseStatsByEmoCount(side, of, to, attack, health) ==
  [act |-> "ByEmoCount", side |-> side, of |-> of, to |-> to, attack |-> attack, health |-> health]
AddBattleAbility(to, ability)     == [act |-> "AddBattleAbility", to |-> to, ability |-> ability]
DamageAll(side, damage)           == [act |-> "DamageAll", side |-> side, damage |-> damage]
TriggerRetireActions              == [act |-> "TriggerRetireActions"]

--------------------------------------------------------------------------------

(***************************************************************************)
(* Abilities of the shop, emo::ability::shop                               *)
(***************************************************************************)
ShopPre(action) ==
  [phase |-> "Shop", as |-> "Oneself", trigger |-> "Pre", kinds |-> {}, action |-> action]
ShopAsOneself(trigger, kinds, action) == \* on "Set", "Sell" or "AllySet"
  [phase |-> "Shop", as |-> "Oneself", trigger |-> trigger, kinds |-> kinds, action |-> action]
ShopAsAlly(kinds, action) ==
  [phase |-> "Shop", as |-> "Ally", trigger |-> "AllySet", kinds |-> kinds, action |-> action]

ShopSetEmo(base)                  == [act |-> "SetEmo", base |-> base]
OfAdjacentMenagerie(attack, health) == [act |-> "OfAdjacentMenagerie", attack |-> attack, health |-> health]
OfMenagerie(count, attack, health)  == [act |-> "OfMenagerie", count |-> count, attack |-> attack, health |-> health]
ByGrade(to, attack, health)         == [act |-> "ByGrade", to |-> to, attack |-> attack, health |-> health]
ShopByEmoCount(of, to, attack, health) ==
  [act |-> "ByEmoCount", of |-> of, to |-> to, attack |-> attack, health |-> health]
AddAbility(to, ability)    == [act |-> "AddAbility", to |-> to, ability |-> ability]
GetCoin(coin)              == [act |-> "GetCoin", coin |-> coin]
GetCoinByCount(of, divisor) == [act |-> "GetCoinByCount", of |-> of, divisor |-> divisor]
TriggerSetActions          == [act |-> "TriggerSetActions"]

================================================================================
