------------------------------- MODULE AbilityText ------------------------------
(***************************************************************************)
(* What the page says of an ability: front/src/misc/emo/abilityText.ts.    *)
(* The text is written from the ability's data, apart from the code that   *)
(* runs it, and for a triple emo its numbers are doubled here once more.   *)
(*                                                                         *)
(* A text is a record of what it names: the phase, when it comes to act,   *)
(* and what is then done.  Wording is left out.  What the code has no      *)
(* words for it shows as JSON: Raw.                                        *)
(***************************************************************************)
EXTENDS EmoAbility, TLC

Raw == [does |-> "JSON"]

\* typAndTriple: the emos a condition is about
Those(kinds) == [emos |-> kinds]

\* Mutant: the stats of a triple emo's ability are shown as those of its base
StatsOfBase(action, triple) == [attack |-> action.attack, health |-> action.health]

\* increaseStats, decreaseStats: not saturating
Stats(action, triple) ==
  LET times == IF triple THEN 2 ELSE 1
  IN  [attack |-> times * action.attack, health |-> times * action.health]

\* emoName
EmoName(base, triple) == [base |-> base, triple |-> triple]

\* "Its Sets trigger twice", "Its Retires trigger twice"
Trigger(what, triple) == [does |-> "Trigger", what |-> what, times |-> IF triple THEN 3 ELSE 2]

\* targetAsOneself: "Gain", "Give the right ...", "Give the left ...", "Give other ..."
TargetAsOneself(to) ==
  IF to.at = "Oneself" THEN [give |-> "Gain"] ELSE [give |-> to.at, of |-> Those(to.kinds)]

\* targetOrRandomAsOneself: a number of any others, too
TargetOrRandomAsOneself(to) ==
  IF to.at = "Random" THEN [give |-> "Random", count |-> to.count, of |-> Those(to.kinds)] ELSE TargetAsOneself(to)

\* targetAsAlly: "Give it", "Give its right ...", "Give its left ..."
TargetAsAlly(to) ==
  CASE to.at = "Oneself"          -> [give |-> "Gain"]
    [] to.at \in {"Left", "Right"} -> [give |-> to.at, of |-> Those(to.kinds)]
    [] OTHER                      -> Raw

Give(whom, stats) == [does |-> "Give", whom |-> whom, stats |-> stats]

\* "for each ... EMO" of the others, or of one side's board
ForEach(text, side, of) == [each |-> Those(of), side |-> side] @@ text

--------------------------------------------------------------------------------

\* battleNormalActionAsOneself
BattleAction(action, triple) ==
  CASE action.act = "SetEmo" ->
         [does |-> "Set", emo |-> EmoName(action.base, triple), side |-> action.side]
    [] action.act = "SetEmosByAttackDiv" ->
         [does |-> "Set", emo |-> EmoName(action.base, triple), side |-> action.side, divisor |-> action.divisor]
    [] action.act \in {"IncreaseStats", "DecreaseStats"} ->
         Give(TargetOrRandomAsOneself(action.to), [sign |-> action.act] @@ Stats(action, triple))
    [] action.act = "ByEmoCount" ->
         ForEach(Give(TargetOrRandomAsOneself(action.to), [sign |-> "IncreaseStats"] @@ Stats(action, triple)),
                 action.side, action.of)
    [] action.act = "AddBattleAbility" /\ action.to.at # "Random" ->
         [does |-> "Teach", whom |-> TargetAsOneself(action.to), ability |-> action.ability]
    [] action.act = "AddBattleAbility" /\ action.to.at = "Random" /\ action.to.count = 1 ->
         [does |-> "Teach", ability |-> action.ability,
          whom |-> [give |-> "Random", count |-> IF triple THEN 2 ELSE 1, of |-> Those(action.to.kinds)]]
    [] action.act = "DamageAll" ->
         [does |-> "Damage", side |-> action.side, damage |-> action.damage * (IF triple THEN 2 ELSE 1)]
    [] OTHER -> Raw

\* battleGeneralAsAlly
BattleActionAsAlly(action, triple) ==
  CASE action.act = "IncreaseStats" /\ action.to = Oneself ->
         Give([give |-> "Gain"], [sign |-> "IncreaseStats"] @@ Stats(action, triple))
    [] action.act = "TriggerRetireActions" -> Trigger("Retire", triple)
    [] OTHER -> Raw

\* battleSpecial: each has a text of its own, the same for a triple
SpecialText(ability) == [phase |-> "Battle", special |-> ability.special]

\* battleGeneralAsOneself, battleGeneralAsAlly
BattleText(ability, triple) ==
  IF IsSpecial(ability) THEN SpecialText(ability)
  ELSE [phase |-> "Battle", trigger |-> ability.trigger, of |-> Those(ability.kinds),
        excludesSame |-> ability.as = "Oneself" /\ ability.except,
        action |-> IF ability.as = "Ally" THEN BattleActionAsAlly(ability.action, triple)
                   ELSE BattleAction(ability.action, triple)]

--------------------------------------------------------------------------------

\* An ability that is given to others is described as if nobody were triple.  No base
\* gives one of the shop.
Taught(ability) == IF IsSpecial(ability) THEN ability ELSE BattleText(ability, FALSE)

\* shopNormalActionAsOneself, shopPreAction
ShopAction(action, triple) ==
  CASE action.act = "SetEmo" -> [does |-> "Set", emo |-> EmoName(action.base, triple)]
    [] action.act = "IncreaseStats" -> Give(TargetAsOneself(action.to), Stats(action, triple))
    [] action.act = "OfAdjacentMenagerie" -> Give([give |-> "Adjacent"], Stats(action, triple))
    [] action.act = "OfMenagerie" -> Give([give |-> "Menagerie", count |-> action.count], Stats(action, triple))
    [] action.act = "ByEmoCount" ->
         ForEach(Give(TargetAsOneself(action.to), Stats(action, triple)), "Ally", action.of)
    [] action.act = "AddAbility" ->
         [does |-> "Teach", whom |-> TargetAsOneself(action.to), ability |-> Taught(action.ability)]
    [] action.act = "GetCoin" -> [does |-> "Get", coin |-> action.coin * (IF triple THEN 2 ELSE 1)]
    [] action.act = "GetCoinByCount" ->
         [does |-> "Get", each |-> Those(action.of), divisor |-> action.divisor, times |-> IF triple THEN 2 ELSE 1]
    [] OTHER -> Raw

\* shopPeriAsAlly
ShopActionAsAlly(action, triple) ==
  CASE action.act = "IncreaseStats" -> Give(TargetAsAlly(action.to), Stats(action, triple))
    [] action.act = "ByGrade" -> [byGrade |-> TRUE] @@ Give(TargetAsAlly(action.to), Stats(action, triple))
    [] action.act = "TriggerSetActions" -> Trigger("Set", triple)
    [] OTHER -> Raw

\* shopPeriAsOneself, shopPeriAsAlly
ShopText(ability, triple) ==
  [phase |-> "Shop", trigger |-> ability.trigger, of |-> Those(ability.kinds),
   action |-> IF ability.as = "Ally" THEN ShopActionAsAlly(ability.action, triple)
              ELSE ShopAction(ability.action, triple)]

\* buildEmoAbilityText
Text(ability, triple) ==
  IF ability.phase = "Shop" THEN ShopText(ability, triple) ELSE BattleText(ability, triple)

================================================================================
