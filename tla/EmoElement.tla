------------------------------- MODULE EmoElement -------------------------------
(***************************************************************************)
(* The page element of an emo and the lines of elements, which both phases *)
(* show: front/src/misc/emo/element.ts, elementAnimations.ts and           *)
(* elementHelpers.ts.                                                      *)
(***************************************************************************)
EXTENDS AbilityText, Sequences, SequencesExt

IconOf(ability) ==
  IF ability.phase = "Battle" /\ IsSpecial(ability) THEN {ability.special} \cap {"Shield", "Attractive"} ELSE {}

\* createSpecials
Icons(abilities) == UNION {IconOf(abilities[i]) : i \in DOMAIN abilities}

\* createInfoAbilities
Rows(emo) == [i \in DOMAIN emo.abilities |-> Text(emo.abilities[i], emo.triple)]

\* createEmo: what an element shows of its emo
Element(emo) ==
  [base |-> emo.base, triple |-> emo.triple, attack |-> emo.attack, health |-> emo.health,
   icons |-> Icons(emo.abilities), rows |-> Rows(emo)]

\* addInfoAbility and the icon of a special ability
WithAbility(element, ability, triple) ==
  [element EXCEPT !.rows = Append(@, Text(ability, triple)), !.icons = @ \cup IconOf(ability)]

\* updateStats: a number that does not change is not written
WithStats(element, l) ==
  [element EXCEPT !.attack = IF l.attack # 0 THEN l.calculated.attack ELSE @,
                  !.health = IF l.health # 0 THEN l.calculated.health ELSE @]

\* insertElementByIndex: after the last if there is no such index
InsertElement(line, index, element) == InsertAt(line, Min({index, Len(line)}) + 1, element)

\* getChildDivByIndex: throws when there is no such element
HasChild(line, index) == index < Len(line)

================================================================================
