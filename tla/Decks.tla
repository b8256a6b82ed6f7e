--------------------------------- MODULE Decks ---------------------------------
(***************************************************************************)
(* The decks a player builds, kept in the localStorage of the browser,     *)
(* which all its tabs share: front/src/components/pages/Mtc/Setup/Decks.   *)
(*                                                                         *)
(* A deck is a sequence of base ids, one for each grade.  The default deck *)
(* is not stored; it comes first in the list a tab shows, at index 0 in    *)
(* the code and at index 1 here.                                           *)
(***************************************************************************)
EXTENDS Naturals, Sequences, SequencesExt, FiniteSets

CONSTANT GradeOf  \* base id -> grade

VARIABLES
  customDecks,       \* address -> the decks stored for it
  selectedDeckIndex  \* address -> the index stored for it, 0 if none is

storageVars == <<customDecks, selectedDeckIndex>>

DecksInit(addresses) ==
  /\ customDecks = [a \in addresses |-> <<>>]
  /\ selectedDeckIndex = [a \in addresses |-> 0]

Grades(builtIds) == {GradeOf[builtIds[i]] : i \in DOMAIN builtIds}

\* groupEmoBasesByGrades: the built ids by ascending grade, in their order
GroupByGrades(builtIds) ==
  LET grades == SetToSortSeq(Grades(builtIds), LAMBDA a, b : a < b)
  IN  [g \in DOMAIN grades |-> SelectSeq(builtIds, LAMBDA id : GradeOf[id] = grades[g])]

\* getDefaultDeck
DefaultDeck(builtIds) ==
  LET groups == GroupByGrades(builtIds) IN [g \in DOMAIN groups |-> groups[g][1]]

\* The decks the builder can be set to: one of its dropdowns for each grade
BuilderDecks(builtIds) ==
  LET groups == GroupByGrades(builtIds)
  IN  {deck \in [DOMAIN groups -> ToSet(builtIds)] : \A g \in DOMAIN groups : deck[g] \in ToSet(groups[g])}

Listed(address, builtIds) == <<DefaultDeck(builtIds)>> \o customDecks[address]

\* getDecks: a stored index that is past the end is passed over
GetDecks(address, builtIds) ==
  LET decks == Listed(address, builtIds)
  IN  [decks |-> decks,
       index |-> IF selectedDeckIndex[address] \in DOMAIN decks THEN selectedDeckIndex[address] ELSE 1]

IsStale(deck, builtIds) == ~ToSet(deck) \subseteq ToSet(builtIds)

\* selectDeckIndex throws if the list has become shorter than the one shown
SelectDeckIndex(address, index, builtIds) ==
  /\ index \in DOMAIN Listed(address, builtIds)
  /\ selectedDeckIndex' = [selectedDeckIndex EXCEPT ![address] = index]
  /\ UNCHANGED customDecks

\* addDeck: a deck is a duplicate of one that is a prefix of it
AddDeck(address, deck, builtIds) ==
  /\ LET decks == Listed(address, builtIds)
     IN  customDecks' =
           IF \E i \in DOMAIN decks : IsPrefix(decks[i], deck) THEN customDecks
           ELSE [customDecks EXCEPT ![address] = Append(@, deck)]
  /\ UNCHANGED selectedDeckIndex

\* Mutant: the stored index stays
DeleteDeckKeepingIndex(address, index) ==
  /\ customDecks' =
       [customDecks EXCEPT ![address] = IF index - 1 \in DOMAIN @ THEN RemoveAt(@, index - 1) ELSE @]
  /\ UNCHANGED selectedDeckIndex

\* deleteDeck removes the deck now at that place, if there is one, and the stored index
DeleteDeck(address, index) ==
  /\ index # 1
  /\ customDecks' =
       [customDecks EXCEPT ![address] = IF index - 1 \in DOMAIN @ THEN RemoveAt(@, index - 1) ELSE @]
  /\ selectedDeckIndex' = [selectedDeckIndex EXCEPT ![address] = 0]

================================================================================
