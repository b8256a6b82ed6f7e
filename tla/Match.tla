--------------------------------- MODULE Match ---------------------------------
(***************************************************************************)
(* One match on its own, against three given ghosts: the turns of          *)
(* finish_mtc_shop (contract/game/src/lib.rs) over the rounds of           *)
(* Organizer.  Nothing else in the storage touches a match in progress, so *)
(* this is where its rules are checked on long matches and rich boards.    *)
(***************************************************************************)
EXTENDS Organizer

CONSTANTS
  StartEps,  \* the EPs a player may start from
  Ghosts,    \* the ghosts matchmaking may choose
  Boards     \* the boards a player may leave the shop with

\* The ids of the emos on any of these boards
EmoIds ==
  UNION Boards \cup UNION {UNION {ghost[i].board : i \in DOMAIN ghost} : ghost \in Ghosts}

ASSUME MatchAssumption ==
  /\ StartEps \subseteq Ep
  /\ \A ghost \in Ghosts : ghost \in Recording(EmoIds)

VARIABLES
  match,   \* the record of the match
  ghosts,  \* the three rivals, chosen at the start
  place,   \* NoPlace, or the final place
  fallen   \* history: ghost -> [turn, health] of its last living round, 0 while it lives

matchVars == <<match, ghosts, place, fallen>>

Init ==
  /\ \E ep \in StartEps : match = NewMatch(ep)
  /\ ghosts \in [GhostIndex -> Ghosts]
  /\ place = NoPlace
  /\ fallen = [i \in GhostIndex |-> [turn |-> 0, health |-> 0]]

\* finish_mtc_shop, up to the settlement of a finished match
PlayTurn(shop) ==
  /\ place = NoPlace
  /\ Turn(match) < TurnLimit
  /\ \E round \in Rounds(match, shop, ghosts) :
       /\ place' = round.place
       /\ IF round.place = NoPlace THEN match' \in NextTurns(round.match)
          ELSE match' = round.match
  /\ fallen' = [i \in GhostIndex |->
                  IF IsActive(match.ghost_states[i]) /\ ~IsActive(match'.ghost_states[i])
                  THEN [turn |-> Turn(match), health |-> match.ghost_states[i].health]
                  ELSE fallen[i]]
  /\ UNCHANGED ghosts

Next == \E shop \in ShopResults(match, Boards) : PlayTurn(shop)

Spec == Init /\ [][Next]_matchVars

\* The player submits the next shop phase for as long as the contract takes it
FairSpec == Spec /\ WF_matchVars(Next)

--------------------------------------------------------------------------------

\* An unfinished match can be played on, and a finished one never leaves the turns
\* behind it inconsistent
MatchInv ==
  /\ place \in NoPlace .. 4
  /\ place = NoPlace => Playable(match)

\* calc_final_place against the rules of the game: first is the one who survives three
\* fallen rivals; a dead player is behind everyone still standing, and ahead of
\* everyone who fell in an earlier round
PlaceIsDeserved ==
  place # NoPlace =>
    /\ place = 1 <=> match.health > 0
    /\ place = 1 <=> Live(match.ghost_states) = {}
    /\ place > Cardinality(Live(match.ghost_states))
    /\ place <= 4 - Cardinality({i \in GhostIndex : fallen[i].turn \in 1 .. Len(match.history) - 1})

\* select_battle_ghost_index: the player never meets the same ghost twice in a row while
\* another one is alive
NoRepeatedOpponent ==
  [][place' = NoPlace =>
       \/ match'.battle_ghost_index # match.battle_ghost_index
       \/ Live(match'.ghost_states) = {match'.battle_ghost_index}]_match

\* A retired ghost stays retired and keeps fielding, in the fights of the others, the
\* board of the turn it retired in, however long the match goes on
RetiredGhostsFrozen ==
  [][\A i \in GhostIndex :
       LET before == match.ghost_states[i]
           after  == match'.ghost_states[i]
       IN  ~IsActive(before) =>
             /\ after = before
             /\ GradeAndGhostBoard(ghosts[i], after, Turn(match'))
                  = GradeAndGhostBoard(ghosts[i], Active(1), fallen[i].turn)]_match

\* Every match ends with a place: "The match finishes when all of your rivals or you
\* have retired" (docs/how-to-play.md)
MatchConcludes == <>(place # NoPlace)

================================================================================
