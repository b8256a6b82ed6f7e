----------------------------- MODULE MatchLifecycle -----------------------------
(***************************************************************************)
(* What the contract promises a player, without boards, ghosts or rounds:  *)
(* a player is in at most one match; a match that is played out is settled *)
(* once, for one of four places; one that is not is charged once, by the   *)
(* start that replaces it; and nothing else ever changes an EP.            *)
(***************************************************************************)
EXTENDS EpRules, Mapping

CONSTANTS
  Accounts,
  TurnLimit  \* the turn from which on a match cannot be played on

VARIABLES
  ep,    \* account -> EP
  turns  \* account -> the turns it has played of the match it is in

Init == ep = EmptyMapping /\ turns = EmptyMapping

StartFirst(a) ==
  /\ a \notin DOMAIN ep
  /\ ep' = MapInsert(ep, a, INITIAL_EP)
  /\ turns' = MapInsert(turns, a, 0)

Start(a) ==
  /\ a \in DOMAIN ep
  /\ a \notin DOMAIN turns
  /\ turns' = MapInsert(turns, a, 0)
  /\ UNCHANGED ep

Abandon(a) ==
  /\ a \in DOMAIN turns
  /\ ep' = MapInsert(ep, a, ReduceEp(ep[a], EP_UNFINISH_PENALTY))
  /\ turns' = MapInsert(turns, a, 0)

PlayOn(a) ==
  /\ a \in DOMAIN turns
  /\ turns[a] + 1 < TurnLimit
  /\ turns' = MapInsert(turns, a, turns[a] + 1)
  /\ UNCHANGED ep

Finish(a, place) ==
  /\ a \in DOMAIN turns
  /\ turns[a] + 1 < TurnLimit
  /\ ep' = MapInsert(ep, a, CalcNewEp(place, ep[a]))
  /\ turns' = MapRemove(turns, a)

Next ==
  \E a \in Accounts :
    \/ StartFirst(a) \/ Start(a) \/ Abandon(a) \/ PlayOn(a)
    \/ \E place \in 1 .. 4 : Finish(a, place)

Spec == Init /\ [][Next]_<<ep, turns>>

================================================================================
