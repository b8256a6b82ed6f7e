--------------------------------- MODULE MCPage ---------------------------------
(***************************************************************************)
(* Two accounts and one tab.  Each world asks a question: a match from its *)
(* start to its end, comings and goings, accounts that are switched, decks *)
(* that are edited, an account or a deck changed elsewhere, a release, a   *)
(* failure.                                                                *)
(***************************************************************************)
EXTENDS MtcPage

MCExtension == <<"a", "b">>

\* Five emos of two grades; the second release brings one and retires one
MCGradeOf == [x1 |-> 1, x2 |-> 1, x3 |-> 1, x4 |-> 1, y1 |-> 2]
MCBuiltIds == <<<<"x1", "x2", "x3", "y1">>, <<"x1", "x3", "x4", "y1">>>>
MCKnownIds == <<<<"x1", "x2", "x3", "y1">>, <<"x1", "x2", "x3", "x4", "y1">>>>

Nothing ==
  [moves |-> 0, starts |-> 0, shops |-> 0, switches |-> 0, edits |-> 0, others |-> 0, releases |-> 0, faults |-> 0]

\* Nobody has played yet
Fresh(routes, may) == [routes |-> routes, budget |-> may, ep |-> EmptyMapping, record |-> EmptyMapping]

\* Account a has left a match unfinished
Played(routes, may) ==
  [routes |-> routes, budget |-> may, ep |-> [a |-> 240], record |-> [a |-> [health |-> 3, rivals |-> 2]]]

MCWorlds ==
  {Fresh({"/match"}, [Nothing EXCEPT !.starts = 2, !.shops = 4, !.moves = 1]),
   Fresh({"/match"}, [Nothing EXCEPT !.starts = 1, !.moves = 3]),
   Fresh(RouteIds, [Nothing EXCEPT !.shops = 2, !.moves = 3]),
   Played({"/match"}, [Nothing EXCEPT !.starts = 1, !.switches = 3]),
   Fresh({"/match"}, [Nothing EXCEPT !.edits = 5]),
   Fresh({"/match"}, [Nothing EXCEPT !.edits = 3, !.others = 1]),
   Played({"/match"}, [Nothing EXCEPT !.starts = 1, !.shops = 1, !.others = 1]),
   Fresh({"/match"}, [Nothing EXCEPT !.starts = 1, !.moves = 1, !.edits = 2, !.releases = 1]),
   Fresh({"/match"}, [Nothing EXCEPT !.starts = 1, !.shops = 1, !.moves = 1, !.faults = 1])}

================================================================================
