-------------------------------- MODULE MCMatch --------------------------------
(***************************************************************************)
(* Match against short recorded ghosts.                                    *)
(***************************************************************************)
EXTENDS Match

CONSTANT emo

Turn1(grade, board) == [grade |-> grade, board |-> board]

\* No recording, one that ends with a board and one that ends without
MCGhosts ==
  {<<>>,
   <<Turn1(1, {}), Turn1(2, {emo})>>,
   <<Turn1(1, {emo}), Turn1(2, {})>>}

NoGhosts == {<<>>}

MCBoards == {{}, {emo}}

OneBoard == {{emo}}

NoBoards == {{}}

================================================================================
