----------------------------- MODULE MCGameContract -----------------------------
(***************************************************************************)
(* GameContract on small instances.                                        *)
(***************************************************************************)
EXTENDS GameContract, TLC

CONSTANTS p1, p2, adm, b1, b2

\* One deck for everyone
OneDeck == {[new |-> (b1 :> 1), fixed |-> {}, built |-> {b1}, force |-> FALSE]}

PlayerSymmetry == Permutations(Accounts)

EmptyOrOne == {{}, {b1}}

\* A first deck, a base added without force, a forced update that drops a base, and one
\* that would leave a deck list with an id without a base
Rebases ==
  OneDeck \cup
  {[new |-> (b1 :> 2) @@ (b2 :> 1), fixed |-> {b2}, built |-> {b1}, force |-> FALSE],
   [new |-> (b2 :> 1), fixed |-> {}, built |-> {b2}, force |-> TRUE],
   [new |-> (b2 :> 1), fixed |-> {}, built |-> {b1}, force |-> TRUE]}

================================================================================
