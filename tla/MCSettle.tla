------------------------------- MODULE MCSettle --------------------------------
(***************************************************************************)
(* What finish_mtc does once the match is over and its EP is settled: the  *)
(* player is ranked, and its match becomes a ghost of the store, in one    *)
(* transaction.  Any player may finish from any of three EP bands.         *)
(***************************************************************************)
EXTENDS GhostPool, Leaderboard, TLC

CONSTANTS p1, p2, p3, p4

Symmetry == Permutations(Accounts)

MCGhosts == {"g1", "g2"}

Init == PoolInit /\ LeaderboardInit(Accounts) /\ ChainInit

Settle(player, ep, ghost) ==
  /\ Transaction
  /\ Rank(player, ep)
  /\ AddMatchmakingGhost(player, ep, ghost)

Next ==
  \/ \E player \in Accounts, ep \in PlayerEps, ghost \in MCGhosts : Settle(player, ep, ghost)
  \/ NewBlock /\ UNCHANGED <<poolVars, leaderboardVars>>

Spec == Init /\ [][Next]_<<poolVars, leaderboardVars, chainVars>>

================================================================================
