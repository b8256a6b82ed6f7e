----------------------------- MODULE MatchmakingPool -----------------------------
(***************************************************************************)
(* What the matchmaking store promises: every EP band holds at most        *)
(* PoolSize players, each with the ghost of the last match it finished     *)
(* from that band; a newcomer to a full band takes the place of a player   *)
(* whose ghost is one of the oldest, and no other ghost is ever touched.   *)
(***************************************************************************)
EXTENDS Naturals, FiniteSets, Mapping

CONSTANT PoolSize

VARIABLE pool  \* band -> account -> [ghost, block]

Init == pool = EmptyMapping

PlayersOf(band) == IF band \in DOMAIN pool THEN pool[band] ELSE EmptyMapping

Put(band, players, account, entry) ==
  pool' = MapInsert(pool, band, MapInsert(players, account, entry))

Store(band, account, entry) ==
  LET players == PlayersOf(band)
      Oldest(v) == \A u \in DOMAIN players : players[v].block <= players[u].block
  IN  \/ /\ account \in DOMAIN players \/ Cardinality(DOMAIN players) < PoolSize
         /\ Put(band, players, account, entry)
      \/ /\ account \notin DOMAIN players
         /\ Cardinality(DOMAIN players) = PoolSize
         /\ \E victim \in DOMAIN players :
              /\ Oldest(victim)
              /\ Put(band, MapRemove(players, victim), account, entry)

\* An entry is stored, of any account, in any band: it is in the pool afterwards
Next ==
  \E band \in DOMAIN pool' : \E account \in DOMAIN pool'[band] :
    Store(band, account, pool'[band][account])

Spec == Init /\ [][Next]_pool

================================================================================
