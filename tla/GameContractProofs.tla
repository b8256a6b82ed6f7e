--------------------------- MODULE GameContractProofs ---------------------------
(***************************************************************************)
(* Theorems about GameContract: the storage of the contract is typed, a    *)
(* match in progress can always be played on, and the two mappings of the  *)
(* matchmaking store stay in step, whatever players and admins send.       *)
(***************************************************************************)
EXTENDS GameContract, OrganizerProofs, GhostPoolProofs, LeaderboardProofs

\* A mapping from keys to values
Typed(m, K, V) == DOMAIN m \subseteq K /\ \A k \in DOMAIN m : m[k] \in V

\* storage::PlayerImmutable, of a match that knows some bases
MatchSetup(bases) ==
  [pool : SUBSET bases, ghosts : Seq([account : Accounts, ghost : Recording(bases)])]

\* The part of TypeOK about the players
PlayersTypeOK(bases) ==
  /\ Typed(player_ep, Accounts, Ep)
  /\ DOMAIN player_seed \subseteq Accounts
  /\ Typed(player_mtc_immutable, Accounts, MatchSetup(bases))
  /\ Typed(player_mtc_mutable, Accounts, MatchRecord(bases))

\* What is true of the contract between two transactions, and that nothing in its storage
\* refers to a base outside some set
InOrder(bases) ==
  /\ ChainTypeOK /\ RegistryTypeOK
  /\ PoolTypeOK(Recording(bases)) /\ PoolCoherent
  /\ LeaderboardTypeOK(Accounts) /\ RanksOrdered /\ RanksTheBest
  /\ PlayersTypeOK(bases) /\ MatchesPlayable

\* The inductive invariant of the contract: the bases its storage refers to are ids of
\* bases and, unless an admin forced an update, bases that are still there
ContractInv ==
  /\ InOrder(BaseIds)
  /\ ~forced => InOrder(DOMAIN emo_bases)

LEMMA TypeOKIs ==
  TypeOK <=> /\ ChainTypeOK /\ RegistryTypeOK /\ PoolTypeOK(Recording(BaseIds))
             /\ LeaderboardTypeOK(Accounts) /\ PlayersTypeOK(BaseIds)
BY Zenon DEF TypeOK, PlayersTypeOK, Typed, MatchSetup

\* Contract::new
LEMMA InitEstablishes ==
  ASSUME Init, NEW bases
  PROVE  InOrder(bases)
<1>1. DOMAIN EmptyMapping = {}
  BY DEF EmptyMapping
<1>2. ChainTypeOK
  BY ChainAssumption, SMT DEF Init, ChainInit, ChainTypeOK, ChainAssumption
<1>3. RegistryTypeOK
  BY <1>1, Zenon DEF Init, RegistryInit, RegistryTypeOK
<1>4. PoolTypeOK(Recording(bases)) /\ PoolCoherent
  BY <1>1, Zenon DEF Init, PoolInit, PoolTypeOK, PoolCoherent
<1>5. LeaderboardTypeOK(Accounts) /\ RanksOrdered /\ RanksTheBest
  <2>1. leaderboard = <<>> /\ best = [a \in Accounts |-> 0]
    BY DEF Init, LeaderboardInit
  <2>2. LeaderboardTypeOK(Accounts) /\ RanksOrdered
    BY <2>1, SMT DEF LeaderboardTypeOK, RanksOrdered
  <2>3. RanksTheBest
    BY <2>1, LeaderboardAssumption, SMT DEF RanksTheBest, LeaderboardAssumption
  <2> QED  BY <2>2, <2>3
<1>6. PlayersTypeOK(bases) /\ MatchesPlayable
  BY <1>1, Zenon DEF Init, PlayersTypeOK, Typed, MatchesPlayable
<1> QED  BY <1>2, <1>3, <1>4, <1>5, <1>6, Zenon DEF InOrder

\* The admins' messages keep the registry typed: no id of a deck list is left without a
\* base (add_admin, remove_admin, update_emo_bases)
LEMMA AdminStepTypes ==
  RegistryTypeOK /\ AdminStep => RegistryTypeOK'
<1> SUFFICES ASSUME RegistryTypeOK, AdminStep PROVE RegistryTypeOK'
  OBVIOUS
<1>1. CASE \E caller, account \in AdminAccounts : AddAdmin(caller, account) \/ RemoveAdmin(caller, account)
  <2>1. PICK account \in AdminAccounts :
          /\ admins' = admins \cup {account} \/ admins' = admins \ {account}
          /\ UNCHANGED <<emo_bases, deck_fixed_emo_base_ids, deck_built_emo_base_ids, forced>>
    BY <1>1, Zenon DEF AddAdmin, RemoveAdmin
  <2> QED  BY <2>1, SMT DEF RegistryTypeOK
<1>2. CASE \E caller \in AdminAccounts, u \in Updates : UpdateEmoBases(caller, u)
  <2>1. PICK caller \in AdminAccounts, u \in Updates : UpdateEmoBases(caller, u)
    BY <1>2
  <2> DEFINE bases == BuildEmoBases(emo_bases, u.new, u.force)
  <2>2. /\ u.fixed \cup u.built \subseteq DOMAIN bases
        /\ emo_bases' = bases /\ forced' = (forced \/ u.force) /\ admins' = admins
        /\ deck_fixed_emo_base_ids' = u.fixed /\ deck_built_emo_base_ids' = u.built
    BY <2>1, Zenon DEF UpdateEmoBases
  <2>3. /\ DOMAIN u.new \subseteq BaseIds
        /\ \A id \in DOMAIN u.new : u.new[id] \in 1 .. 6
        /\ u.force \in BOOLEAN
    BY RegistryAssumption, Zenon DEF RegistryAssumption
  <2>4. /\ DOMAIN bases \subseteq BaseIds
        /\ \A id \in DOMAIN bases : bases[id] \in 1 .. 6
    <3>1. CASE u.force
      <4>1. bases = u.new
        BY <3>1, Zenon DEF BuildEmoBases
      <4> QED  BY <2>3, <4>1, Zenon
    <3>2. CASE ~u.force
      <4>1. bases = [id \in DOMAIN emo_bases \cup DOMAIN u.new |->
                       IF id \in DOMAIN emo_bases THEN emo_bases[id] ELSE u.new[id]]
        BY <3>2, Zenon DEF BuildEmoBases
      <4> HIDE DEF bases
      <4>2. /\ DOMAIN emo_bases \subseteq BaseIds
            /\ \A id \in DOMAIN emo_bases : emo_bases[id] \in 1 .. 6
        BY DEF RegistryTypeOK
      <4> QED  BY <2>3, <4>1, <4>2, Zenon
    <3> QED  BY <3>1, <3>2
  <2>5. forced' \in BOOLEAN
    BY <2>2, <2>3, Zenon DEF RegistryTypeOK
  <2> HIDE DEF bases
  <2> QED  BY <2>2, <2>4, <2>5, Zenon DEF RegistryTypeOK
<1> QED  BY <1>1, <1>2, Zenon DEF AdminStep

\* A player starts a match with an EP (create_or_update_player_ep)
LEMMA EpAtStartType ==
  ASSUME NEW bases, PlayersTypeOK(bases), NEW player
  PROVE  EpAtStart(player) \in Ep
<1>1. INITIAL_EP \in Ep
  BY SMT DEF INITIAL_EP, Ep, MIN_EP, MAX_EP
<1>2. EP_UNFINISH_PENALTY \in Nat
  BY SMT DEF EP_UNFINISH_PENALTY
<1>3. player \in DOMAIN player_ep => player_ep[player] \in Ep
  BY Zenon DEF PlayersTypeOK, Typed
<1>4. \A ep \in Ep : ReduceEp(ep, EP_UNFINISH_PENALTY) \in Ep
  BY <1>2, ReduceEpType, Zenon
<1> QED  BY <1>1, <1>3, <1>4, Zenon DEF EpAtStart

\* A match starts with everything in its place (start_mtc)
LEMMA StartMtcKeeps ==
  ASSUME NEW bases, DOMAIN emo_bases \subseteq bases, InOrder(bases),
         NEW player \in Accounts, StartMtc(player)
  PROVE  PlayersTypeOK(bases)' /\ MatchesPlayable'
<1> DEFINE ep == EpAtStart(player)
<1>1. PICK deck \in Decks, ghosts \in ChooseGhosts(ep) :
        /\ player_ep' = MapInsert(player_ep, player, ep)
        /\ player_seed' = MapInsert(player_seed, player, Seed("start_mtc"))
        /\ player_mtc_immutable' =
             MapInsert(player_mtc_immutable, player, [pool |-> Pool(deck), ghosts |-> ghosts])
        /\ player_mtc_mutable' = MapInsert(player_mtc_mutable, player, NewMatch(ep))
  BY Zenon DEF StartMtc
<1>2. PlayersTypeOK(bases) /\ RegistryTypeOK /\ PoolTypeOK(Recording(bases)) /\ PoolCoherent
  BY Zenon DEF InOrder
<1>3. ep \in Ep
  BY <1>2, EpAtStartType
<1> HIDE DEF ep
<1> DEFINE setup == [pool |-> Pool(deck), ghosts |-> ghosts]
<1>4. setup \in MatchSetup(bases)
  <2>1. Pool(deck) \in SUBSET bases
    <3>1. deck \in SUBSET deck_built_emo_base_ids
      BY Zenon DEF Decks, kSubset
    <3> QED  BY <1>2, <3>1, Zenon DEF Pool, RegistryTypeOK
  <2>2. ghosts \in Seq([account : Accounts, ghost : Recording(bases)])
    BY <1>2, ChooseGhostsType
  <2> QED  BY <2>1, <2>2, Zenon DEF MatchSetup
<1>5. NewMatch(ep) \in MatchRecord(bases) /\ Playable(NewMatch(ep))
  BY <1>3, NewMatchPlayable
<1>6. /\ Typed(player_ep', Accounts, Ep) /\ DOMAIN player_ep' = DOMAIN player_ep \cup {player}
  <2>1. player_ep' = MapInsert(player_ep, player, ep)
    BY <1>1
  <2>2. Typed(player_ep, Accounts, Ep)
    BY <1>2 DEF PlayersTypeOK
  <2> QED  BY <1>3, <2>1, <2>2, Zenon DEF Typed, MapInsert
<1>7. /\ DOMAIN player_seed' = DOMAIN player_seed \cup {player}
  BY <1>1, Zenon DEF MapInsert
<1> HIDE DEF setup
<1>8. /\ Typed(player_mtc_immutable', Accounts, MatchSetup(bases))
      /\ DOMAIN player_mtc_immutable' = DOMAIN player_mtc_immutable \cup {player}
  <2>1. player_mtc_immutable' = MapInsert(player_mtc_immutable, player, setup)
    BY <1>1 DEF setup
  <2> QED  BY <1>2, <1>4, <2>1, Zenon DEF PlayersTypeOK, Typed, MapInsert
<1>9. /\ Typed(player_mtc_mutable', Accounts, MatchRecord(bases))
      /\ DOMAIN player_mtc_mutable' = DOMAIN player_mtc_mutable \cup {player}
      /\ player_mtc_mutable'[player] = NewMatch(ep)
      /\ \A x \in DOMAIN player_mtc_mutable : x # player => player_mtc_mutable'[x] = player_mtc_mutable[x]
  BY <1>1, <1>2, <1>5, Zenon DEF PlayersTypeOK, Typed, MapInsert
<1>10. PlayersTypeOK(bases)'
  BY <1>2, <1>6, <1>7, <1>8, <1>9, Zenon DEF PlayersTypeOK
<1>11. MatchesPlayable'
  <2>1. /\ DOMAIN player_mtc_immutable = DOMAIN player_mtc_mutable
        /\ \A p \in DOMAIN player_mtc_mutable :
             p \in DOMAIN player_ep /\ p \in DOMAIN player_seed /\ Playable(player_mtc_mutable[p])
    BY Zenon DEF InOrder, MatchesPlayable
  <2>2. DOMAIN player_mtc_immutable' = DOMAIN player_mtc_mutable'
    BY <1>8, <1>9, <2>1
  <2>3. ASSUME NEW p \in DOMAIN player_mtc_mutable'
        PROVE  p \in DOMAIN player_ep' /\ p \in DOMAIN player_seed' /\ Playable(player_mtc_mutable'[p])
    <3>1. CASE p = player
      BY <1>5, <1>6, <1>7, <1>9, <3>1, Zenon
    <3>2. CASE p # player
      BY <1>6, <1>7, <1>9, <2>1, <3>2, Zenon
    <3> QED  BY <3>1, <3>2
  <2> QED  BY <2>2, <2>3, Zenon DEF MatchesPlayable
<1> QED  BY <1>10, <1>11

\* The rivals of a match in progress are recordings, or the empty one (GHOST_COUNT
\* options, unwrap_or_default)
LEMMA GhostsOfType ==
  ASSUME NEW bases, PlayersTypeOK(bases), NEW player \in DOMAIN player_mtc_immutable
  PROVE  GhostsOf(player) \in [GhostIndex -> Recording(bases)]
<1> DEFINE Rival  == [account : Accounts, ghost : Recording(bases)]
           ghosts == player_mtc_immutable[player].ghosts
<1>1. ghosts \in Seq(Rival)
  BY Zenon DEF PlayersTypeOK, Typed, MatchSetup
<1>2. GhostsOf(player) = [i \in GhostIndex |-> IF i < Len(ghosts) THEN ghosts[i + 1].ghost ELSE <<>>]
  BY DEF GhostsOf
<1> HIDE DEF Rival, ghosts
<1>3. ASSUME NEW i \in GhostIndex
      PROVE  (IF i < Len(ghosts) THEN ghosts[i + 1].ghost ELSE <<>>) \in Recording(bases)
  <2>1. CASE i < Len(ghosts)
    <3>1. i + 1 \in 1 .. Len(ghosts)
      BY <1>1, <2>1, LenProperties, SMT DEF GhostIndex
    <3>2. ghosts[i + 1] \in Rival
      BY <1>1, <3>1, ElementOfSeq, Zenon
    <3> QED  BY <2>1, <3>2, Zenon DEF Rival
  <2>2. CASE ~(i < Len(ghosts))
    <3>1. <<>> \in Recording(bases)
      BY SMT DEF Recording
    <3> QED  BY <2>2, <3>1, Zenon
  <2> QED  BY <2>1, <2>2
<1> QED  BY <1>2, <1>3, Zenon

\* A match is settled: everything finish_mtc reads is there, and what it leaves behind is
\* in its place
LEMMA FinishMtcKeeps ==
  ASSUME NEW bases, InOrder(bases), NEW player \in DOMAIN player_mtc_mutable, NEW place \in 1 .. 4,
         NEW history \in Recording(bases), FinishMtc(player, place, history),
         block' = block, player_seed' = MapInsert(player_seed, player, Seed("finish_mtc_shop"))
  PROVE  /\ PlayersTypeOK(bases)' /\ MatchesPlayable'
         /\ PoolTypeOK(Recording(bases))' /\ PoolCoherent'
         /\ LeaderboardTypeOK(Accounts)' /\ RanksOrdered' /\ RanksTheBest'
<1> DEFINE old_ep == player_ep[player]
           new_ep == CalcNewEp(place, old_ep)
<1>1. /\ PlayersTypeOK(bases) /\ ChainTypeOK
      /\ LeaderboardTypeOK(Accounts) /\ RanksOrdered /\ RanksTheBest
      /\ PoolTypeOK(Recording(bases)) /\ PoolCoherent /\ MatchesPlayable
  BY Zenon DEF InOrder
<1>2. /\ Rank(player, new_ep)
      /\ player_ep' = MapInsert(player_ep, player, new_ep)
      /\ AddMatchmakingGhost(player, old_ep, history) \/ UNCHANGED poolVars
      /\ player_mtc_immutable' = MapRemove(player_mtc_immutable, player)
      /\ player_mtc_mutable' = MapRemove(player_mtc_mutable, player)
  BY Zenon DEF FinishMtc
<1>3. player \in Accounts /\ old_ep \in Ep
  BY <1>1, Zenon DEF MatchesPlayable, PlayersTypeOK, Typed
<1>4. new_ep \in Ep
  <2> HIDE DEF old_ep
  <2> QED  BY <1>3, CalcNewEpType
<1> HIDE DEF old_ep, new_ep
<1>5. LeaderboardTypeOK(Accounts)' /\ RanksOrdered' /\ RanksTheBest'
  BY <1>1, <1>2, <1>3, <1>4, RankKeepsOrder, RankKeepsTheBest, Zenon
<1>6. PoolTypeOK(Recording(bases))' /\ PoolCoherent'
  <2>1. block \in 0 .. MaxBlock
    BY <1>1 DEF ChainTypeOK
  <2>2. CASE AddMatchmakingGhost(player, old_ep, history)
    BY <1>1, <1>3, <2>1, <2>2, AddKeepsPool, Zenon
  <2>3. CASE UNCHANGED poolVars
    <3>1. block \in Nat /\ block' \in Nat /\ block <= block'
      BY <2>1, ChainAssumption, SMT DEF ChainAssumption
    <3> QED  BY <1>1, <2>3, <3>1, TimeKeepsPool, Zenon
  <2> QED  BY <1>2, <2>2, <2>3
<1>7. Typed(player_ep', Accounts, Ep) /\ DOMAIN player_ep' = DOMAIN player_ep \cup {player}
  <2>1. player_ep' = MapInsert(player_ep, player, new_ep)
    BY <1>2
  <2>2. Typed(player_ep, Accounts, Ep)
    BY <1>1 DEF PlayersTypeOK
  <2> QED  BY <1>3, <1>4, <2>1, <2>2, Zenon DEF Typed, MapInsert
<1>8. DOMAIN player_seed' = DOMAIN player_seed \cup {player}
  BY Zenon DEF MapInsert
<1>9. /\ Typed(player_mtc_immutable', Accounts, MatchSetup(bases))
      /\ DOMAIN player_mtc_immutable' = DOMAIN player_mtc_immutable \ {player}
  BY <1>1, <1>2, Zenon DEF PlayersTypeOK, Typed, MapRemove
<1>10. /\ Typed(player_mtc_mutable', Accounts, MatchRecord(bases))
       /\ DOMAIN player_mtc_mutable' = DOMAIN player_mtc_mutable \ {player}
       /\ \A p \in DOMAIN player_mtc_mutable' : player_mtc_mutable'[p] = player_mtc_mutable[p]
  BY <1>1, <1>2, Zenon DEF PlayersTypeOK, Typed, MapRemove
<1>11. PlayersTypeOK(bases)'
  BY <1>1, <1>3, <1>7, <1>8, <1>9, <1>10, Zenon DEF PlayersTypeOK
<1>12. MatchesPlayable'
  BY <1>1, <1>7, <1>8, <1>9, <1>10, Zenon DEF MatchesPlayable
<1> QED  BY <1>5, <1>6, <1>11, <1>12

\* A match that goes on goes on to a turn that can be played (finish_mtc_turn)
LEMMA FinishMtcTurnKeeps ==
  ASSUME NEW bases, InOrder(bases), NEW player \in DOMAIN player_mtc_mutable, NEW match,
         FinishMtcTurn(player, match),
         \A next \in NextTurns(match) : next \in MatchRecord(bases) /\ Playable(next),
         block' = block, player_seed' = MapInsert(player_seed, player, Seed("finish_mtc_shop"))
  PROVE  /\ PlayersTypeOK(bases)' /\ MatchesPlayable'
         /\ PoolTypeOK(Recording(bases))' /\ PoolCoherent'
         /\ LeaderboardTypeOK(Accounts)' /\ RanksOrdered' /\ RanksTheBest'
<1>1. /\ PlayersTypeOK(bases) /\ ChainTypeOK
      /\ LeaderboardTypeOK(Accounts) /\ RanksOrdered /\ RanksTheBest
      /\ PoolTypeOK(Recording(bases)) /\ PoolCoherent /\ MatchesPlayable
  BY Zenon DEF InOrder
<1>2. PICK next \in NextTurns(match) :
        player_mtc_mutable' = MapInsert(player_mtc_mutable, player, next)
  BY Zenon DEF FinishMtcTurn
<1>3. UNCHANGED <<poolVars, leaderboardVars, player_ep, player_mtc_immutable>>
  BY Zenon DEF FinishMtcTurn
<1>4. LeaderboardTypeOK(Accounts)' /\ RanksOrdered' /\ RanksTheBest'
  BY <1>1, <1>3, Zenon DEF leaderboardVars, LeaderboardTypeOK, RanksOrdered, RanksTheBest
<1>5. PoolTypeOK(Recording(bases))' /\ PoolCoherent'
  <2>1. block \in Nat /\ block' \in Nat /\ block <= block'
    BY <1>1, ChainAssumption, SMT DEF ChainAssumption, ChainTypeOK
  <2> QED  BY <1>1, <1>3, <2>1, TimeKeepsPool, Zenon
<1>6. next \in MatchRecord(bases) /\ Playable(next)
  BY <1>2
<1>7. player \in Accounts
  BY <1>1, Zenon DEF PlayersTypeOK, Typed
<1>8. /\ Typed(player_mtc_mutable', Accounts, MatchRecord(bases))
      /\ DOMAIN player_mtc_mutable' = DOMAIN player_mtc_mutable \cup {player}
      /\ player_mtc_mutable'[player] = next
      /\ \A x \in DOMAIN player_mtc_mutable : x # player => player_mtc_mutable'[x] = player_mtc_mutable[x]
  <2>1. Typed(player_mtc_mutable, Accounts, MatchRecord(bases))
    BY <1>1 DEF PlayersTypeOK
  <2> QED  BY <1>2, <1>6, <1>7, <2>1, Zenon DEF Typed, MapInsert
<1>9. DOMAIN player_seed' = DOMAIN player_seed \cup {player}
  BY Zenon DEF MapInsert
<1>10. PlayersTypeOK(bases)'
  BY <1>1, <1>3, <1>7, <1>8, <1>9, Zenon DEF PlayersTypeOK
<1>11. MatchesPlayable'
  <2>1. ASSUME NEW p \in DOMAIN player_mtc_mutable'
        PROVE  p \in DOMAIN player_ep /\ p \in DOMAIN player_seed' /\ Playable(player_mtc_mutable'[p])
    <3>1. CASE p = player
      BY <1>1, <1>6, <1>8, <1>9, <3>1, Zenon DEF MatchesPlayable
    <3>2. CASE p # player
      BY <1>1, <1>8, <1>9, <3>2, Zenon DEF MatchesPlayable
    <3> QED  BY <3>1, <3>2
  <2>2. DOMAIN player_mtc_immutable = DOMAIN player_mtc_mutable'
    BY <1>1, <1>8, Zenon DEF MatchesPlayable
  <2> QED  BY <1>3, <2>1, <2>2, Zenon DEF MatchesPlayable
<1> QED  BY <1>4, <1>5, <1>10, <1>11

\* A submitted shop phase settles the match for one of four places, or goes on to a turn
\* that can be played; the board it leaves in the history has only bases that exist
LEMMA FinishMtcShopEnds ==
  ASSUME NEW bases, DOMAIN emo_bases \subseteq bases, InOrder(bases),
         NEW player \in Accounts, FinishMtcShop(player)
  PROVE  \/ \E place \in 1 .. 4, history \in Recording(bases) : FinishMtc(player, place, history)
         \/ \E match :
              /\ FinishMtcTurn(player, match)
              /\ \A next \in NextTurns(match) :
                   /\ next \in MatchRecord(bases) /\ Playable(next)
                   /\ Len(next.history) = Len(player_mtc_mutable[player].history) + 1
<1> DEFINE m      == player_mtc_mutable[player]
           ghosts == GhostsOf(player)
           boards == ShopBoards \cap SUBSET DOMAIN emo_bases
           Ends(round) ==
             \/ /\ round.place # NoPlace
                /\ FinishMtc(player, round.place, round.match.history)
             \/ /\ round.place = NoPlace
                /\ FinishMtcTurn(player, round.match)
<1>1. PlayersTypeOK(bases) /\ MatchesPlayable
  BY Zenon DEF InOrder
<1>2. player \in DOMAIN player_mtc_immutable /\ player \in DOMAIN player_mtc_mutable
  BY Zenon DEF FinishMtcShop
<1>3. PICK shop \in ShopResults(m, boards) : \E round \in Rounds(m, shop, ghosts) : Ends(round)
  BY Zenon DEF FinishMtcShop
<1>4. PICK round \in Rounds(m, shop, ghosts) : Ends(round)
  BY <1>3
<1>5. m \in MatchRecord(bases) /\ Playable(m)
  BY <1>1, <1>2, Zenon DEF PlayersTypeOK, Typed, MatchesPlayable
<1>6. ghosts \in [GhostIndex -> Recording(bases)]
  BY <1>1, <1>2, GhostsOfType
<1>7. boards \in SUBSET SUBSET bases
  BY Zenon
<1>8. /\ round.place \in NoPlace .. 4
      /\ round.match.history \in Recording(bases)
      /\ round.place = NoPlace =>
           \A next \in NextTurns(round.match) :
             /\ next \in MatchRecord(bases) /\ Playable(next)
             /\ Len(next.history) = Len(m.history) + 1
  <2> HIDE DEF m, ghosts, boards
  <2> QED  BY <1>3, <1>5, <1>6, <1>7, RoundKeepsPlayable
<1>9. CASE round.place # NoPlace /\ FinishMtc(player, round.place, round.match.history)
  <2>1. round.place \in 1 .. 4
    BY <1>8, <1>9, SMT DEF NoPlace
  <2> QED  BY <1>8, <1>9, <2>1
<1>10. CASE round.place = NoPlace /\ FinishMtcTurn(player, round.match)
  BY <1>8, <1>10, Zenon
<1> QED  BY <1>4, <1>9, <1>10

\* A submitted shop phase keeps the contract in order, however the round ends
\* (finish_mtc_shop)
LEMMA FinishMtcShopKeeps ==
  ASSUME NEW bases, DOMAIN emo_bases \subseteq bases, InOrder(bases),
         NEW player \in Accounts, FinishMtcShop(player)
  PROVE  InOrder(bases)'
<1>1. ChainTypeOK /\ RegistryTypeOK
  BY Zenon DEF InOrder
<1>2. /\ player \in DOMAIN player_mtc_mutable
      /\ Transaction
      /\ player_seed' = MapInsert(player_seed, player, Seed("finish_mtc_shop"))
      /\ UNCHANGED registryVars
  BY Zenon DEF FinishMtcShop
<1>3. block' = block /\ ChainTypeOK'
  BY <1>1, <1>2, ChainAssumption, SMT DEF Transaction, ChainTypeOK, ChainAssumption
<1>4. /\ PlayersTypeOK(bases)' /\ MatchesPlayable'
      /\ PoolTypeOK(Recording(bases))' /\ PoolCoherent'
      /\ LeaderboardTypeOK(Accounts)' /\ RanksOrdered' /\ RanksTheBest'
  <2>1. ASSUME NEW place \in 1 .. 4, NEW history \in Recording(bases),
               FinishMtc(player, place, history)
        PROVE  <1>4!:
    BY <1>2, <1>3, <2>1, FinishMtcKeeps
  <2>2. ASSUME NEW match, FinishMtcTurn(player, match),
               \A next \in NextTurns(match) : next \in MatchRecord(bases) /\ Playable(next)
        PROVE  <1>4!:
    BY <1>2, <1>3, <2>2, FinishMtcTurnKeeps
  <2> QED  BY <2>1, <2>2, FinishMtcShopEnds
<1>5. RegistryTypeOK'
  BY <1>1, <1>2, Zenon DEF registryVars, RegistryTypeOK
<1> QED  BY <1>3, <1>4, <1>5, Zenon DEF InOrder

\* Nothing but players and blocks touches players, ghosts and ranks: the steps that leave
\* them alone keep them in order, while time passes and while it does not
LEMMA OthersKeep ==
  ASSUME NEW bases, InOrder(bases), UNCHANGED <<poolVars, leaderboardVars, playerVars>>,
         ChainTypeOK', RegistryTypeOK', block <= block'
  PROVE  InOrder(bases)'
<1>1. /\ ChainTypeOK /\ PlayersTypeOK(bases) /\ MatchesPlayable
      /\ LeaderboardTypeOK(Accounts) /\ RanksOrdered /\ RanksTheBest
      /\ PoolTypeOK(Recording(bases)) /\ PoolCoherent
  BY Zenon DEF InOrder
<1>2. PoolTypeOK(Recording(bases))' /\ PoolCoherent'
  <2>1. block \in Nat /\ block' \in Nat
    BY <1>1, ChainAssumption, SMT DEF ChainTypeOK, ChainAssumption
  <2> QED  BY <1>1, <2>1, TimeKeepsPool, Zenon
<1>3. LeaderboardTypeOK(Accounts)' /\ RanksOrdered' /\ RanksTheBest'
  BY <1>1, Zenon DEF leaderboardVars, LeaderboardTypeOK, RanksOrdered, RanksTheBest
<1>4. PlayersTypeOK(bases)' /\ MatchesPlayable'
  BY <1>1, Zenon DEF playerVars, PlayersTypeOK, MatchesPlayable
<1> QED  BY <1>2, <1>3, <1>4, Zenon DEF InOrder

\* Every step of the contract keeps it in order, for any set of bases that holds the bases
\* in the storage before the step
LEMMA StepKeeps ==
  ASSUME NEW bases, DOMAIN emo_bases \subseteq bases, InOrder(bases), [Next]_vars
  PROVE  InOrder(bases)'
<1>1. ChainTypeOK /\ RegistryTypeOK
  BY Zenon DEF InOrder
<1>2. ASSUME Transaction PROVE ChainTypeOK' /\ block <= block'
  BY <1>1, <1>2, ChainAssumption, SMT DEF Transaction, ChainTypeOK, ChainAssumption
<1>3. CASE AdminStep
  <2>1. Transaction /\ UNCHANGED <<poolVars, leaderboardVars, playerVars>>
    BY <1>3, Zenon DEF AdminStep
  <2>2. RegistryTypeOK'
    BY <1>1, <1>3, AdminStepTypes
  <2> QED  BY <1>2, <2>1, <2>2, OthersKeep, Zenon
<1>4. ASSUME NEW player \in Accounts, StartMtc(player) PROVE InOrder(bases)'
  <2>1. Transaction /\ UNCHANGED <<registryVars, poolVars, leaderboardVars>>
    BY <1>4, Zenon DEF StartMtc
  <2>2. PlayersTypeOK(bases)' /\ MatchesPlayable'
    BY <1>4, StartMtcKeeps
  <2>3. RegistryTypeOK'
    BY <1>1, <2>1, Zenon DEF registryVars, RegistryTypeOK
  <2>4. /\ LeaderboardTypeOK(Accounts) /\ RanksOrdered /\ RanksTheBest
        /\ PoolTypeOK(Recording(bases)) /\ PoolCoherent
    BY Zenon DEF InOrder
  <2>5. LeaderboardTypeOK(Accounts)' /\ RanksOrdered' /\ RanksTheBest'
    BY <2>1, <2>4, Zenon DEF leaderboardVars, LeaderboardTypeOK, RanksOrdered, RanksTheBest
  <2>6. PoolTypeOK(Recording(bases))' /\ PoolCoherent'
    <3>1. block \in Nat /\ block' \in Nat /\ block <= block'
      BY <1>1, <2>1, ChainAssumption, SMT DEF Transaction, ChainTypeOK, ChainAssumption
    <3> QED  BY <2>1, <2>4, <3>1, TimeKeepsPool, Zenon
  <2> QED  BY <1>2, <2>1, <2>2, <2>3, <2>5, <2>6, Zenon DEF InOrder
<1>5. ASSUME NEW player \in Accounts, FinishMtcShop(player) PROVE InOrder(bases)'
  BY <1>5, FinishMtcShopKeeps
<1>6. CASE NewBlock /\ UNCHANGED <<registryVars, poolVars, leaderboardVars, playerVars>>
  <2>1. ChainTypeOK' /\ block <= block'
    BY <1>1, <1>6, ChainAssumption, SMT DEF NewBlock, ChainTypeOK, ChainAssumption
  <2>2. RegistryTypeOK'
    BY <1>1, <1>6, Zenon DEF registryVars, RegistryTypeOK
  <2> QED  BY <1>6, <2>1, <2>2, OthersKeep, Zenon
<1>7. CASE UNCHANGED vars
  <2>1. UNCHANGED <<poolVars, leaderboardVars, playerVars>> /\ UNCHANGED <<chainVars, registryVars>>
    BY <1>7, Zenon DEF vars
  <2>2. ChainTypeOK' /\ RegistryTypeOK'
    BY <1>1, <2>1, Zenon DEF chainVars, registryVars, ChainTypeOK, RegistryTypeOK
  <2>3. block <= block'
    BY <1>1, <2>1, ChainAssumption, SMT DEF chainVars, ChainTypeOK, ChainAssumption
  <2> QED  BY <2>1, <2>2, <2>3, OthersKeep, Zenon
<1> QED  BY <1>3, <1>4, <1>5, <1>6, <1>7, Zenon DEF Next

\* No step takes a base away unless it is, or comes after, a forced update
LEMMA BasesStay ==
  ASSUME [Next]_vars, RegistryTypeOK, ~forced'
  PROVE  ~forced /\ DOMAIN emo_bases \subseteq DOMAIN emo_bases'
<1>1. CASE AdminStep
  <2>1. CASE \E caller, account \in AdminAccounts : AddAdmin(caller, account) \/ RemoveAdmin(caller, account)
    <3>1. emo_bases' = emo_bases /\ forced' = forced
      BY <2>1, Zenon DEF AddAdmin, RemoveAdmin
    <3> QED  BY <3>1
  <2>2. CASE \E caller \in AdminAccounts, u \in Updates : UpdateEmoBases(caller, u)
    <3>1. PICK caller \in AdminAccounts, u \in Updates : UpdateEmoBases(caller, u)
      BY <2>2
    <3>2. ~forced /\ ~u.force
      BY <3>1, Zenon DEF UpdateEmoBases
    <3>3. emo_bases' = [id \in DOMAIN emo_bases \cup DOMAIN u.new |->
                          IF id \in DOMAIN emo_bases THEN emo_bases[id] ELSE u.new[id]]
      BY <3>1, <3>2, Zenon DEF UpdateEmoBases, BuildEmoBases
    <3> QED  BY <3>2, <3>3, Zenon
  <2> QED  BY <1>1, <2>1, <2>2, Zenon DEF AdminStep
<1>2. CASE UNCHANGED registryVars
  BY <1>2, Zenon DEF registryVars
<1> QED  BY <1>1, <1>2, Zenon DEF Next, vars, StartMtc, FinishMtcShop

\* Records that refer to bases of a set refer to bases of any larger one
LEMMA RecordsGrow ==
  ASSUME NEW small, NEW large, small \subseteq large
  PROVE  /\ Recording(small) \subseteq Recording(large)
         /\ MatchRecord(small) \subseteq MatchRecord(large)
         /\ MatchSetup(small) \subseteq MatchSetup(large)
<1>1. Recording(small) \subseteq Recording(large)
  <2> DEFINE S == [grade : 1 .. 6, board : SUBSET small]
             L == [grade : 1 .. 6, board : SUBSET large]
  <2>1. S \subseteq L
    BY SMT
  <2> HIDE DEF S, L
  <2>2. Seq(S) \subseteq Seq(L)
    BY <2>1, SMT
  <2> QED  BY <2>2 DEF Recording, S, L
<1>2. MatchRecord(small) \subseteq MatchRecord(large)
  <2> HIDE DEF Recording
  <2> QED  BY <1>1, SMT DEF MatchRecord
<1>3. MatchSetup(small) \subseteq MatchSetup(large)
  <2> DEFINE S == [account : Accounts, ghost : Recording(small)]
             L == [account : Accounts, ghost : Recording(large)]
  <2>1. S \subseteq L
    BY <1>1, SMT
  <2>2. Seq(S) \subseteq Seq(L)
    <3> HIDE DEF S, L
    <3> QED  BY <2>1, SMT
  <2> HIDE DEF S, L
  <2>3. [pool : SUBSET small, ghosts : Seq(S)] \subseteq [pool : SUBSET large, ghosts : Seq(L)]
    BY <2>2, SMT
  <2> QED  BY <2>3 DEF MatchSetup, S, L
<1> QED  BY <1>1, <1>2, <1>3

\* Every step of the contract keeps its inductive invariant
LEMMA NextKeeps ==
  ContractInv /\ [Next]_vars => ContractInv'
<1> SUFFICES ASSUME ContractInv, [Next]_vars PROVE ContractInv'
  OBVIOUS
<1>1. InOrder(BaseIds) /\ RegistryTypeOK /\ DOMAIN emo_bases \subseteq BaseIds
  BY Zenon DEF ContractInv, InOrder, RegistryTypeOK
<1>2. InOrder(BaseIds)'
  BY <1>1, StepKeeps
<1>3. ASSUME ~forced' PROVE InOrder(DOMAIN emo_bases)'
  <2> SUFFICES ASSUME NEW old, old = DOMAIN emo_bases, NEW new, new = DOMAIN emo_bases'
               PROVE  InOrder(new)'
    OBVIOUS
  <2>1. ~forced /\ old \subseteq new
    BY <1>1, <1>3, BasesStay
  <2>2. InOrder(old)
    BY <2>1 DEF ContractInv
  <2>3. InOrder(old)'
    BY <2>2, StepKeeps
  <2>4. /\ Recording(old) \subseteq Recording(new)
        /\ MatchRecord(old) \subseteq MatchRecord(new)
        /\ MatchSetup(old) \subseteq MatchSetup(new)
    BY <2>1, RecordsGrow
  <2>5. PoolTypeOK(Recording(new))' /\ PlayersTypeOK(new)'
    BY <2>3, <2>4, Zenon DEF InOrder, PoolTypeOK, PlayersTypeOK, Typed
  <2> QED  BY <2>3, <2>5, Zenon DEF InOrder
<1> QED  BY <1>2, <1>3 DEF ContractInv

\* The contract stays in order, for any number of players, admins, bases and blocks
THEOREM ContractInvariant ==
  Spec => []ContractInv
<1>1. Init => ContractInv
  <2> SUFFICES ASSUME Init, NEW bases, bases = DOMAIN emo_bases
               PROVE  InOrder(BaseIds) /\ InOrder(bases)
    BY DEF ContractInv
  <2> QED  BY InitEstablishes
<1>2. ContractInv /\ [Next]_vars => ContractInv'
  BY NextKeeps
<1> QED  BY <1>1, <1>2, PTL DEF Spec

\* The storage of the contract is typed: no EP leaves MIN_EP .. MAX_EP, and no id of a
\* deck list is without a base
THEOREM StorageTyped ==
  Spec => []TypeOK
<1>1. ContractInv => TypeOK
  BY TypeOKIs, Zenon DEF ContractInv, InOrder
<1> QED  BY <1>1, ContractInvariant, PTL

\* A match in progress can always be played on: finish_mtc_shop finds what it expects
THEOREM MatchesStayPlayable ==
  Spec => []MatchesPlayable
<1>1. ContractInv => MatchesPlayable
  BY DEF ContractInv, InOrder
<1> QED  BY <1>1, ContractInvariant, PTL

\* The two mappings of the matchmaking store stay in step: choose_ghosts never unwraps a
\* ghost that is not there
THEOREM StoreStaysCoherent ==
  Spec => []PoolCoherent
<1>1. ContractInv => PoolCoherent
  BY DEF ContractInv, InOrder
<1> QED  BY <1>1, ContractInvariant, PTL

\* Whoever starts a match finds the nearest rivals there are (choose_ghosts), from whatever
\* EP and after whatever history of the store
THEOREM RivalsAreNearest ==
  Spec => []NearestRivals
<1>1. ContractInv => NearestRivals
  <2> SUFFICES ASSUME ContractInv PROVE NearestRivals
    OBVIOUS
  <2>1. PoolTypeOK(Recording(BaseIds)) /\ PoolCoherent
    BY Zenon DEF ContractInv, InOrder
  <2> QED  BY <2>1, CoherentPicksNearest, Zenon
<1> QED  BY <1>1, ContractInvariant, PTL

\* The leaderboard stays sorted, with no account on it twice (update_leaderboard)
THEOREM LeaderboardStaysOrdered ==
  Spec => []RanksOrdered
<1>1. ContractInv => RanksOrdered
  BY DEF ContractInv, InOrder
<1> QED  BY <1>1, ContractInvariant, PTL

\* The leaderboard lists the best players of all matches ever finished, by the best EP each
\* of them finished on (update_leaderboard: declined, inserted, moved up, truncated)
THEOREM LeaderboardListsTheBest ==
  Spec => []RanksTheBest
<1>1. ContractInv => RanksTheBest
  BY DEF ContractInv, InOrder
<1> QED  BY <1>1, ContractInvariant, PTL

\* The leaderboard only changes when a match is settled, and ranking its player makes no
\* two others change places (finish_mtc, update_leaderboard)
THEOREM SettlingKeepsOtherRanks ==
  Spec => OthersKeepRank
<1>1. ContractInv /\ [Next]_vars => [\E a \in DOMAIN best : OthersStay(a)]_leaderboard
  <2> SUFFICES ASSUME ContractInv, [Next]_vars, leaderboard' # leaderboard
               PROVE  \E a \in DOMAIN best : OthersStay(a)
    OBVIOUS
  <2>1. /\ InOrder(BaseIds) /\ DOMAIN emo_bases \subseteq BaseIds
        /\ LeaderboardTypeOK(Accounts) /\ RanksOrdered /\ RanksTheBest
        /\ PlayersTypeOK(BaseIds) /\ MatchesPlayable
    BY Zenon DEF ContractInv, InOrder, RegistryTypeOK
  <2>2. PICK player \in Accounts : FinishMtcShop(player)
    BY Zenon DEF Next, vars, leaderboardVars, AdminStep, StartMtc
  <2>3. PICK place \in 1 .. 4, history \in Recording(BaseIds) : FinishMtc(player, place, history)
    BY <2>1, <2>2, FinishMtcShopEnds, Zenon DEF FinishMtcTurn, leaderboardVars
  <2>4. Rank(player, CalcNewEp(place, player_ep[player]))
    BY <2>3, Zenon DEF FinishMtc
  <2>5. player_ep[player] \in Ep
    BY <2>1, <2>2, Zenon DEF FinishMtcShop, MatchesPlayable, PlayersTypeOK, Typed
  <2>6. CalcNewEp(place, player_ep[player]) \in Ep
    BY <2>5, CalcNewEpType
  <2>7. OthersStay(player)
    BY <2>1, <2>4, <2>6, RankKeepsTheBest
  <2>8. player \in DOMAIN best
    BY <2>1 DEF LeaderboardTypeOK
  <2> QED  BY <2>7, <2>8
<1> QED  BY <1>1, ContractInvariant, PTL DEF Spec, OthersKeepRank

\* The boards of a history that knows some bases have no others on them
LEMMA BoardsOfRecording ==
  ASSUME NEW bases, NEW history \in Recording(bases)
  PROVE  BoardsOf(history) \subseteq bases
<1> DEFINE T == [grade : 1 .. 6, board : SUBSET bases]
<1>1. history \in Seq(T)
  BY DEF Recording
<1>2. \A i \in DOMAIN history : history[i] \in T
  <2> HIDE DEF T
  <2> QED  BY <1>1, LenProperties, ElementOfSeq, Zenon
<1> QED  BY <1>2, Zenon DEF BoardsOf

\* Unless an admin ever forced an update, every base a match, a rival or a stored ghost
\* refers to exists (check_and_build_emo_bases, start_mtc, finish_mtc_shop, finish_mtc)
THEOREM ReferencesStayResolved ==
  Spec => []ReferencesResolve
<1>1. ContractInv => ReferencesResolve
  <2> SUFFICES ASSUME NEW bases, bases = DOMAIN emo_bases, InOrder(bases)
               PROVE  /\ \A p \in DOMAIN player_mtc_immutable :
                           /\ player_mtc_immutable[p].pool \subseteq bases
                           /\ \A i \in GhostIndex : BoardsOf(GhostsOf(p)[i]) \subseteq bases
                           /\ BoardsOf(player_mtc_mutable[p].history) \subseteq bases
                      /\ \A key \in DOMAIN matchmaking_ghost_by_index :
                           BoardsOf(matchmaking_ghost_by_index[key]) \subseteq bases
    BY DEF ContractInv, ReferencesResolve
  <2>1. PlayersTypeOK(bases) /\ MatchesPlayable /\ PoolTypeOK(Recording(bases))
    BY Zenon DEF InOrder
  <2>2. ASSUME NEW key \in DOMAIN matchmaking_ghost_by_index
        PROVE  BoardsOf(matchmaking_ghost_by_index[key]) \subseteq bases
    BY <2>1, BoardsOfRecording, Zenon DEF PoolTypeOK
  <2>3. ASSUME NEW p \in DOMAIN player_mtc_immutable
        PROVE  /\ player_mtc_immutable[p].pool \subseteq bases
               /\ \A i \in GhostIndex : BoardsOf(GhostsOf(p)[i]) \subseteq bases
               /\ BoardsOf(player_mtc_mutable[p].history) \subseteq bases
    <3>1. player_mtc_immutable[p] \in MatchSetup(bases)
      BY <2>1, Zenon DEF PlayersTypeOK, Typed
    <3>2. player_mtc_immutable[p].pool \subseteq bases
      BY <3>1, SMT DEF MatchSetup
    <3>3. \A i \in GhostIndex : GhostsOf(p)[i] \in Recording(bases)
      <4>1. GhostsOf(p) \in [GhostIndex -> Recording(bases)]
        BY <2>1, GhostsOfType
      <4> QED  BY <4>1
    <3>4. player_mtc_mutable[p].history \in Recording(bases)
      <4>1. player_mtc_mutable[p] \in MatchRecord(bases)
        BY <2>1, Zenon DEF MatchesPlayable, PlayersTypeOK, Typed
      <4> QED  BY <4>1, SMT DEF MatchRecord
    <3> QED  BY <3>2, <3>3, <3>4, BoardsOfRecording, Zenon
  <2> QED  BY <2>2, <2>3
<1> QED  BY <1>1, ContractInvariant, PTL

\* The contract implements the store it promises: a ghost stays the ghost of its player until
\* the player finishes again from that band, or it is one of the oldest of a full band and
\* makes room (finish_mtc, add_matchmaking_ghost)
THEOREM ContractImplementsStore ==
  Spec => StoreImplemented
<1>1. Init => Abstract!Init
  <2> SUFFICES ASSUME matchmaking_ghosts_info = EmptyMapping
               PROVE  AbstractPool = Abstract!EmptyMapping
    BY Zenon DEF Init, PoolInit, Abstract!Init
  <2>1. DOMAIN matchmaking_ghosts_info = {}
    BY DEF EmptyMapping
  <2> QED  BY <2>1, Zenon DEF AbstractPool, Abstract!EmptyMapping
<1>2. ContractInv /\ [Next]_vars => [Abstract!Next]_AbstractPool
  <2> SUFFICES ASSUME ContractInv, [Next]_vars, AbstractPool' # AbstractPool
               PROVE  Abstract!Next
    OBVIOUS
  <2>1. /\ InOrder(BaseIds) /\ DOMAIN emo_bases \subseteq BaseIds
        /\ PoolTypeOK(Recording(BaseIds)) /\ PoolCoherent /\ ChainTypeOK
        /\ PlayersTypeOK(BaseIds) /\ MatchesPlayable
    BY Zenon DEF ContractInv, InOrder, RegistryTypeOK
  <2>2. ~UNCHANGED poolVars
    BY Zenon DEF poolVars, AbstractPool
  <2>3. PICK player \in Accounts : FinishMtcShop(player)
    BY <2>2, Zenon DEF Next, vars, AdminStep, StartMtc
  <2>4. PICK place \in 1 .. 4, history \in Recording(BaseIds) : FinishMtc(player, place, history)
    BY <2>1, <2>2, <2>3, FinishMtcShopEnds, Zenon DEF FinishMtcTurn
  <2>5. AddMatchmakingGhost(player, player_ep[player], history)
    BY <2>2, <2>4, Zenon DEF FinishMtc
  <2>6. block \in 0 .. MaxBlock
    BY <2>1 DEF ChainTypeOK
  <2> QED  BY <2>1, <2>5, <2>6, AddStores, Zenon
<1> QED  BY <1>1, <1>2, ContractInvariant, PTL DEF Spec, StoreImplemented, Abstract!Spec

--------------------------------------------------------------------------------

\* player_ep is a mapping, so that inserting the value it holds leaves it as it is
IsMapping(m) == m = [k \in DOMAIN m |-> m[k]]

LEMMA EpStaysMapping ==
  Spec => []IsMapping(player_ep)
<1>1. Init => IsMapping(player_ep)
  BY Zenon DEF Init, EmptyMapping, IsMapping
<1>2. IsMapping(player_ep) /\ [Next]_vars => IsMapping(player_ep)'
  <2> SUFFICES ASSUME IsMapping(player_ep), [Next]_vars PROVE IsMapping(player_ep')
    OBVIOUS
  <2>1. player_ep' = player_ep \/ \E player, ep : player_ep' = MapInsert(player_ep, player, ep)
    BY Zenon DEF Next, vars, playerVars, AdminStep, StartMtc, FinishMtcShop, FinishMtc, FinishMtcTurn
  <2> QED  BY <2>1, Zenon DEF IsMapping, MapInsert
<1> QED  BY <1>1, <1>2, PTL DEF Spec

\* Inserting and removing records inserts and removes their turns (Mapping)
TurnsOf(m) == [p \in DOMAIN m |-> Len(m[p].history)]

LEMMA TurnsOfInsert ==
  ASSUME NEW m, NEW player, NEW record
  PROVE  TurnsOf(MapInsert(m, player, record)) = MapInsert(TurnsOf(m), player, Len(record.history))
<1> DEFINE new == MapInsert(m, player, record)
<1>1. /\ DOMAIN new = DOMAIN m \cup {player}
      /\ new[player] = record
      /\ \A p \in DOMAIN m : p # player => new[p] = m[p]
  BY Zenon DEF MapInsert
<1> HIDE DEF new
<1>2. TurnsOf(new)
        = [p \in DOMAIN m \cup {player} |->
             IF p = player THEN Len(record.history) ELSE Len(m[p].history)]
  BY <1>1, Zenon DEF TurnsOf
<1> QED  BY <1>2, Zenon DEF MapInsert, TurnsOf, new

LEMMA TurnsOfRemove ==
  ASSUME NEW m, NEW player
  PROVE  TurnsOf(MapRemove(m, player)) = MapRemove(TurnsOf(m), player)
BY Zenon DEF MapRemove, TurnsOf

LEMMA TurnsPlayedIs ==
  TurnsPlayed = TurnsOf(player_mtc_mutable) /\ TurnsPlayed' = TurnsOf(player_mtc_mutable')
BY Zenon DEF TurnsPlayed, TurnsOf

\* A start is the first one, one after a settled match, or one that pays for the match it
\* replaces (create_or_update_player_ep)
LEMMA StartMtcRefines ==
  ASSUME ContractInv, IsMapping(player_ep), NEW player \in Accounts, StartMtc(player)
  PROVE  Lifecycle!StartFirst(player) \/ Lifecycle!Start(player) \/ Lifecycle!Abandon(player)
<1> DEFINE record == NewMatch(EpAtStart(player))
<1>1. /\ player_ep' = MapInsert(player_ep, player, EpAtStart(player))
      /\ player_mtc_mutable' = MapInsert(player_mtc_mutable, player, record)
  BY Zenon DEF StartMtc
<1>6. Len(record.history) = 0
  BY SMT DEF NewMatch
<1> HIDE DEF record
<1>7. TurnsPlayed' = MapInsert(TurnsPlayed, player, 0)
  BY <1>1, <1>6, TurnsOfInsert, TurnsPlayedIs, Zenon
<1>8. DOMAIN TurnsPlayed = DOMAIN player_mtc_mutable
  BY Zenon DEF TurnsPlayed
<1>2. player \in DOMAIN player_mtc_mutable => player \in DOMAIN player_ep
  BY Zenon DEF ContractInv, InOrder, MatchesPlayable
<1>3. CASE player \notin DOMAIN player_ep
  <2>1. player_ep' = MapInsert(player_ep, player, INITIAL_EP)
    BY <1>1, <1>3, Zenon DEF EpAtStart
  <2> QED  BY <1>3, <1>7, <2>1, Zenon DEF Lifecycle!StartFirst, Lifecycle!MapInsert, MapInsert,
                                       Lifecycle!INITIAL_EP, INITIAL_EP
<1>4. CASE player \in DOMAIN player_ep /\ player \notin DOMAIN player_mtc_mutable
  <2>1. player_ep' = MapInsert(player_ep, player, player_ep[player])
    BY <1>1, <1>4, Zenon DEF EpAtStart
  <2>2. player_ep' = player_ep
    BY <1>4, <2>1, Zenon DEF MapInsert, IsMapping
  <2> QED  BY <1>4, <1>7, <1>8, <2>2, Zenon DEF Lifecycle!Start, Lifecycle!MapInsert, MapInsert
<1>5. CASE player \in DOMAIN player_mtc_mutable
  <2>1. player_ep' = MapInsert(player_ep, player, ReduceEp(player_ep[player], EP_UNFINISH_PENALTY))
    BY <1>1, <1>2, <1>5, Zenon DEF EpAtStart
  <2> QED  BY <1>5, <1>7, <1>8, <2>1, Zenon
             DEF Lifecycle!Abandon, Lifecycle!MapInsert, MapInsert, Lifecycle!ReduceEp, ReduceEp,
                 Lifecycle!EP_UNFINISH_PENALTY, EP_UNFINISH_PENALTY, Lifecycle!MIN_EP, MIN_EP
<1> QED  BY <1>3, <1>4, <1>5

\* A submitted shop phase settles the match for one of four places, or leaves the player in
\* it with the same EP (finish_mtc, finish_mtc_turn)
LEMMA FinishMtcShopRefines ==
  ASSUME ContractInv, NEW player \in Accounts, FinishMtcShop(player)
  PROVE  \/ \E place \in 1 .. 4 : Lifecycle!Finish(player, place)
         \/ Lifecycle!PlayOn(player)
<1> DEFINE m == player_mtc_mutable[player]
<1>1. InOrder(BaseIds) /\ DOMAIN emo_bases \subseteq BaseIds
  BY Zenon DEF ContractInv, InOrder, RegistryTypeOK
<1>2. player \in DOMAIN TurnsPlayed /\ TurnsPlayed[player] = Len(m.history) /\ Len(m.history) + 1 < TurnLimit
  <2>1. Turn(m) < TurnLimit /\ player \in DOMAIN player_mtc_mutable
    BY Zenon DEF FinishMtcShop
  <2>2. Len(m.history) + 1 < TurnLimit
    BY <2>1, Zenon DEF Turn
  <2> QED  BY <2>1, <2>2, Zenon DEF TurnsPlayed
<1>3. ASSUME NEW place \in 1 .. 4, NEW history, FinishMtc(player, place, history)
      PROVE  Lifecycle!Finish(player, place)
  <2>1. /\ player_ep' = MapInsert(player_ep, player, CalcNewEp(place, player_ep[player]))
        /\ player_mtc_mutable' = MapRemove(player_mtc_mutable, player)
    BY <1>3, Zenon DEF FinishMtc
  <2>2. CalcNewEp(place, player_ep[player]) = Lifecycle!CalcNewEp(place, player_ep[player])
    BY DEF CalcNewEp, Lifecycle!CalcNewEp, SaturatingAdd, Lifecycle!SaturatingAdd, Gain, Lifecycle!Gain,
           ReduceEp, Lifecycle!ReduceEp, MAX_EP, Lifecycle!MAX_EP, MIN_EP, Lifecycle!MIN_EP,
           INITIAL_EP, Lifecycle!INITIAL_EP
  <2>3. TurnsPlayed' = MapRemove(TurnsPlayed, player)
    BY <2>1, TurnsOfRemove, TurnsPlayedIs, Zenon
  <2> QED  BY <1>2, <2>1, <2>2, <2>3, Zenon
           DEF Lifecycle!Finish, Lifecycle!MapInsert, MapInsert, Lifecycle!MapRemove, MapRemove
<1>4. ASSUME NEW match, FinishMtcTurn(player, match),
             \A next \in NextTurns(match) : Len(next.history) = Len(m.history) + 1
      PROVE  Lifecycle!PlayOn(player)
  <2>1. PICK next \in NextTurns(match) :
          player_mtc_mutable' = MapInsert(player_mtc_mutable, player, next)
    BY <1>4, Zenon DEF FinishMtcTurn
  <2>2. player_ep' = player_ep
    BY <1>4, Zenon DEF FinishMtcTurn
  <2>3. TurnsPlayed' = MapInsert(TurnsPlayed, player, Len(next.history))
    BY <2>1, TurnsOfInsert, TurnsPlayedIs, Zenon
  <2>4. TurnsPlayed' = MapInsert(TurnsPlayed, player, TurnsPlayed[player] + 1)
    BY <1>2, <1>4, <2>3, Zenon
  <2> QED  BY <1>2, <2>2, <2>4, Zenon DEF Lifecycle!PlayOn, Lifecycle!MapInsert, MapInsert
<1> QED  BY <1>1, <1>3, <1>4, FinishMtcShopEnds

\* The contract implements the lifecycle it promises: a player is in one match at most, and
\* an EP only changes by a first start, one charge per abandoned match, and one settlement
\* per finished match
THEOREM ContractImplementsLifecycle ==
  Spec => LifecycleImplemented
<1>1. Init => Lifecycle!Init
  BY Zenon DEF Init, Lifecycle!Init, EmptyMapping, Lifecycle!EmptyMapping, TurnsPlayed
<1>2. ContractInv /\ IsMapping(player_ep) /\ [Next]_vars
        => [Lifecycle!Next]_<<player_ep, TurnsPlayed>>
  <2> SUFFICES ASSUME ContractInv, IsMapping(player_ep), [Next]_vars
               PROVE  Lifecycle!Next \/ UNCHANGED <<player_ep, TurnsPlayed>>
    OBVIOUS
  <2>1. CASE UNCHANGED playerVars
    BY <2>1, Zenon DEF playerVars, TurnsPlayed
  <2>2. ASSUME NEW player \in Accounts, StartMtc(player)
        PROVE  Lifecycle!Next
    BY <2>2, StartMtcRefines, Zenon DEF Lifecycle!Next
  <2>3. ASSUME NEW player \in Accounts, FinishMtcShop(player)
        PROVE  Lifecycle!Next
    BY <2>3, FinishMtcShopRefines, Zenon DEF Lifecycle!Next
  <2>4. \/ UNCHANGED playerVars
        \/ \E player \in Accounts : StartMtc(player) \/ FinishMtcShop(player)
    BY Zenon DEF Next, AdminStep, vars
  <2> QED  BY <2>1, <2>2, <2>3, <2>4, Zenon
<1> QED  BY <1>1, <1>2, ContractInvariant, EpStaysMapping, PTL
          DEF Spec, LifecycleImplemented, Lifecycle!Spec

================================================================================
