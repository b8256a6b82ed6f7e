------------------------------ MODULE GameContract ------------------------------
(***************************************************************************)
(* The ink! contract, contract/game/src/lib.rs: players start matches and  *)
(* submit one shop phase at a time; the contract fights the round of that  *)
(* turn, and when the match is over it settles the EP, the leaderboard and *)
(* the matchmaking store.  Admins may change the bases under all of that   *)
(* at any time.                                                            *)
(***************************************************************************)
EXTENDS GhostPool, Leaderboard, BaseRegistry, Organizer

CONSTANT ShopBoards  \* the boards a player may leave the shop with

ASSUME ContractAssumption == ShopBoards \subseteq SUBSET BaseIds

VARIABLES
  player_ep,             \* account -> EP, from the first match on
  player_seed,           \* account -> what the last seed was hashed from
  player_mtc_immutable,  \* account -> [pool, ghosts] of the match in progress
  player_mtc_mutable     \* account -> [health, history, upgrade_coin, ...] of that match

playerVars == <<player_ep, player_seed, player_mtc_immutable, player_mtc_mutable>>

vars == <<chainVars, registryVars, poolVars, leaderboardVars, playerVars>>

\* get_insecure_random_seed hashes the subject, the account and the block's time
Seed(subject) == [subject |-> subject, timestamp |-> block]

Init ==
  /\ ChainInit /\ RegistryInit /\ PoolInit
  /\ LeaderboardInit(Accounts)
  /\ player_ep = EmptyMapping
  /\ player_seed = EmptyMapping
  /\ player_mtc_immutable = EmptyMapping
  /\ player_mtc_mutable = EmptyMapping

--------------------------------------------------------------------------------

\* Mutant: the match in progress is not looked at
EpAtStartUncharged(player) ==
  IF player \in DOMAIN player_ep THEN player_ep[player] ELSE INITIAL_EP

\* create_or_update_player_ep: a match left unfinished is paid for at the next start
EpAtStart(player) ==
  IF player \notin DOMAIN player_ep THEN INITIAL_EP
  ELSE IF player \in DOMAIN player_mtc_mutable
       THEN ReduceEp(player_ep[player], EP_UNFINISH_PENALTY)
       ELSE player_ep[player]

StartMtc(player) ==
  LET ep == EpAtStart(player)
  IN  \E deck \in Decks, ghosts \in ChooseGhosts(ep) :
        /\ Transaction
        /\ player_ep' = MapInsert(player_ep, player, ep)
        /\ player_seed' = MapInsert(player_seed, player, Seed("start_mtc"))
        /\ player_mtc_immutable' =
             MapInsert(player_mtc_immutable, player, [pool |-> Pool(deck), ghosts |-> ghosts])
        /\ player_mtc_mutable' = MapInsert(player_mtc_mutable, player, NewMatch(ep))
        /\ UNCHANGED <<registryVars, poolVars, leaderboardVars>>

\* The ghosts of a match, an empty one for each rival that matchmaking did not find
GhostsOf(player) ==
  LET ghosts == player_mtc_immutable[player].ghosts
  IN  [i \in GhostIndex |-> IF i < Len(ghosts) THEN ghosts[i + 1].ghost ELSE <<>>]

\* finish_mtc
FinishMtc(player, place, history) ==
  LET old_ep == player_ep[player]
      new_ep == CalcNewEp(place, old_ep)
  IN  /\ Rank(player, new_ep)
      /\ player_ep' = MapInsert(player_ep, player, new_ep)
      /\ IF history[Len(history)].board # {}
         THEN AddMatchmakingGhost(player, old_ep, history)
         ELSE UNCHANGED poolVars
      /\ player_mtc_immutable' = MapRemove(player_mtc_immutable, player)
      /\ player_mtc_mutable' = MapRemove(player_mtc_mutable, player)

\* finish_mtc_turn
FinishMtcTurn(player, match) ==
  /\ \E next \in NextTurns(match) :
       player_mtc_mutable' = MapInsert(player_mtc_mutable, player, next)
  /\ UNCHANGED <<poolVars, leaderboardVars, player_ep, player_mtc_immutable>>

\* finish_mtc_shop.  A march looks up the base of every emo it is given, so an unknown
\* base on the player's or on a ghost's board fails the call.
FinishMtcShop(player) ==
  LET m      == player_mtc_mutable[player]
      ghosts == GhostsOf(player)
      boards == GhostBoards(ghosts, m.ghost_states, Turn(m))
  IN  /\ player \in DOMAIN player_mtc_immutable
      /\ player \in DOMAIN player_mtc_mutable
      /\ player \in DOMAIN player_seed
      /\ Turn(m) < TurnLimit
      /\ Live(m.ghost_states) # {}
      /\ \A i \in Fighting(m) : boards[i].board \subseteq DOMAIN emo_bases
      /\ Transaction
      /\ \E shop \in ShopResults(m, ShopBoards \cap SUBSET DOMAIN emo_bases) :
           \E round \in Rounds(m, shop, ghosts) :
             \/ /\ round.place # NoPlace
                /\ FinishMtc(player, round.place, round.match.history)
             \/ /\ round.place = NoPlace
                /\ FinishMtcTurn(player, round.match)
      /\ player_seed' = MapInsert(player_seed, player, Seed("finish_mtc_shop"))
      /\ UNCHANGED registryVars

--------------------------------------------------------------------------------

AdminStep ==
  /\ Transaction
  /\ \E caller \in AdminAccounts :
       \/ \E account \in AdminAccounts : AddAdmin(caller, account) \/ RemoveAdmin(caller, account)
       \/ \E u \in Updates : UpdateEmoBases(caller, u)
  /\ UNCHANGED <<poolVars, leaderboardVars, playerVars>>

Next ==
  \/ AdminStep
  \/ \E player \in Accounts : StartMtc(player) \/ FinishMtcShop(player)
  \/ NewBlock /\ UNCHANGED <<registryVars, poolVars, leaderboardVars, playerVars>>

Spec == Init /\ [][Next]_vars

--------------------------------------------------------------------------------

\* The types of the variables; no id of a deck list is without a base, and no EP leaves
\* MIN_EP .. MAX_EP
TypeOK ==
  /\ ChainTypeOK
  /\ RegistryTypeOK
  /\ PoolTypeOK(Recording(BaseIds))
  /\ LeaderboardTypeOK(Accounts)
  /\ DOMAIN player_ep \subseteq Accounts
  /\ \A p \in DOMAIN player_ep : player_ep[p] \in Ep
  /\ DOMAIN player_seed \subseteq Accounts
  /\ DOMAIN player_mtc_immutable \subseteq Accounts
  /\ \A p \in DOMAIN player_mtc_immutable :
       player_mtc_immutable[p] \in
         [pool : SUBSET BaseIds, ghosts : Seq([account : Accounts, ghost : Recording(BaseIds)])]
  /\ DOMAIN player_mtc_mutable \subseteq Accounts
  /\ \A p \in DOMAIN player_mtc_mutable : player_mtc_mutable[p] \in MatchRecord(BaseIds)

\* A match in progress can always be played on: the expects on its storage find what
\* they read (finish_mtc_shop, finish_mtc) and its record is playable
MatchesPlayable ==
  /\ DOMAIN player_mtc_immutable = DOMAIN player_mtc_mutable
  /\ \A player \in DOMAIN player_mtc_mutable :
       /\ player \in DOMAIN player_ep /\ player \in DOMAIN player_seed
       /\ Playable(player_mtc_mutable[player])

\* Unless an admin ever forced an update, whatever the storage refers to exists: the
\* pools and boards of running matches, their rivals, and every ghost in the store
BoardsOf(history) == UNION {history[i].board : i \in DOMAIN history}

ReferencesResolve ==
  ~forced =>
    /\ \A p \in DOMAIN player_mtc_immutable :
         /\ player_mtc_immutable[p].pool \subseteq DOMAIN emo_bases
         /\ \A i \in GhostIndex : BoardsOf(GhostsOf(p)[i]) \subseteq DOMAIN emo_bases
         /\ BoardsOf(player_mtc_mutable[p].history) \subseteq DOMAIN emo_bases
    /\ \A key \in DOMAIN matchmaking_ghost_by_index :
         BoardsOf(matchmaking_ghost_by_index[key]) \subseteq DOMAIN emo_bases

\* The contract implements the lifecycle of matches and EPs it promises to players
TurnsPlayed == [p \in DOMAIN player_mtc_mutable |-> Len(player_mtc_mutable[p].history)]

Lifecycle == INSTANCE MatchLifecycle WITH ep <- player_ep, turns <- TurnsPlayed

LifecycleImplemented == Lifecycle!Spec

================================================================================
