------------------------------- MODULE GhostPool -------------------------------
(***************************************************************************)
(* The matchmaking store of contract/game/src/lib.rs.  Finished matches    *)
(* are kept as ghosts in EP bands of bounded size.  A band's info lists    *)
(* the account of each ghost and the block it was stored at; the ghost     *)
(* itself is in a second mapping, under the band and its index in the      *)
(* info.  Nothing but the code below keeps the two mappings in step, and   *)
(* ghost::choose_ghosts unwraps what it reads from the second one at an    *)
(* index of the first.  Indexes start at 1 here and at 0 in the code.      *)
(***************************************************************************)
EXTENDS EpRules, Chain, Mapping, Sequences, SequencesExt

CONSTANTS
  PoolSize,  \* ghosts kept in a band (20)
  PlayerEps  \* the EPs that NearestRivals looks for rivals with: all, or one of each band

ASSUME PoolAssumption == PoolSize \in Nat \ {0}

ASSUME PlayerEpsAssumption == PlayerEps \subseteq Ep

VARIABLES
  matchmaking_ghosts_info,     \* band -> sequence of [block, account]
  matchmaking_ghost_by_index   \* <<band, index>> -> ghost

poolVars == <<matchmaking_ghosts_info, matchmaking_ghost_by_index>>

GHOST_COUNT == 3

PoolInit ==
  /\ matchmaking_ghosts_info = EmptyMapping
  /\ matchmaking_ghost_by_index = EmptyMapping

PoolTypeOK(ghosts) ==
  /\ DOMAIN matchmaking_ghosts_info \subseteq Band
  /\ \A band \in DOMAIN matchmaking_ghosts_info :
       matchmaking_ghosts_info[band] \in Seq([block : 0 .. MaxBlock, account : Accounts])
  /\ DOMAIN matchmaking_ghost_by_index \subseteq Band \X (1 .. PoolSize)
  /\ \A key \in DOMAIN matchmaking_ghost_by_index : matchmaking_ghost_by_index[key] \in ghosts

InfoOf(band) ==
  IF band \in DOMAIN matchmaking_ghosts_info THEN matchmaking_ghosts_info[band] ELSE <<>>

\* Mutant: the player's own ghost is not looked for
SlotForgetsOwn(info, player) ==
  IF Len(info) < PoolSize THEN Len(info) + 1
  ELSE SelectInSeq(info, LAMBDA e : \A i \in DOMAIN info : e.block <= info[i].block)

\* Mutant: `num > oldest_num`
SlotOverNewest(info, player) ==
  LET own    == SelectInSeq(info, LAMBDA e : e.account = player)
      newest == SelectInSeq(info, LAMBDA e : \A i \in DOMAIN info : e.block >= info[i].block)
  IN  IF own # 0 THEN own
      ELSE IF Len(info) < PoolSize THEN Len(info) + 1
      ELSE newest

\* Where add_matchmaking_ghost puts the player: over its own ghost, at the end, or,
\* when the band is full, over the first of the oldest ghosts
Slot(info, player) ==
  LET own    == SelectInSeq(info, LAMBDA e : e.account = player)
      oldest == SelectInSeq(info, LAMBDA e : \A i \in DOMAIN info : e.block <= info[i].block)
  IN  IF own # 0 THEN own
      ELSE IF Len(info) < PoolSize THEN Len(info) + 1
      ELSE oldest

AddMatchmakingGhost(player, ep, ghost) ==
  LET band    == GetEpBand(ep)
      info    == InfoOf(band)
      index   == Slot(info, player)
      element == [block |-> block, account |-> player]
  IN  /\ matchmaking_ghosts_info' =
           MapInsert(matchmaking_ghosts_info, band,
                     IF index > Len(info) THEN Append(info, element)
                     ELSE [info EXCEPT ![index] = element])
      /\ matchmaking_ghost_by_index' =
           MapInsert(matchmaking_ghost_by_index, <<band, index>>, ghost)

\* The ghosts, by band and index, in some bands
Stored(low, high) ==
  {key \in (low .. high) \X (1 .. PoolSize) : key[2] \in DOMAIN InfoOf(key[1])}

\* Mutant: the search stops at the first band that holds anyone
LowestBandNotEmpty(band) ==
  Max({0} \cup {low \in 0 .. band : Stored(low, band) # {}})

\* The loop of choose_ghosts over the bands from the player's down: it stops at the band
\* that makes the ghosts enough, or at 0
LowestBand(band) ==
  Max({0} \cup {low \in 0 .. band : Cardinality(Stored(low, band)) >= GHOST_COUNT})

\* What choose_multiple may take from the collected bands, the highest first: from each
\* band as many as it has and as are still missing
Picks(ep) ==
  LET band == GetEpBand(ep)
      low  == LowestBand(band)
  IN  {picked \in UNION {kSubset(n, Stored(low, band)) : n \in 0 .. GHOST_COUNT} :
         \A b \in low .. band :
           Cardinality({p \in picked : p[1] = b})
             = Min({Len(InfoOf(b)), GHOST_COUNT - Cardinality({p \in picked : p[1] > b})})}

\* The rivals, shuffled.  The None that pad the vector to GHOST_COUNT in the code are
\* the indexes past the end of the sequence here.
ChooseGhosts(ep) ==
  {[i \in DOMAIN picks |->
      [account |-> matchmaking_ghosts_info[picks[i][1]][picks[i][2]].account,
       ghost   |-> matchmaking_ghost_by_index[picks[i]]]] :
     picks \in UNION {SetToSeqs(picked) : picked \in Picks(ep)}}

--------------------------------------------------------------------------------

\* The two mappings are in step: every index of an info has its ghost, so that
\* choose_ghosts never unwraps a missing one, an account has one ghost in a band, a
\* band never outgrows PoolSize (an index is a u8), and no ghost is from the future
PoolCoherent ==
  \A band \in DOMAIN matchmaking_ghosts_info :
    LET info == matchmaking_ghosts_info[band]
    IN  /\ Len(info) \in 1 .. PoolSize
        /\ \A i \in DOMAIN info :
             /\ <<band, i>> \in DOMAIN matchmaking_ghost_by_index
             /\ info[i].block <= block
             /\ \A j \in DOMAIN info : info[i].account = info[j].account => i = j

\* choose_ghosts finds the nearest rivals there are: as many as the bands up to the
\* player's hold, up to GHOST_COUNT, and one from a lower band only together with
\* everyone from the bands above it
NearestRivals ==
  \A ep \in PlayerEps :
    LET all == Stored(0, GetEpBand(ep))
    IN  /\ Picks(ep) # {}
        /\ \A picked \in Picks(ep) :
             /\ Cardinality(picked) = Min({GHOST_COUNT, Cardinality(all)})
             /\ \A p \in picked : \A r \in all : r[1] > p[1] => r \in picked

\* The players of a band, through the indexes of its info
PlayersIn(band, info, ghosts) ==
  [a \in {info[i].account : i \in DOMAIN info} |->
     LET i == CHOOSE i \in DOMAIN info : info[i].account = a
     IN  [ghost |-> ghosts[<<band, i>>], block |-> info[i].block]]

AbstractPool ==
  [band \in DOMAIN matchmaking_ghosts_info |->
     PlayersIn(band, matchmaking_ghosts_info[band], matchmaking_ghost_by_index)]

\* The store implements the promise of MatchmakingPool: a stored ghost stays the ghost of
\* its player until that player finishes again or it is one of the oldest of a full band
\* (add_matchmaking_ghost)
Abstract == INSTANCE MatchmakingPool WITH pool <- AbstractPool

StoreImplemented == Abstract!Spec

================================================================================
