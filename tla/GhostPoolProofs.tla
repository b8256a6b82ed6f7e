---------------------------- MODULE GhostPoolProofs ----------------------------
(***************************************************************************)
(* Theorems about GhostPool: its two mappings stay in step, so matchmaking *)
(* reads only ghosts that are there.                                       *)
(***************************************************************************)
EXTENDS GhostPool, TLAPS, FiniteSetTheorems, SequenceLemmas

\* The element of an info
Element == [block : 0 .. MaxBlock, account : Accounts]

\* add_matchmaking_ghost finds the player's own ghost, if it has one
LEMMA OwnSlot ==
  ASSUME NEW info \in Seq(Element), NEW player
  PROVE  LET own == SelectInSeq(info, LAMBDA e : e.account = player)
         IN  /\ own \in 0 .. Len(info)
             /\ own # 0 => info[own].account = player
             /\ own = 0 => \A i \in 1 .. Len(info) : info[i].account # player
<1> DEFINE I == {i \in 1 .. Len(info) : info[i].account = player}
<1>1. SelectInSeq(info, LAMBDA e : e.account = player) = IF I # {} THEN Min(I) ELSE 0
  BY Zenon DEF SelectInSeq
<1>2. I \in SUBSET Nat
  OBVIOUS
<1>3. I # {} => Min(I) \in I
  <2> HIDE DEF I
  <2> QED  BY <1>2, MinNat, Zenon
<1>4. Len(info) \in Nat
  BY LenProperties, Zenon
<1> QED  BY <1>1, <1>3, <1>4, SMT

\* ... and otherwise, in a band that is not empty, an oldest ghost
LEMMA OldestSlot ==
  ASSUME NEW info \in Seq(Element), Len(info) # 0
  PROVE  LET oldest == SelectInSeq(info, LAMBDA e : \A i \in DOMAIN info : e.block <= info[i].block)
         IN  /\ oldest \in 1 .. Len(info)
             /\ \A i \in 1 .. Len(info) : info[oldest].block <= info[i].block
<1> DEFINE I == {k \in 1 .. Len(info) : \A i \in DOMAIN info : info[k].block <= info[i].block}
           B == {info[i].block : i \in 1 .. Len(info)}
<1>1. SelectInSeq(info, LAMBDA e : \A i \in DOMAIN info : e.block <= info[i].block)
        = IF I # {} THEN Min(I) ELSE 0
  BY Zenon DEF SelectInSeq
<1>2. Len(info) \in Nat \ {0} /\ DOMAIN info = 1 .. Len(info)
  BY LenProperties, SMT
<1>3. \A i \in 1 .. Len(info) : info[i].block \in Nat
  <2>1. \A i \in 1 .. Len(info) : info[i] \in Element
    BY ElementOfSeq, Zenon
  <2> QED  BY <2>1, ChainAssumption, SMT DEF Element, ChainAssumption
<1>4. B \in SUBSET Nat /\ B # {}
  <2>1. 1 \in 1 .. Len(info)
    BY <1>2, SMT
  <2> QED  BY <1>3, <2>1
<1>5. PICK b \in B : \A y \in B : b <= y
  <2> HIDE DEF B
  <2> QED  BY <1>4, MinNat, Zenon
<1>6. PICK k \in 1 .. Len(info) : info[k].block = b
  BY <1>5
<1>7. k \in I
  BY <1>2, <1>5, <1>6
<1>8. I \in SUBSET Nat
  OBVIOUS
<1>9. Min(I) \in I
  <2> HIDE DEF I
  <2> QED  BY <1>7, <1>8, MinNat, Zenon
<1> QED  BY <1>1, <1>2, <1>7, <1>9, Zenon

\* The slot add_matchmaking_ghost writes to is a valid index of the band or the next
\* one, within the size of a band, and no other slot holds the player
LEMMA SlotType ==
  ASSUME NEW info \in Seq(Element), Len(info) <= PoolSize, NEW player,
         \A i, j \in 1 .. Len(info) : info[i].account = info[j].account => i = j
  PROVE  /\ Slot(info, player) \in 1 .. PoolSize
         /\ Slot(info, player) <= Len(info) + 1
         /\ \A i \in 1 .. Len(info) : info[i].account = player => i = Slot(info, player)
         /\ \/ \E i \in 1 .. Len(info) : info[i].account = player
            \/ Len(info) < PoolSize /\ Slot(info, player) = Len(info) + 1
            \/ /\ Len(info) = PoolSize
               /\ \A i \in 1 .. Len(info) : info[Slot(info, player)].block <= info[i].block
<1> DEFINE own    == SelectInSeq(info, LAMBDA e : e.account = player)
           oldest == SelectInSeq(info, LAMBDA e : \A i \in DOMAIN info : e.block <= info[i].block)
<1>1. Slot(info, player) = IF own # 0 THEN own
                           ELSE IF Len(info) < PoolSize THEN Len(info) + 1
                           ELSE oldest
  BY Zenon DEF Slot
<1>2. /\ own \in 0 .. Len(info)
      /\ own # 0 => info[own].account = player
      /\ own = 0 => \A i \in 1 .. Len(info) : info[i].account # player
  BY OwnSlot, Zenon
<1>3. Len(info) # 0 => /\ oldest \in 1 .. Len(info)
                       /\ \A i \in 1 .. Len(info) : info[oldest].block <= info[i].block
  BY OldestSlot, Zenon
<1>4. Len(info) \in Nat /\ PoolSize \in Nat \ {0}
  BY LenProperties, PoolAssumption, Zenon DEF PoolAssumption
<1> HIDE DEF own, oldest
<1>5. CASE own # 0
  BY <1>1, <1>2, <1>4, <1>5, SMT
<1>6. CASE own = 0
  BY <1>1, <1>2, <1>3, <1>4, <1>6, SMT
<1> QED  BY <1>5, <1>6

\* An info that is coherent with the ghosts at some keys
InfoCoherent(band, info, keys, now) ==
  /\ info \in Seq(Element)
  /\ Len(info) \in 1 .. PoolSize
  /\ \A i \in 1 .. Len(info) :
       /\ <<band, i>> \in keys
       /\ info[i].block <= now
       /\ \A j \in 1 .. Len(info) : info[i].account = info[j].account => i = j

\* PoolCoherent, of any info and ghosts
Coherent(infos, keys, now) ==
  \A band \in DOMAIN infos :
    /\ Len(infos[band]) \in 1 .. PoolSize
    /\ \A i \in DOMAIN infos[band] :
         /\ <<band, i>> \in keys
         /\ infos[band][i].block <= now
         /\ \A j \in DOMAIN infos[band] : infos[band][i].account = infos[band][j].account => i = j

\* PoolCoherent with the type of the infos, band by band
LEMMA CoherentByBand ==
  ASSUME NEW infos, NEW keys, NEW now, \A band \in DOMAIN infos : infos[band] \in Seq(Element)
  PROVE  Coherent(infos, keys, now)
           <=> \A band \in DOMAIN infos : InfoCoherent(band, infos[band], keys, now)
<1>1. \A band \in DOMAIN infos : DOMAIN infos[band] = 1 .. Len(infos[band])
  BY LenProperties, Zenon
<1> DEFINE C(band, info) ==
             /\ Len(info) \in 1 .. PoolSize
             /\ \A i \in DOMAIN info :
                  /\ <<band, i>> \in keys
                  /\ info[i].block <= now
                  /\ \A j \in DOMAIN info : info[i].account = info[j].account => i = j
<1>2. ASSUME NEW band \in DOMAIN infos
      PROVE  C(band, infos[band]) <=> InfoCoherent(band, infos[band], keys, now)
  <2> DEFINE info == infos[band]
  <2>1. info \in Seq(Element) /\ DOMAIN info = 1 .. Len(info)
    BY <1>1
  <2> HIDE DEF info
  <2>2. C(band, info) <=> InfoCoherent(band, info, keys, now)
    <3> DEFINE D == DOMAIN info
    <3>1. D = 1 .. Len(info)
      BY <2>1
    <3> HIDE DEF D
    <3>2. ASSUME NEW i \in D
          PROVE  (\A j \in D : info[i].account = info[j].account => i = j)
                   <=> (\A j \in 1 .. Len(info) : info[i].account = info[j].account => i = j)
      BY <3>1, Zenon
    <3> QED  BY <2>1, <3>1, <3>2, Zenon DEF InfoCoherent, D
  <2> QED  BY <2>2 DEF info
<1>3. Coherent(infos, keys, now) <=> \A band \in DOMAIN infos : C(band, infos[band])
  BY Zenon DEF Coherent
<1> HIDE DEF C
<1> QED  BY <1>2, <1>3, Zenon

\* The info of a band after an element went into a slot, as add_matchmaking_ghost has it
InfoWith(info, index, element) ==
  IF index > Len(info) THEN Append(info, element) ELSE [info EXCEPT ![index] = element]

\* ... index by index
LEMMA InfoWithIs ==
  ASSUME NEW info \in Seq(Element), NEW element \in Element,
         NEW index \in Nat \ {0}, index <= Len(info) + 1
  PROVE  /\ InfoWith(info, index, element) \in Seq(Element)
         /\ index > Len(info) => Len(InfoWith(info, index, element)) = Len(info) + 1
         /\ index <= Len(info) => Len(InfoWith(info, index, element)) = Len(info)
         /\ InfoWith(info, index, element)[index] = element
         /\ \A i \in 1 .. Len(info) : i # index => InfoWith(info, index, element)[i] = info[i]
         /\ \A i \in 1 .. Len(InfoWith(info, index, element)) : i = index \/ i \in 1 .. Len(info)
<1> HIDE DEF Element
<1>1. Len(info) \in Nat
  BY LenProperties, SMT
<1>4. CASE index > Len(info)
  <2>1. InfoWith(info, index, element) = Append(info, element) /\ index = Len(info) + 1
    BY <1>1, <1>4, SMT DEF InfoWith
  <2> QED  BY <1>1, <1>4, <2>1, AppendProperties, SMT
<1>5. CASE ~(index > Len(info))
  <2>1. InfoWith(info, index, element) = [info EXCEPT ![index] = element] /\ index \in 1 .. Len(info)
    BY <1>1, <1>5, SMT DEF InfoWith
  <2> QED  BY <1>1, <1>5, <2>1, ExceptSeq, SMT
<1> QED  BY <1>4, <1>5

\* An account is in a band once, an empty band included
LEMMA Distinct ==
  ASSUME NEW band, NEW info \in Seq(Element), NEW keys, NEW now,
         info = <<>> \/ InfoCoherent(band, info, keys, now)
  PROVE  \A i, j \in 1 .. Len(info) : info[i].account = info[j].account => i = j
<1>1. CASE info = <<>>
  <2>1. 1 .. Len(info) = {}
    BY <1>1, SMT
  <2> QED  BY <2>1, Zenon
<1>2. CASE InfoCoherent(band, info, keys, now)
  BY <1>2, Zenon DEF InfoCoherent
<1> QED  BY <1>1, <1>2

\* ... and it is coherent with the keys that have a ghost then
LEMMA InfoAfterAdd ==
  ASSUME NEW band, NEW info \in Seq(Element), NEW keys, block \in 0 .. MaxBlock,
         info = <<>> \/ InfoCoherent(band, info, keys, block),
         NEW player \in Accounts,
         NEW index, index = Slot(info, player),
         NEW element, element = [block |-> block, account |-> player],
         NEW after, after = InfoWith(info, index, element)
  PROVE  /\ InfoCoherent(band, after, keys \cup {<<band, index>>}, block)
         /\ index \in 1 .. PoolSize
<1>1. Len(info) \in Nat /\ Len(info) <= PoolSize /\ PoolSize \in Nat \ {0}
  BY LenProperties, PoolAssumption, SMT DEF PoolAssumption, InfoCoherent
<1>2. \A i, j \in 1 .. Len(info) : info[i].account = info[j].account => i = j
  BY Distinct
<1>3. /\ index \in 1 .. PoolSize
      /\ index <= Len(info) + 1
      /\ \A i \in 1 .. Len(info) : info[i].account = player => i = index
  BY <1>1, <1>2, SlotType, Zenon
<1>4. /\ element.account = player /\ element.block = block /\ block \in Nat
      /\ element \in Element
  BY ChainAssumption, SMT DEF ChainAssumption, Element
<1>5. /\ after \in Seq(Element)
      /\ index > Len(info) => Len(after) = Len(info) + 1
      /\ index <= Len(info) => Len(after) = Len(info)
      /\ after[index] = element
      /\ \A i \in 1 .. Len(info) : i # index => after[i] = info[i]
      /\ \A i \in 1 .. Len(after) : i = index \/ i \in 1 .. Len(info)
  <2> HIDE DEF Element
  <2>1. index \in Nat \ {0}
    BY <1>1, <1>3, SMT
  <2> QED  BY <1>3, <1>4, <2>1, InfoWithIs
<1>6. Len(after) \in 1 .. PoolSize
  BY <1>1, <1>3, <1>5, SMT
<1>7. ASSUME NEW i \in 1 .. Len(after)
      PROVE  /\ <<band, i>> \in keys \cup {<<band, index>>}
             /\ after[i].block <= block
  <2>1. CASE i = index
    BY <1>4, <1>5, <2>1, SMT
  <2>2. CASE i # index
    <3>1. i \in 1 .. Len(info) /\ after[i] = info[i]
      BY <1>5, <2>2, Zenon
    <3>2. InfoCoherent(band, info, keys, block)
      BY <3>1, SMT
    <3> QED  BY <3>1, <3>2, Zenon DEF InfoCoherent
  <2> QED  BY <2>1, <2>2
<1>8. ASSUME NEW i \in 1 .. Len(after), NEW j \in 1 .. Len(after),
             after[i].account = after[j].account
      PROVE  i = j
  <2>1. /\ i # index => i \in 1 .. Len(info) /\ after[i] = info[i]
        /\ j # index => j \in 1 .. Len(info) /\ after[j] = info[j]
    BY <1>5, Zenon
  <2>2. after[index].account = player
    BY <1>4, <1>5, Zenon
  <2> QED  BY <1>2, <1>3, <1>8, <2>1, <2>2, Zenon
<1>9. InfoCoherent(band, after, keys \cup {<<band, index>>}, block)
  BY <1>5, <1>6, <1>7, <1>8, Zenon DEF InfoCoherent
<1> QED  BY <1>3, <1>9

\* Every EP has a band (get_ep_band)
LEMMA BandType ==
  ASSUME NEW ep \in Ep
  PROVE  GetEpBand(ep) \in Band
<1>1. GetEpBand(MAX_EP) = 655
  BY SMT DEF GetEpBand, EP_BANDWIDTH, MAX_EP
<1> DEFINE band == ep \div 100
<1>2. ep \in Nat /\ ep <= MAX_EP /\ MAX_EP = 65535
  BY SMT DEF Ep, MIN_EP, MAX_EP
<1>3. band \in Int /\ 100 * band <= ep /\ ep < 100 * band + 100
  BY <1>2, SMT
<1>4. GetEpBand(ep) = band
  BY DEF GetEpBand, EP_BANDWIDTH
<1> HIDE DEF band
<1>5. band \in Nat /\ band <= 655
  BY <1>2, <1>3, SMT
<1> QED  BY <1>1, <1>5, <1>4, SMT DEF Band

\* Storing a ghost leaves the two mappings typed and in step (add_matchmaking_ghost)
LEMMA AddKeepsPool ==
  ASSUME NEW ghosts, PoolTypeOK(ghosts), PoolCoherent, block \in 0 .. MaxBlock, block' = block,
         NEW player \in Accounts, NEW ep \in Ep, NEW ghost \in ghosts,
         AddMatchmakingGhost(player, ep, ghost)
  PROVE  PoolTypeOK(ghosts)' /\ PoolCoherent'
<1> DEFINE infos   == matchmaking_ghosts_info
           store   == matchmaking_ghost_by_index
           band    == GetEpBand(ep)
           info    == InfoOf(band)
           index   == Slot(info, player)
           element == [block |-> block, account |-> player]
           after   == InfoWith(info, index, element)
<1>1. infos' = MapInsert(infos, band, after) /\ store' = MapInsert(store, <<band, index>>, ghost)
  BY Zenon DEF AddMatchmakingGhost, InfoWith
<1>2. band \in Band
  BY BandType
<1>3. /\ DOMAIN infos \subseteq Band
      /\ \A b \in DOMAIN infos : infos[b] \in Seq(Element)
      /\ DOMAIN store \subseteq Band \X (1 .. PoolSize)
      /\ \A key \in DOMAIN store : store[key] \in ghosts
  BY Zenon DEF PoolTypeOK, Element
<1>4. \A b \in DOMAIN infos : InfoCoherent(b, infos[b], DOMAIN store, block)
  <2>1. Coherent(infos, DOMAIN store, block)
    BY Zenon DEF PoolCoherent, Coherent
  <2> HIDE DEF infos, store, Element
  <2> QED  BY <1>3, <2>1, CoherentByBand, Zenon
<1>5. info \in Seq(Element) /\ (info = <<>> \/ InfoCoherent(band, info, DOMAIN store, block))
  <2>1. CASE band \in DOMAIN infos
    BY <1>3, <1>4, <2>1, Zenon DEF InfoOf
  <2>2. CASE band \notin DOMAIN infos
    <3>1. info = <<>>
      BY <2>2, Zenon DEF InfoOf
    <3>2. <<>> \in Seq(Element)
      OBVIOUS
    <3> QED  BY <3>1, <3>2, Zenon
  <2> QED  BY <2>1, <2>2
<1> HIDE DEF info, band
<1>6. /\ InfoCoherent(band, after, DOMAIN store \cup {<<band, index>>}, block)
      /\ index \in 1 .. PoolSize
  <2> HIDE DEF Element, element, after, index
  <2>1. index = Slot(info, player)
    BY DEF index
  <2>2. element = [block |-> block, account |-> player]
    BY DEF element
  <2>3. after = InfoWith(info, index, element)
    BY DEF after
  <2> QED  BY <1>5, <2>1, <2>2, <2>3, InfoAfterAdd
<1> HIDE DEF after, index
<1>7. /\ DOMAIN infos' = DOMAIN infos \cup {band} /\ infos'[band] = after
      /\ \A b \in DOMAIN infos : b # band => infos'[b] = infos[b]
      /\ DOMAIN store' = DOMAIN store \cup {<<band, index>>} /\ store'[<<band, index>>] = ghost
      /\ \A key \in DOMAIN store : key # <<band, index>> => store'[key] = store[key]
  <2> DEFINE newInfos == infos'
             newStore == store'
             key      == <<band, index>>
  <2>1. newInfos = MapInsert(infos, band, after) /\ newStore = MapInsert(store, key, ghost)
    BY <1>1
  <2> HIDE DEF infos, store, newInfos, newStore, key
  <2>2. /\ DOMAIN newInfos = DOMAIN infos \cup {band} /\ newInfos[band] = after
        /\ \A b \in DOMAIN infos : b # band => newInfos[b] = infos[b]
    BY <2>1, Zenon DEF MapInsert
  <2>3. /\ DOMAIN newStore = DOMAIN store \cup {key} /\ newStore[key] = ghost
        /\ \A k \in DOMAIN store : k # key => newStore[k] = store[k]
    BY <2>1, Zenon DEF MapInsert
  <2> QED  BY <2>2, <2>3, Zenon DEF newInfos, newStore, key
<1>8. \A b \in DOMAIN infos' : InfoCoherent(b, infos'[b], DOMAIN store', block)
  <2>1. ASSUME NEW b \in DOMAIN infos, b # band
        PROVE  InfoCoherent(b, infos[b], DOMAIN store', block)
    BY <1>4, <1>7, <2>1, Zenon DEF InfoCoherent
  <2> QED  BY <1>6, <1>7, <2>1, Zenon
<1>9. PoolTypeOK(ghosts)'
  <2>1. DOMAIN infos' \subseteq Band
    BY <1>2, <1>3, <1>7, Zenon
  <2>2. \A b \in DOMAIN infos' : infos'[b] \in Seq(Element)
    BY <1>8, Zenon DEF InfoCoherent
  <2>3. <<band, index>> \in Band \X (1 .. PoolSize)
    BY <1>2, <1>6, Zenon
  <2>4. DOMAIN store' \subseteq Band \X (1 .. PoolSize)
    BY <1>3, <1>7, <2>3, Zenon
  <2>5. \A key \in DOMAIN store' : store'[key] \in ghosts
    BY <1>3, <1>7, Zenon
  <2> QED  BY <2>1, <2>2, <2>4, <2>5, Zenon DEF PoolTypeOK, Element
<1>10. PoolCoherent'
  <2>1. \A b \in DOMAIN infos' : infos'[b] \in Seq(Element)
    BY <1>8, Zenon DEF InfoCoherent
  <2>2. Coherent(infos', DOMAIN store', block)
    <3> HIDE DEF Element
    <3> QED  BY <1>8, <2>1, CoherentByBand, Zenon
  <2> QED  BY <2>2, Zenon DEF PoolCoherent, Coherent
<1> QED  BY <1>9, <1>10

\* Time leaves a store in step (a ghost's block is never in the future)
LEMMA TimeKeepsPool ==
  ASSUME NEW ghosts, PoolTypeOK(ghosts), PoolCoherent, block \in Nat, block' \in Nat,
         block <= block', UNCHANGED poolVars
  PROVE  PoolTypeOK(ghosts)' /\ PoolCoherent'
<1>1. /\ matchmaking_ghosts_info' = matchmaking_ghosts_info
      /\ matchmaking_ghost_by_index' = matchmaking_ghost_by_index
  BY DEF poolVars
<1>2. PoolTypeOK(ghosts)'
  BY <1>1, Zenon DEF PoolTypeOK
<1>3. \A band \in DOMAIN matchmaking_ghosts_info : \A i \in DOMAIN matchmaking_ghosts_info[band] :
        matchmaking_ghosts_info[band][i].block \in Nat
  <2>1. ASSUME NEW band \in DOMAIN matchmaking_ghosts_info, NEW i \in DOMAIN matchmaking_ghosts_info[band]
        PROVE  matchmaking_ghosts_info[band][i] \in Element
    <3> HIDE DEF Element
    <3>1. matchmaking_ghosts_info[band] \in Seq(Element)
      BY Zenon DEF PoolTypeOK, Element
    <3> QED  BY <3>1, LenProperties, ElementOfSeq, Zenon
  <2> QED  BY <2>1, ChainAssumption, SMT DEF Element, ChainAssumption
<1>4. PoolCoherent'
  BY <1>1, <1>3, SMT DEF PoolCoherent
<1> QED  BY <1>2, <1>4

\* The rivals of a match are at most three accounts with ghosts of the store: nothing
\* choose_ghosts reads is missing
LEMMA ChooseGhostsType ==
  ASSUME NEW ghosts, PoolTypeOK(ghosts), PoolCoherent, NEW ep, NEW chosen \in ChooseGhosts(ep)
  PROVE  chosen \in Seq([account : Accounts, ghost : ghosts])
<1> DEFINE Rival == [account : Accounts, ghost : ghosts]
           infos == matchmaking_ghosts_info
           store == matchmaking_ghost_by_index
           F(picks) == [i \in DOMAIN picks |->
                          [account |-> infos[picks[i][1]][picks[i][2]].account,
                           ghost   |-> store[picks[i]]]]
<1>1. PICK picks \in UNION {SetToSeqs(picked) : picked \in Picks(ep)} : chosen = F(picks)
  <2>1. ChooseGhosts(ep) = {F(picks) : picks \in UNION {SetToSeqs(picked) : picked \in Picks(ep)}}
    BY DEF ChooseGhosts
  <2> HIDE DEF F
  <2> QED  BY <2>1
<1>2. PICK picked \in Picks(ep) : picks \in SetToSeqs(picked)
  BY <1>1
<1> DEFINE band == GetEpBand(ep)
           low  == LowestBand(band)
<1>3. PICK n \in 0 .. 3 : picked \in kSubset(n, Stored(low, band))
  BY Zenon DEF Picks, GHOST_COUNT
<1>4. picked \subseteq Stored(low, band) /\ Cardinality(picked) = n
  BY <1>3 DEF kSubset
<1>5. picks \in [1 .. n -> picked]
  BY <1>2, <1>4, Zenon DEF SetToSeqs
<1>6. \A i \in 1 .. n :
        /\ picks[i] \in (low .. band) \X (1 .. PoolSize)
        /\ picks[i][2] \in DOMAIN InfoOf(picks[i][1])
  BY <1>4, <1>5, Zenon DEF Stored
<1>7. ASSUME NEW i \in 1 .. n
      PROVE  [account |-> infos[picks[i][1]][picks[i][2]].account, ghost |-> store[picks[i]]] \in Rival
  <2> DEFINE b == picks[i][1]
             k == picks[i][2]
  <2>1. picks[i] = <<b, k>>
    BY <1>6
  <2>2. k \in DOMAIN InfoOf(b)
    BY <1>6
  <2> HIDE DEF b, k
  <2>3. b \in DOMAIN infos /\ k \in DOMAIN infos[b]
    <3>1. CASE b \in DOMAIN infos
      BY <2>2, <3>1, Zenon DEF InfoOf
    <3>2. CASE b \notin DOMAIN infos
      <4>1. InfoOf(b) = <<>>
        BY <3>2, Zenon DEF InfoOf
      <4>2. DOMAIN <<>> = {}
        OBVIOUS
      <4> QED  BY <2>2, <4>1, <4>2, Zenon
    <3> QED  BY <3>1, <3>2
  <2>4. <<b, k>> \in DOMAIN store
    BY <2>3, Zenon DEF PoolCoherent
  <2>5. store[<<b, k>>] \in ghosts
    BY <2>4, Zenon DEF PoolTypeOK
  <2>6. infos[b][k] \in Element
    <3>1. infos[b] \in Seq(Element)
      BY <2>3, Zenon DEF PoolTypeOK, Element
    <3> HIDE DEF Element, infos
    <3> QED  BY <2>3, <3>1, LenProperties, ElementOfSeq, Zenon
  <2>7. infos[b][k].account \in Accounts
    BY <2>6 DEF Element
  <2>8. [account |-> infos[b][k].account, ghost |-> store[<<b, k>>]] \in Rival
    BY <2>5, <2>7, Zenon
  <2> QED  BY <2>1, <2>8, Zenon DEF b, k
<1>8. chosen \in [1 .. n -> Rival]
  <2>1. DOMAIN picks = 1 .. n
    BY <1>5, Zenon
  <2> HIDE DEF Rival
  <2> QED  BY <1>1, <1>7, <2>1, Zenon
<1>9. chosen \in Seq(Rival)
  <2>1. n \in Nat
    BY SMT
  <2> HIDE DEF Rival
  <2> QED  BY <1>8, <2>1, SMT
<1> QED  BY <1>9

--------------------------------------------------------------------------------

\* The accounts of an info at some indexes, and what is stored at one
AccountsAt(info, I) == {info[i].account : i \in I}

EntryAt(band, info, ghosts, i) == [ghost |-> ghosts[<<band, i>>], block |-> info[i].block]

\* The players of a band are the accounts of its info, as many as it is long, each with the
\* ghost and the block at its index
LEMMA PlayersInIs ==
  ASSUME NEW band, NEW info \in Seq(Element), NEW ghosts,
         \A i, j \in 1 .. Len(info) : info[i].account = info[j].account => i = j
  PROVE  /\ DOMAIN PlayersIn(band, info, ghosts) = AccountsAt(info, 1 .. Len(info))
         /\ \A i \in 1 .. Len(info) :
              PlayersIn(band, info, ghosts)[info[i].account]
                = EntryAt(band, info, ghosts, i)
         /\ Cardinality(DOMAIN PlayersIn(band, info, ghosts)) = Len(info)
<1> DEFINE A == AccountsAt(info, 1 .. Len(info))
           At(a) == CHOOSE i \in 1 .. Len(info) : info[i].account = a
           E(a) == [ghost |-> ghosts[<<band, At(a)>>], block |-> info[At(a)].block]
<1>1. DOMAIN info = 1 .. Len(info) /\ Len(info) \in Nat
  BY LenProperties, Zenon
<1>2. PlayersIn(band, info, ghosts) = [a \in A |-> E(a)]
  BY <1>1, Zenon DEF PlayersIn, AccountsAt
<1>3. ASSUME NEW i \in 1 .. Len(info)
      PROVE  At(info[i].account) = i
  BY Zenon
<1>4. \A i \in 1 .. Len(info) :
        E(info[i].account) = EntryAt(band, info, ghosts, i)
  <2> HIDE DEF At
  <2> QED  BY <1>3, Zenon DEF EntryAt
<1>5. Cardinality(A) = Len(info)
  <2> DEFINE f == [i \in 1 .. Len(info) |-> info[i].account]
  <2>1. f \in Bijection(1 .. Len(info), A)
    BY Zenon DEF Bijection, Injection, Surjection, IsInjective, AccountsAt
  <2>2. ExistsBijection(1 .. Len(info), A)
    BY <2>1, Zenon DEF ExistsBijection
  <2> QED  BY <1>1, <2>2, FS_CountingElements, Zenon
<1>6. \A i \in 1 .. Len(info) : info[i].account \in A
  BY DEF AccountsAt
<1> HIDE DEF A, E
<1> QED  BY <1>2, <1>4, <1>5, <1>6, Zenon DEF A

\* An info of the store, or the one InfoOf has for a band without any
EmptyOrCoherent(band, info, keys, now) == info = <<>> \/ InfoCoherent(band, info, keys, now)

\* A player was added to the rest of some others
Replaced(old, new, rest, player, entry) ==
  /\ player \notin rest /\ rest \subseteq DOMAIN old
  /\ DOMAIN new = rest \cup {player}
  /\ new[player] = entry
  /\ \A a \in rest : new[a] = old[a]

\* The players of a band after add_matchmaking_ghost: everyone not at the player's slot
\* stays as it was, and the player has its new ghost
LEMMA PlayersAfterAdd ==
  ASSUME NEW band, NEW info \in Seq(Element), NEW ghosts,
         EmptyOrCoherent(band, info, DOMAIN ghosts, block),
         block \in 0 .. MaxBlock, NEW player \in Accounts, NEW ghost
  PROVE  LET index == Slot(info, player)
             after == InfoWith(info, index, [block |-> block, account |-> player])
             old   == PlayersIn(band, info, ghosts)
             new   == PlayersIn(band, after, MapInsert(ghosts, <<band, index>>, ghost))
             rest  == AccountsAt(info, 1 .. Len(info) \ {index})
             entry == [ghost |-> ghost, block |-> block]
         IN  Replaced(old, new, rest, player, entry)
<1> DEFINE index   == Slot(info, player)
           element == [block |-> block, account |-> player]
           after   == InfoWith(info, index, element)
           more    == MapInsert(ghosts, <<band, index>>, ghost)
           old     == PlayersIn(band, info, ghosts)
           new     == PlayersIn(band, after, more)
           rest    == AccountsAt(info, 1 .. Len(info) \ {index})
           entry   == [ghost |-> ghost, block |-> block]
<1>1. Len(info) \in Nat /\ Len(info) <= PoolSize /\ PoolSize \in Nat \ {0}
  BY LenProperties, PoolAssumption, SMT DEF PoolAssumption, InfoCoherent, EmptyOrCoherent
<1>2. \A i, j \in 1 .. Len(info) : info[i].account = info[j].account => i = j
  BY Distinct DEF EmptyOrCoherent
<1>3. /\ index \in 1 .. PoolSize
      /\ index <= Len(info) + 1
      /\ \A i \in 1 .. Len(info) : info[i].account = player => i = index
  BY <1>1, <1>2, SlotType, Zenon
<1>4. InfoCoherent(band, after, DOMAIN ghosts \cup {<<band, index>>}, block)
  BY InfoAfterAdd DEF EmptyOrCoherent
<1>5. element \in Element
  BY SMT DEF Element
<1>6. /\ after \in Seq(Element)
      /\ index > Len(info) => Len(after) = Len(info) + 1
      /\ index <= Len(info) => Len(after) = Len(info)
      /\ after[index] = element
      /\ \A i \in 1 .. Len(info) : i # index => after[i] = info[i]
      /\ \A i \in 1 .. Len(after) : i = index \/ i \in 1 .. Len(info)
  <2> HIDE DEF Element
  <2>1. index \in Nat \ {0}
    BY <1>1, <1>3, SMT
  <2> HIDE DEF index, element
  <2> QED  BY <1>3, <1>5, <2>1, InfoWithIs, Zenon DEF after
<1>7. \A i, j \in 1 .. Len(after) : after[i].account = after[j].account => i = j
  BY <1>4, Zenon DEF InfoCoherent
<1>8. index \in 1 .. Len(after) /\ 1 .. Len(info) \subseteq 1 .. Len(after)
  BY <1>1, <1>3, <1>6, SMT
<1>9. more[<<band, index>>] = ghost
  BY Zenon DEF MapInsert
<1>10. ASSUME NEW i \in 1 .. Len(info), i # index
       PROVE  more[<<band, i>>] = ghosts[<<band, i>>]
  <2>1. InfoCoherent(band, info, DOMAIN ghosts, block)
    BY <1>10, SMT DEF EmptyOrCoherent
  <2>2. <<band, i>> \in DOMAIN ghosts
    BY <2>1, Zenon DEF InfoCoherent
  <2>3. <<band, i>> # <<band, index>>
    BY <1>10
  <2> QED  BY <2>2, <2>3, Zenon DEF MapInsert
<1>11. /\ DOMAIN old = AccountsAt(info, 1 .. Len(info))
       /\ \A i \in 1 .. Len(info) :
            old[info[i].account] = EntryAt(band, info, ghosts, i)
  <2>1. /\ DOMAIN PlayersIn(band, info, ghosts) = AccountsAt(info, 1 .. Len(info))
        /\ \A i \in 1 .. Len(info) :
             PlayersIn(band, info, ghosts)[info[i].account] = EntryAt(band, info, ghosts, i)
    <3> HIDE DEF old, new, more, after, element, index
    <3> QED  BY <1>2, PlayersInIs, SMT
  <2> QED  BY <2>1, Zenon DEF old
<1>12. /\ DOMAIN new = AccountsAt(after, 1 .. Len(after))
       /\ \A i \in 1 .. Len(after) :
            new[after[i].account] = EntryAt(band, after, more, i)
  <2>1. after \in Seq(Element)
    BY <1>6
  <2> HIDE DEF more, after
  <2>2. /\ DOMAIN PlayersIn(band, after, more) = AccountsAt(after, 1 .. Len(after))
        /\ \A i \in 1 .. Len(after) :
             PlayersIn(band, after, more)[after[i].account] = EntryAt(band, after, more, i)
    <3> HIDE DEF new
    <3> QED  BY <1>7, <2>1, PlayersInIs, SMT
  <2> QED  BY <2>2, Zenon DEF new
<1>17. element.account = player /\ element.block = block
  OBVIOUS
<1> HIDE DEF index, element, after, more, old, new
<1>13. player \notin rest /\ rest \subseteq DOMAIN old
  BY <1>3, <1>11 DEF AccountsAt
<1>14. DOMAIN new = rest \cup {player}
  <2>1. \A i \in 1 .. Len(info) : i # index => after[i].account = info[i].account
    BY <1>6
  <2>2. after[index].account = player
    BY <1>6, <1>17
  <2> QED  BY <1>6, <1>8, <1>12, <2>1, <2>2 DEF AccountsAt
<1>15. new[player] = entry
  <2>1. after[index].account = player /\ after[index].block = block
    BY <1>6, <1>17
  <2> QED  BY <1>8, <1>9, <1>12, <2>1 DEF EntryAt
<1>16. ASSUME NEW a \in rest PROVE new[a] = old[a]
  <2>1. PICK i \in 1 .. Len(info) : i # index /\ a = info[i].account
    BY DEF AccountsAt
  <2>2. after[i] = info[i] /\ i \in 1 .. Len(after)
    BY <1>6, <1>8, <2>1
  <2>3. more[<<band, i>>] = ghosts[<<band, i>>]
    BY <1>10, <2>1
  <2>4. new[after[i].account] = EntryAt(band, after, more, i)
    BY <1>12, <2>2
  <2>5. old[info[i].account] = EntryAt(band, info, ghosts, i)
    BY <1>11
  <2> QED  BY <2>1, <2>2, <2>3, <2>4, <2>5, Zenon DEF EntryAt
<1> HIDE DEF rest, entry
<1>18. Replaced(old, new, rest, player, entry)
  BY <1>13, <1>14, <1>15, <1>16, Zenon DEF Replaced
<1> QED  BY <1>18, Zenon DEF index, element, after, more, old, new, rest, entry

\* What MatchmakingPool promises of a band that a player's entry is stored in
PlayerStored(old, new, player, entry) ==
  \/ /\ player \in DOMAIN old \/ Cardinality(DOMAIN old) < PoolSize
     /\ new = MapInsert(old, player, entry)
  \/ /\ player \notin DOMAIN old
     /\ Cardinality(DOMAIN old) = PoolSize
     /\ \E victim \in DOMAIN old :
          /\ \A u \in DOMAIN old : old[victim].block <= old[u].block
          /\ new = MapInsert(MapRemove(old, victim), player, entry)

\* ... so that it stores the player's ghost over its own, beside the others, or in the place
\* of one of the oldest of a full band
LEMMA BandStores ==
  ASSUME NEW band, NEW info \in Seq(Element), NEW ghosts,
         EmptyOrCoherent(band, info, DOMAIN ghosts, block),
         block \in 0 .. MaxBlock, NEW player \in Accounts, NEW ghost
  PROVE  LET index == Slot(info, player)
             after == InfoWith(info, index, [block |-> block, account |-> player])
             old   == PlayersIn(band, info, ghosts)
             new   == PlayersIn(band, after, MapInsert(ghosts, <<band, index>>, ghost))
             entry == [ghost |-> ghost, block |-> block]
         IN  PlayerStored(old, new, player, entry)
<1> DEFINE index == Slot(info, player)
           after == InfoWith(info, index, [block |-> block, account |-> player])
           old   == PlayersIn(band, info, ghosts)
           new   == PlayersIn(band, after, MapInsert(ghosts, <<band, index>>, ghost))
           rest  == AccountsAt(info, 1 .. Len(info) \ {index})
           entry == [ghost |-> ghost, block |-> block]
<1>1. Len(info) \in Nat /\ Len(info) <= PoolSize /\ PoolSize \in Nat \ {0}
  BY LenProperties, PoolAssumption, SMT DEF PoolAssumption, InfoCoherent, EmptyOrCoherent
<1>2. \A i, j \in 1 .. Len(info) : info[i].account = info[j].account => i = j
  BY Distinct DEF EmptyOrCoherent
<1>3. /\ index \in 1 .. PoolSize
      /\ index <= Len(info) + 1
      /\ \A i \in 1 .. Len(info) : info[i].account = player => i = index
      /\ \/ \E i \in 1 .. Len(info) : info[i].account = player
         \/ Len(info) < PoolSize /\ index = Len(info) + 1
         \/ /\ Len(info) = PoolSize
            /\ \A i \in 1 .. Len(info) : info[index].block <= info[i].block
  BY <1>1, <1>2, SlotType, Zenon
<1>4. /\ player \notin rest /\ rest \subseteq DOMAIN old
      /\ new = [a \in rest \cup {player} |-> IF a = player THEN entry ELSE old[a]]
  <2>1. Replaced(old, new, rest, player, entry)
    BY PlayersAfterAdd, Zenon
  <2>2. new = [a \in DOMAIN new |-> new[a]]
    BY Zenon DEF PlayersIn
  <2> HIDE DEF new, old, rest, entry
  <2> QED  BY <2>1, <2>2, Zenon DEF Replaced
<1>5. /\ DOMAIN old = AccountsAt(info, 1 .. Len(info))
      /\ \A i \in 1 .. Len(info) : old[info[i].account].block = info[i].block
      /\ Cardinality(DOMAIN old) = Len(info)
  <2>1. /\ DOMAIN old = AccountsAt(info, 1 .. Len(info))
        /\ \A i \in 1 .. Len(info) :
             old[info[i].account] = EntryAt(band, info, ghosts, i)
        /\ Cardinality(DOMAIN old) = Len(info)
    BY <1>2, PlayersInIs, Zenon
  <2> HIDE DEF old
  <2>2. ASSUME NEW i \in 1 .. Len(info) PROVE old[info[i].account].block = info[i].block
    <3>1. EntryAt(band, info, ghosts, i).block = info[i].block
      BY Zenon DEF EntryAt
    <3> QED  BY <2>1, <3>1, Zenon
  <2> QED  BY <2>1, <2>2, Zenon
<1> HIDE DEF index, after, old, new, entry
<1>6. ASSUME player \in DOMAIN old
      PROVE  PlayerStored(old, new, player, entry)
  <2>1. PICK i \in 1 .. Len(info) : info[i].account = player
    BY <1>5, <1>6, Zenon DEF AccountsAt
  <2>2. i = index
    BY <1>3, <2>1
  <2>3. DOMAIN old = rest \cup {player}
    BY <1>5, <2>1, <2>2, Zenon DEF AccountsAt
  <2>4. DOMAIN old \cup {player} = rest \cup {player}
    BY <2>3
  <2>5. new = MapInsert(old, player, entry)
    BY <1>4, <2>4, Zenon DEF MapInsert
  <2> QED  BY <1>6, <2>5, Zenon DEF PlayerStored
<1>7. ASSUME player \notin DOMAIN old /\ Len(info) < PoolSize
      PROVE  PlayerStored(old, new, player, entry)
  <2>1. index = Len(info) + 1
    <3>1. \A i \in 1 .. Len(info) : info[i].account # player
      BY <1>5, <1>7, Zenon DEF AccountsAt
    <3> QED  BY <1>1, <1>3, <1>7, <3>1, SMT
  <2>2. 1 .. Len(info) \ {index} = 1 .. Len(info)
    BY <1>1, <2>1, SMT
  <2>4. DOMAIN old = rest
    BY <1>5, <2>2
  <2>3. new = MapInsert(old, player, entry)
    BY <1>4, <2>4, Zenon DEF MapInsert
  <2> QED  BY <1>5, <1>7, <2>3, Zenon DEF PlayerStored
<1>8. ASSUME player \notin DOMAIN old /\ ~(Len(info) < PoolSize)
      PROVE  PlayerStored(old, new, player, entry)
  <2>1. /\ Len(info) = PoolSize
        /\ \A i \in 1 .. Len(info) : info[index].block <= info[i].block
        /\ index \in 1 .. Len(info)
    <3>1. \A i \in 1 .. Len(info) : info[i].account # player
      BY <1>5, <1>8, Zenon DEF AccountsAt
    <3> QED  BY <1>1, <1>3, <1>8, <3>1, SMT
  <2> DEFINE victim == info[index].account
  <2>2. victim \in DOMAIN old /\ victim \notin rest /\ DOMAIN old = rest \cup {victim}
    BY <1>2, <1>5, <2>1, Zenon DEF AccountsAt
  <2>3. \A u \in DOMAIN old : old[victim].block <= old[u].block
    BY <1>5, <2>1, Zenon DEF AccountsAt
  <2> HIDE DEF victim, rest
  <2>4. MapRemove(old, victim) = [a \in rest |-> old[a]]
    BY <2>2, Zenon DEF MapRemove
  <2>5. new = MapInsert(MapRemove(old, victim), player, entry)
    BY <1>4, <2>4, Zenon DEF MapInsert
  <2> QED  BY <1>5, <1>8, <2>1, <2>2, <2>3, <2>5, Zenon DEF PlayerStored
<1> HIDE DEF rest
<1>9. PlayerStored(old, new, player, entry)
  BY <1>6, <1>7, <1>8, Zenon
<1> QED  BY <1>9, Zenon DEF index, after, old, new, entry

\* Storing a ghost of another key leaves the players of a band as they are
LEMMA OtherBandStays ==
  ASSUME NEW band, NEW info \in Seq(Element), NEW ghosts, NEW more,
         \A i \in 1 .. Len(info) : more[<<band, i>>] = ghosts[<<band, i>>]
  PROVE  PlayersIn(band, info, more) = PlayersIn(band, info, ghosts)
<1> DEFINE A == {info[i].account : i \in 1 .. Len(info)}
           At(a) == CHOOSE i \in 1 .. Len(info) : info[i].account = a
<1>1. DOMAIN info = 1 .. Len(info)
  BY LenProperties, Zenon
<1>2. \A g : PlayersIn(band, info, g)
               = [a \in A |-> [ghost |-> g[<<band, At(a)>>], block |-> info[At(a)].block]]
  BY <1>1, Zenon DEF PlayersIn
<1>3. \A a \in A : At(a) \in 1 .. Len(info)
  BY Zenon
<1> HIDE DEF A, At
<1>4. \A a \in A : more[<<band, At(a)>>] = ghosts[<<band, At(a)>>]
  BY <1>3, Zenon
<1> QED  BY <1>2, <1>4, Zenon

\* add_matchmaking_ghost stores an entry of the player, as MatchmakingPool has it
LEMMA AddStores ==
  ASSUME NEW ghosts, PoolTypeOK(ghosts), PoolCoherent, block \in 0 .. MaxBlock,
         NEW player \in Accounts, NEW ep, NEW ghost, AddMatchmakingGhost(player, ep, ghost)
  PROVE  Abstract!Next
<1> DEFINE infos == matchmaking_ghosts_info
           store == matchmaking_ghost_by_index
           band  == GetEpBand(ep)
           info  == InfoOf(band)
           index == Slot(info, player)
           after == InfoWith(info, index, [block |-> block, account |-> player])
           old   == PlayersIn(band, info, store)
           new   == PlayersIn(band, after, MapInsert(store, <<band, index>>, ghost))
           entry == [ghost |-> ghost, block |-> block]
<1>1. infos' = MapInsert(infos, band, after) /\ store' = MapInsert(store, <<band, index>>, ghost)
  BY Zenon DEF AddMatchmakingGhost, InfoWith
<1>2. \A b \in DOMAIN infos : infos[b] \in Seq(Element) /\ InfoCoherent(b, infos[b], DOMAIN store, block)
  <2>1. \A b \in DOMAIN infos : infos[b] \in Seq(Element)
    BY Zenon DEF PoolTypeOK, Element
  <2>2. Coherent(infos, DOMAIN store, block)
    BY Zenon DEF PoolCoherent, Coherent
  <2> HIDE DEF infos, store
  <2> QED  BY <2>1, <2>2, CoherentByBand, Zenon
<1>3. info \in Seq(Element) /\ EmptyOrCoherent(band, info, DOMAIN store, block)
  <2>1. CASE band \in DOMAIN infos
    BY <1>2, <2>1, Zenon DEF InfoOf, EmptyOrCoherent
  <2>2. CASE band \notin DOMAIN infos
    <3>1. info = <<>>
      BY <2>2, Zenon DEF InfoOf
    <3>2. <<>> \in Seq(Element)
      OBVIOUS
    <3> QED  BY <3>1, <3>2, Zenon DEF EmptyOrCoherent
  <2> QED  BY <2>1, <2>2
<1>4. PlayerStored(old, new, player, entry)
  <2> HIDE DEF store, info, band
  <2> QED  BY <1>3, BandStores, Zenon
<1>5. Abstract!PlayersOf(band) = old
  <2>1. CASE band \in DOMAIN infos
    BY <2>1, Zenon DEF Abstract!PlayersOf, AbstractPool, InfoOf
  <2>2. CASE band \notin DOMAIN infos
    <3>1. info = <<>>
      BY <2>2, Zenon DEF InfoOf
    <3>2. {info[i].account : i \in DOMAIN info} = {}
      BY <3>1
    <3>3. old = [k \in {} |-> {}]
      <4> HIDE DEF info
      <4> QED  BY <3>2, Zenon DEF PlayersIn
    <3> QED  BY <2>2, <3>3, Zenon DEF Abstract!PlayersOf, AbstractPool, Abstract!EmptyMapping
  <2> QED  BY <2>1, <2>2
<1>6. AbstractPool' = MapInsert(AbstractPool, band, new)
  <2>1. DOMAIN infos' = DOMAIN infos \cup {band} /\ infos'[band] = after
    BY <1>1, Zenon DEF MapInsert
  <2>2. ASSUME NEW b \in DOMAIN infos, b # band
        PROVE  PlayersIn(b, infos'[b], store') = PlayersIn(b, infos[b], store)
    <3>1. infos'[b] = infos[b]
      BY <1>1, <2>2, Zenon DEF MapInsert
    <3>2. infos[b] \in Seq(Element) /\ InfoCoherent(b, infos[b], DOMAIN store, block)
      BY <1>2
    <3>3. ASSUME NEW i \in 1 .. Len(infos[b])
          PROVE  store'[<<b, i>>] = store[<<b, i>>]
      <4>1. <<b, i>> \in DOMAIN store
        BY <3>2, Zenon DEF InfoCoherent
      <4>2. <<b, i>> # <<band, index>>
        BY <2>2
      <4> QED  BY <1>1, <4>1, <4>2, Zenon DEF MapInsert
    <3>4. PlayersIn(b, infos[b], store') = PlayersIn(b, infos[b], store)
      <4> HIDE DEF infos, store
      <4> QED  BY <3>2, <3>3, OtherBandStays, SMT
    <3> QED  BY <3>1, <3>4, Zenon
  <2>3. PlayersIn(band, infos'[band], store') = new
    BY <1>1, <2>1, Zenon
  <2>4. AbstractPool' = [b \in DOMAIN infos \cup {band} |-> PlayersIn(b, infos'[b], store')]
    BY <2>1, Zenon DEF AbstractPool
  <2> HIDE DEF new, band
  <2> QED  BY <2>2, <2>3, <2>4, Zenon DEF MapInsert, AbstractPool
<1>7. band \in DOMAIN AbstractPool' /\ AbstractPool'[band] = new
  <2> HIDE DEF new, band
  <2> QED  BY <1>6, Zenon DEF MapInsert
<1> HIDE DEF infos, store, band, info, index, after, old, new, entry
<1>8. player \in DOMAIN new /\ new[player] = entry
  BY <1>4, Zenon DEF PlayerStored, MapInsert
<1>9. Abstract!Store(band, player, entry)
  <2>1. \A m, k, v : Abstract!MapInsert(m, k, v) = MapInsert(m, k, v)
    BY Zenon DEF Abstract!MapInsert, MapInsert
  <2>2. \A m, k : Abstract!MapRemove(m, k) = MapRemove(m, k)
    BY Zenon DEF Abstract!MapRemove, MapRemove
  <2>3. \A players : Abstract!Put(band, players, player, entry)
                       <=> AbstractPool' = MapInsert(AbstractPool, band, MapInsert(players, player, entry))
    BY <2>1, Zenon DEF Abstract!Put
  <2> DEFINE May(players) ==
               \/ /\ player \in DOMAIN players \/ Cardinality(DOMAIN players) < PoolSize
                  /\ Abstract!Put(band, players, player, entry)
               \/ /\ player \notin DOMAIN players
                  /\ Cardinality(DOMAIN players) = PoolSize
                  /\ \E victim \in DOMAIN players :
                       /\ \A u \in DOMAIN players : players[victim].block <= players[u].block
                       /\ Abstract!Put(band, Abstract!MapRemove(players, victim), player, entry)
  <2>4. May(old) => Abstract!Store(band, player, entry)
    <3>1. May(Abstract!PlayersOf(band)) => Abstract!Store(band, player, entry)
      <4>1. \A S : Abstract!Cardinality(S) = Cardinality(S)
        BY Zenon DEF Abstract!Cardinality, Cardinality
      <4> QED  BY <4>1, Zenon DEF Abstract!Store
    <3> HIDE DEF May
    <3> QED  BY <1>5, <3>1, Zenon
  <2>5. \A players : new = MapInsert(players, player, entry) => Abstract!Put(band, players, player, entry)
    BY <1>6, <2>3, Zenon
  <2>6. CASE /\ player \in DOMAIN old \/ Cardinality(DOMAIN old) < PoolSize
             /\ new = MapInsert(old, player, entry)
    BY <2>4, <2>5, <2>6, Zenon
  <2>7. CASE /\ player \notin DOMAIN old
             /\ Cardinality(DOMAIN old) = PoolSize
             /\ \E victim \in DOMAIN old :
                  /\ \A u \in DOMAIN old : old[victim].block <= old[u].block
                  /\ new = MapInsert(MapRemove(old, victim), player, entry)
    BY <2>2, <2>4, <2>5, <2>7, Zenon
  <2> QED  BY <1>4, <2>6, <2>7, Zenon DEF PlayerStored
<1> QED  BY <1>7, <1>8, <1>9, Zenon DEF Abstract!Next

--------------------------------------------------------------------------------

\* A finite set has a subset of every size up to its own
LEMMA SubsetOfSize ==
  ASSUME NEW S, IsFiniteSet(S), NEW k \in 0 .. Cardinality(S)
  PROVE  \E T \in SUBSET S : Cardinality(T) = k
<1>1. Cardinality(S) \in Nat
  BY FS_CardinalityType, Zenon
<1>2. PICK f : f \in Bijection(1 .. Cardinality(S), S)
  BY FS_CardinalityType, Zenon DEF ExistsBijection
<1> DEFINE T == {f[i] : i \in 1 .. k}
           g == [i \in 1 .. k |-> f[i]]
<1>3. \A i \in 1 .. k : i \in 1 .. Cardinality(S)
  BY <1>1, SMT
<1>4. /\ \A i \in 1 .. Cardinality(S) : f[i] \in S
      /\ \A i, j \in 1 .. Cardinality(S) : f[i] = f[j] => i = j
  BY <1>2, Zenon DEF Bijection, Injection, Surjection, IsInjective
<1>5. g \in Bijection(1 .. k, T)
  BY <1>3, <1>4, Zenon DEF Bijection, Injection, Surjection, IsInjective
<1>6. ExistsBijection(1 .. k, T)
  BY <1>5, Zenon DEF ExistsBijection
<1>7. k \in Nat
  BY SMT
<1>8. Cardinality(T) = k
  <2> HIDE DEF T, g
  <2> QED  BY <1>6, <1>7, FS_CountingElements, Zenon
<1>9. T \in SUBSET S
  BY <1>3, <1>4, Zenon
<1> QED  BY <1>8, <1>9

\* The members of a set of keys in a band, from a band up, and above a band
OfBand(S, b) == {p \in S : p[1] = b}
From(S, b)   == {p \in S : p[1] >= b}
Above(S, b)  == {p \in S : p[1] > b}

\* A set of keys from a band up is those of the band and those above
LEMMA FromSplits ==
  ASSUME NEW S, IsFiniteSet(S), \A p \in S : p[1] \in Nat, NEW b \in Nat
  PROVE  /\ IsFiniteSet(OfBand(S, b)) /\ IsFiniteSet(From(S, b)) /\ IsFiniteSet(Above(S, b))
         /\ Cardinality(OfBand(S, b)) \in Nat /\ Cardinality(From(S, b)) \in Nat
         /\ Cardinality(Above(S, b)) \in Nat
         /\ Cardinality(From(S, b)) = Cardinality(OfBand(S, b)) + Cardinality(Above(S, b))
<1> DEFINE O == OfBand(S, b)
           A == Above(S, b)
<1>1. O \in SUBSET S /\ A \in SUBSET S /\ From(S, b) = O \cup A /\ O \cap A = {}
  BY SMT DEF OfBand, Above, From
<1> HIDE DEF O, A
<1>2. IsFiniteSet(O) /\ IsFiniteSet(A)
  BY <1>1, FS_Subset, Zenon
<1>3. /\ IsFiniteSet(O \cup A)
      /\ Cardinality(O \cup A) = Cardinality(O) + Cardinality(A) - Cardinality(O \cap A)
  BY <1>2, FS_Union, Zenon
<1>4. Cardinality(O \cap A) = 0
  BY <1>1, FS_EmptySet, Zenon
<1>5. Cardinality(O) \in Nat /\ Cardinality(A) \in Nat
  BY <1>2, FS_CardinalityType, Zenon
<1>6. Cardinality(O \cup A) = Cardinality(O) + Cardinality(A)
  BY <1>3, <1>4, <1>5, SMT
<1> QED  BY <1>1, <1>2, <1>3, <1>5, <1>6, SMT DEF O, A

\* What choose_multiple takes, band by band: as many as there are and are still missing
Nearest(picked, all, low, band) ==
  \A b \in low .. band :
    Cardinality(OfBand(picked, b))
      = Min({Cardinality(OfBand(all, b)), GHOST_COUNT - Cardinality(Above(picked, b))})

\* The bands above the last one the loop looked at are picked in full
LEMMA AbovePicked ==
  ASSUME NEW all, IsFiniteSet(all), NEW band \in Nat, NEW low \in 0 .. band,
         \A p \in all : p[1] \in 0 .. band,
         Cardinality(Above(all, low)) < GHOST_COUNT,
         NEW picked \in SUBSET From(all, low), Nearest(picked, all, low, band)
  PROVE  Above(picked, low) = Above(all, low)
<1>1. picked \in SUBSET all /\ IsFiniteSet(picked)
  <2>1. picked \in SUBSET all
    BY Zenon DEF From
  <2> QED  BY <2>1, FS_Subset, Zenon
<1>2. ASSUME NEW b \in low + 1 .. band
      PROVE  OfBand(picked, b) = OfBand(all, b)
  <2>1. b \in Nat /\ b \in low .. band /\ low \in Nat
    BY SMT
  <2>2. (\A p \in all : p[1] \in Nat) /\ (\A p \in picked : p[1] \in Nat)
    BY <1>1, SMT
  <2>3. /\ Cardinality(OfBand(all, b)) \in Nat /\ Cardinality(Above(all, b)) \in Nat
        /\ Cardinality(From(all, b)) = Cardinality(OfBand(all, b)) + Cardinality(Above(all, b))
        /\ IsFiniteSet(OfBand(all, b)) /\ IsFiniteSet(Above(all, b))
        /\ IsFiniteSet(Above(all, low))
    BY <2>1, <2>2, FromSplits, Zenon
  <2>4. Cardinality(Above(picked, b)) <= Cardinality(Above(all, b)) /\ Cardinality(Above(picked, b)) \in Nat
    <3>1. Above(picked, b) \in SUBSET Above(all, b)
      BY <1>1, Zenon DEF Above
    <3> QED  BY <2>3, <3>1, FS_Subset, FS_CardinalityType, Zenon
  <2>5. Cardinality(From(all, b)) <= Cardinality(Above(all, low))
    <3>1. From(all, b) \in SUBSET Above(all, low)
      BY <2>2, SMT DEF From, Above
    <3> QED  BY <2>3, <3>1, FS_Subset, Zenon
  <2>6. Cardinality(OfBand(picked, b))
          = Min({Cardinality(OfBand(all, b)), GHOST_COUNT - Cardinality(Above(picked, b))})
    BY <2>1, Zenon DEF Nearest
  <2>7. Cardinality(Above(all, low)) \in Nat
    BY <2>3, FS_CardinalityType, Zenon
  <2>8. Cardinality(OfBand(all, b)) <= GHOST_COUNT - Cardinality(Above(picked, b))
    BY <2>3, <2>4, <2>5, <2>7, SMT DEF GHOST_COUNT
  <2>9. GHOST_COUNT - Cardinality(Above(picked, b)) \in Int /\ Cardinality(OfBand(all, b)) \in Int
    BY <2>3, <2>4, SMT DEF GHOST_COUNT
  <2>10. Cardinality(OfBand(picked, b)) = Cardinality(OfBand(all, b))
    BY <2>6, <2>8, <2>9, MinPair, Zenon
  <2>11. OfBand(picked, b) \in SUBSET OfBand(all, b)
    BY <1>1, Zenon DEF OfBand
  <2> QED  BY <2>3, <2>10, <2>11, FS_Subset, Zenon
<1>3. ASSUME NEW p \in all, p[1] > low PROVE p \in picked
  <2>1. p[1] \in low + 1 .. band
    BY <1>3, SMT
  <2>2. p \in OfBand(all, p[1])
    BY Zenon DEF OfBand
  <2>3. p \in OfBand(picked, p[1])
    BY <1>2, <2>1, <2>2, Zenon
  <2> QED  BY <2>3, Zenon DEF OfBand
<1> QED  BY <1>1, <1>3, Zenon DEF Above

\* ... so that the picked are as many as there are, up to GHOST_COUNT, and the nearest
LEMMA PickedAreNearest ==
  ASSUME NEW all, IsFiniteSet(all), NEW band \in Nat, NEW low \in 0 .. band,
         \A p \in all : p[1] \in 0 .. band,
         Cardinality(Above(all, low)) < GHOST_COUNT,
         low = 0 \/ Cardinality(From(all, low)) >= GHOST_COUNT,
         NEW picked \in SUBSET From(all, low), Nearest(picked, all, low, band)
  PROVE  /\ Cardinality(picked) = Min({GHOST_COUNT, Cardinality(all)})
         /\ \A p \in picked : \A r \in all : r[1] > p[1] => r \in picked
<1>1. picked \in SUBSET all /\ IsFiniteSet(picked) /\ low \in Nat /\ low \in low .. band
  <2>1. picked \in SUBSET all
    BY Zenon DEF From
  <2> QED  BY <2>1, FS_Subset, SMT
<1>2. (\A p \in all : p[1] \in Nat) /\ (\A p \in picked : p[1] \in Nat)
  BY <1>1, SMT
<1>3. Above(picked, low) = Above(all, low)
  BY AbovePicked, Zenon
<1>4. /\ Cardinality(OfBand(all, low)) \in Nat /\ Cardinality(Above(all, low)) \in Nat
      /\ Cardinality(From(all, low)) = Cardinality(OfBand(all, low)) + Cardinality(Above(all, low))
      /\ IsFiniteSet(From(all, low)) /\ Cardinality(From(all, low)) \in Nat
  BY <1>1, <1>2, FromSplits, Zenon
<1>5. Cardinality(From(picked, low)) = Cardinality(OfBand(picked, low)) + Cardinality(Above(picked, low))
  BY <1>1, <1>2, FromSplits, Zenon
<1>6. From(picked, low) = picked
  BY <1>2, SMT DEF From
<1>7. Cardinality(OfBand(picked, low))
        = Min({Cardinality(OfBand(all, low)), GHOST_COUNT - Cardinality(Above(picked, low))})
  BY <1>1, Zenon DEF Nearest
<1>8. Cardinality(picked) = IF GHOST_COUNT <= Cardinality(From(all, low)) THEN GHOST_COUNT
                            ELSE Cardinality(From(all, low))
  <2> DEFINE o == Cardinality(OfBand(all, low))
             a == Cardinality(Above(all, low))
  <2>1. o \in Nat /\ a \in Nat /\ Cardinality(From(all, low)) = o + a
    BY <1>4
  <2>2. Cardinality(picked) = Min({o, GHOST_COUNT - a}) + a
    BY <1>3, <1>5, <1>6, <1>7
  <2> HIDE DEF o, a
  <2>3. GHOST_COUNT - a \in Int
    BY <2>1, SMT DEF GHOST_COUNT
  <2>4. Min({o, GHOST_COUNT - a}) = IF o <= GHOST_COUNT - a THEN o ELSE GHOST_COUNT - a
    BY <2>1, <2>3, MinPair, SMT
  <2> QED  BY <2>1, <2>2, <2>4, SMT DEF GHOST_COUNT
<1>9. Cardinality(all) \in Nat /\ Cardinality(From(all, low)) <= Cardinality(all)
  <2>1. From(all, low) \in SUBSET all
    BY Zenon DEF From
  <2> QED  BY <2>1, FS_Subset, FS_CardinalityType, Zenon
<1>10. low = 0 => From(all, low) = all
  BY <1>2, SMT DEF From
<1>11. Min({GHOST_COUNT, Cardinality(all)})
         = IF GHOST_COUNT <= Cardinality(all) THEN GHOST_COUNT ELSE Cardinality(all)
  BY <1>9, MinPair, SMT DEF GHOST_COUNT
<1>12. Cardinality(picked) = Min({GHOST_COUNT, Cardinality(all)})
  <2>1. CASE low = 0
    BY <1>8, <1>10, <1>11, <2>1, SMT
  <2>2. CASE Cardinality(From(all, low)) >= GHOST_COUNT
    BY <1>4, <1>8, <1>9, <1>11, <2>2, SMT DEF GHOST_COUNT
  <2> QED  BY <2>1, <2>2
<1>13. ASSUME NEW p \in picked, NEW r \in all, r[1] > p[1] PROVE r \in picked
  <2>1. r \in Above(all, low)
    BY <1>2, <1>6, <1>13, SMT DEF Above, From
  <2> QED  BY <1>3, <2>1, Zenon DEF Above
<1> QED  BY <1>12, <1>13

\* There is always something to pick
LEMMA PickExists ==
  ASSUME NEW all, IsFiniteSet(all), NEW band \in Nat, NEW low \in 0 .. band,
         \A p \in all : p[1] \in 0 .. band,
         Cardinality(Above(all, low)) < GHOST_COUNT
  PROVE  \E picked \in SUBSET From(all, low) :
           Cardinality(picked) \in 0 .. GHOST_COUNT /\ Nearest(picked, all, low, band)
<1>1. low \in Nat /\ \A p \in all : p[1] \in Nat
  BY SMT
<1> DEFINE O == OfBand(all, low)
           A == Above(all, low)
<1>2. /\ Cardinality(O) \in Nat /\ Cardinality(A) \in Nat /\ IsFiniteSet(O) /\ IsFiniteSet(A)
  BY <1>1, FromSplits, Zenon
<1> DEFINE k == Min({Cardinality(O), GHOST_COUNT - Cardinality(A)})
<1>3. k = IF Cardinality(O) <= GHOST_COUNT - Cardinality(A) THEN Cardinality(O)
          ELSE GHOST_COUNT - Cardinality(A)
  <2> HIDE DEF O, A
  <2>1. GHOST_COUNT - Cardinality(A) \in Int /\ Cardinality(O) \in Int
    BY <1>2, SMT DEF GHOST_COUNT
  <2> QED  BY <2>1, MinPair, Zenon
<1>4. k \in 0 .. Cardinality(O) /\ k + Cardinality(A) \in 0 .. GHOST_COUNT
  <2> HIDE DEF O, A, k
  <2> QED  BY <1>2, <1>3, SMT DEF GHOST_COUNT, A
<1>5. PICK R \in SUBSET O : Cardinality(R) = k
  <2> HIDE DEF O, A, k
  <2> QED  BY <1>2, <1>4, SubsetOfSize, Zenon
<1> DEFINE picked == R \cup A
<1>6. picked \in SUBSET From(all, low)
  BY <1>1, SMT DEF OfBand, Above, From
<1>7. OfBand(picked, low) = R /\ Above(picked, low) = A
  BY <1>1, SMT DEF OfBand, Above
<1>8. \A b \in low + 1 .. band :
        OfBand(picked, b) = OfBand(all, b) /\ Above(picked, b) = Above(all, b)
  BY <1>1, SMT DEF OfBand, Above
<1>9. IsFiniteSet(picked) /\ Cardinality(picked) = k + Cardinality(A)
  <2>1. R \cap A = {}
    BY <1>1, SMT DEF OfBand, Above
  <2>2. IsFiniteSet(R)
    BY <1>2, FS_Subset, Zenon
  <2>3. Cardinality(R \cap A) = 0
    BY <2>1, FS_EmptySet, Zenon
  <2> HIDE DEF O, A, k
  <2>4. IsFiniteSet(picked) /\ Cardinality(picked) = Cardinality(R) + Cardinality(A) - Cardinality(R \cap A)
    BY <1>2, <2>2, FS_Union, Zenon
  <2>5. Cardinality(R) \in Nat
    BY <2>2, FS_CardinalityType, Zenon
  <2> QED  BY <1>2, <1>5, <2>3, <2>4, <2>5, SMT
<1>10. ASSUME NEW b \in low .. band
       PROVE  Cardinality(OfBand(picked, b))
                = Min({Cardinality(OfBand(all, b)), GHOST_COUNT - Cardinality(Above(picked, b))})
  <2>1. CASE b = low
    BY <1>5, <1>7, <2>1
  <2>2. CASE b # low
    <3>1. b \in low + 1 .. band /\ b \in Nat
      BY <1>1, <2>2, SMT
    <3>2. /\ Cardinality(OfBand(all, b)) \in Nat /\ Cardinality(Above(all, b)) \in Nat
          /\ Cardinality(From(all, b)) = Cardinality(OfBand(all, b)) + Cardinality(Above(all, b))
      BY <1>1, <3>1, FromSplits, Zenon
    <3>3. Cardinality(From(all, b)) <= Cardinality(A)
      <4>1. From(all, b) \in SUBSET A
        BY <1>1, <3>1, SMT DEF From, Above
      <4> HIDE DEF A
      <4> QED  BY <1>2, <4>1, FS_Subset, Zenon
    <3>4. Cardinality(OfBand(all, b)) <= GHOST_COUNT - Cardinality(Above(all, b))
      BY <1>2, <3>2, <3>3, SMT DEF GHOST_COUNT
    <3>5. GHOST_COUNT - Cardinality(Above(all, b)) \in Int /\ Cardinality(OfBand(all, b)) \in Int
      BY <3>2, SMT DEF GHOST_COUNT
    <3>6. Min({Cardinality(OfBand(all, b)), GHOST_COUNT - Cardinality(Above(all, b))})
            = Cardinality(OfBand(all, b))
      BY <3>4, <3>5, MinPair, Zenon
    <3> QED  BY <1>8, <3>1, <3>6, Zenon
  <2> QED  BY <2>1, <2>2
<1> HIDE DEF picked
<1>11. Nearest(picked, all, low, band)
  BY <1>10, Zenon DEF Nearest
<1>12. Cardinality(picked) \in 0 .. GHOST_COUNT
  BY <1>4, <1>9, Zenon
<1> QED  BY <1>6, <1>11, <1>12, Zenon

\* The info of a band, stored or not
LEMMA InfoOfIs ==
  ASSUME NEW ghosts, PoolTypeOK(ghosts), PoolCoherent, NEW b
  PROVE  /\ Len(InfoOf(b)) \in 0 .. PoolSize
         /\ DOMAIN InfoOf(b) = 1 .. Len(InfoOf(b))
<1>1. CASE b \in DOMAIN matchmaking_ghosts_info
  <2>1. InfoOf(b) = matchmaking_ghosts_info[b]
    BY <1>1, Zenon DEF InfoOf
  <2>2. Len(InfoOf(b)) \in 1 .. PoolSize
    BY <1>1, <2>1, Zenon DEF PoolCoherent
  <2>3. InfoOf(b) \in Seq([block : 0 .. MaxBlock, account : Accounts])
    BY <1>1, <2>1, Zenon DEF PoolTypeOK
  <2>4. DOMAIN InfoOf(b) = 1 .. Len(InfoOf(b))
    BY <2>3, LenProperties, Zenon
  <2> QED  BY <2>2, <2>4, PoolAssumption, SMT DEF PoolAssumption
<1>2. CASE b \notin DOMAIN matchmaking_ghosts_info
  <2>1. InfoOf(b) = <<>>
    BY <1>2, Zenon DEF InfoOf
  <2> QED  BY <2>1, PoolAssumption, SMT DEF PoolAssumption
<1> QED  BY <1>1, <1>2

\* The ghosts of some bands: finitely many, those of a band as many as its info is long, and
\* those of fewer bands are those of all of them from the lowest up
LEMMA StoredIs ==
  ASSUME NEW ghosts, PoolTypeOK(ghosts), PoolCoherent, NEW band \in Nat
  PROVE  /\ IsFiniteSet(Stored(0, band))
         /\ \A p \in Stored(0, band) : p[1] \in 0 .. band
         /\ \A low \in 0 .. band : Stored(low, band) = From(Stored(0, band), low)
         /\ \A b \in 0 .. band : Cardinality(OfBand(Stored(0, band), b)) = Len(InfoOf(b))
<1>1. IsFiniteSet(Stored(0, band))
  <2>1. IsFiniteSet(0 .. band) /\ IsFiniteSet(1 .. PoolSize)
    BY FS_Interval, PoolAssumption, SMT DEF PoolAssumption
  <2>2. IsFiniteSet((0 .. band) \X (1 .. PoolSize))
    BY <2>1, FS_Product, Zenon
  <2>3. Stored(0, band) \in SUBSET ((0 .. band) \X (1 .. PoolSize))
    BY Zenon DEF Stored
  <2> QED  BY <2>2, <2>3, FS_Subset, Zenon
<1>2. \A p \in Stored(0, band) : p[1] \in 0 .. band
  BY Zenon DEF Stored
<1>3. ASSUME NEW low \in 0 .. band
      PROVE  Stored(low, band) = From(Stored(0, band), low)
  <2>1. \A p \in (0 .. band) \X (1 .. PoolSize) :
          p \in (low .. band) \X (1 .. PoolSize) <=> p[1] >= low
    BY SMT
  <2>2. (low .. band) \X (1 .. PoolSize) \subseteq (0 .. band) \X (1 .. PoolSize)
    BY SMT
  <2> QED  BY <2>1, <2>2, Zenon DEF Stored, From
<1>4. ASSUME NEW b \in 0 .. band
      PROVE  Cardinality(OfBand(Stored(0, band), b)) = Len(InfoOf(b))
  <2> DEFINE n == Len(InfoOf(b))
             O == OfBand(Stored(0, band), b)
             f == [i \in 1 .. n |-> <<b, i>>]
  <2>1. n \in 0 .. PoolSize /\ DOMAIN InfoOf(b) = 1 .. n
    BY InfoOfIs, Zenon
  <2>2. n \in Nat /\ \A i \in 1 .. n : i \in 1 .. PoolSize
    <3> HIDE DEF n
    <3> QED  BY <2>1, PoolAssumption, SMT DEF PoolAssumption
  <2>3. \A i \in 1 .. n : <<b, i>> \in O
    BY <2>1, <2>2, Zenon DEF Stored, OfBand
  <2>4. \A p \in O : p[2] \in 1 .. n /\ p = <<b, p[2]>>
    <3>1. \A p \in O : /\ p \in (0 .. band) \X (1 .. PoolSize) /\ p[1] = b
                       /\ p[2] \in DOMAIN InfoOf(p[1])
      BY Zenon DEF Stored, OfBand
    <3> HIDE DEF O, n
    <3> QED  BY <2>1, <3>1
  <2> HIDE DEF n, O
  <2>5. f \in Bijection(1 .. n, O)
    <3>1. f \in [1 .. n -> O]
      BY <2>3, Zenon
    <3>2. \A i, j \in 1 .. n : f[i] = f[j] => i = j
      BY Zenon
    <3>3. \A p \in O : \E i \in 1 .. n : f[i] = p
      BY <2>4, Zenon
    <3> QED  BY <3>1, <3>2, <3>3, Zenon DEF Bijection, Injection, Surjection, IsInjective
  <2>6. ExistsBijection(1 .. n, O)
    BY <2>5, Zenon DEF ExistsBijection
  <2>7. Cardinality(O) = n
    BY <2>2, <2>6, FS_CountingElements, Zenon
  <2> QED  BY <2>7 DEF n, O
<1> QED  BY <1>1, <1>2, <1>3, <1>4

\* The loop of choose_ghosts stops at band 0, or when the ghosts are enough, and not before
LEMMA LowestBandIs ==
  ASSUME NEW ghosts, PoolTypeOK(ghosts), PoolCoherent, NEW band \in Nat
  PROVE  /\ LowestBand(band) \in 0 .. band
         /\ \/ LowestBand(band) = 0
            \/ Cardinality(From(Stored(0, band), LowestBand(band))) >= GHOST_COUNT
         /\ Cardinality(Above(Stored(0, band), LowestBand(band))) < GHOST_COUNT
<1> DEFINE all == Stored(0, band)
           L   == {0} \cup {low \in 0 .. band : Cardinality(Stored(low, band)) >= GHOST_COUNT}
           low == LowestBand(band)
<1>1. low = Max(L) /\ L \in SUBSET (0 .. band) /\ 0 \in L
  BY SMT DEF LowestBand
<1>2. low \in L /\ \A l \in L : l <= low
  <2> HIDE DEF L
  <2> QED  BY <1>1, MaxBounded, Zenon
<1>3. /\ IsFiniteSet(all)
      /\ \A p \in all : p[1] \in 0 .. band
      /\ \A l \in 0 .. band : Stored(l, band) = From(all, l)
  BY StoredIs, Zenon
<1>4. low \in 0 .. band
  BY <1>1, <1>2, Zenon
<1>5. low = 0 \/ Cardinality(From(all, low)) >= GHOST_COUNT
  <2> HIDE DEF low, all
  <2> QED  BY <1>2, <1>3, <1>4, SMT
<1>6. Cardinality(Above(all, low)) < GHOST_COUNT
  <2>1. CASE low = band
    <3>1. Above(all, low) = {}
      BY <1>3, <2>1, SMT DEF Above
    <3> QED  BY <3>1, FS_EmptySet, SMT DEF GHOST_COUNT
  <2>2. CASE low # band
    <3> HIDE DEF all, low
    <3>1. low + 1 \in 0 .. band /\ low + 1 \in Nat /\ ~(low + 1 <= low)
      BY <1>4, <2>2, SMT
    <3>2. ~(Cardinality(Stored(low + 1, band)) >= GHOST_COUNT)
      BY <1>2, <3>1, Zenon
    <3>3. Above(all, low) = From(all, low + 1)
      BY <1>3, <1>4, SMT DEF Above, From
    <3>4. Cardinality(From(all, low + 1)) \in Nat
      <4>1. \A p \in all : p[1] \in Nat
        BY <1>3, SMT
      <4> QED  BY <1>3, <3>1, <4>1, FromSplits, Zenon
    <3> QED  BY <1>3, <3>1, <3>2, <3>3, <3>4, SMT DEF GHOST_COUNT
  <2> QED  BY <2>1, <2>2
<1> QED  BY <1>4, <1>5, <1>6

\* Of a coherent store, choose_ghosts picks the nearest rivals there are
LEMMA CoherentPicksNearest ==
  ASSUME NEW ghosts, PoolTypeOK(ghosts), PoolCoherent
  PROVE  NearestRivals
<1> SUFFICES ASSUME NEW ep \in Ep
             PROVE  /\ Picks(ep) # {}
                    /\ \A picked \in Picks(ep) :
                         /\ Cardinality(picked) = Min({GHOST_COUNT, Cardinality(Stored(0, GetEpBand(ep)))})
                         /\ \A p \in picked : \A r \in Stored(0, GetEpBand(ep)) : r[1] > p[1] => r \in picked
  BY PlayerEpsAssumption, Zenon DEF NearestRivals, PlayerEpsAssumption
<1> DEFINE band == GetEpBand(ep)
           low  == LowestBand(band)
           all  == Stored(0, band)
<1>1. band \in Nat
  <2>1. GetEpBand(ep) \in Band
    BY BandType
  <2> QED  BY <2>1, SMT DEF Band
<1> HIDE DEF band
<1>2. /\ IsFiniteSet(all)
      /\ \A p \in all : p[1] \in 0 .. band
      /\ \A l \in 0 .. band : Stored(l, band) = From(all, l)
      /\ \A b \in 0 .. band : Cardinality(OfBand(all, b)) = Len(InfoOf(b))
  BY <1>1, StoredIs, Zenon
<1>3. /\ low \in 0 .. band
      /\ low = 0 \/ Cardinality(From(all, low)) >= GHOST_COUNT
      /\ Cardinality(Above(all, low)) < GHOST_COUNT
  BY <1>1, LowestBandIs, Zenon
<1> HIDE DEF low, all
<1>4. \A picked : picked \in Picks(ep)
        <=> /\ picked \in SUBSET From(all, low) /\ Cardinality(picked) \in 0 .. GHOST_COUNT
            /\ Nearest(picked, all, low, band)
  <2>1. Stored(low, band) = From(all, low)
    BY <1>2, <1>3, Zenon
  <2> SUFFICES ASSUME NEW picked
               PROVE  picked \in Picks(ep)
                        <=> /\ picked \in SUBSET From(all, low) /\ Cardinality(picked) \in 0 .. GHOST_COUNT
                            /\ Nearest(picked, all, low, band)
    OBVIOUS
  <2>2. picked \in UNION {kSubset(n, Stored(low, band)) : n \in 0 .. GHOST_COUNT}
          <=> picked \in SUBSET From(all, low) /\ Cardinality(picked) \in 0 .. GHOST_COUNT
    <3> DEFINE S == From(all, low)
    <3>1. \A n : picked \in kSubset(n, S) <=> picked \in SUBSET S /\ Cardinality(picked) = n
      BY Zenon DEF kSubset
    <3> HIDE DEF S
    <3>2. picked \in UNION {kSubset(n, S) : n \in 0 .. GHOST_COUNT}
            <=> \E n \in 0 .. GHOST_COUNT : picked \in kSubset(n, S)
      BY Zenon
    <3>3. picked \in UNION {kSubset(n, S) : n \in 0 .. GHOST_COUNT}
            <=> picked \in SUBSET S /\ Cardinality(picked) \in 0 .. GHOST_COUNT
      BY <3>1, <3>2, Zenon
    <3> QED  BY <2>1, <3>3, Zenon DEF S
  <2>3. \A b \in low .. band : b \in 0 .. band
    BY <1>3, SMT
  <2>4. (\A b \in low .. band :
           Cardinality({p \in picked : p[1] = b})
             = Min({Len(InfoOf(b)), GHOST_COUNT - Cardinality({p \in picked : p[1] > b})}))
          <=> Nearest(picked, all, low, band)
    <3>1. \A b \in low .. band : Cardinality(OfBand(all, b)) = Len(InfoOf(b))
      BY <1>2, <2>3, Zenon
    <3> QED  BY <3>1 DEF Nearest, OfBand, Above
  <2>5. picked \in Picks(ep)
          <=> /\ picked \in UNION {kSubset(n, Stored(low, band)) : n \in 0 .. GHOST_COUNT}
              /\ \A b \in low .. band :
                   Cardinality({p \in picked : p[1] = b})
                     = Min({Len(InfoOf(b)), GHOST_COUNT - Cardinality({p \in picked : p[1] > b})})
    BY Zenon DEF Picks, band, low
  <2> QED  BY <2>2, <2>4, <2>5, Zenon
<1>5. Picks(ep) # {}
  <2>1. \E picked \in SUBSET From(all, low) :
          Cardinality(picked) \in 0 .. GHOST_COUNT /\ Nearest(picked, all, low, band)
    BY <1>1, <1>2, <1>3, PickExists, Zenon
  <2> QED  BY <1>4, <2>1, Zenon
<1>6. ASSUME NEW picked \in Picks(ep)
      PROVE  /\ Cardinality(picked) = Min({GHOST_COUNT, Cardinality(all)})
             /\ \A p \in picked : \A r \in all : r[1] > p[1] => r \in picked
  <2>1. picked \in SUBSET From(all, low) /\ Nearest(picked, all, low, band)
    BY <1>4, Zenon
  <2> QED  BY <1>1, <1>2, <1>3, <2>1, PickedAreNearest, Zenon
<1> QED  BY <1>5, <1>6, Zenon DEF all, band

================================================================================
