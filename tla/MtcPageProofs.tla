----------------------------- MODULE MtcPageProofs -----------------------------
(***************************************************************************)
(* Theorems about MtcPage: whatever is clicked, answered, left behind or   *)
(* lost, and in whatever order.                                            *)
(***************************************************************************)
EXTENDS MtcPage, SequenceLemmas

--------------------------------------------------------------------------------
(* The connection *)

Link == [state : {"connecting", "building", "up", "down"}, release : {0} \cup DOMAIN BuiltIds]

\* The links, and the connection among them
LinksCoherent ==
  /\ links \in Seq(Link)
  /\ release \in DOMAIN BuiltIds
  /\ connection # 0 => connection \in DOMAIN links /\ links[connection].state = "up"

LEMMA LinkTypes ==
  /\ \A id : FirstLinks(id) \in Seq(Link)
  /\ Connecting \in Link
  /\ \A l \in Link, state \in {"connecting", "building", "up", "down"} : [l EXCEPT !.state = state] \in Link
<1>1. Connecting \in Link
  BY SMT DEF Connecting, Link
<1>2. \A id : FirstLinks(id) \in Seq(Link)
  <2> HIDE DEF Link
  <2> QED  BY <1>1, EmptySeq, SMT DEF FirstLinks
<1>3. ASSUME NEW l \in Link, NEW state \in {"connecting", "building", "up", "down"}
      PROVE  [l EXCEPT !.state = state] \in Link
  BY SMT DEF Link
<1> QED  BY <1>1, <1>2, <1>3, Zenon

\* The actions that neither connect nor disconnect
LEMMA OthersKeepLinks ==
  ASSUME Next,
         ~\E id \in RouteIds : Go(id) \/ Reload(id),
         ~\E k \in DOMAIN links : LinkAnswers(k) \/ BasesAnswer(k),
         ~ReleaseBases
  PROVE  UNCHANGED <<linkVars, release>>
<1> USE DEF appVars, linkVars, modalVars, frameRest, storageVars, chainVars, matchVars, history, txRest
<1>1. ASSUME NEW a \in Accounts, SwitchAccount(a) PROVE UNCHANGED <<linkVars, release>>
  BY <1>1, SMT DEF SwitchAccount
<1>2. ASSUME NEW a \in Accounts, EditElsewhere(a) PROVE UNCHANGED <<linkVars, release>>
  BY <1>2, SMT DEF EditElsewhere
<1>3. ASSUME NEW a \in Accounts, PlayElsewhere(a) PROVE UNCHANGED <<linkVars, release>>
  BY <1>3, SMT DEF PlayElsewhere
<1>4. ASSUME NEW i, SelectDeck(i) PROVE UNCHANGED <<linkVars, release>>
  BY <1>4, SMT DEF SelectDeck, EditDecks
<1>5. ASSUME NEW i, DiscardDeck(i) PROVE UNCHANGED <<linkVars, release>>
  BY <1>5, SMT DEF DiscardDeck, EditDecks
<1>6. ASSUME NEW j, NEW signed, PopupClosed(j, signed) PROVE UNCHANGED <<linkVars, release>>
  BY <1>6, SMT DEF PopupClosed
<1>7. ASSUME SaveDeck PROVE UNCHANGED <<linkVars, release>>
  BY <1>7, SMT DEF SaveDeck, EditDecks
<1>8. ASSUME Start PROVE UNCHANGED <<linkVars, release>>
  BY <1>8, SMT DEF Start, Click
<1>9. ASSUME FinishShop PROVE UNCHANGED <<linkVars, release>>
  BY <1>9, SMT DEF FinishShop, Click
<1>10. ASSUME FinishTrialShop PROVE UNCHANGED <<linkVars, release>>
  BY <1>10, SMT DEF FinishTrialShop, Click
<1>11. ASSUME NextTurn PROVE UNCHANGED <<linkVars, release>>
  BY <1>11, SMT DEF NextTurn, Click
<1>12. ASSUME FinishMatch PROVE UNCHANGED <<linkVars, release>>
  BY <1>12, SMT DEF FinishMatch, Click
<1>13. ASSUME FinishTrial PROVE UNCHANGED <<linkVars, release>>
  BY <1>13, SMT DEF FinishTrial, Click
<1>14. ASSUME PlayAgain PROVE UNCHANGED <<linkVars, release>>
  BY <1>14, SMT DEF PlayAgain, Click
<1>15. ASSUME WasmReady PROVE UNCHANGED <<linkVars, release>>
  BY <1>15, SMT DEF WasmReady
<1>16. ASSUME BattlePlayed PROVE UNCHANGED <<linkVars, release>>
  BY <1>16, SMT DEF BattlePlayed
<1>17. ASSUME NEW j, SetupAnswered(j) PROVE UNCHANGED <<linkVars, release>>
  BY <1>17, SMT DEF SetupAnswered
<1>18. ASSUME NEW j, EpAnswered(j) PROVE UNCHANGED <<linkVars, release>>
  BY <1>18, SMT DEF EpAnswered
<1>19. ASSUME NEW j, RecordAnswered(j) PROVE UNCHANGED <<linkVars, release>>
  BY <1>19, SMT DEF RecordAnswered
<1>20. ASSUME NEW j, Generated(j) PROVE UNCHANGED <<linkVars, release>>
  BY <1>20, SMT DEF Generated
<1>21. ASSUME NEW j, TrialAnswered(j) PROVE UNCHANGED <<linkVars, release>>
  BY <1>21, SMT DEF TrialAnswered
<1>22. ASSUME NEW j, StartIncluded(j) PROVE UNCHANGED <<linkVars, release>>
  BY <1>22, SMT DEF StartIncluded
<1>23. ASSUME NEW j, ShopIncluded(j) PROVE UNCHANGED <<linkVars, release>>
  BY <1>23, SMT DEF ShopIncluded
<1>24. ASSUME NEW j, ShopAnswered(j) PROVE UNCHANGED <<linkVars, release>>
  BY <1>24, SMT DEF ShopAnswered
<1>25. ASSUME NEW j, ResultAnswered(j) PROVE UNCHANGED <<linkVars, release>>
  BY <1>25, SMT DEF ResultAnswered
<1>26. ASSUME NEW j, BoxesFound(j) PROVE UNCHANGED <<linkVars, release>>
  BY <1>26, SMT DEF BoxesFound
<1>27. ASSUME NEW j, HealthWritten(j) PROVE UNCHANGED <<linkVars, release>>
  BY <1>27, SMT DEF HealthWritten
<1>28. ASSUME NEW j, SetupBlocked(j) PROVE UNCHANGED <<linkVars, release>>
  BY <1>28, SMT DEF SetupBlocked
<1>29. ASSUME NEW j, NEW what, StartAnswered(j, what) PROVE UNCHANGED <<linkVars, release>>
  BY <1>29, SMT DEF StartAnswered
<1>30. ASSUME NEW j, Lost(j) PROVE UNCHANGED <<linkVars, release>>
  BY <1>30, SMT DEF Lost, QueryFails
<1>31. ASSUME NEW j, Fault(j) PROVE UNCHANGED <<linkVars, release>>
  BY <1>31, SMT DEF Fault, QueryFails
<1> QED  BY <1>1, <1>2, <1>3, <1>4, <1>5, <1>6, <1>7, <1>8, <1>9, <1>10, <1>11, <1>12, <1>13, <1>14,
             <1>15, <1>16, <1>17, <1>18, <1>19, <1>20, <1>21, <1>22, <1>23, <1>24, <1>25, <1>26,
             <1>27, <1>28, <1>29, <1>30, <1>31, Zenon DEF Next, Player, Answer, Failure

\* A change of route keeps the connection, or drops it with its api
LEMMA RerouteKeepsLinks ==
  ASSUME LinksCoherent, NEW id, Reroute(id)
  PROVE  links' \in Seq(Link) /\ (connection # 0 => connection \in DOMAIN links /\ links[connection].state = "up")'
<1>1. CASE UNCHANGED <<linkVars, account>>
  BY <1>1, SMT DEF LinksCoherent, linkVars
<1>2. CASE LeaveContract
  <2>1. connection' = 0
    BY <1>2 DEF LeaveContract
  <2>2. CASE links = <<>>
    <3>1. links' = links
      BY <1>2, <2>2, SMT DEF LeaveContract
    <3> QED  BY <2>1, <3>1, SMT DEF LinksCoherent
  <2>3. CASE links # <<>>
    <3> DEFINE n == Len(links)
               state == IF links[n].state = "connecting" THEN links[n].state ELSE "down"
               new == [links[n] EXCEPT !.state = state]
    <3>1. links \in Seq(Link) /\ n \in 1 .. Len(links) /\ links[n] \in Link
      BY <2>3, SMT DEF LinksCoherent
    <3>2. state \in {"connecting", "building", "up", "down"}
      OBVIOUS
    <3>3. links' = [links EXCEPT ![n] = new]
      BY <1>2, Zenon DEF LeaveContract
    <3> HIDE DEF n, state
    <3>4. new \in Link
      BY <3>1, <3>2, LinkTypes, Zenon
    <3> HIDE DEF new
    <3>5. links' \in Seq(Link)
      BY <3>1, <3>3, <3>4, ExceptSeq, Zenon
    <3> QED  BY <2>1, <3>5, SMT
  <2> QED  BY <2>2, <2>3
<1>3. CASE links' = Append(links, Connecting) /\ UNCHANGED <<connection, account>>
  <2>1. Connecting \in Link
    BY LinkTypes, Zenon
  <2> QED  BY <1>3, <2>1, SMT DEF LinksCoherent
<1> QED  BY <1>1, <1>2, <1>3, Zenon DEF Reroute

LEMMA LinksCoherentStep ==
  ASSUME LinksCoherent, [Next]_vars
  PROVE  LinksCoherent'
<1> USE DEF linkVars
<1>1. ASSUME UNCHANGED <<linkVars, release>>
      PROVE  LinksCoherent'
  BY <1>1, SMT DEF LinksCoherent
<1>2. ASSUME NEW id, Go(id)
      PROVE  LinksCoherent'
  <2>1. release' = release /\ Reroute(id)
    BY <1>2, SMT DEF Go, frameRest, chainVars
  <2> QED  BY <2>1, RerouteKeepsLinks, Zenon DEF LinksCoherent
<1>3. ASSUME NEW id, Reload(id)
      PROVE  LinksCoherent'
  <2>1. release' = release /\ connection' = 0 /\ links' = FirstLinks(id)
    BY <1>3, SMT DEF Reload, Reloaded, frameRest, chainVars
  <2>2. FirstLinks(id) \in Seq(Link)
    BY LinkTypes, Zenon
  <2> QED  BY <2>1, <2>2, SMT DEF LinksCoherent
<1>4. ASSUME NEW k \in DOMAIN links, LinkAnswers(k)
      PROVE  LinksCoherent'
  <2>1. /\ UNCHANGED <<release, connection>>
        /\ links[k].state = "connecting"
        /\ links' = [links EXCEPT ![k].state = "building"]
    BY <1>4, SMT DEF LinkAnswers, LinkAnswered, frameRest, chainVars
  <2>2. links[k] \in Link /\ [links[k] EXCEPT !.state = "building"] \in Link
    <3>1. links[k] \in Link
      BY SMT DEF LinksCoherent
    <3> QED  BY <3>1, LinkTypes, Zenon
  <2>3. links' \in Seq(Link) /\ DOMAIN links' = DOMAIN links
    BY <2>1, <2>2, SMT DEF LinksCoherent
  <2>4. ASSUME connection # 0
        PROVE  connection \in DOMAIN links /\ connection # k /\ links'[connection] = links[connection]
    BY <2>1, <2>4, SMT DEF LinksCoherent
  <2> QED  BY <2>1, <2>3, <2>4, Zenon DEF LinksCoherent
<1>5. ASSUME NEW k \in DOMAIN links, BasesAnswer(k)
      PROVE  LinksCoherent'
  <2>1. /\ release' = release
        /\ connection' = k
        /\ links' = [links EXCEPT ![k] = [state |-> "up", release |-> release]]
    BY <1>5, SMT DEF BasesAnswer, ConnectionBuilt, frameRest, chainVars
  <2>2. [state |-> "up", release |-> release] \in Link
    BY SMT DEF LinksCoherent, Link
  <2> QED  BY <2>1, <2>2, SMT DEF LinksCoherent
<1>6. ASSUME ReleaseBases
      PROVE  LinksCoherent'
  <2>1. UNCHANGED linkVars /\ release' \in DOMAIN BuiltIds
    BY <1>6, SMT DEF ReleaseBases, appVars
  <2> QED  BY <2>1, SMT DEF LinksCoherent, Link
<1>7. CASE UNCHANGED vars
  BY <1>1, <1>7, SMT DEF vars, appVars, chainVars
<1> QED  BY <1>1, <1>2, <1>3, <1>4, <1>5, <1>6, <1>7, OthersKeepLinks, Zenon DEF Next

LEMMA LinksCoherentInit == Init => LinksCoherent
<1> SUFFICES ASSUME Init PROVE LinksCoherent
  OBVIOUS
<1>1. release = 1 /\ connection = 0 /\ links = FirstLinks(route)
  BY DEF Init, AppInit
<1>2. FirstLinks(route) \in Seq(Link)
  BY LinkTypes, Zenon
<1> QED  BY <1>1, <1>2, ReleasesAssumption, SMT DEF LinksCoherent

\* No page is ever handed a connection whose api was disconnected: an api is only taken
\* down together with the connection (Contract in components/App), and one that comes up
\* late replaces it
THEOREM ConnectionIsLive == Spec => []ConnectionLive
<1>1. LinksCoherent => ConnectionLive
  BY DEF LinksCoherent, ConnectionLive
<1> QED  BY LinksCoherentInit, LinksCoherentStep, <1>1, PTL DEF Spec

--------------------------------------------------------------------------------
(* Pages and jobs *)

PageFields == {"phase", "built", "ep", "message", "button", "decks", "index", "match", "result", "played", "health"}
JobFields == {"kind", "account", "over", "owner", "stage", "deck", "match", "place", "wants"}
MatchFields == {"previousEp", "turn", "seed", "health", "rivals"}

Phases == {"setup", "loading", "shop", "battle", "result"}

IsMatch(m) == DOMAIN m = MatchFields /\ m.turn \in Int /\ m.health \in Int /\ m.rivals \in Int

IsPage(p) ==
  /\ DOMAIN p = PageFields
  /\ p.phase \in Phases
  /\ p.built \in {0} \cup DOMAIN BuiltIds
  /\ p.health \in Int
  /\ p.played \in BOOLEAN
  /\ IsMatch(p.match)

IsFcn(f) == f = [x \in DOMAIN f |-> f[x]]

\* What a transaction that was taken may still be asked for
Wants == {"seed", "mutable"}

HasJobFields(j) == DOMAIN j = JobFields /\ IsMatch(j.match) /\ j.wants \in SUBSET Wants

IsJob(j) == IsFcn(j) /\ HasJobFields(j)

AreJobs(js) == \A j \in js : IsJob(j)

LEMMA NewPageIs ==
  ASSUME NEW id
  PROVE  /\ IsPage(NewPage(id))
         /\ NewPage(id).phase = IF id = "/match" THEN "setup" ELSE "loading"
         /\ NewPage(id).button /\ NewPage(id).built = 0 /\ ~NewPage(id).played
<1>1. IsMatch(NoMatch)
  BY SMT DEF NoMatch, IsMatch, MatchFields
<1> QED  BY <1>1, SMT DEF NewPage, IsPage, PageFields, Phases

LEMMA JobIs ==
  ASSUME NEW kind, NEW a
  PROVE  /\ IsJob(Job(kind, a))
         /\ Job(kind, a).kind = kind /\ Job(kind, a).account = a /\ Job(kind, a).match = NoMatch
         /\ Job(kind, a).owner = "page" /\ Job(kind, a).stage = "query"
<1>1. IsMatch(NoMatch)
  BY SMT DEF NoMatch, IsMatch, MatchFields
<1> DEFINE j == Job(kind, a)
<1>2. /\ j.kind = kind /\ j.account = a /\ j.match = NoMatch
      /\ j.owner = "page" /\ j.stage = "query" /\ j.wants = {}
  BY SMT DEF Job
<1>3. HasJobFields(j)
  BY <1>1, <1>2, SMT DEF Job, HasJobFields, JobFields
<1>4. IsFcn(j)
  BY Zenon DEF Job, IsFcn
<1> QED  BY <1>1, <1>2, <1>3, <1>4, Zenon DEF IsJob

\* An assignment to a field of a job, and one to the match of it
LEMMA JobWith ==
  ASSUME NEW j, IsJob(j)
  PROVE  /\ \A x : LET k == [j EXCEPT !.owner = x] IN IsJob(k) /\ k.kind = j.kind /\ k.owner = x /\ k.match = j.match
         /\ \A x : LET k == [j EXCEPT !.over = x]
                   IN  IsJob(k) /\ k.kind = j.kind /\ k.owner = j.owner /\ k.account = j.account
         /\ \A x : LET k == [j EXCEPT !.stage = x]
                   IN  IsJob(k) /\ k.kind = j.kind /\ k.owner = j.owner /\ k.account = j.account /\ k.match = j.match
<1>1. \A x : IsFcn([j EXCEPT !.owner = x]) /\ IsFcn([j EXCEPT !.over = x]) /\ IsFcn([j EXCEPT !.stage = x])
  BY Zenon DEF IsFcn
<1> USE DEF HasJobFields, JobFields
<1>2. HasJobFields(j)
  BY DEF IsJob
<1>3. \A x : LET k == [j EXCEPT !.owner = x]
             IN  HasJobFields(k) /\ k.kind = j.kind /\ k.owner = x /\ k.match = j.match
  BY <1>2, SMT
<1>4. \A x : LET k == [j EXCEPT !.over = x]
             IN  HasJobFields(k) /\ k.kind = j.kind /\ k.owner = j.owner /\ k.account = j.account
  BY <1>2, SMT
<1>5. \A x : LET k == [j EXCEPT !.stage = x]
             IN  HasJobFields(k) /\ k.kind = j.kind /\ k.owner = j.owner /\ k.account = j.account /\ k.match = j.match
  BY <1>2, SMT
<1> HIDE DEF HasJobFields, JobFields
<1> QED  BY <1>1, <1>3, <1>4, <1>5, Zenon DEF IsJob

\* The jobs the clicks of a match add, and what becomes of them
Adds(k, j) == IsJob(k) /\ k.kind = j.kind /\ k.account = j.account /\ k.owner = j.owner

LEMMA JobWithMatch ==
  ASSUME NEW j, IsJob(j), NEW m, IsMatch(m)
  PROVE  /\ \A x : LET k == [j EXCEPT !.stage = x, !.match = m]
                   IN  Adds(k, j) /\ k.stage = x /\ k.match = m
         /\ \A x : LET k == [j EXCEPT !.match = m, !.place = x]
                   IN  Adds(k, j) /\ k.stage = j.stage /\ k.match = m /\ k.place = x
         /\ \A x, y : LET k == [j EXCEPT !.stage = x, !.deck = y, !.match.previousEp = page.ep]
                      IN  Adds(k, j) /\ k.stage = x
         /\ \A x : \A y \in Int : LET k == [j EXCEPT !.stage = x, !.match.health = y]
                                  IN  Adds(k, j) /\ k.stage = x /\ k.match.health = y
         /\ \A x \in SUBSET Wants : LET k == [j EXCEPT !.match = m, !.wants = x]
                                    IN  Adds(k, j) /\ k.stage = j.stage /\ k.match = m /\ k.wants = x
         /\ \A x : \A y \in SUBSET Wants : LET k == [j EXCEPT !.stage = x, !.wants = y]
                                           IN  Adds(k, j) /\ k.stage = x /\ k.match = j.match /\ k.wants = y
<1> DEFINE Fields(k) == HasJobFields(k) /\ k.kind = j.kind /\ k.account = j.account /\ k.owner = j.owner
<1>1. HasJobFields(j)
  BY DEF IsJob
<1>2. ASSUME NEW k, IsFcn(k), Fields(k) PROVE Adds(k, j)
  BY <1>2, Zenon DEF IsJob, Adds
<1>3. ASSUME NEW x
      PROVE  LET k == [j EXCEPT !.stage = x, !.match = m] IN Adds(k, j) /\ k.stage = x /\ k.match = m
  <2> DEFINE k == [j EXCEPT !.stage = x, !.match = m]
  <2>1. IsFcn(k)
    BY Zenon DEF IsFcn
  <2>2. Fields(k) /\ k.stage = x /\ k.match = m
    BY <1>1, SMT DEF HasJobFields, JobFields, IsMatch, MatchFields
  <2> HIDE DEF k, Fields
  <2>3. Adds(k, j)
    BY <1>2, <2>1, <2>2, Zenon
  <2> QED  BY <2>2, <2>3, Zenon DEF k
<1>4. ASSUME NEW x
      PROVE  LET k == [j EXCEPT !.match = m, !.place = x]
             IN  Adds(k, j) /\ k.stage = j.stage /\ k.match = m /\ k.place = x
  <2> DEFINE k == [j EXCEPT !.match = m, !.place = x]
  <2>1. IsFcn(k)
    BY Zenon DEF IsFcn
  <2>2. Fields(k) /\ k.stage = j.stage /\ k.match = m /\ k.place = x
    BY <1>1, SMT DEF HasJobFields, JobFields, IsMatch, MatchFields
  <2> HIDE DEF k, Fields
  <2>3. Adds(k, j)
    BY <1>2, <2>1, <2>2, Zenon
  <2> QED  BY <2>2, <2>3, Zenon DEF k
<1>5. ASSUME NEW x, NEW y
      PROVE  LET k == [j EXCEPT !.stage = x, !.deck = y, !.match.previousEp = page.ep] IN Adds(k, j) /\ k.stage = x
  <2> DEFINE k == [j EXCEPT !.stage = x, !.deck = y, !.match.previousEp = page.ep]
  <2>1. IsFcn(k)
    BY Zenon DEF IsFcn
  <2>2. Fields(k) /\ k.stage = x
    BY <1>1, SMT DEF HasJobFields, JobFields, IsMatch, MatchFields
  <2> HIDE DEF k, Fields
  <2>3. Adds(k, j)
    BY <1>2, <2>1, <2>2, Zenon
  <2> QED  BY <2>2, <2>3, Zenon DEF k
<1>6. ASSUME NEW x, NEW y \in Int
      PROVE  LET k == [j EXCEPT !.stage = x, !.match.health = y] IN Adds(k, j) /\ k.stage = x /\ k.match.health = y
  <2> DEFINE k == [j EXCEPT !.stage = x, !.match.health = y]
  <2>1. IsFcn(k)
    BY Zenon DEF IsFcn
  <2>2. Fields(k) /\ k.stage = x /\ k.match.health = y
    BY <1>1, SMT DEF HasJobFields, JobFields, IsMatch, MatchFields
  <2> HIDE DEF k, Fields
  <2>3. Adds(k, j)
    BY <1>2, <2>1, <2>2, Zenon
  <2> QED  BY <2>2, <2>3, Zenon DEF k
<1>7. ASSUME NEW x \in SUBSET Wants
      PROVE  LET k == [j EXCEPT !.match = m, !.wants = x]
             IN  Adds(k, j) /\ k.stage = j.stage /\ k.match = m /\ k.wants = x
  <2> DEFINE k == [j EXCEPT !.match = m, !.wants = x]
  <2>1. IsFcn(k)
    BY Zenon DEF IsFcn
  <2>2. Fields(k) /\ k.stage = j.stage /\ k.match = m /\ k.wants = x
    BY <1>1, SMT DEF HasJobFields, JobFields, IsMatch, MatchFields
  <2> HIDE DEF k, Fields
  <2>3. Adds(k, j)
    BY <1>2, <2>1, <2>2, Zenon
  <2> QED  BY <2>2, <2>3, Zenon DEF k
<1>8. ASSUME NEW x, NEW y \in SUBSET Wants
      PROVE  LET k == [j EXCEPT !.stage = x, !.wants = y]
             IN  Adds(k, j) /\ k.stage = x /\ k.match = j.match /\ k.wants = y
  <2> DEFINE k == [j EXCEPT !.stage = x, !.wants = y]
  <2>1. IsFcn(k)
    BY Zenon DEF IsFcn
  <2>2. Fields(k) /\ k.stage = x /\ k.match = j.match /\ k.wants = y
    BY <1>1, SMT DEF HasJobFields, JobFields, IsMatch, MatchFields
  <2> HIDE DEF k, Fields
  <2>3. Adds(k, j)
    BY <1>2, <2>1, <2>2, Zenon
  <2> QED  BY <2>2, <2>3, Zenon DEF k
<1> QED  BY <1>3, <1>4, <1>5, <1>6, <1>7, <1>8, Zenon

\* The decks of a page are no matter of the rest of it
SameButDecks(q, p) ==
  /\ q.phase = p.phase /\ q.built = p.built /\ q.ep = p.ep /\ q.message = p.message /\ q.button = p.button
  /\ q.match = p.match /\ q.result = p.result /\ q.played = p.played /\ q.health = p.health

LEMMA WithDecksKeeps ==
  ASSUME NEW p, NEW a, IsPage(p)
  PROVE  IsPage(WithDecks(p, a)) /\ SameButDecks(WithDecks(p, a), p)
<1> DEFINE got == GetDecks(a, BuiltIds[p.built])
           q == [p EXCEPT !.decks = got.decks, !.index = got.index]
<1>1. WithDecks(p, a) = p \/ WithDecks(p, a) = q
  BY Zenon DEF WithDecks
<1> HIDE DEF got
<1>2. IsPage(q)
  BY SMT DEF IsPage, PageFields
<1>3. SameButDecks(q, p)
  BY SMT DEF IsPage, PageFields, SameButDecks
<1>4. SameButDecks(p, p)
  BY DEF SameButDecks
<1> HIDE DEF q
<1> QED  BY <1>1, <1>2, <1>3, <1>4, Zenon

\* A fight leaves a match a match
LEMMA FoughtIs ==
  ASSUME NEW m, IsMatch(m)
  PROVE  /\ IsMatch(Fought(m))
         /\ IsMatch(NextMatch(m))
         /\ \A s : IsMatch([m EXCEPT !.seed = s]) /\ [m EXCEPT !.seed = s].health = m.health
         /\ \A x : IsMatch([m EXCEPT !.previousEp = x])
<1>1. Damage \in Nat
  BY StakesAssumption
<1>2. IsMatch(Fought(m))
  BY <1>1, SMT DEF Fought, IsMatch, MatchFields
<1> QED  BY <1>2, SMT DEF NextMatch, IsMatch, MatchFields

LEMMA FinishIs ==
  ASSUME NEW m, IsMatch(m)
  PROVE  IsMatch(FinishBattle(m).match)
<1>1. IsMatch(Fought(m)) /\ IsMatch(NextMatch(Fought(m)))
  BY FoughtIs, Zenon
<1> QED  BY <1>1, SMT DEF FinishBattle

\* The matches of the contract
AreMatches(t, r) ==
  /\ DOMAIN t = DOMAIN r
  /\ \A a \in DOMAIN t : t[a] \in Nat
  /\ \A a \in DOMAIN r : r[a] \in [health : Int, rivals : Int]

ContractTyped == AreMatches(turns, record)

\* Vec::insert of a mapping
LEMMA InsertIs ==
  ASSUME NEW m, NEW k, NEW v
  PROVE  /\ DOMAIN MapInsert(m, k, v) = DOMAIN m \cup {k}
         /\ MapInsert(m, k, v)[k] = v
         /\ \A x \in DOMAIN m : x # k => MapInsert(m, k, v)[x] = m[x]
BY SMT DEF MapInsert

LEMMA RemoveIs ==
  ASSUME NEW m, NEW k
  PROVE  /\ DOMAIN MapRemove(m, k) = DOMAIN m \ {k}
         /\ \A x \in DOMAIN m : x # k => MapRemove(m, k)[x] = m[x]
BY SMT DEF MapRemove

LEMMA MatchesStay ==
  ASSUME NEW t, NEW r, AreMatches(t, r), NEW a
  PROVE  /\ \A n \in Nat, v \in [health : Int, rivals : Int] : AreMatches(MapInsert(t, a, n), MapInsert(r, a, v))
         /\ AreMatches(MapRemove(t, a), MapRemove(r, a))
<1>1. ASSUME NEW n \in Nat, NEW v \in [health : Int, rivals : Int]
      PROVE  AreMatches(MapInsert(t, a, n), MapInsert(r, a, v))
  BY SMT DEF AreMatches, MapInsert
<1>2. AreMatches(MapRemove(t, a), MapRemove(r, a))
  BY SMT DEF AreMatches, MapRemove
<1> QED  BY <1>1, <1>2, Zenon

\* start_mtc and finish_mtc_shop, on the match of the account and on no other
LEMMA ContractStartIs ==
  ASSUME NEW a, ContractStart(a)
  PROVE  /\ turns' = MapInsert(turns, a, 0)
         /\ record' = MapInsert(record, a, [health |-> Health, rivals |-> Rivals])
         /\ \E s \in Seeds : seed' = MapInsert(seed, a, s)
         /\ placed' = placed
BY Zenon DEF ContractStart, Contract!StartFirst, Contract!Start, Contract!Abandon, Contract!MapInsert, MapInsert

Played(a, s) == Fought([health |-> record[a].health, rivals |-> record[a].rivals, seed |-> s])

LEMMA ContractShopIs ==
  ASSUME NEW a, ContractShop(a)
  PROVE  \E s \in Seeds :
           /\ a \in DOMAIN turns
           /\ seed' = MapInsert(seed, a, s)
           /\ FinalPlace(Played(a, s)) = 0 =>
                /\ turns' = MapInsert(turns, a, turns[a] + 1)
                /\ record' = MapInsert(record, a, [health |-> Played(a, s).health, rivals |-> Played(a, s).rivals])
                /\ ep' = ep
                /\ placed' = placed
           /\ FinalPlace(Played(a, s)) # 0 =>
                /\ turns' = MapRemove(turns, a)
                /\ record' = MapRemove(record, a)
                /\ placed' = MapInsert(placed, a, FinalPlace(Played(a, s)))
                /\ \E e : ep' = MapInsert(ep, a, e)
<1>1. PICK s \in Seeds :
         /\ seed' = MapInsert(seed, a, s)
         /\ IF FinalPlace(Played(a, s)) = 0
            THEN /\ Contract!PlayOn(a)
                 /\ record' = MapInsert(record, a, [health |-> Played(a, s).health, rivals |-> Played(a, s).rivals])
                 /\ UNCHANGED placed
            ELSE /\ Contract!Finish(a, FinalPlace(Played(a, s)))
                 /\ record' = MapRemove(record, a)
                 /\ placed' = MapInsert(placed, a, FinalPlace(Played(a, s)))
  BY Zenon DEF ContractShop, Played
<1>2. Contract!PlayOn(a) => a \in DOMAIN turns /\ turns' = MapInsert(turns, a, turns[a] + 1) /\ ep' = ep
  BY Zenon DEF Contract!PlayOn, Contract!MapInsert, MapInsert
<1>3. ASSUME NEW place, Contract!Finish(a, place)
      PROVE  a \in DOMAIN turns /\ turns' = MapRemove(turns, a) /\ \E e : ep' = MapInsert(ep, a, e)
  BY <1>3, Zenon DEF Contract!Finish, Contract!MapInsert, Contract!MapRemove, MapInsert, MapRemove
<1> WITNESS s \in Seeds
<1> QED  BY <1>1, <1>2, <1>3, Zenon

--------------------------------------------------------------------------------
(* What happens to all jobs at once *)

\* An owner that is set to what it was
LEMMA OwnerKept ==
  ASSUME NEW j, IsJob(j)
  PROVE  [j EXCEPT !.owner = j.owner] = j
BY SMT DEF IsJob, HasJobFields, IsFcn, JobFields

\* Of a page that is unmounted nothing is live
LEMMA LeaveIs ==
  ASSUME NEW js, AreJobs(js)
  PROVE  /\ AreJobs(Leave(js)) /\ AreJobs(Gone(js))
         /\ \A j \in Leave(js) \cup Gone(js) : ~Live(j)
<1>1. ASSUME NEW j \in Gone(js)
      PROVE  IsJob(j) /\ ~Live(j)
  <2>1. PICK i \in js : j = [i EXCEPT !.owner = "reloaded"]
    BY Zenon DEF Gone
  <2> QED  BY <2>1, JobWith, SMT DEF AreJobs, Live
<1>2. ASSUME NEW j \in Leave(js)
      PROVE  IsJob(j) /\ ~Live(j)
  <2>1. PICK i \in js : j = [i EXCEPT !.owner = IF i.owner = "page" THEN "left" ELSE i.owner]
    BY Zenon DEF Leave
  <2> DEFINE x == IF i.owner = "page" THEN "left" ELSE i.owner
  <2>2. IsJob(i) /\ x # "page" /\ j = [i EXCEPT !.owner = x]
    BY <2>1 DEF AreJobs
  <2> HIDE DEF x
  <2>3. IsJob(j) /\ j.owner = x
    BY <2>2, JobWith, Zenon
  <2> QED  BY <2>2, <2>3 DEF Live
<1> QED  BY <1>1, <1>2, Zenon DEF AreJobs

\* The jobs of a page that is mounted
Opens(j, id, a) ==
  /\ IsJob(j) /\ Live(j)
  /\ j.kind \in {"setup", "ep", "record", "trial"}
  /\ id = IF j.kind = "trial" THEN "/match_trial" ELSE "/match"
  /\ j.kind \in {"ep", "record"} => a # NoAccount /\ j.account = a

LEMMA OpeningIs ==
  ASSUME NEW id, NEW c, NEW w, NEW a
  PROVE  /\ \A j \in Opening(id, c, w, a) : Opens(j, id, a) /\ c # 0 /\ w
         /\ \A i, j \in Opening(id, c, w, a) : i.kind = j.kind => i = j
<1> DEFINE O(j) == [j EXCEPT !.over = c]
<1>1. \A kind : LET j == O(Job(kind, a))
                IN  IsJob(j) /\ Live(j) /\ j.kind = kind /\ j.account = a
  <2> TAKE kind
  <2> QED  BY JobIs, JobWith, SMT DEF Live, IsJob, JobFields
<1> HIDE DEF O
<1>2. \A j \in Opening(id, c, w, a) :
        /\ c # 0 /\ w
        /\ \/ id = "/match" /\ j = O(Job("setup", a))
           \/ id = "/match" /\ a # NoAccount /\ (j = O(Job("ep", a)) \/ j = O(Job("record", a)))
           \/ id = "/match_trial" /\ j = O(Job("trial", a))
  BY Zenon DEF Opening, AddressQueries, O
<1> QED  BY <1>1, <1>2, SMT DEF Opens

\* The jobs after setAccount
LEMMA ReaddressIs ==
  ASSUME NEW js, AreJobs(js), NEW a
  PROVE  /\ AreJobs(Readdress(a, js))
         /\ \A j \in Readdress(a, js) : Live(j) => j \in js \/ j \in AddressQueries(a)
         /\ \A j \in Readdress(a, js) :
              Live(j) /\ j.kind \in {"ep", "record"} =>
                ((a = account \/ ~SetupOpen) /\ j \in js) \/ j \in AddressQueries(a)
<1>1. CASE a = account \/ ~SetupOpen
  <2>1. Readdress(a, js) = js
    BY <1>1, Zenon DEF Readdress
  <2> QED  BY <1>1, <2>1, Zenon
<1>2. CASE ~(a = account \/ ~SetupOpen)
  <2>1. ASSUME NEW j \in AddressQueries(a)
        PROVE  IsJob(j)
    BY <2>1, JobIs, SMT DEF AddressQueries
  <2>2. ASSUME NEW j \in Readdress(a, js), j \notin AddressQueries(a)
        PROVE  IsJob(j) /\ (Live(j) => j \in js /\ j.kind \notin {"ep", "record"})
    <3>1. PICK i \in js : j = [i EXCEPT !.owner = IF i.kind \in {"ep", "record"} THEN "old" ELSE i.owner]
      BY <1>2, <2>2, Zenon DEF Readdress
    <3>2. IsJob(i)
      BY Zenon DEF AreJobs
    <3>3. CASE i.kind \in {"ep", "record"}
      <4>1. j = [i EXCEPT !.owner = "old"]
        BY <3>1, <3>3, Zenon
      <4>2. IsJob(j) /\ j.owner = "old"
        BY <3>2, <4>1, JobWith, Zenon
      <4> QED  BY <4>2 DEF Live
    <3>4. CASE i.kind \notin {"ep", "record"}
      <4>1. j = [i EXCEPT !.owner = i.owner]
        BY <3>1, <3>4, Zenon
      <4>2. j = i
        BY <3>2, <4>1, OwnerKept, Zenon
      <4> QED  BY <3>2, <3>4, <4>2, Zenon
    <3> QED  BY <3>3, <3>4, Zenon
  <2> QED  BY <2>1, <2>2, Zenon DEF AreJobs
<1> QED  BY <1>1, <1>2, Zenon

\* Nothing but the animations of a battle ends with it
LEMMA LeaveBattleIs ==
  ASSUME AreJobs(jobs)
  PROVE  /\ AreJobs(LeaveBattle)
         /\ \A j \in LeaveBattle : Live(j) => j \in jobs /\ j.kind # "animation"
<1>1. ASSUME NEW j \in LeaveBattle
      PROVE  IsJob(j) /\ (Live(j) => j \in jobs /\ j.kind # "animation")
  <2>1. PICK i \in jobs : j = [i EXCEPT !.owner = IF i.kind = "animation" /\ Live(i) THEN "left" ELSE i.owner]
    BY Zenon DEF LeaveBattle
  <2>2. IsJob(i)
    BY Zenon DEF AreJobs
  <2>3. CASE i.kind = "animation" /\ Live(i)
    <3>1. j = [i EXCEPT !.owner = "left"]
      BY <2>1, <2>3, Zenon
    <3>2. IsJob(j) /\ j.owner = "left"
      BY <2>2, <3>1, JobWith, Zenon
    <3> QED  BY <3>2 DEF Live
  <2>4. CASE ~(i.kind = "animation" /\ Live(i))
    <3>1. j = [i EXCEPT !.owner = i.owner]
      BY <2>1, <2>4, Zenon
    <3>2. j = i
      BY <2>2, <3>1, OwnerKept, Zenon
    <3> QED  BY <2>2, <2>4, <3>2, Zenon
  <2> QED  BY <2>3, <2>4, Zenon
<1> QED  BY <1>1, Zenon DEF AreJobs

LEMMA RenderEither ==
  ASSUME NEW p, NEW a, NEW js, Render(p, a, js)
  PROVE  (page' = p /\ jobs' = js) \/ (page' = NewPage("/") /\ jobs' = Gone(js))
BY SMT DEF Render

LEMMA RenderIs ==
  ASSUME NEW p, NEW a, NEW js, IsPage(p), AreJobs(js), Render(p, a, js)
  PROVE  /\ account' = a
         /\ IsPage(page') /\ AreJobs(jobs')
         /\ \/ ~Crashes(p, a, connection) /\ ended' = ended /\ page' = p /\ jobs' = js
            \/ Crashes(p, a, connection) /\ ended' = "crashed" /\ page' = NewPage("/") /\ jobs' = Gone(js)
<1>1. /\ account' = a
      /\ \/ ~Crashes(p, a, connection) /\ ended' = ended /\ page' = p /\ jobs' = js
         \/ Crashes(p, a, connection) /\ ended' = "crashed" /\ page' = NewPage("/") /\ jobs' = Gone(js)
  BY Zenon DEF Render
<1>2. IsPage(NewPage("/")) /\ AreJobs(Gone(js))
  BY NewPageIs, LeaveIs, Zenon
<1> QED  BY <1>1, <1>2, Zenon

--------------------------------------------------------------------------------
(* Types *)

Typed == IsPage(page) /\ AreJobs(jobs) /\ ContractTyped

\* What an answered or submitted job leaves
LEMMA JobsWithout ==
  ASSUME NEW js, AreJobs(js), NEW j
  PROVE  AreJobs(js \ {j}) /\ \A k : IsJob(k) => AreJobs(js \cup {k}) /\ AreJobs((js \ {j}) \cup {k})
BY Zenon DEF AreJobs

\* The contract changes in its calls only
LEMMA ContractCalls ==
  ASSUME ContractTyped, NEW a, ContractStart(a) \/ ContractShop(a)
  PROVE  ContractTyped'
<1>1. CASE ContractStart(a)
  <2>1. /\ turns' = MapInsert(turns, a, 0)
        /\ record' = MapInsert(record, a, [health |-> Health, rivals |-> Rivals])
    BY <1>1, ContractStartIs, Zenon
  <2>2. [health |-> Health, rivals |-> Rivals] \in [health : Int, rivals : Int] /\ 0 \in Nat
    BY StakesAssumption, SMT
  <2>3. AreMatches(turns', record')
    BY <2>1, <2>2, MatchesStay, SMT DEF ContractTyped
  <2> QED  BY <2>3, Zenon DEF ContractTyped
<1>2. CASE ContractShop(a)
  <2>1. PICK s \in Seeds :
           /\ a \in DOMAIN turns
           /\ FinalPlace(Played(a, s)) = 0 =>
                /\ turns' = MapInsert(turns, a, turns[a] + 1)
                /\ record' = MapInsert(record, a, [health |-> Played(a, s).health, rivals |-> Played(a, s).rivals])
           /\ FinalPlace(Played(a, s)) # 0 => turns' = MapRemove(turns, a) /\ record' = MapRemove(record, a)
    BY <1>2, ContractShopIs, Zenon
  <2>2. turns[a] + 1 \in Nat /\ record[a] \in [health : Int, rivals : Int]
    BY <2>1, SMT DEF ContractTyped, AreMatches
  <2>3. [health |-> Played(a, s).health, rivals |-> Played(a, s).rivals] \in [health : Int, rivals : Int]
    BY <2>2, StakesAssumption, SMT DEF Played, Fought
  <2> HIDE DEF Played
  <2>4. AreMatches(turns', record')
    BY <2>1, <2>2, <2>3, MatchesStay, SMT DEF ContractTyped
  <2> QED  BY <2>4, Zenon DEF ContractTyped
<1> QED  BY <1>1, <1>2, Zenon

\* An assignment to fields of a page
LEMMA PageWith ==
  ASSUME NEW p, IsPage(p)
  PROVE  /\ \A r \in DOMAIN BuiltIds : LET q == [p EXCEPT !.built = r] IN IsPage(q) /\ q.phase = p.phase
         /\ \A x : LET q == [p EXCEPT !.ep = x] IN IsPage(q) /\ q.phase = p.phase
         /\ \A x : LET q == [p EXCEPT !.message = x] IN IsPage(q) /\ q.phase = p.phase
         /\ \A x : LET q == [p EXCEPT !.button = x] IN IsPage(q) /\ q.phase = p.phase
         /\ \A x, y : LET q == [p EXCEPT !.decks = x, !.index = y] IN IsPage(q) /\ SameButDecks(q, p)
         /\ \A m : IsMatch(m) =>
              LET q == [p EXCEPT !.phase = "shop", !.match = m]
              IN  IsPage(q) /\ q.phase = "shop" /\ q.match = m
         /\ \A m : IsMatch(m) =>
              LET q == Battle(p, m)
              IN  IsPage(q) /\ q.phase = "battle" /\ q.match = m /\ q.health = m.health /\ ~q.played
         /\ \A m : IsMatch(m) =>
              LET q == [p EXCEPT !.match = m, !.health = m.health]
              IN  IsPage(q) /\ q.phase = p.phase /\ q.match = m /\ q.health = m.health /\ q.played = p.played
         /\ \A x : LET q == [p EXCEPT !.phase = "result", !.result = x] IN IsPage(q) /\ q.phase = "result"
         /\ \A m, x : IsMatch(m) =>
              LET q == [p EXCEPT !.phase = "result", !.match = m, !.result = x] IN IsPage(q) /\ q.phase = "result"
         /\ LET q == [p EXCEPT !.played = TRUE]
            IN  IsPage(q) /\ q.phase = p.phase /\ q.match = p.match /\ q.health = p.health /\ q.played
         /\ \A h \in Int :
              LET q == [p EXCEPT !.health = h]
              IN  IsPage(q) /\ q.phase = p.phase /\ q.match = p.match /\ q.health = h /\ q.played = p.played
<1> USE DEF IsPage, PageFields, Phases
<1>1. \A r \in DOMAIN BuiltIds : LET q == [p EXCEPT !.built = r] IN IsPage(q) /\ q.phase = p.phase
  BY SMT
<1>2. \A x : LET q == [p EXCEPT !.ep = x] IN IsPage(q) /\ q.phase = p.phase
  BY SMT
<1>3. \A x : LET q == [p EXCEPT !.message = x] IN IsPage(q) /\ q.phase = p.phase
  BY SMT
<1>4. \A x : LET q == [p EXCEPT !.button = x] IN IsPage(q) /\ q.phase = p.phase
  BY SMT
<1>5. \A x, y : LET q == [p EXCEPT !.decks = x, !.index = y] IN IsPage(q) /\ SameButDecks(q, p)
  BY SMT DEF SameButDecks
<1>6. \A m : IsMatch(m) =>
        LET q == [p EXCEPT !.phase = "shop", !.match = m]
        IN  IsPage(q) /\ q.phase = "shop" /\ q.match = m
  BY SMT
<1>7. \A m : IsMatch(m) =>
        LET q == Battle(p, m)
        IN  IsPage(q) /\ q.phase = "battle" /\ q.match = m /\ q.health = m.health /\ ~q.played
  BY SMT DEF Battle, IsMatch
<1>8. \A m : IsMatch(m) =>
        LET q == [p EXCEPT !.match = m, !.health = m.health]
        IN  IsPage(q) /\ q.phase = p.phase /\ q.match = m /\ q.health = m.health /\ q.played = p.played
  BY SMT DEF IsMatch
<1>9. \A x : LET q == [p EXCEPT !.phase = "result", !.result = x] IN IsPage(q) /\ q.phase = "result"
  BY SMT
<1>10. \A m, x : IsMatch(m) =>
         LET q == [p EXCEPT !.phase = "result", !.match = m, !.result = x] IN IsPage(q) /\ q.phase = "result"
  BY SMT
<1>11. LET q == [p EXCEPT !.played = TRUE]
       IN  IsPage(q) /\ q.phase = p.phase /\ q.match = p.match /\ q.health = p.health /\ q.played
  BY SMT
<1>12. \A h \in Int :
         LET q == [p EXCEPT !.health = h]
         IN  IsPage(q) /\ q.phase = p.phase /\ q.match = p.match /\ q.health = h /\ q.played = p.played
  BY SMT
<1> HIDE DEF IsPage, PageFields, Phases
<1> QED  BY <1>1, <1>2, <1>3, <1>4, <1>5, <1>6, <1>7, <1>8, <1>9, <1>10, <1>11, <1>12, Zenon

\* The player moves
LEMMA PlayerTyped ==
  ASSUME LinksCoherent, Typed, Player
  PROVE  IsPage(page') /\ AreJobs(jobs')
<1> DEFINE Kept == IsPage(page') /\ AreJobs(jobs')
<1> USE DEF appVars, linkVars, modalVars, frameRest, storageVars, chainVars, matchVars, history
<1>0. IsPage(page) /\ AreJobs(jobs)
  BY DEF Typed
<1>1. ASSUME NEW id, Go(id)
      PROVE  Kept
  <2>1. page' = NewPage(id) /\ jobs' = Leave(jobs) \cup Opening(id, connection', wasm, account')
    BY <1>1, Zenon DEF Go
  <2>2. AreJobs(Leave(jobs)) /\ \A j \in Opening(id, connection', wasm, account') : IsJob(j)
    BY <1>0, LeaveIs, OpeningIs, SMT DEF Opens
  <2> QED  BY <2>1, <2>2, NewPageIs, SMT DEF AreJobs
<1>2. ASSUME NEW id, Reload(id)
      PROVE  Kept
  <2>1. page' = NewPage(id) /\ jobs' = Gone(jobs)
    BY <1>2, Zenon DEF Reload
  <2> QED  BY <1>0, <2>1, NewPageIs, LeaveIs, SMT
<1>3. ASSUME NEW a, SwitchAccount(a)
      PROVE  Kept
  <2>1. page' = page /\ jobs' = jobs \cup {Job("generate", a)}
    BY <1>3, Zenon DEF SwitchAccount
  <2>2. AreJobs(jobs \cup {Job("generate", a)})
    BY <1>0, JobIs, JobsWithout, Zenon
  <2> QED  BY <1>0, <2>1, <2>2, SMT
<1>4. ASSUME NEW a, EditElsewhere(a) \/ PlayElsewhere(a)
      PROVE  Kept
  BY <1>0, <1>4, SMT DEF EditElsewhere, PlayElsewhere
<1>5. ASSUME EditDecks, Edited
      PROVE  Kept
  <2>1. jobs' = jobs
    BY <1>5, Zenon DEF EditDecks
  <2>2. PICK x, y : page' = [page EXCEPT !.decks = x, !.index = y]
    BY <1>5, Zenon DEF Edited
  <2>3. IsPage([page EXCEPT !.decks = x, !.index = y])
    BY <1>0, PageWith, Zenon
  <2> QED  BY <1>0, <2>1, <2>2, <2>3, SMT
<1>6. ASSUME NEW i, SelectDeck(i) \/ DiscardDeck(i)
      PROVE  Kept
  BY <1>5, <1>6, Zenon DEF SelectDeck, DiscardDeck
<1>7. ASSUME SaveDeck
      PROVE  Kept
  BY <1>5, <1>7, Zenon DEF SaveDeck
<1>8. ASSUME NEW j \in jobs, NEW signed, PopupClosed(j, signed)
      PROVE  Kept
  <2>1. page' = page /\ (jobs' = Replace(j, [j EXCEPT !.stage = "submitted"]) \/ jobs' = jobs \ {j})
    BY <1>8, Zenon DEF PopupClosed
  <2>2. IsJob([j EXCEPT !.stage = "submitted"])
    BY <1>0, JobWith, Zenon DEF AreJobs
  <2>3. AreJobs(jobs \ {j}) /\ AreJobs(Replace(j, [j EXCEPT !.stage = "submitted"]))
    BY <1>0, <2>2, JobsWithout, Zenon DEF Replace
  <2> QED  BY <1>0, <2>1, <2>3, SMT
<1>9. ASSUME Start
      PROVE  Kept
  <2> DEFINE j == [Job("start", account) EXCEPT !.stage = "popup", !.deck = page.decks[page.index],
                                               !.match.previousEp = page.ep]
  <2>1. page' = [page EXCEPT !.button = FALSE] /\ jobs' = jobs \cup {j}
    BY <1>9, Zenon DEF Start, Click
  <2>2. IsMatch(NoMatch)
    BY SMT DEF NoMatch, IsMatch, MatchFields
  <2>3. IsJob(j)
    BY <2>2, JobIs, JobWithMatch, Zenon DEF Adds
  <2> HIDE DEF j
  <2>4. IsPage(page')
    BY <1>0, <2>1, PageWith, Zenon
  <2>5. AreJobs(jobs \cup {j})
    BY <1>0, <2>3, JobsWithout, Zenon
  <2> QED  BY <2>1, <2>4, <2>5, SMT
<1>10. ASSUME FinishShop
       PROVE  Kept
  <2> DEFINE j == [Job("shop", account) EXCEPT !.stage = "popup", !.match = page.match]
  <2>1. page' = page /\ jobs' = jobs \cup {j}
    BY <1>10, Zenon DEF FinishShop, Click
  <2>2. IsJob(j)
    BY <1>0, JobIs, JobWithMatch, Zenon DEF Adds, IsPage
  <2> HIDE DEF j
  <2>3. AreJobs(jobs \cup {j})
    BY <1>0, <2>2, JobsWithout, Zenon
  <2> QED  BY <1>0, <2>1, <2>3, SMT
<1>11. ASSUME FinishTrialShop
       PROVE  Kept
  <2>1. PICK s : page' = Battle(page, [page.match EXCEPT !.seed = s]) /\ jobs' = jobs
    BY <1>11, Zenon DEF FinishTrialShop, Click
  <2>2. IsMatch([page.match EXCEPT !.seed = s])
    BY <1>0, FoughtIs, Zenon DEF IsPage
  <2>3. IsPage(page')
    BY <1>0, <2>1, <2>2, PageWith, Zenon
  <2> QED  BY <1>0, <2>1, <2>3, Zenon
<1>12. LET finished == FinishBattle(page.match) IN IsMatch(finished.match)
  BY <1>0, FinishIs, Zenon DEF IsPage
<1>13. ASSUME NextTurn
       PROVE  Kept
  <2>1. page' = [page EXCEPT !.phase = "shop", !.match = FinishBattle(page.match).match] /\ jobs' = LeaveBattle
    BY <1>13, Zenon DEF NextTurn, Click
  <2>2. IsPage(page')
    <3>1. \A m : IsMatch(m) => IsPage([page EXCEPT !.phase = "shop", !.match = m])
      BY <1>0, PageWith, Zenon
    <3> QED  BY <1>12, <2>1, <3>1, Zenon
  <2> QED  BY <1>0, <2>1, <2>2, LeaveBattleIs, SMT
<1>14. ASSUME FinishMatch
       PROVE  Kept
  <2> DEFINE m == FinishBattle(page.match).match
             place == FinishBattle(page.match).place
             j == [Job("result", account) EXCEPT !.match = m, !.place = place]
  <2>1. page' = [page EXCEPT !.match = m, !.health = m.health] /\ jobs' = jobs \cup {j}
    BY <1>14, Zenon DEF FinishMatch, Click
  <2>2. IsMatch(m)
    BY <1>12, Zenon
  <2> HIDE DEF m, place
  <2>3. IsJob(j)
    BY <2>2, JobIs, JobWithMatch, Zenon DEF Adds
  <2> HIDE DEF j
  <2>4. IsPage(page')
    BY <1>0, <2>1, <2>2, PageWith, Zenon
  <2>5. AreJobs(jobs \cup {j})
    BY <1>0, <2>3, JobsWithout, Zenon
  <2> QED  BY <2>1, <2>4, <2>5, SMT
<1>15. ASSUME FinishTrial
       PROVE  Kept
  <2>1. jobs' = LeaveBattle
    BY <1>15, Zenon DEF FinishTrial, Click
  <2>3. PICK x : page' = [page EXCEPT !.phase = "result", !.match = FinishBattle(page.match).match, !.result = x]
    BY <1>15, Zenon DEF FinishTrial, Click
  <2>2. IsPage(page')
    BY <1>0, <1>12, <2>3, PageWith, Zenon
  <2> QED  BY <1>0, <2>1, <2>2, LeaveBattleIs, SMT
<1>16. ASSUME PlayAgain
       PROVE  Kept
  <2>1. page' = NewPage(route) /\ jobs' = jobs \cup Opening(route, connection, wasm, account)
    BY <1>16, Zenon DEF PlayAgain, Click
  <2>2. \A j \in Opening(route, connection, wasm, account) : IsJob(j)
    BY OpeningIs, SMT DEF Opens
  <2> QED  BY <1>0, <2>1, <2>2, NewPageIs, SMT DEF AreJobs
<1>17. ASSUME ReleaseBases
       PROVE  Kept
  BY <1>0, <1>17, SMT DEF ReleaseBases
<1> HIDE DEF Kept
<1>18. Kept
  BY <1>1, <1>2, <1>3, <1>4, <1>6, <1>7, <1>8, <1>9, <1>10, <1>11, <1>13, <1>14, <1>15, <1>16, <1>17, Zenon
     DEF Player
<1> QED  BY <1>18, Zenon DEF Kept

\* What was asked is answered, or fails
LEMMA AnswerTyped ==
  ASSUME LinksCoherent, Typed, Answer \/ Failure
  PROVE  IsPage(page') /\ AreJobs(jobs')
<1> DEFINE Kept == IsPage(page') /\ AreJobs(jobs')
<1> USE DEF appVars, linkVars, modalVars, frameRest, storageVars, chainVars, matchVars, history, txRest
<1>0. IsPage(page) /\ AreJobs(jobs)
  BY DEF Typed
<1>1. ASSUME NEW c, NEW w, Mounted(c, w), page' = page
      PROVE  Kept
  <2>1. jobs' = jobs \/ jobs' = jobs \cup Opening(route, c, w, account)
    BY <1>1, SMT DEF Mounted
  <2>2. \A j \in Opening(route, c, w, account) : IsJob(j)
    BY OpeningIs, SMT DEF Opens
  <2> QED  BY <1>0, <1>1, <2>1, <2>2, SMT DEF AreJobs
<1>2. ASSUME WasmReady
      PROVE  Kept
  <2>1. Mounted(connection, TRUE) /\ page' = page
    BY <1>2, Zenon DEF WasmReady
  <2> QED  BY <1>1, <2>1, Zenon
<1>3. ASSUME NEW k, LinkAnswers(k)
      PROVE  Kept
  BY <1>0, <1>3, SMT DEF LinkAnswers
<1>4. ASSUME NEW k, BasesAnswer(k)
      PROVE  Kept
  BY <1>1, <1>4, SMT DEF BasesAnswer
<1>5. ASSUME BattlePlayed
      PROVE  Kept
  <2> DEFINE h == HealthToWrite(page.match)
             j == [Job("animation", account) EXCEPT !.stage = "grades", !.match.health = h]
  <2>1. page' = [page EXCEPT !.played = TRUE] /\ (jobs' = jobs \/ jobs' = jobs \cup {j})
    BY <1>5, Zenon DEF BattlePlayed
  <2>2. h \in Int
    BY <1>0, StakesAssumption, SMT DEF HealthToWrite, IsPage, IsMatch
  <2> HIDE DEF h
  <2>3. IsJob(j)
    BY <1>0, <2>2, JobIs, JobWithMatch, Zenon DEF Adds, IsPage
  <2> HIDE DEF j
  <2>4. IsPage(page')
    BY <1>0, <2>1, PageWith, Zenon
  <2>5. AreJobs(jobs \cup {j})
    BY <1>0, <2>3, JobsWithout, Zenon
  <2> QED  BY <1>0, <2>1, <2>4, <2>5, SMT
<1>6. ASSUME NEW p, IsPage(p), NEW a, NEW js, AreJobs(js), Render(p, a, js)
      PROVE  Kept
  BY <1>6, RenderIs, Zenon
<1>7. ASSUME NEW j
      PROVE  AreJobs(jobs \ {j}) /\ \A a : AreJobs(Readdress(a, jobs \ {j}))
  BY <1>0, JobsWithout, ReaddressIs, Zenon
<1>8. ASSUME NEW a, NEW p, IsPage(p)
      PROVE  IsPage(WithDecks(p, a))
  BY <1>8, WithDecksKeeps, Zenon
<1>9. ASSUME NEW j, SetupAnswered(j)
      PROVE  Kept
  <2> DEFINE a == SetupAccount(j.account)
             p == IF Live(j) THEN WithDecks([page EXCEPT !.built = release], a) ELSE WithDecks(page, a)
  <2>1. Render(p, a, Readdress(a, jobs \ {j}))
    BY <1>9, Zenon DEF SetupAnswered
  <2>2. IsPage([page EXCEPT !.built = release])
    BY <1>0, PageWith, Zenon DEF LinksCoherent
  <2>3. IsPage(p)
    BY <1>0, <1>8, <2>2, Zenon
  <2> HIDE DEF a, p
  <2> QED  BY <1>6, <1>7, <2>1, <2>3, Zenon
<1>10. ASSUME NEW j, EpAnswered(j)
       PROVE  Kept
  <2> DEFINE x == IF EpTaken(j) THEN PlayerEp(j.account) ELSE page.ep
             p == [page EXCEPT !.ep = x]
             q == IF page.ep # 0 THEN p ELSE WithDecks(p, account)
  <2>1. Render(q, account, jobs \ {j})
    BY <1>10, Zenon DEF EpAnswered
  <2> HIDE DEF x
  <2>2. IsPage(p)
    BY <1>0, PageWith, Zenon
  <2> HIDE DEF p
  <2>3. IsPage(q)
    BY <1>8, <2>2, Zenon
  <2> HIDE DEF q
  <2> QED  BY <1>6, <1>7, <2>1, <2>3, Zenon
<1>11. ASSUME NEW j, RecordAnswered(j)
       PROVE  Kept
  <2>1. page' = [page EXCEPT !.message = Warns(j)] /\ jobs' = jobs \ {j}
    BY <1>11, Zenon DEF RecordAnswered
  <2>2. IsPage([page EXCEPT !.message = Warns(j)])
    BY <1>0, PageWith, Zenon
  <2> QED  BY <1>7, <2>1, <2>2, SMT
<1>12. ASSUME NEW j, Generated(j)
       PROVE  Kept
  BY <1>0, <1>6, <1>7, <1>8, <1>12, Zenon DEF Generated
<1>13. ASSUME NEW j \in jobs, NEW wants \in SUBSET Wants, Taken(j, wants)
       PROVE  AreJobs(jobs')
  <2>1. jobs' = Replace(j, [j EXCEPT !.stage = "query", !.wants = wants]) \/ jobs' = jobs \ {j}
    BY <1>13, Zenon DEF Taken
  <2>2. IsJob([j EXCEPT !.stage = "query", !.wants = wants])
    BY <1>0, JobWithMatch, Zenon DEF AreJobs, Adds, IsJob, HasJobFields
  <2>3. AreJobs(Replace(j, [j EXCEPT !.stage = "query", !.wants = wants]))
    BY <1>0, <2>2, JobsWithout, Zenon DEF Replace
  <2>4. AreJobs(jobs \ {j})
    BY <1>7, Zenon
  <2> QED  BY <2>1, <2>3, <2>4, SMT
<1>14. ASSUME NEW j \in jobs, StartIncluded(j) \/ ShopIncluded(j)
       PROVE  Kept
  <2>1. page' = page
    BY <1>14, SMT DEF StartIncluded, ShopIncluded
  <2>2. Refused(j) \/ \E wants \in SUBSET Wants : Taken(j, wants)
    BY <1>14, Zenon DEF StartIncluded, ShopIncluded, Wants
  <2>3. Refused(j) => jobs' = jobs \ {j}
    BY Zenon DEF Refused
  <2>4. AreJobs(jobs')
    BY <1>7, <1>13, <2>2, <2>3, Zenon
  <2> QED  BY <1>0, <2>1, <2>4, SMT
<1>15. ASSUME NEW j \in jobs, NEW what, StartAnswered(j, what)
       PROVE  Kept
  <2> DEFINE m == IF what = "seed" THEN [j.match EXCEPT !.seed = seed[j.account]]
                  ELSE [j.match EXCEPT !.turn = 1, !.health = record[j.account].health,
                                       !.rivals = record[j.account].rivals]
             k == [j EXCEPT !.match = m, !.wants = j.wants \ {what}]
  <2>1. /\ what = "mutable" => j.account \in DOMAIN record
        /\ what \in Wants
    BY <1>0, <1>15, SMT DEF StartAnswered, AreJobs, IsJob, HasJobFields
  <2>2. \/ page' = page /\ jobs' = Replace(j, k)
        \/ OpenShop(j, m)
    BY <1>15, Zenon DEF StartAnswered
  <2>3. IsJob(j) /\ IsMatch(j.match)
    BY <1>0, Zenon DEF AreJobs, IsJob, HasJobFields
  <2>4. IsMatch(m)
    <3>1. what = "mutable" => record[j.account].health \in Int /\ record[j.account].rivals \in Int
      BY <2>1, SMT DEF Typed, ContractTyped, AreMatches
    <3> QED  BY <2>1, <2>3, <3>1, FoughtIs, SMT DEF IsMatch, MatchFields, Wants
  <2> HIDE DEF m
  <2>5. IsJob(k)
    <3>1. j.wants \ {what} \in SUBSET Wants
      BY <2>3, SMT DEF IsJob, HasJobFields
    <3> QED  BY <2>3, <2>4, <3>1, JobWithMatch, Zenon DEF Adds
  <2> HIDE DEF k
  <2>6. CASE page' = page /\ jobs' = Replace(j, k)
    <3>1. AreJobs(Replace(j, k))
      BY <1>0, <2>5, JobsWithout, Zenon DEF Replace
    <3> QED  BY <1>0, <2>6, <3>1, SMT
  <2>7. CASE OpenShop(j, m)
    <3> DEFINE p == IF Live(j) THEN [page EXCEPT !.phase = "shop", !.match = m] ELSE page
    <3>1. Render(p, account, jobs \ {j})
      BY <2>7, Zenon DEF OpenShop
    <3>2. IsPage(p)
      BY <1>0, <2>4, PageWith, Zenon
    <3> HIDE DEF p
    <3> QED  BY <1>6, <1>7, <3>1, <3>2, Zenon
  <2> QED  BY <2>2, <2>6, <2>7, Zenon
<1>16. ASSUME NEW j \in jobs, ShopAnswered(j)
       PROVE  Kept
  <2> DEFINE m == [j.match EXCEPT !.seed = seed[j.account]]
  <2>1. (page' = Battle(page, m) \/ page' = page) /\ jobs' = jobs \ {j}
    BY <1>16, Zenon DEF ShopAnswered
  <2>2. IsMatch(m)
    BY <1>0, FoughtIs, Zenon DEF AreJobs, IsJob, HasJobFields
  <2> HIDE DEF m
  <2>3. IsPage(Battle(page, m)) /\ AreJobs(jobs \ {j})
    BY <1>0, <1>7, <2>2, PageWith, Zenon
  <2> QED  BY <1>0, <2>1, <2>3, SMT
<1>17. ASSUME NEW j \in jobs, ResultAnswered(j)
       PROVE  Kept
  <2>1. PICK x : page' = [page EXCEPT !.phase = "result", !.result = x] \/ page' = page
    BY <1>17, Zenon DEF ResultAnswered
  <2>2. jobs' = LeaveBattle \ {j} \/ jobs' = jobs \ {j}
    BY <1>17, Zenon DEF ResultAnswered
  <2>3. IsPage([page EXCEPT !.phase = "result", !.result = x])
    BY <1>0, PageWith, Zenon
  <2>4. AreJobs(LeaveBattle \ {j}) /\ AreJobs(jobs \ {j})
    BY <1>0, JobsWithout, LeaveBattleIs, Zenon
  <2> QED  BY <1>0, <2>1, <2>2, <2>3, <2>4, SMT
<1>18. ASSUME NEW j, TrialAnswered(j)
       PROVE  Kept
  <2>1. PICK s \in Seeds :
          LET match == [previousEp |-> INITIAL_EP, turn |-> 1, seed |-> s, health |-> Health, rivals |-> Rivals]
          IN  Render(IF Live(j) THEN [page EXCEPT !.phase = "shop", !.match = match] ELSE page,
                     NoAccount, Readdress(NoAccount, jobs \ {j}))
    BY <1>18, Zenon DEF TrialAnswered
  <2> DEFINE m == [previousEp |-> INITIAL_EP, turn |-> 1, seed |-> s, health |-> Health, rivals |-> Rivals]
             p == IF Live(j) THEN [page EXCEPT !.phase = "shop", !.match = m] ELSE page
  <2>2. Render(p, NoAccount, Readdress(NoAccount, jobs \ {j}))
    BY <2>1, Zenon
  <2>3. IsMatch(m)
    BY StakesAssumption, SMT DEF IsMatch, MatchFields
  <2> HIDE DEF m
  <2>4. IsPage(p)
    BY <1>0, <2>3, PageWith, Zenon
  <2> HIDE DEF p
  <2> QED  BY <1>6, <1>7, <2>2, <2>4, Zenon
<1>19. ASSUME NEW j \in jobs, BoxesFound(j)
       PROVE  Kept
  <2>1. page' = page /\ (jobs' = Replace(j, [j EXCEPT !.stage = "boxes"]) \/ jobs' = jobs \ {j})
    BY <1>19, Zenon DEF BoxesFound
  <2>2. IsJob([j EXCEPT !.stage = "boxes"])
    BY <1>0, JobWith, Zenon DEF AreJobs
  <2>3. AreJobs(jobs \ {j}) /\ AreJobs(Replace(j, [j EXCEPT !.stage = "boxes"]))
    BY <1>0, <2>2, JobsWithout, Zenon DEF Replace
  <2> QED  BY <1>0, <2>1, <2>3, SMT
<1>20. ASSUME NEW j \in jobs, HealthWritten(j)
       PROVE  Kept
  <2>1. (page' = [page EXCEPT !.health = j.match.health] \/ page' = page) /\ jobs' = jobs \ {j}
    BY <1>20, Zenon DEF HealthWritten
  <2>2. j.match.health \in Int
    BY <1>0, Zenon DEF AreJobs, IsJob, HasJobFields, IsMatch
  <2>3. IsPage([page EXCEPT !.health = j.match.health])
    <3>1. \A h \in Int : IsPage([page EXCEPT !.health = h])
      BY <1>0, SMT DEF IsPage, PageFields
    <3> QED  BY <2>2, <3>1, Zenon
  <2>4. AreJobs(jobs \ {j})
    BY <1>0, <1>7, Zenon
  <2> QED  BY <1>0, <2>1, <2>3, <2>4, SMT
<1>21. ASSUME NEW j, Lost(j) \/ Fault(j)
       PROVE  Kept
  <2>1. page' = page /\ jobs' = jobs \ {j}
    BY <1>21, Zenon DEF Lost, Fault, QueryFails
  <2>2. AreJobs(jobs \ {j})
    BY <1>7, Zenon
  <2> QED  BY <1>0, <2>1, <2>2, SMT
<1>22. ASSUME NEW j, SetupBlocked(j)
       PROVE  Kept
  <2>1. page' = NewPage("/") /\ jobs' = Gone(jobs)
    BY <1>22, Zenon DEF SetupBlocked
  <2>2. IsPage(NewPage("/")) /\ AreJobs(Gone(jobs))
    BY <1>0, NewPageIs, LeaveIs, Zenon
  <2> QED  BY <2>1, <2>2, SMT
<1> HIDE DEF Kept
<1>23. Kept
  BY <1>2, <1>3, <1>4, <1>5, <1>9, <1>10, <1>11, <1>12, <1>14, <1>15, <1>16, <1>17, <1>18, <1>19, <1>20, <1>21,
     <1>22, Zenon DEF Answer, Failure
<1> QED  BY <1>23, Zenon DEF Kept

\* The actions that are not calls of the contract
LEMMA OthersKeepMatches ==
  ASSUME Next,
         ~\E a \in Accounts : PlayElsewhere(a),
         ~\E j \in jobs : StartIncluded(j) \/ ShopIncluded(j)
  PROVE  UNCHANGED matchVars
<1> USE DEF matchVars, frameRest, chainVars, appVars, linkVars, modalVars, storageVars, history, txRest
<1>1. ASSUME NEW id, Go(id) PROVE UNCHANGED matchVars
  BY <1>1, SMT DEF Go
<1>2. ASSUME NEW id, Reload(id) PROVE UNCHANGED matchVars
  BY <1>2, SMT DEF Reload
<1>3. ASSUME NEW a, SwitchAccount(a) PROVE UNCHANGED matchVars
  BY <1>3, SMT DEF SwitchAccount
<1>4. ASSUME NEW a, EditElsewhere(a) PROVE UNCHANGED matchVars
  BY <1>4, SMT DEF EditElsewhere
<1>5. ASSUME NEW i, SelectDeck(i) PROVE UNCHANGED matchVars
  BY <1>5, SMT DEF SelectDeck, EditDecks
<1>6. ASSUME NEW i, DiscardDeck(i) PROVE UNCHANGED matchVars
  BY <1>6, SMT DEF DiscardDeck, EditDecks
<1>7. ASSUME NEW j, NEW signed, PopupClosed(j, signed) PROVE UNCHANGED matchVars
  BY <1>7, SMT DEF PopupClosed
<1>8. ASSUME SaveDeck PROVE UNCHANGED matchVars
  BY <1>8, SMT DEF SaveDeck, EditDecks
<1>9. ASSUME Start PROVE UNCHANGED matchVars
  BY <1>9, SMT DEF Start, Click
<1>10. ASSUME FinishShop PROVE UNCHANGED matchVars
  BY <1>10, SMT DEF FinishShop, Click
<1>11. ASSUME FinishTrialShop PROVE UNCHANGED matchVars
  BY <1>11, SMT DEF FinishTrialShop, Click
<1>12. ASSUME NextTurn PROVE UNCHANGED matchVars
  BY <1>12, SMT DEF NextTurn, Click
<1>13. ASSUME FinishMatch PROVE UNCHANGED matchVars
  BY <1>13, SMT DEF FinishMatch, Click
<1>14. ASSUME FinishTrial PROVE UNCHANGED matchVars
  BY <1>14, SMT DEF FinishTrial, Click
<1>15. ASSUME PlayAgain PROVE UNCHANGED matchVars
  BY <1>15, SMT DEF PlayAgain, Click
<1>16. ASSUME ReleaseBases PROVE UNCHANGED matchVars
  BY <1>16, SMT DEF ReleaseBases
<1>17. ASSUME WasmReady PROVE UNCHANGED matchVars
  BY <1>17, SMT DEF WasmReady
<1>18. ASSUME NEW k, LinkAnswers(k) PROVE UNCHANGED matchVars
  BY <1>18, SMT DEF LinkAnswers
<1>19. ASSUME NEW k, BasesAnswer(k) PROVE UNCHANGED matchVars
  BY <1>19, SMT DEF BasesAnswer
<1>20. ASSUME BattlePlayed PROVE UNCHANGED matchVars
  BY <1>20, SMT DEF BattlePlayed
<1>21. ASSUME NEW j, SetupAnswered(j) PROVE UNCHANGED matchVars
  BY <1>21, SMT DEF SetupAnswered
<1>22. ASSUME NEW j, EpAnswered(j) PROVE UNCHANGED matchVars
  BY <1>22, SMT DEF EpAnswered
<1>23. ASSUME NEW j, RecordAnswered(j) PROVE UNCHANGED matchVars
  BY <1>23, SMT DEF RecordAnswered
<1>24. ASSUME NEW j, Generated(j) PROVE UNCHANGED matchVars
  BY <1>24, SMT DEF Generated
<1>25. ASSUME NEW j, TrialAnswered(j) PROVE UNCHANGED matchVars
  BY <1>25, SMT DEF TrialAnswered
<1>26. ASSUME NEW j, ShopAnswered(j) PROVE UNCHANGED matchVars
  BY <1>26, SMT DEF ShopAnswered
<1>27. ASSUME NEW j, ResultAnswered(j) PROVE UNCHANGED matchVars
  BY <1>27, SMT DEF ResultAnswered
<1>28. ASSUME NEW j, BoxesFound(j) PROVE UNCHANGED matchVars
  BY <1>28, SMT DEF BoxesFound
<1>29. ASSUME NEW j, HealthWritten(j) PROVE UNCHANGED matchVars
  BY <1>29, SMT DEF HealthWritten
<1>30. ASSUME NEW j, SetupBlocked(j) PROVE UNCHANGED matchVars
  BY <1>30, SMT DEF SetupBlocked
<1>31. ASSUME NEW j, NEW what, StartAnswered(j, what) PROVE UNCHANGED matchVars
  BY <1>31, SMT DEF StartAnswered
<1>32. ASSUME NEW j, Lost(j) PROVE UNCHANGED matchVars
  BY <1>32, SMT DEF Lost, QueryFails
<1>33. ASSUME NEW j, Fault(j) PROVE UNCHANGED matchVars
  BY <1>33, SMT DEF Fault, QueryFails
<1> QED  BY <1>1, <1>2, <1>3, <1>4, <1>5, <1>6, <1>7, <1>8, <1>9, <1>10, <1>11, <1>12, <1>13, <1>14,
             <1>15, <1>16, <1>17, <1>18, <1>19, <1>20, <1>21, <1>22, <1>23, <1>24, <1>25, <1>26,
             <1>27, <1>28, <1>29, <1>30, <1>31, <1>32, <1>33, Zenon DEF Next, Player, Answer,
             Failure

LEMMA TypedStep ==
  ASSUME LinksCoherent, Typed, [Next]_vars
  PROVE  Typed'
<1>1. CASE Next
  <2>1. IsPage(page') /\ AreJobs(jobs')
    BY <1>1, PlayerTyped, AnswerTyped, Zenon DEF Next
  <2>2. ASSUME UNCHANGED matchVars
        PROVE  ContractTyped'
    BY <2>2, SMT DEF Typed, ContractTyped, matchVars
  <2>3. ASSUME NEW a, ContractStart(a) \/ ContractShop(a)
        PROVE  ContractTyped'
    BY <2>3, ContractCalls, Zenon DEF Typed
  <2>4. ASSUME NEW a, PlayElsewhere(a)
        PROVE  ContractTyped'
    BY <2>3, <2>4, Zenon DEF PlayElsewhere
  <2>5. ASSUME NEW j, Refused(j)
        PROVE  ContractTyped'
    BY <2>2, <2>5, Zenon DEF Refused
  <2>6. ASSUME NEW j, StartIncluded(j) \/ ShopIncluded(j)
        PROVE  ContractTyped'
    BY <2>3, <2>5, <2>6, Zenon DEF StartIncluded, ShopIncluded
  <2>7. ContractTyped'
    BY <1>1, <2>2, <2>4, <2>6, OthersKeepMatches, Zenon
  <2> QED  BY <2>1, <2>7, SMT DEF Typed, IsPage, AreJobs
<1>2. CASE UNCHANGED vars
  BY <1>2, SMT DEF vars, chainVars, matchVars, Typed, ContractTyped
<1> QED  BY <1>1, <1>2, Zenon

LEMMA TypedInit ==
  ASSUME Init
  PROVE  Typed
<1>1. PICK world \in Worlds : route \in world.routes /\ record = world.record
  BY Zenon DEF Init
<1>2. /\ page = NewPage(route)
      /\ jobs = {}
      /\ turns = [a \in DOMAIN record |-> 0]
  BY Zenon DEF Init
<1>3. \A a \in DOMAIN record : record[a] \in [health : Nat, rivals : Nat]
  BY <1>1, WorldsAssumption, Zenon
<1>4. ContractTyped
  BY <1>2, <1>3, SMT DEF ContractTyped, AreMatches
<1> QED  BY <1>2, <1>4, NewPageIs, SMT DEF Typed, AreJobs
--------------------------------------------------------------------------------
(* The decks *)

\* Every deck that can be built while any of the releases is the current one
AnyDeck == UNION {BuilderDecks(BuiltIds[r]) : r \in DOMAIN BuiltIds}

DecksInv ==
  /\ customDecks \in [Accounts -> Seq(AnyDeck)]
  /\ selectedDeckIndex \in [Accounts -> Nat]
  /\ DecksCoherent

LEMMA ExceptType ==
  ASSUME NEW A, NEW B, NEW f \in [A -> B], NEW a, NEW b, a \in A => b \in B
  PROVE  [f EXCEPT ![a] = b] \in [A -> B]
BY Zenon

LEMMA ListedIs ==
  ASSUME NEW a, customDecks[a] \in Seq(AnyDeck), NEW builtIds
  PROVE  DOMAIN Listed(a, builtIds) = 1 .. 1 + Len(customDecks[a])
<1> DEFINE first == DefaultDeck(builtIds)
           S == AnyDeck \cup {first}
<1> HIDE DEF first
<1>1. <<first>> \in Seq(S) /\ Len(<<first>>) = 1
  <2>1. first \in S
    OBVIOUS
  <2> HIDE DEF S
  <2> QED  BY <2>1, SMT
<1>2. customDecks[a] \in Seq(S)
  <2>1. \A i \in 1 .. Len(customDecks[a]) : customDecks[a][i] \in S
    BY ElementOfSeq, Zenon
  <2>2. Len(customDecks[a]) \in Nat /\ customDecks[a] \in [1 .. Len(customDecks[a]) -> AnyDeck]
    BY LenProperties, Zenon
  <2> HIDE DEF S
  <2> QED  BY <2>1, <2>2, SMT
<1> HIDE DEF S
<1>3. <<first>> \o customDecks[a] \in Seq(S) /\ Len(<<first>> \o customDecks[a]) = 1 + Len(customDecks[a])
  BY <1>1, <1>2, ConcatProperties, SMT
<1>4. Listed(a, builtIds) = <<first>> \o customDecks[a]
  BY Zenon DEF Listed, first
<1> QED  BY <1>3, <1>4, LenProperties, SMT

LEMMA SelectKeepsDecks ==
  ASSUME DecksInv, NEW a, NEW i, NEW builtIds, SelectDeckIndex(a, i, builtIds)
  PROVE  DecksInv'
<1>1. UNCHANGED customDecks /\ selectedDeckIndex' = [selectedDeckIndex EXCEPT ![a] = i]
  BY Zenon DEF SelectDeckIndex
<1>2. CASE a \in Accounts
  <2>1. customDecks[a] \in Seq(AnyDeck)
    BY <1>2, SMT DEF DecksInv
  <2>2. i \in 1 .. 1 + Len(customDecks[a]) /\ Len(customDecks[a]) \in Nat
    BY <2>1, ListedIs, LenProperties, Zenon DEF SelectDeckIndex
  <2>3. selectedDeckIndex' \in [Accounts -> Nat]
    <3>1. i \in Nat
      BY <2>2, SMT
    <3>2. [selectedDeckIndex EXCEPT ![a] = i] \in [Accounts -> Nat]
      BY <3>1, ExceptType, Zenon DEF DecksInv
    <3> QED  BY <1>1, <3>2, SMT
  <2>4. ASSUME NEW b \in Accounts
        PROVE  selectedDeckIndex'[b] <= 1 + Len(customDecks[b])
    BY <1>1, <2>2, <2>4, SMT DEF DecksInv, DecksCoherent
  <2> QED  BY <1>1, <2>3, <2>4, SMT DEF DecksInv, DecksCoherent
<1>3. CASE a \notin Accounts
  <2>1. selectedDeckIndex' = selectedDeckIndex
    BY <1>1, <1>3, SMT DEF DecksInv
  <2> QED  BY <1>1, <2>1, Zenon DEF DecksInv, DecksCoherent
<1> QED  BY <1>2, <1>3, Zenon

LEMMA AddKeepsDecks ==
  ASSUME DecksInv, NEW a, NEW builtIds, NEW deck \in AnyDeck, AddDeck(a, deck, builtIds)
  PROVE  DecksInv'
<1>1. /\ UNCHANGED selectedDeckIndex
      /\ \/ customDecks' = customDecks
         \/ customDecks' = [customDecks EXCEPT ![a] = Append(customDecks[a], deck)]
  BY Zenon DEF AddDeck
<1>2. ASSUME customDecks' = customDecks
      PROVE  DecksInv'
  BY <1>1, <1>2, SMT DEF DecksInv, DecksCoherent
<1>3. ASSUME a \notin Accounts, customDecks' = [customDecks EXCEPT ![a] = Append(customDecks[a], deck)]
      PROVE  customDecks' = customDecks
  BY <1>3, SMT DEF DecksInv
<1>4. ASSUME a \in Accounts, customDecks' = [customDecks EXCEPT ![a] = Append(customDecks[a], deck)]
      PROVE  DecksInv'
  <2>1. customDecks[a] \in Seq(AnyDeck) /\ Len(customDecks[a]) \in Nat
    BY <1>4, LenProperties, SMT DEF DecksInv
  <2>2. /\ Append(customDecks[a], deck) \in Seq(AnyDeck)
        /\ Len(Append(customDecks[a], deck)) = Len(customDecks[a]) + 1
    BY <2>1, SMT
  <2>3. customDecks' \in [Accounts -> Seq(AnyDeck)]
    <3>1. customDecks \in [Accounts -> Seq(AnyDeck)]
      BY DEF DecksInv
    <3> QED  BY <1>4, <2>2, <3>1, ExceptType, Zenon
  <2>4. ASSUME NEW b \in Accounts
        PROVE  selectedDeckIndex[b] <= 1 + Len(customDecks'[b])
    <3>1. CASE b = a
      BY <1>4, <2>1, <2>2, <3>1, SMT DEF DecksInv, DecksCoherent
    <3>2. CASE b # a
      BY <1>4, <3>2, SMT DEF DecksInv, DecksCoherent
    <3> QED  BY <3>1, <3>2, Zenon
  <2> QED  BY <1>1, <2>3, <2>4, SMT DEF DecksInv, DecksCoherent
<1> QED  BY <1>1, <1>2, <1>3, <1>4, Zenon

LEMMA DeleteKeepsDecks ==
  ASSUME DecksInv, NEW a, NEW i, DeleteDeck(a, i)
  PROVE  DecksInv'
<1> DEFINE rest == IF i - 1 \in DOMAIN customDecks[a] THEN RemoveAt(customDecks[a], i - 1) ELSE customDecks[a]
<1>1. /\ customDecks' = [customDecks EXCEPT ![a] = rest]
      /\ selectedDeckIndex' = [selectedDeckIndex EXCEPT ![a] = 0]
  BY Zenon DEF DeleteDeck
<1>2. a \in Accounts => rest \in Seq(AnyDeck) /\ Len(rest) \in Nat
  <2> SUFFICES ASSUME a \in Accounts PROVE rest \in Seq(AnyDeck) /\ Len(rest) \in Nat
    OBVIOUS
  <2>1. customDecks[a] \in Seq(AnyDeck)
    BY SMT DEF DecksInv
  <2>2. i - 1 \in DOMAIN customDecks[a] => RemoveAt(customDecks[a], i - 1) \in Seq(AnyDeck)
    BY <2>1, RemoveAtIs, LenProperties, Zenon
  <2>3. rest \in Seq(AnyDeck)
    BY <2>1, <2>2, Zenon
  <2> QED  BY <2>3, LenProperties, Zenon
<1> HIDE DEF rest
<1>3. customDecks' \in [Accounts -> Seq(AnyDeck)] /\ selectedDeckIndex' \in [Accounts -> Nat]
  <2>1. 0 \in Nat
    OBVIOUS
  <2>2. [customDecks EXCEPT ![a] = rest] \in [Accounts -> Seq(AnyDeck)]
    BY <1>2, ExceptType, Zenon DEF DecksInv
  <2>3. [selectedDeckIndex EXCEPT ![a] = 0] \in [Accounts -> Nat]
    BY <2>1, ExceptType, Zenon DEF DecksInv
  <2> QED  BY <1>1, <2>2, <2>3, SMT
<1>4. ASSUME NEW b \in Accounts
      PROVE  selectedDeckIndex'[b] <= 1 + Len(customDecks'[b])
  <2>1. CASE b = a
    BY <1>1, <1>2, <2>1, SMT DEF DecksInv
  <2>2. CASE b # a
    BY <1>1, <2>2, SMT DEF DecksInv, DecksCoherent
  <2> QED  BY <2>1, <2>2, Zenon
<1> QED  BY <1>3, <1>4, SMT DEF DecksInv, DecksCoherent

\* The decks, and what is remembered of their edits
editVars == <<storageVars, chosen, elsewhere>>

\* The actions that are no edits
LEMMA OthersKeepDecks ==
  ASSUME Next,
         ~\E a \in Accounts : EditElsewhere(a),
         ~\E i \in DOMAIN page.decks : SelectDeck(i) \/ DiscardDeck(i),
         ~SaveDeck
  PROVE  UNCHANGED editVars
<1> USE DEF matchVars, frameRest, chainVars, appVars, linkVars, modalVars, storageVars, history, txRest, editVars
<1>1. ASSUME NEW id, Go(id) PROVE UNCHANGED editVars
  BY <1>1, SMT DEF Go
<1>2. ASSUME NEW id, Reload(id) PROVE UNCHANGED editVars
  BY <1>2, SMT DEF Reload
<1>3. ASSUME NEW a, SwitchAccount(a) PROVE UNCHANGED editVars
  BY <1>3, SMT DEF SwitchAccount
<1>4. ASSUME NEW a, PlayElsewhere(a) PROVE UNCHANGED editVars
  BY <1>4, SMT DEF PlayElsewhere
<1>5. ASSUME NEW j, NEW signed, PopupClosed(j, signed) PROVE UNCHANGED editVars
  BY <1>5, SMT DEF PopupClosed
<1>6. ASSUME Start PROVE UNCHANGED editVars
  BY <1>6, SMT DEF Start, Click
<1>7. ASSUME FinishShop PROVE UNCHANGED editVars
  BY <1>7, SMT DEF FinishShop, Click
<1>8. ASSUME FinishTrialShop PROVE UNCHANGED editVars
  BY <1>8, SMT DEF FinishTrialShop, Click
<1>9. ASSUME NextTurn PROVE UNCHANGED editVars
  BY <1>9, SMT DEF NextTurn, Click
<1>10. ASSUME FinishMatch PROVE UNCHANGED editVars
  BY <1>10, SMT DEF FinishMatch, Click
<1>11. ASSUME FinishTrial PROVE UNCHANGED editVars
  BY <1>11, SMT DEF FinishTrial, Click
<1>12. ASSUME PlayAgain PROVE UNCHANGED editVars
  BY <1>12, SMT DEF PlayAgain, Click
<1>13. ASSUME ReleaseBases PROVE UNCHANGED editVars
  BY <1>13, SMT DEF ReleaseBases
<1>14. ASSUME WasmReady PROVE UNCHANGED editVars
  BY <1>14, SMT DEF WasmReady
<1>15. ASSUME NEW k, LinkAnswers(k) PROVE UNCHANGED editVars
  BY <1>15, SMT DEF LinkAnswers
<1>16. ASSUME NEW k, BasesAnswer(k) PROVE UNCHANGED editVars
  BY <1>16, SMT DEF BasesAnswer
<1>17. ASSUME BattlePlayed PROVE UNCHANGED editVars
  BY <1>17, SMT DEF BattlePlayed
<1>18. ASSUME NEW j, SetupAnswered(j) PROVE UNCHANGED editVars
  BY <1>18, SMT DEF SetupAnswered
<1>19. ASSUME NEW j, EpAnswered(j) PROVE UNCHANGED editVars
  BY <1>19, SMT DEF EpAnswered
<1>20. ASSUME NEW j, RecordAnswered(j) PROVE UNCHANGED editVars
  BY <1>20, SMT DEF RecordAnswered
<1>21. ASSUME NEW j, Generated(j) PROVE UNCHANGED editVars
  BY <1>21, SMT DEF Generated
<1>22. ASSUME NEW j, TrialAnswered(j) PROVE UNCHANGED editVars
  BY <1>22, SMT DEF TrialAnswered
<1>23. ASSUME NEW j, StartIncluded(j) PROVE UNCHANGED editVars
  BY <1>23, SMT DEF StartIncluded
<1>24. ASSUME NEW j, ShopIncluded(j) PROVE UNCHANGED editVars
  BY <1>24, SMT DEF ShopIncluded
<1>25. ASSUME NEW j, ShopAnswered(j) PROVE UNCHANGED editVars
  BY <1>25, SMT DEF ShopAnswered
<1>26. ASSUME NEW j, ResultAnswered(j) PROVE UNCHANGED editVars
  BY <1>26, SMT DEF ResultAnswered
<1>27. ASSUME NEW j, BoxesFound(j) PROVE UNCHANGED editVars
  BY <1>27, SMT DEF BoxesFound
<1>28. ASSUME NEW j, HealthWritten(j) PROVE UNCHANGED editVars
  BY <1>28, SMT DEF HealthWritten
<1>29. ASSUME NEW j, SetupBlocked(j) PROVE UNCHANGED editVars
  BY <1>29, SMT DEF SetupBlocked
<1>30. ASSUME NEW j, NEW what, StartAnswered(j, what) PROVE UNCHANGED editVars
  BY <1>30, SMT DEF StartAnswered
<1>31. ASSUME NEW j, Lost(j) PROVE UNCHANGED editVars
  BY <1>31, SMT DEF Lost, QueryFails
<1>32. ASSUME NEW j, Fault(j) PROVE UNCHANGED editVars
  BY <1>32, SMT DEF Fault, QueryFails
<1> QED  BY <1>1, <1>2, <1>3, <1>4, <1>5, <1>6, <1>7, <1>8, <1>9, <1>10, <1>11, <1>12, <1>13, <1>14,
             <1>15, <1>16, <1>17, <1>18, <1>19, <1>20, <1>21, <1>22, <1>23, <1>24, <1>25, <1>26,
             <1>27, <1>28, <1>29, <1>30, <1>31, <1>32, Zenon DEF Next, Player, Answer, Failure

LEMMA DecksInvStep ==
  ASSUME LinksCoherent, Typed, DecksInv, [Next]_vars
  PROVE  DecksInv'
<1>1. ASSUME UNCHANGED storageVars
      PROVE  DecksInv'
  BY <1>1, SMT DEF storageVars, DecksInv, DecksCoherent
<1>2. ASSUME NEW a, EditElsewhere(a)
      PROVE  DecksInv'
  <2>1. \A deck \in BuilderDecks(BuiltIds[release]) : deck \in AnyDeck
    BY Zenon DEF AnyDeck, LinksCoherent
  <2>2. \/ \E deck \in BuilderDecks(BuiltIds[release]) : AddDeck(a, deck, BuiltIds[release])
        \/ \E i : DeleteDeck(a, i + 1)
        \/ \E i : SelectDeckIndex(a, i + 1, BuiltIds[release])
    BY <1>2, Zenon DEF EditElsewhere
  <2> QED  BY <2>1, <2>2, AddKeepsDecks, DeleteKeepsDecks, SelectKeepsDecks, Zenon
<1>3. ASSUME NEW i, SelectDeck(i) \/ DiscardDeck(i)
      PROVE  DecksInv'
  BY <1>3, SelectKeepsDecks, DeleteKeepsDecks, Zenon DEF SelectDeck, DiscardDeck
<1>4. ASSUME SaveDeck
      PROVE  DecksInv'
  <2>1. page.built \in DOMAIN BuiltIds
    BY <1>4, SMT DEF SaveDeck, EditDecks, Shown, Typed, IsPage
  <2>2. \A deck \in BuilderDecks(BuiltIds[page.built]) : deck \in AnyDeck
    BY <2>1, Zenon DEF AnyDeck
  <2> QED  BY <1>4, <2>2, AddKeepsDecks, Zenon DEF SaveDeck
<1>5. CASE UNCHANGED vars
  BY <1>1, <1>5, SMT DEF vars
<1>6. UNCHANGED editVars => UNCHANGED storageVars
  BY SMT DEF editVars
<1> QED  BY <1>1, <1>2, <1>3, <1>4, <1>5, <1>6, OthersKeepDecks, Zenon

LEMMA DecksInvInit ==
  ASSUME Init
  PROVE  DecksInv
<1>1. /\ customDecks = [a \in Accounts |-> <<>>]
      /\ selectedDeckIndex = [a \in Accounts |-> 0]
  BY Zenon DEF Init, DecksInit
<1>2. <<>> \in Seq(AnyDeck) /\ Len(<<>>) = 0
  BY EmptySeq, Zenon
<1> QED  BY <1>1, <1>2, SMT DEF DecksInv, DecksCoherent

\* Tabs that edit the decks of an address at the same time (addDeck, deleteDeck and
\* selectDeckIndex of Setup/Decks) never leave a selection of a deck that is not there:
\* what is deleted takes the selection along, and only the end of the list grows
THEOREM DecksStayCoherent == Spec => []DecksCoherent
<1>1. Init => LinksCoherent /\ Typed /\ DecksInv
  BY LinksCoherentInit, TypedInit, DecksInvInit
<1>2. LinksCoherent /\ Typed /\ DecksInv /\ [Next]_vars => (LinksCoherent /\ Typed /\ DecksInv)'
  BY LinksCoherentStep, TypedStep, DecksInvStep
<1>3. DecksInv => DecksCoherent
  BY DEF DecksInv
<1> QED  BY <1>1, <1>2, <1>3, PTL DEF Spec

--------------------------------------------------------------------------------
(* The waiting modal and the navigation bar *)

\* What the modal covers, and what opens the trial
Covering == {"setup", "generate", "start", "shop", "result"}
Steps == Covering \cup {"trial"}

Step(j) == Live(j) /\ j.kind \in Steps

\* Where the page is while it awaits that
AtStep(j) ==
  /\ wasm /\ connection # 0
  /\ route = IF j.kind = "trial" THEN "/match_trial" ELSE "/match"
  /\ j.kind \in {"setup", "generate", "start"} => page.phase = "setup"
  /\ j.kind = "shop" => page.phase = "shop"
  /\ j.kind = "result" => page.phase = "battle"
  /\ j.kind = "trial" => page.phase = "loading"
  /\ j.kind # "trial" => waiting
  /\ j.kind = "start" => account # NoAccount

\* One at a time, and where it belongs
StepsFit ==
  /\ \A i, j \in jobs : Step(i) /\ Step(j) => i = j
  /\ \A j \in jobs : Step(j) => AtStep(j)

\* The phases of a match belong to the pages it is played on, and the navigation bar
\* is away in them only
Fits(p, a, nav) ==
  /\ p.phase \in {"shop", "battle", "result"} =>
       /\ wasm /\ connection # 0
       /\ route \in {"/match", "/match_trial"}
       /\ route = "/match" => a # NoAccount
  /\ route = "/match" /\ ended = "no" => p.phase # "loading"
  /\ route # "/match" => p.phase # "setup"
  /\ ~nav => p.phase \in {"shop", "battle"}

PageFits == Fits(page, account, hasNav)

Covered == StepsFit /\ PageFits

Idle(js) == \A j \in js : ~Step(j)

\* Nothing is awaited where something can be clicked
LEMMA ClickableIsIdle ==
  ASSUME Covered, Clickable, page.phase # "loading"
  PROVE  Idle(jobs)
BY SMT DEF Covered, StepsFit, AtStep, Clickable, Idle, Step, Steps, Covering

\* nor after the answer
LEMMA AnsweredIsIdle ==
  ASSUME Covered, NEW j \in jobs, Step(j)
  PROVE  AtStep(j) /\ Idle(jobs \ {j})
BY Zenon DEF Covered, StepsFit, Idle

LEMMA IdleFits ==
  ASSUME Idle(jobs')
  PROVE  StepsFit'
BY Zenon DEF StepsFit, Idle, Step, Live

\* What has just been asked for
LEMMA OneFits ==
  ASSUME NEW k, AtStep(k)', \A i \in jobs' : Step(i) => i = k
  PROVE  StepsFit'
BY Zenon DEF StepsFit, Step, Live

\* A page that has just been mounted
LEMMA OpeningFits ==
  ASSUME NEW js, Idle(js), NEW a,
         jobs' = js \cup Opening(route', connection', wasm', a),
         page'.phase = NewPage(route').phase,
         (\E j \in Opening(route', connection', wasm', a) : j.kind = "setup") => waiting'
  PROVE  StepsFit'
<1> DEFINE opened == Opening(route', connection', wasm', a)
<1>1. \A j \in opened : Opens(j, route', a) /\ connection' # 0 /\ wasm'
  BY OpeningIs, Zenon
<1>2. \A i, j \in opened : i.kind = j.kind => i = j
  BY OpeningIs, Zenon
<1> HIDE DEF opened
<1>3. CASE \E k \in opened : Step(k)
  <2>1. PICK k \in opened : Step(k)
    BY <1>3
  <2>2. k.kind \in {"setup", "trial"}
    BY <1>1, <2>1, SMT DEF Step, Steps, Covering, Opens
  <2>3. ASSUME NEW i \in jobs', Step(i)
        PROVE  i = k
    <3>1. i \in opened
      BY <2>3, Zenon DEF Idle, opened
    <3>2. i.kind \in {"setup", "trial"}
      BY <1>1, <2>3, <3>1, SMT DEF Step, Steps, Covering, Opens
    <3>3. i.kind = k.kind
      BY <1>1, <2>2, <3>1, <3>2, SMT DEF Opens
    <3> QED  BY <1>2, <3>1, <3>3, Zenon
  <2>4. AtStep(k)'
    BY <1>1, <2>2, NewPageIs, SMT DEF AtStep, Opens, opened
  <2> QED  BY <2>3, <2>4, OneFits, Zenon
<1>4. CASE \A k \in opened : ~Step(k)
  BY <1>4, IdleFits, Zenon DEF Idle, opened
<1> QED  BY <1>3, <1>4, Zenon

\* Nothing moves but a job, which stays what it is
Steady ==
  /\ route' = route /\ wasm' = wasm /\ account' = account /\ hasNav' = hasNav /\ ended' = ended
  /\ connection # 0 => connection' # 0
  /\ page'.phase = page.phase
  /\ waiting => waiting'

LEMMA FewerKeepCovered ==
  ASSUME Covered, Steady, \A i \in jobs' : Step(i) => i \in jobs
  PROVE  Covered'
<1>1. PageFits'
  BY SMT DEF Covered, PageFits, Fits, Steady
<1>2. \A i : AtStep(i) => AtStep(i)'
  BY SMT DEF AtStep, Steady
<1> QED  BY <1>1, <1>2, SMT DEF Covered, StepsFit, Step, Live

LEMMA SteadyKeepsCovered ==
  ASSUME Covered, Steady, NEW j, NEW k,
         \A i \in jobs' : Step(i) => i \in jobs \ {j} \/ i = k,
         Step(k) => j \in jobs /\ Step(j) /\ j.kind = k.kind
  PROVE  Covered'
<1>1. PageFits'
  BY SMT DEF Covered, PageFits, Fits, Steady
<1>2. \A i : AtStep(i) => AtStep(i)'
  BY SMT DEF AtStep, Steady
<1>3. CASE Step(k)
  <2>1. Step(j) /\ j \in jobs /\ AtStep(j) /\ Idle(jobs \ {j})
    BY <1>3, AnsweredIsIdle, Zenon
  <2>2. \A i \in jobs' : Step(i) => i = k
    BY <2>1, Zenon DEF Idle
  <2>3. AtStep(j) => AtStep(k)
    BY <1>3, SMT DEF AtStep
  <2> QED  BY <1>1, <1>2, <2>1, <2>2, <2>3, OneFits, Zenon DEF Covered
<1>4. CASE ~Step(k)
  <2>1. \A i \in jobs' : Step(i) => i \in jobs
    BY <1>4, Zenon
  <2> QED  BY <2>1, FewerKeepCovered, Zenon
<1> QED  BY <1>3, <1>4, Zenon

\* An assignment to a job leaves it the step it is
LEMMA SameStep ==
  ASSUME NEW j, IsJob(j)
  PROVE  /\ \A x : LET k == [j EXCEPT !.stage = x] IN k.kind = j.kind /\ (Step(k) <=> Step(j))
         /\ \A x, y : LET k == [j EXCEPT !.stage = x, !.wants = y] IN k.kind = j.kind /\ (Step(k) <=> Step(j))
         /\ \A x, y : LET k == [j EXCEPT !.match = x, !.wants = y] IN k.kind = j.kind /\ (Step(k) <=> Step(j))
<1> USE DEF IsJob, HasJobFields, JobFields, Step, Live
<1>1. \A x : LET k == [j EXCEPT !.stage = x] IN k.kind = j.kind /\ (Step(k) <=> Step(j))
  BY SMT
<1>2. \A x, y : LET k == [j EXCEPT !.stage = x, !.wants = y] IN k.kind = j.kind /\ (Step(k) <=> Step(j))
  BY SMT
<1>3. \A x, y : LET k == [j EXCEPT !.match = x, !.wants = y] IN k.kind = j.kind /\ (Step(k) <=> Step(j))
  BY SMT
<1> QED  BY <1>1, <1>2, <1>3, Zenon

\* A render crashes without an account, which no page of a match is without, or on
\* bases that are not there, in the setup
LEMMA RenderFits ==
  ASSUME NEW p, NEW a, NEW js, IsPage(p), AreJobs(js), Render(p, a, js), Fits(p, a, hasNav'),
         route' = route, wasm' = wasm, connection' = connection
  PROVE  /\ PageFits'
         /\ \/ Idle(jobs')
            \/ account' = a /\ page' = p /\ jobs' = js /\ ended' = ended
<1>1. CASE ~Crashes(p, a, connection)
  <2>1. account' = a /\ page' = p /\ jobs' = js /\ ended' = ended
    BY <1>1, RenderIs, Zenon
  <2> QED  BY <2>1, SMT DEF PageFits, Fits
<1>2. CASE Crashes(p, a, connection)
  <2>1. ended' = "crashed" /\ page' = NewPage("/") /\ jobs' = Gone(js)
    BY <1>2, RenderIs, Zenon
  <2>2. p.phase = "setup"
    BY <1>2, SMT DEF Crashes, Fits, Shown
  <2>3. hasNav'
    BY <2>2, SMT DEF Fits
  <2>4. page'.phase = "loading"
    BY <2>1, NewPageIs, Zenon
  <2>5. Idle(jobs')
    BY <2>1, LeaveIs, SMT DEF Idle, Step
  <2>6. route = "/match"
    BY <2>2, SMT DEF Fits
  <2>7. PageFits'
    BY <2>1, <2>3, <2>4, <2>6, SMT DEF PageFits, Fits
  <2> QED  BY <2>5, <2>7
<1> QED  BY <1>1, <1>2

\* The player moves
LEMMA PlayerCovered ==
  ASSUME LinksCoherent, Typed, Covered, Player
  PROVE  Covered'
<1> USE DEF appVars, linkVars, modalVars, frameRest, storageVars, chainVars, matchVars, history
<1>0. IsPage(page) /\ AreJobs(jobs) /\ page.phase \in Phases
  BY DEF Typed, IsPage
<1>1. ASSUME NEW id, Go(id)
      PROVE  Covered'
  <2>1. /\ page' = NewPage(id) /\ route' = id /\ wasm' = wasm
        /\ jobs' = Leave(jobs) \cup Opening(id, connection', wasm, account')
        /\ waiting' = (waiting \/ \E j \in Opening(id, connection', wasm, account') : j.kind = "setup")
        /\ hasNav' = NavAfter
    BY <1>1, Zenon DEF Go, Reroute
  <2>2. page'.phase = IF id = "/match" THEN "setup" ELSE "loading"
    BY <2>1, NewPageIs, Zenon
  <2>3. Idle(Leave(jobs))
    BY <1>0, LeaveIs, Zenon DEF Idle, Step
  <2>4. StepsFit'
    BY <2>1, <2>3, OpeningFits, Zenon
  <2>5. NavAfter
    BY SMT DEF NavAfter, Covered, PageFits, Fits
  <2>6. PageFits'
    BY <2>1, <2>2, <2>5, SMT DEF PageFits, Fits
  <2> QED  BY <2>4, <2>6, Zenon DEF Covered
<1>2. ASSUME NEW id, Reload(id)
      PROVE  Covered'
  <2>1. page' = NewPage(id) /\ jobs' = Gone(jobs) /\ route' = id /\ hasNav' = TRUE
    BY <1>2, Zenon DEF Reload, Reloaded
  <2>2. page'.phase = IF id = "/match" THEN "setup" ELSE "loading"
    BY <2>1, NewPageIs, Zenon
  <2>3. Idle(jobs')
    BY <1>0, <2>1, LeaveIs, SMT DEF Idle, Step
  <2>4. StepsFit'
    BY <2>3, IdleFits, Zenon
  <2>5. PageFits'
    BY <2>1, <2>2, SMT DEF PageFits, Fits
  <2> QED  BY <2>4, <2>5, Zenon DEF Covered
<1>3. ASSUME page.phase # "loading", Clickable
      PROVE  Idle(jobs)
  BY <1>3, ClickableIsIdle, Zenon
\* A click that asks for what the modal covers
<1>4. ASSUME Clickable, page.phase # "loading", page'.phase = page.phase,
             UNCHANGED <<route, wasm, connection, account, ended, hasNav>>,
             NEW k, AtStep(k)', jobs' = jobs \cup {k}
      PROVE  Covered'
  <2>1. \A i \in jobs' : Step(i) => i = k
    BY <1>3, <1>4, SMT DEF Idle
  <2>2. StepsFit'
    BY <1>4, <2>1, OneFits, Zenon
  <2>3. PageFits'
    BY <1>4, SMT DEF Covered, PageFits, Fits
  <2> QED  BY <2>2, <2>3, Zenon DEF Covered
<1>5. ASSUME NEW a, SwitchAccount(a)
      PROVE  Covered'
  <2>1. PICK k : k = Job("generate", a) /\ k.kind = "generate"
    BY JobIs, SMT
  <2>2. jobs' = jobs \cup {k} /\ Clickable /\ page.phase = "setup"
    BY <1>5, <2>1, SMT DEF SwitchAccount, SetupOpen
  <2>3. page'.phase = page.phase /\ UNCHANGED <<route, wasm, connection, account, ended, hasNav>>
    BY <1>5, SMT DEF SwitchAccount
  <2>4. AtStep(k)'
    BY <1>5, <2>1, SMT DEF AtStep, SwitchAccount, SetupOpen, Cover
  <2> QED  BY <1>4, <2>2, <2>3, <2>4, SMT
<1>6. ASSUME Start
      PROVE  Covered'
  <2>1. PICK k : /\ k = [Job("start", account) EXCEPT !.stage = "popup", !.deck = page.decks[page.index],
                                                      !.match.previousEp = page.ep]
                 /\ jobs' = jobs \cup {k}
    BY <1>6, Zenon DEF Start, Click
  <2>2. IsMatch(NoMatch)
    BY SMT DEF NoMatch, IsMatch, MatchFields
  <2>3. k.kind = "start"
    BY <2>1, JobIs, SMT DEF IsJob, HasJobFields, JobFields
  <2>4. page'.phase = page.phase
    BY <1>0, <1>6, SMT DEF IsPage, PageFields, Start, Click
  <2>5. Clickable /\ page.phase = "setup" /\ UNCHANGED <<route, wasm, connection, account, ended, hasNav>>
    BY <1>6, SMT DEF Start, Click, SetupOpen
  <2>6. AtStep(k)'
    BY <1>6, <2>3, <2>4, <2>5, SMT DEF AtStep, Start, Click, SetupOpen, Shown, Cover
  <2> QED  BY <1>4, <2>1, <2>4, <2>5, <2>6, SMT
<1>7. ASSUME FinishShop
      PROVE  Covered'
  <2>1. PICK k : /\ k = [Job("shop", account) EXCEPT !.stage = "popup", !.match = page.match]
                 /\ page' = page /\ jobs' = jobs \cup {k}
    BY <1>7, Zenon DEF FinishShop, Click
  <2>2. k.kind = "shop"
    BY <2>1, JobIs, SMT DEF IsJob, HasJobFields, JobFields
  <2>3. Clickable /\ page.phase = "shop" /\ UNCHANGED <<route, wasm, connection, account, ended, hasNav>>
    BY <1>7, SMT DEF FinishShop, Click
  <2>4. AtStep(k)'
    BY <1>7, <2>1, <2>2, <2>3, SMT DEF AtStep, FinishShop, Click, Cover
  <2> QED  BY <1>4, <2>1, <2>3, <2>4, SMT
<1>8. ASSUME FinishMatch
      PROVE  Covered'
  <2>1. PICK m, place, k :
          /\ k = [Job("result", account) EXCEPT !.match = m, !.place = place]
          /\ page' = [page EXCEPT !.match = m, !.health = m.health] /\ jobs' = jobs \cup {k}
    BY <1>8, Zenon DEF FinishMatch, Click
  <2>3. k.kind = "result"
    BY <2>1, JobIs, SMT DEF IsJob, HasJobFields, JobFields
  <2>4. page'.phase = page.phase
    BY <1>0, <2>1, SMT DEF IsPage, PageFields
  <2>5. Clickable /\ page.phase = "battle" /\ UNCHANGED <<route, wasm, connection, account, ended, hasNav>>
    BY <1>8, SMT DEF FinishMatch, Click
  <2>6. AtStep(k)'
    BY <1>8, <2>3, <2>4, <2>5, SMT DEF AtStep, FinishMatch, Click, Cover
  <2> QED  BY <1>4, <2>1, <2>4, <2>5, <2>6, SMT
\* One that asks for nothing, in a match
<1>9. ASSUME Clickable, page.phase \in {"shop", "battle"}, page'.phase \in {"shop", "battle", "result"},
             page'.phase = "result" => hasNav',
             UNCHANGED <<route, wasm, connection, account, ended>>,
             \A i \in jobs' : Live(i) => i \in jobs
      PROVE  Covered'
  <2>1. Idle(jobs')
    BY <1>3, <1>9, SMT DEF Idle, Step
  <2>2. StepsFit'
    BY <2>1, IdleFits, Zenon
  <2>3. PageFits'
    BY <1>9, SMT DEF Covered, PageFits, Fits
  <2> QED  BY <2>2, <2>3, Zenon DEF Covered
<1>10. ASSUME FinishTrialShop
       PROVE  Covered'
  <2>1. PICK m : page' = Battle(page, m) /\ jobs' = jobs
    BY <1>10, Zenon DEF FinishTrialShop, Click
  <2>3. page'.phase = "battle"
    BY <1>0, <2>1, SMT DEF IsPage, PageFields, Battle
  <2>4. Clickable /\ page.phase = "shop" /\ UNCHANGED <<route, wasm, connection, account, ended>>
    BY <1>10, SMT DEF FinishTrialShop, Click
  <2> QED  BY <1>9, <2>1, <2>3, <2>4, SMT
<1>11. ASSUME NextTurn
       PROVE  Covered'
  <2>1. PICK m : page' = [page EXCEPT !.phase = "shop", !.match = m] /\ jobs' = LeaveBattle
    BY <1>11, Zenon DEF NextTurn, Click
  <2>2. page'.phase = "shop"
    BY <1>0, <2>1, SMT DEF IsPage, PageFields
  <2>3. Clickable /\ page.phase = "battle" /\ UNCHANGED <<route, wasm, connection, account, ended>>
    BY <1>11, SMT DEF NextTurn, Click
  <2>4. \A i \in jobs' : Live(i) => i \in jobs
    BY <1>0, <2>1, LeaveBattleIs, SMT
  <2> QED  BY <1>9, <2>2, <2>3, <2>4, SMT
<1>12. ASSUME FinishTrial
       PROVE  Covered'
  <2>1. jobs' = LeaveBattle
    BY <1>12, Zenon DEF FinishTrial, Click
  <2>2. PICK m, x : page' = [page EXCEPT !.phase = "result", !.match = m, !.result = x]
    BY <1>12, Zenon DEF FinishTrial, Click
  <2>3. page'.phase = "result"
    BY <1>0, <2>2, SMT DEF IsPage, PageFields
  <2>4. Clickable /\ page.phase = "battle" /\ UNCHANGED <<route, wasm, connection, account, ended>> /\ hasNav' = TRUE
    BY <1>12, SMT DEF FinishTrial, Click
  <2>5. \A i \in jobs' : Live(i) => i \in jobs
    BY <1>0, <2>1, LeaveBattleIs, SMT
  <2> QED  BY <1>9, <2>3, <2>4, <2>5, SMT
<1>13. ASSUME PlayAgain
       PROVE  Covered'
  <2> DEFINE opened == Opening(route, connection, wasm, account)
  <2>1. page' = NewPage(route) /\ jobs' = jobs \cup opened
    BY <1>13, Zenon DEF PlayAgain, Click
  <2>2. Clickable /\ page.phase = "result" /\ UNCHANGED <<route, wasm, connection, account, ended, hasNav>>
    BY <1>13, SMT DEF PlayAgain, Click
  <2>3. waiting' = \E j \in opened : j.kind = "setup"
    BY <1>13, Zenon DEF PlayAgain
  <2>4. opened = Opening(route', connection', wasm', account)
    BY <2>2, SMT
  <2> HIDE DEF opened
  <2>5. Idle(jobs)
    BY <1>3, <2>2, SMT
  <2>6. page'.phase = IF route = "/match" THEN "setup" ELSE "loading"
    BY <2>1, NewPageIs, Zenon
  <2>7. page'.phase = NewPage(route').phase
    BY <2>1, <2>2, SMT
  <2>8. StepsFit'
    BY <2>1, <2>3, <2>4, <2>5, <2>7, OpeningFits, SMT
  <2>9. PageFits'
    BY <2>2, <2>6, SMT DEF Covered, PageFits, Fits
  <2> QED  BY <2>8, <2>9, Zenon DEF Covered
\* What the page does not notice
<1>14. ASSUME NEW a, EditElsewhere(a) \/ PlayElsewhere(a)
       PROVE  Covered'
  <2>1. Steady /\ jobs' = jobs
    BY <1>14, SMT DEF EditElsewhere, PlayElsewhere, Steady
  <2> QED  BY <2>1, FewerKeepCovered, SMT
<1>15. ASSUME ReleaseBases
       PROVE  Covered'
  <2>1. Steady /\ jobs' = jobs
    BY <1>15, SMT DEF ReleaseBases, Steady
  <2> QED  BY <2>1, FewerKeepCovered, SMT
<1>16. ASSUME EditDecks, Edited
       PROVE  Covered'
  <2>1. PICK x, y : page' = [page EXCEPT !.decks = x, !.index = y]
    BY <1>16, Zenon DEF Edited
  <2>2. page'.phase = page.phase
    BY <1>0, <2>1, SMT DEF IsPage, PageFields
  <2>3. Steady /\ jobs' = jobs
    BY <1>16, <2>2, SMT DEF EditDecks, Steady
  <2> QED  BY <2>3, FewerKeepCovered, SMT
<1>17. ASSUME NEW i, SelectDeck(i) \/ DiscardDeck(i)
       PROVE  Covered'
  BY <1>16, <1>17, Zenon DEF SelectDeck, DiscardDeck
<1>18. ASSUME SaveDeck
       PROVE  Covered'
  BY <1>16, <1>18, Zenon DEF SaveDeck
<1>19. ASSUME NEW j \in jobs, NEW signed, PopupClosed(j, signed)
       PROVE  Covered'
  <2> DEFINE k == [j EXCEPT !.stage = "submitted"]
  <2>1. jobs' = Replace(j, k) \/ jobs' = jobs \ {j}
    BY <1>19, Zenon DEF PopupClosed
  <2>2. k.kind = j.kind /\ (Step(k) <=> Step(j))
    BY <1>0, SameStep, Zenon DEF AreJobs
  <2> HIDE DEF k
  <2>3. Steady
    BY <1>19, SMT DEF PopupClosed, Steady
  <2>4. \A i \in jobs' : Step(i) => i \in jobs \ {j} \/ i = k
    BY <2>1, SMT DEF Replace
  <2> QED  BY <2>2, <2>3, <2>4, SteadyKeepsCovered, Zenon
<1>20. Covered'
  BY <1>1, <1>2, <1>5, <1>6, <1>7, <1>8, <1>10, <1>11, <1>12, <1>13, <1>14, <1>15, <1>17, <1>18, <1>19, Zenon
     DEF Player
<1> QED  BY <1>20

\* What was asked is answered, or fails
LEMMA AnswerCovered ==
  ASSUME LinksCoherent, Typed, Covered, Answer \/ Failure, ~late'
  PROVE  Covered'
<1> USE DEF appVars, linkVars, modalVars, frameRest, storageVars, chainVars, matchVars, history, txRest
<1>0. IsPage(page) /\ AreJobs(jobs) /\ page.phase \in Phases
  BY DEF Typed, IsPage
\* Nothing that was not awaited took effect
<1>20. ASSUME NEW j, late' = (late \/ ~Live(j))
       PROVE  Live(j)
  BY <1>20, Zenon
\* A loading screen ends
<1>1. ASSUME NEW c, NEW w, ~(wasm /\ connection # 0), c = connection', w = wasm', Mounted(c, w), wasm => w,
             UNCHANGED <<route, account, hasNav, ended, page>>, ended = "no"
      PROVE  Covered'
  <2> DEFINE opened == Opening(route, c, w, account)
  <2>1. jobs' = jobs \cup opened /\ \A j \in opened : j.kind = "setup" => waiting'
    BY <1>1, Zenon DEF Mounted
  <2>2. opened = Opening(route', connection', wasm', account)
    BY <1>1, SMT
  <2> HIDE DEF opened
  <2>3. Idle(jobs)
    BY <1>1, SMT DEF Covered, StepsFit, AtStep, Idle
  <2>4. page'.phase = IF route' = "/match" THEN "setup" ELSE "loading"
    BY <1>0, <1>1, SMT DEF Covered, PageFits, Fits, Phases
  <2>5. page'.phase = NewPage(route').phase
    BY <2>4, NewPageIs, SMT
  <2>6. \A j \in Opening(route', connection', wasm', account) : j.kind = "setup" => waiting'
    BY <2>1, <2>2, SMT
  <2>7. jobs' = jobs \cup Opening(route', connection', wasm', account)
    BY <2>1, <2>2, SMT
  <2>8. StepsFit'
    BY <2>3, <2>5, <2>6, <2>7, OpeningFits, Zenon
  <2>9. PageFits'
    BY <1>1, <2>4, SMT DEF Covered, PageFits, Fits
  <2> QED  BY <2>8, <2>9, Zenon DEF Covered
<1>2. ASSUME WasmReady
      PROVE  Covered'
  <2>1. ~wasm /\ wasm' = TRUE /\ connection' = connection /\ ended = "no" /\ Mounted(connection, TRUE)
    BY <1>2, Zenon DEF WasmReady
  <2>2. UNCHANGED <<route, account, hasNav, ended, page>>
    BY <1>2, SMT DEF WasmReady
  <2>3. ~(wasm /\ connection # 0) /\ connection = connection' /\ TRUE = wasm' /\ (wasm => TRUE)
    BY <2>1, Zenon
  <2> QED  BY <1>1, <2>1, <2>2, <2>3, Zenon
<1>3. ASSUME NEW k, LinkAnswers(k)
      PROVE  Covered'
  <2>1. Steady /\ jobs' = jobs
    BY <1>3, SMT DEF LinkAnswers, LinkAnswered, Steady
  <2> QED  BY <2>1, FewerKeepCovered, SMT
<1>4. ASSUME NEW k \in DOMAIN links, BasesAnswer(k)
      PROVE  Covered'
  <2>1. connection' = k /\ k # 0
    BY <1>4, SMT DEF BasesAnswer, ConnectionBuilt, LinksCoherent
  <2>2. wasm' = wasm /\ Mounted(k, wasm) /\ UNCHANGED <<route, account, hasNav, ended, page>> /\ ended = "no"
    BY <1>4, SMT DEF BasesAnswer
  <2>3. CASE wasm /\ connection # 0
    <3>1. jobs' = jobs /\ (waiting => waiting')
      BY <2>2, <2>3, Zenon DEF Mounted
    <3>2. Steady
      BY <2>1, <2>2, <3>1, SMT DEF Steady
    <3> QED  BY <3>1, <3>2, FewerKeepCovered, SMT
  <2>4. CASE ~(wasm /\ connection # 0)
    BY <1>1, <2>1, <2>2, <2>4, SMT
  <2> QED  BY <2>3, <2>4
\* An answer that the page waits for, and renders
<1>5. ASSUME NEW p, NEW a, NEW js, IsPage(p), AreJobs(js), Render(p, a, js), Fits(p, a, hasNav'), Idle(js),
             route' = route, wasm' = wasm, connection' = connection
      PROVE  Covered'
  <2>1. PageFits' /\ (Idle(jobs') \/ jobs' = js)
    BY <1>5, RenderFits, Zenon
  <2>2. Idle(jobs')
    BY <1>5, <2>1, SMT
  <2> QED  BY <2>1, <2>2, IdleFits, Zenon DEF Covered
<1>6. ASSUME NEW j \in jobs, Step(j)
      PROVE  /\ AtStep(j) /\ Idle(jobs \ {j}) /\ AreJobs(jobs \ {j})
             /\ \A a : AreJobs(Readdress(a, jobs \ {j})) /\ Idle(Readdress(a, jobs \ {j}))
  <2>1. AtStep(j) /\ Idle(jobs \ {j}) /\ AreJobs(jobs \ {j})
    BY <1>0, <1>6, AnsweredIsIdle, JobsWithout, Zenon
  <2>2. ASSUME NEW a
        PROVE  AreJobs(Readdress(a, jobs \ {j})) /\ Idle(Readdress(a, jobs \ {j}))
    <3>1. ASSUME NEW i \in AddressQueries(a)
          PROVE  ~Step(i)
      BY JobIs, SMT DEF AddressQueries, Step, Steps, Covering
    <3>2. /\ AreJobs(Readdress(a, jobs \ {j}))
          /\ \A i \in Readdress(a, jobs \ {j}) : Live(i) => i \in jobs \ {j} \/ i \in AddressQueries(a)
      BY <2>1, ReaddressIs, Zenon
    <3> QED  BY <2>1, <3>1, <3>2, Zenon DEF Idle, Step
  <2> QED  BY <2>1, <2>2, Zenon
<1>7. ASSUME NEW j \in jobs, SetupAnswered(j) \/ Generated(j)
      PROVE  Covered'
  <2>1. PICK p, a : /\ Render(p, a, Readdress(a, jobs \ {j}))
                    /\ \/ p = WithDecks(page, a)
                       \/ p = WithDecks([page EXCEPT !.built = release], a)
    BY <1>7, Zenon DEF SetupAnswered, Generated
  <2>2. Step(j)
    BY <1>7, <1>20, Zenon DEF SetupAnswered, Generated, Step, Steps, Covering
  <2>3. j.kind \in {"setup", "generate"}
    BY <1>7, SMT DEF SetupAnswered, Generated
  <2>4. AtStep(j) /\ AreJobs(Readdress(a, jobs \ {j})) /\ Idle(Readdress(a, jobs \ {j}))
    BY <1>6, <2>2, Zenon
  <2>5. /\ IsPage(WithDecks(page, a)) /\ WithDecks(page, a).phase = page.phase
        /\ IsPage(WithDecks([page EXCEPT !.built = release], a))
        /\ WithDecks([page EXCEPT !.built = release], a).phase = [page EXCEPT !.built = release].phase
        /\ [page EXCEPT !.built = release].phase = page.phase
    <3>1. IsPage([page EXCEPT !.built = release]) /\ [page EXCEPT !.built = release].phase = page.phase
      BY <1>0, SMT DEF LinksCoherent, IsPage, PageFields
    <3> QED  BY <1>0, <3>1, WithDecksKeeps, Zenon DEF SameButDecks
  <2>6. IsPage(p) /\ p.phase = "setup"
    BY <2>1, <2>3, <2>4, <2>5, SMT DEF AtStep
  <2>7. route' = route /\ wasm' = wasm /\ connection' = connection /\ hasNav' = hasNav
    BY <1>7, SMT DEF SetupAnswered, Generated
  <2>8. Fits(p, a, hasNav')
    BY <2>3, <2>4, <2>6, <2>7, SMT DEF AtStep, Covered, PageFits, Fits
  <2> QED  BY <1>5, <2>1, <2>4, <2>6, <2>7, <2>8, Zenon
<1>8. ASSUME NEW j \in jobs, SetupBlocked(j)
      PROVE  Covered'
  <2>1. jobs' = Gone(jobs) /\ page' = NewPage("/") /\ ended' = "blocked" /\ hasNav' = NavAfter /\ route' = route
    BY <1>8, Zenon DEF SetupBlocked
  <2>2. page'.phase = "loading"
    BY <2>1, NewPageIs, Zenon
  <2>3. Idle(jobs')
    BY <1>0, <2>1, LeaveIs, SMT DEF Idle, Step
  <2>4. NavAfter
    BY SMT DEF NavAfter, Covered, PageFits, Fits
  <2>5. PageFits'
    BY <2>1, <2>2, <2>4, SMT DEF PageFits, Fits
  <2> QED  BY <2>3, <2>5, IdleFits, Zenon DEF Covered
<1>9. ASSUME NEW j \in jobs, EpAnswered(j)
      PROVE  Covered'
  <2> DEFINE x == IF EpTaken(j) THEN PlayerEp(j.account) ELSE page.ep
             q == [page EXCEPT !.ep = x]
             p == IF page.ep # 0 THEN q ELSE WithDecks(q, account)
  <2>1. Render(p, account, jobs \ {j}) /\ UNCHANGED <<route, wasm, connection, hasNav, waiting>> /\ j.kind = "ep"
    BY <1>9, Zenon DEF EpAnswered
  <2> HIDE DEF x
  <2>2. IsPage(q) /\ q.phase = page.phase
    BY <1>0, SMT DEF IsPage, PageFields
  <2> HIDE DEF q
  <2>3. IsPage(WithDecks(q, account)) /\ WithDecks(q, account).phase = q.phase
    BY <2>2, WithDecksKeeps, Zenon DEF SameButDecks
  <2>4. IsPage(p) /\ p.phase = page.phase
    BY <2>2, <2>3, SMT
  <2> HIDE DEF p
  <2>5. AreJobs(jobs \ {j})
    BY <1>0, JobsWithout, Zenon
  <2>6. Fits(p, account, hasNav')
    BY <2>1, <2>4, SMT DEF Covered, PageFits, Fits
  <2>7. /\ PageFits'
        /\ Idle(jobs') \/ (account' = account /\ page' = p /\ jobs' = jobs \ {j} /\ ended' = ended)
    BY <2>1, <2>4, <2>5, <2>6, RenderFits, SMT
  <2>8. CASE Idle(jobs')
    BY <2>7, <2>8, IdleFits, Zenon DEF Covered
  <2>9. CASE account' = account /\ page' = p /\ jobs' = jobs \ {j} /\ ended' = ended
    <3>1. Steady
      BY <2>1, <2>4, <2>9, SMT DEF Steady
    <3> QED  BY <2>9, <3>1, FewerKeepCovered, SMT
  <2> QED  BY <2>7, <2>8, <2>9, Zenon
\* One that does not change the phase
<1>10. ASSUME NEW j \in jobs, NEW k, k.kind = j.kind, Step(k) <=> Step(j), Steady,
              jobs' = Replace(j, k) \/ jobs' = jobs \ {j}
       PROVE  Covered'
  <2>1. \A i \in jobs' : Step(i) => i \in jobs \ {j} \/ i = k
    BY <1>10, SMT DEF Replace
  <2> QED  BY <1>10, <2>1, SteadyKeepsCovered, Zenon
<1>11. ASSUME NEW j \in jobs, RecordAnswered(j) \/ HealthWritten(j)
       PROVE  Covered'
  <2>1. jobs' = jobs \ {j} /\ UNCHANGED appVars
    BY <1>11, SMT DEF RecordAnswered, HealthWritten
  <2>2. page'.phase = page.phase
    BY <1>0, <1>11, SMT DEF RecordAnswered, HealthWritten, IsPage, PageFields
  <2>3. Steady
    BY <2>1, <2>2, SMT DEF Steady
  <2> QED  BY <2>1, <2>3, FewerKeepCovered, SMT
<1>12. ASSUME NEW j \in jobs, StartIncluded(j) \/ ShopIncluded(j)
       PROVE  Covered'
  <2>1. Steady
    BY <1>12, SMT DEF StartIncluded, ShopIncluded, Steady
  <2>2. Refused(j) \/ \E wants : Taken(j, wants)
    BY <1>12, Zenon DEF StartIncluded, ShopIncluded
  <2>3. \/ jobs' = jobs \ {j}
        \/ \E wants : jobs' = Replace(j, [j EXCEPT !.stage = "query", !.wants = wants])
    BY <2>2, Zenon DEF Refused, Taken
  <2>4. \A wants : LET k == [j EXCEPT !.stage = "query", !.wants = wants]
                   IN  k.kind = j.kind /\ (Step(k) <=> Step(j))
    BY <1>0, SameStep, Zenon DEF AreJobs
  <2> QED  BY <1>10, <2>1, <2>3, <2>4, Zenon
<1>13. ASSUME NEW j \in jobs, NEW what, StartAnswered(j, what)
       PROVE  Covered'
  <2>1. PICK m, wants :
          \/ /\ jobs' = Replace(j, [j EXCEPT !.match = m, !.wants = wants])
             /\ UNCHANGED <<account, hasNav, waiting, ended, page>>
          \/ OpenShop(j, m)
    BY <1>13, Zenon DEF StartAnswered
  <2>2. UNCHANGED <<route, wasm, connection>> /\ j.kind = "start"
    BY <1>13, SMT DEF StartAnswered
  <2>3. CASE /\ jobs' = Replace(j, [j EXCEPT !.match = m, !.wants = wants])
             /\ UNCHANGED <<account, hasNav, waiting, ended, page>>
    <3> DEFINE k == [j EXCEPT !.match = m, !.wants = wants]
    <3>1. k.kind = j.kind /\ (Step(k) <=> Step(j))
      BY <1>0, SameStep, Zenon DEF AreJobs
    <3> HIDE DEF k
    <3>2. Steady /\ jobs' = Replace(j, k)
      BY <2>2, <2>3, SMT DEF Steady, k
    <3> QED  BY <1>10, <3>1, <3>2, Zenon
  <2>4. CASE OpenShop(j, m)
    <3> DEFINE p == [page EXCEPT !.phase = "shop", !.match = m]
    <3>1. Live(j) /\ hasNav' = FALSE
      BY <1>20, <2>4, Zenon DEF OpenShop
    <3>2. Render(p, account, jobs \ {j})
      BY <2>4, <3>1, Zenon DEF OpenShop
    <3>3. p.phase = "shop"
      BY <1>0, SMT DEF IsPage, PageFields
    <3> HIDE DEF p
    <3>4. Step(j)
      BY <2>2, <3>1, SMT DEF Step, Steps, Covering
    <3>5. AtStep(j) /\ Idle(jobs \ {j})
      BY <1>6, <3>4, Zenon
    <3>6. Fits(p, account, hasNav')
      BY <2>2, <3>3, <3>5, SMT DEF AtStep, Fits
    <3>7. ~Crashes(p, account, connection)
      BY <2>2, <3>3, <3>5, SMT DEF Crashes, Shown, AtStep
    <3>8. jobs' = jobs \ {j} /\ page' = p /\ account' = account /\ ended' = ended
      BY <3>2, <3>7, Zenon DEF Render
    <3>9. PageFits'
      BY <2>2, <3>6, <3>8, SMT DEF PageFits, Fits
    <3>10. Idle(jobs')
      BY <3>5, <3>8, SMT
    <3> QED  BY <3>9, <3>10, IdleFits, Zenon DEF Covered
  <2> QED  BY <2>1, <2>3, <2>4
<1>14. ASSUME NEW j \in jobs, ShopAnswered(j)
       PROVE  Covered'
  <2>1. Step(j) /\ j.kind = "shop"
    BY <1>14, <1>20, Zenon DEF ShopAnswered, Step, Steps, Covering
  <2>2. AtStep(j) /\ Idle(jobs \ {j})
    BY <1>6, <2>1, Zenon
  <2>3. PICK m : page' = Battle(page, m)
    BY <1>14, <2>1, Zenon DEF ShopAnswered, Step
  <2>4. page'.phase = "battle"
    BY <1>0, <2>3, SMT DEF IsPage, PageFields, Battle
  <2>5. jobs' = jobs \ {j} /\ UNCHANGED <<route, wasm, connection, account, hasNav, ended>>
    BY <1>14, SMT DEF ShopAnswered
  <2>6. PageFits'
    BY <2>1, <2>2, <2>4, <2>5, SMT DEF AtStep, Covered, PageFits, Fits
  <2>7. Idle(jobs')
    BY <2>2, <2>5, SMT
  <2> QED  BY <2>6, <2>7, IdleFits, Zenon DEF Covered
<1>15. ASSUME NEW j \in jobs, ResultAnswered(j)
       PROVE  Covered'
  <2>1. Step(j) /\ j.kind = "result" /\ Live(j)
    BY <1>15, <1>20, Zenon DEF ResultAnswered, Step, Steps, Covering
  <2>2. AtStep(j) /\ Idle(jobs \ {j})
    BY <1>6, <2>1, Zenon
  <2>3. PICK x : page' = [page EXCEPT !.phase = "result", !.result = x]
    BY <1>15, <2>1, Zenon DEF ResultAnswered
  <2>4. page'.phase = "result"
    BY <1>0, <2>3, SMT DEF IsPage, PageFields
  <2>5. jobs' = LeaveBattle \ {j} /\ UNCHANGED <<route, wasm, connection, account, ended>> /\ hasNav' = TRUE
    BY <1>15, <2>1, SMT DEF ResultAnswered
  <2>6. PageFits'
    BY <2>1, <2>2, <2>4, <2>5, SMT DEF AtStep, Covered, PageFits, Fits
  <2>7. \A i \in LeaveBattle : Live(i) => i \in jobs
    BY <1>0, LeaveBattleIs, Zenon
  <2>8. Idle(jobs')
    BY <2>2, <2>5, <2>7, SMT DEF Idle, Step
  <2> QED  BY <2>6, <2>8, IdleFits, Zenon DEF Covered
<1>16. ASSUME NEW j \in jobs, TrialAnswered(j)
       PROVE  Covered'
  <2>1. Step(j) /\ j.kind = "trial" /\ Live(j)
    BY <1>16, <1>20, Zenon DEF TrialAnswered, Step, Steps
  <2>2. AtStep(j) /\ AreJobs(Readdress(NoAccount, jobs \ {j})) /\ Idle(Readdress(NoAccount, jobs \ {j}))
    BY <1>6, <2>1, Zenon
  <2>3. PICK s \in Seeds :
          LET match == [previousEp |-> INITIAL_EP, turn |-> 1, seed |-> s, health |-> Health, rivals |-> Rivals]
          IN  Render(IF Live(j) THEN [page EXCEPT !.phase = "shop", !.match = match] ELSE page,
                     NoAccount, Readdress(NoAccount, jobs \ {j}))
    BY <1>16, Zenon DEF TrialAnswered
  <2> DEFINE m == [previousEp |-> INITIAL_EP, turn |-> 1, seed |-> s, health |-> Health, rivals |-> Rivals]
             p == [page EXCEPT !.phase = "shop", !.match = m]
  <2>4. Render(p, NoAccount, Readdress(NoAccount, jobs \ {j}))
    BY <2>1, <2>3, Zenon
  <2>5. IsMatch(m)
    BY StakesAssumption, SMT DEF IsMatch, MatchFields
  <2> HIDE DEF m
  <2>6. IsPage(p) /\ p.phase = "shop"
    BY <1>0, <2>5, SMT DEF IsPage, PageFields, Phases
  <2> HIDE DEF p
  <2>7. route' = route /\ wasm' = wasm /\ connection' = connection /\ hasNav' = FALSE
    BY <1>16, SMT DEF TrialAnswered
  <2>8. Fits(p, NoAccount, hasNav')
    BY <2>1, <2>2, <2>6, <2>7, SMT DEF AtStep, Fits
  <2> QED  BY <1>5, <2>2, <2>4, <2>6, <2>7, <2>8, Zenon
<1>17. ASSUME BattlePlayed
       PROVE  Covered'
  <2>1. PICK k : /\ \E h : k = [Job("animation", account) EXCEPT !.stage = "grades", !.match.health = h]
                 /\ jobs' \subseteq jobs \cup {k}
    BY <1>17, Zenon DEF BattlePlayed
  <2>2. k.kind = "animation"
    BY <2>1, JobIs, SMT DEF IsJob, HasJobFields, JobFields
  <2>3. ~Step(k)
    BY <2>2, SMT DEF Step, Steps, Covering
  <2>6. \A i \in jobs' : Step(i) => i \in jobs
    BY <2>1, <2>3, Zenon
  <2>4. page'.phase = page.phase
    BY <1>0, <1>17, SMT DEF BattlePlayed, IsPage, PageFields
  <2>5. Steady
    BY <1>17, <2>4, SMT DEF BattlePlayed, Steady
  <2> QED  BY <2>5, <2>6, FewerKeepCovered, Zenon
<1>18. ASSUME NEW j \in jobs, BoxesFound(j)
       PROVE  Covered'
  <2> DEFINE k == [j EXCEPT !.stage = "boxes"]
  <2>1. jobs' = Replace(j, k) \/ jobs' = jobs \ {j}
    BY <1>18, Zenon DEF BoxesFound
  <2>2. k.kind = j.kind /\ (Step(k) <=> Step(j))
    BY <1>0, SameStep, Zenon DEF AreJobs
  <2> HIDE DEF k
  <2>3. Steady
    BY <1>18, SMT DEF BoxesFound, Steady
  <2> QED  BY <1>10, <2>1, <2>2, <2>3, Zenon
<1>19. ASSUME NEW j, Lost(j) \/ Fault(j)
       PROVE  Covered'
  <2>1. Steady /\ jobs' = jobs \ {j}
    BY <1>19, SMT DEF Lost, Fault, QueryFails, Steady
  <2> QED  BY <2>1, FewerKeepCovered, SMT
<1>21. Covered'
  BY <1>2, <1>3, <1>4, <1>7, <1>8, <1>9, <1>11, <1>12, <1>13, <1>14, <1>15, <1>16, <1>17, <1>18, <1>19, Zenon
     DEF Answer, Failure
<1> QED  BY <1>21

\* An answer that took effect too late is never taken back
LEMMA LateStays ==
  ASSUME Next, late
  PROVE  late'
<1> USE DEF appVars, linkVars, modalVars, frameRest, storageVars, chainVars, matchVars, history, txRest
<1>1. ASSUME NEW id, Go(id) PROVE late'
  BY <1>1, Zenon DEF Go
<1>2. ASSUME NEW id, Reload(id) PROVE late'
  BY <1>2, Zenon DEF Reload
<1>3. ASSUME NEW a, SwitchAccount(a) PROVE late'
  BY <1>3, Zenon DEF SwitchAccount
<1>4. ASSUME NEW a, EditElsewhere(a) PROVE late'
  BY <1>4, Zenon DEF EditElsewhere
<1>5. ASSUME NEW a, PlayElsewhere(a) PROVE late'
  BY <1>5, Zenon DEF PlayElsewhere
<1>6. ASSUME NEW i, SelectDeck(i) PROVE late'
  BY <1>6, Zenon DEF SelectDeck, EditDecks
<1>7. ASSUME NEW i, DiscardDeck(i) PROVE late'
  BY <1>7, Zenon DEF DiscardDeck, EditDecks
<1>8. ASSUME NEW j, NEW signed, PopupClosed(j, signed) PROVE late'
  BY <1>8, Zenon DEF PopupClosed
<1>9. ASSUME SaveDeck PROVE late'
  BY <1>9, Zenon DEF SaveDeck, EditDecks
<1>10. ASSUME Start PROVE late'
  BY <1>10, Zenon DEF Start, Click
<1>11. ASSUME FinishShop PROVE late'
  BY <1>11, Zenon DEF FinishShop, Click
<1>12. ASSUME FinishTrialShop PROVE late'
  BY <1>12, Zenon DEF FinishTrialShop, Click
<1>13. ASSUME NextTurn PROVE late'
  BY <1>13, Zenon DEF NextTurn, Click
<1>14. ASSUME FinishMatch PROVE late'
  BY <1>14, Zenon DEF FinishMatch, Click
<1>15. ASSUME FinishTrial PROVE late'
  BY <1>15, Zenon DEF FinishTrial, Click
<1>16. ASSUME PlayAgain PROVE late'
  BY <1>16, Zenon DEF PlayAgain, Click
<1>17. ASSUME ReleaseBases PROVE late'
  BY <1>17, Zenon DEF ReleaseBases
<1>18. ASSUME WasmReady PROVE late'
  BY <1>18, Zenon DEF WasmReady
<1>19. ASSUME NEW k, LinkAnswers(k) PROVE late'
  BY <1>19, Zenon DEF LinkAnswers
<1>20. ASSUME NEW k, BasesAnswer(k) PROVE late'
  BY <1>20, Zenon DEF BasesAnswer
<1>21. ASSUME BattlePlayed PROVE late'
  BY <1>21, Zenon DEF BattlePlayed
<1>22. ASSUME NEW j, SetupAnswered(j) PROVE late'
  BY <1>22, Zenon DEF SetupAnswered
<1>23. ASSUME NEW j, EpAnswered(j) PROVE late'
  BY <1>23, Zenon DEF EpAnswered
<1>24. ASSUME NEW j, RecordAnswered(j) PROVE late'
  BY <1>24, Zenon DEF RecordAnswered
<1>25. ASSUME NEW j, Generated(j) PROVE late'
  BY <1>25, Zenon DEF Generated
<1>26. ASSUME NEW j, TrialAnswered(j) PROVE late'
  BY <1>26, Zenon DEF TrialAnswered
<1>27. ASSUME NEW j, StartIncluded(j) PROVE late'
  BY <1>27, Zenon DEF StartIncluded
<1>28. ASSUME NEW j, ShopIncluded(j) PROVE late'
  BY <1>28, Zenon DEF ShopIncluded
<1>29. ASSUME NEW j, ShopAnswered(j) PROVE late'
  BY <1>29, Zenon DEF ShopAnswered
<1>30. ASSUME NEW j, ResultAnswered(j) PROVE late'
  BY <1>30, Zenon DEF ResultAnswered
<1>31. ASSUME NEW j, BoxesFound(j) PROVE late'
  BY <1>31, Zenon DEF BoxesFound
<1>32. ASSUME NEW j, HealthWritten(j) PROVE late'
  BY <1>32, Zenon DEF HealthWritten
<1>33. ASSUME NEW j, SetupBlocked(j) PROVE late'
  BY <1>33, Zenon DEF SetupBlocked
<1>34. ASSUME NEW j, NEW what, StartAnswered(j, what) PROVE late'
  BY <1>34, Zenon DEF StartAnswered, OpenShop
<1>35. ASSUME NEW j, Lost(j) PROVE late'
  BY <1>35, Zenon DEF Lost, QueryFails
<1>36. ASSUME NEW j, Fault(j) PROVE late'
  BY <1>36, Zenon DEF Fault, QueryFails
<1> QED  BY <1>1, <1>2, <1>3, <1>4, <1>5, <1>6, <1>7, <1>8, <1>9, <1>10, <1>11, <1>12, <1>13, <1>14,
             <1>15, <1>16, <1>17, <1>18, <1>19, <1>20, <1>21, <1>22, <1>23, <1>24, <1>25, <1>26,
             <1>27, <1>28, <1>29, <1>30, <1>31, <1>32, <1>33, <1>34, <1>35, <1>36, Zenon DEF Next,
             Player, Answer, Failure

LEMMA CoveredInit == Init => Covered
<1> SUFFICES ASSUME Init PROVE Covered
  OBVIOUS
<1>1. /\ jobs = {} /\ page = NewPage(route) /\ hasNav = TRUE
  BY Zenon DEF Init, AppInit
<1>2. page.phase = IF route = "/match" THEN "setup" ELSE "loading"
  BY <1>1, NewPageIs, Zenon
<1> QED  BY <1>1, <1>2, SMT DEF Covered, StepsFit, PageFits, Fits

LEMMA CoveredStep ==
  ASSUME LinksCoherent, Typed, late \/ Covered, [Next]_vars
  PROVE  late' \/ Covered'
<1>1. CASE Next
  <2>1. CASE late
    BY <1>1, <2>1, LateStays, Zenon
  <2>2. CASE Covered
    BY <1>1, <2>2, PlayerCovered, AnswerCovered, Zenon DEF Next
  <2> QED  BY <2>1, <2>2
<1>2. CASE UNCHANGED vars
  <2>1. late' = late /\ jobs' = jobs /\ page' = page /\ UNCHANGED appVars
    BY <1>2, SMT DEF vars, history
  <2>2. Steady
    BY <2>1, SMT DEF Steady, appVars, linkVars, modalVars
  <2>3. late => late'
    BY <2>1, Zenon
  <2>4. Covered => Covered'
    BY <2>1, <2>2, FewerKeepCovered, SMT
  <2> QED  BY <2>3, <2>4, Zenon
<1> QED  BY <1>1, <1>2

\* The navigation bar is hidden during a match only (setHasNav of the frame): a page
\* that is left shows it again, and only an answer that came after its page was gone can
\* hide it on another one
THEOREM NavIsShown == Spec => []NavShown
<1>1. Init => LinksCoherent /\ Typed /\ (late \/ Covered)
  BY LinksCoherentInit, TypedInit, CoveredInit
<1>2. LinksCoherent /\ Typed /\ (late \/ Covered) /\ [Next]_vars => (LinksCoherent /\ Typed /\ (late \/ Covered))'
  BY LinksCoherentStep, TypedStep, CoveredStep
<1>3. (late \/ Covered) => NavShown
  BY Zenon DEF Covered, PageFits, Fits, NavShown
<1> QED  BY <1>1, <1>2, <1>3, PTL DEF Spec

\* The waiting modal covers the page while the setup, a transaction or the result is
\* awaited (withToggleAsync): it is one thing at a time, asked for where the modal is not
\* shown, and it is the answer that hides the modal
THEOREM WaitingModalCovers == Spec => []WaitingCovers
<1>1. Init => LinksCoherent /\ Typed /\ (late \/ Covered)
  BY LinksCoherentInit, TypedInit, CoveredInit
<1>2. LinksCoherent /\ Typed /\ (late \/ Covered) /\ [Next]_vars => (LinksCoherent /\ Typed /\ (late \/ Covered))'
  BY LinksCoherentStep, TypedStep, CoveredStep
<1>3. ASSUME Covered, NEW j \in jobs, Live(j), j.kind \in {"setup", "generate", "start", "shop", "result"}
      PROVE  waiting
  <2>1. Step(j) /\ j.kind # "trial"
    BY <1>3, SMT DEF Step, Steps, Covering
  <2> QED  BY <1>3, <2>1, Zenon DEF Covered, StepsFit, AtStep
<1>4. (late \/ Covered) => WaitingCovers
  BY <1>3, Zenon DEF WaitingCovers, Pending
<1> QED  BY <1>1, <1>2, <1>4, PTL DEF Spec

--------------------------------------------------------------------------------
(* The health shown after a lost battle *)

Anim(j) == Live(j) /\ j.kind = "animation"

\* Of a job that the page awaits, the stages tell an animation from what is asked for
Plain(j) == Live(j) => j.kind # "animation" /\ j.stage \notin {"grades", "boxes"}

\* An animation of the battle shown, which writes what the fight leaves
AnimFits(j) ==
  /\ page.phase = "battle" /\ page.played /\ page.match.seed # "won"
  /\ FinalPlace(page.match) = 0 => j.match.health = HealthToWrite(page.match)

\* The health is shown already where no animation is left to write it
HealthFits ==
  /\ \A j \in jobs : Live(j) => (j.kind = "animation" <=> j.stage \in {"grades", "boxes"})
  /\ \A j \in jobs : Anim(j) => AnimFits(j)
  /\ /\ page.phase = "battle" /\ page.played /\ page.match.seed = "lost" /\ FinalPlace(page.match) = 0
     /\ ~\E j \in jobs : Anim(j)
     => page.health = HealthToWrite(page.match)

LEMMA PlainOffBattle ==
  ASSUME HealthFits, page.phase # "battle" \/ ~page.played
  PROVE  \A j \in jobs : Plain(j)
BY Zenon DEF HealthFits, Anim, AnimFits, Plain

LEMMA OffBattleFits ==
  ASSUME page'.phase # "battle" \/ ~page'.played, \A j \in jobs' : Plain(j)
  PROVE  HealthFits'
BY Zenon DEF HealthFits, Anim, AnimFits, Plain, Live

\* Nothing that is shown of a battle moves
SameBattle ==
  page'.phase = page.phase /\ page'.played = page.played /\ page'.match = page.match /\ page'.health = page.health

LEMMA SameBattleFits ==
  ASSUME HealthFits, SameBattle,
         \A i \in jobs' : i \in jobs \/ Plain(i),
         \A i \in jobs : i \in jobs' \/ Plain(i)
  PROVE  HealthFits'
<1>1. \A i : AnimFits(i) => AnimFits(i)'
  BY SMT DEF AnimFits, SameBattle, HealthToWrite, FinalPlace
<1>2. (\E i \in jobs : Anim(i)) => \E i \in jobs' : Anim(i)
  BY Zenon DEF Anim, Plain
<1>3. \A i \in jobs' : Live(i) => (i.kind = "animation" <=> i.stage \in {"grades", "boxes"})
  BY Zenon DEF HealthFits, Plain
<1>4. \A i \in jobs' : Anim(i) => AnimFits(i)
  BY Zenon DEF HealthFits, Plain, Anim
<1>5. /\ page'.phase = "battle" /\ page'.played /\ page'.match.seed = "lost" /\ FinalPlace(page'.match) = 0
      /\ ~\E i \in jobs' : Anim(i)
      => page'.health = HealthToWrite(page'.match)
  BY <1>2, SMT DEF HealthFits, SameBattle
<1> QED  BY <1>1, <1>3, <1>4, <1>5, Zenon DEF HealthFits, Anim, Live

\* The jobs that are added, and those that are moved about
LEMMA PlainJobs ==
  ASSUME AreJobs(jobs)
  PROVE  /\ \A kind, a : kind # "animation" => Plain(Job(kind, a))
         /\ \A a : \A j \in AddressQueries(a) : Plain(j)
         /\ \A id, c, w, a : \A j \in Opening(id, c, w, a) : Plain(j)
         /\ \A j \in Leave(jobs) \cup Gone(jobs) : Plain(j)
         /\ (\A j \in jobs : Anim(j) \/ Plain(j)) => \A j \in LeaveBattle : Plain(j)
<1>1. \A kind, a : kind # "animation" => Plain(Job(kind, a))
  BY JobIs, SMT DEF Plain
<1>2. \A a : \A j \in AddressQueries(a) : Plain(j)
  BY <1>1, SMT DEF AddressQueries
<1>3. ASSUME NEW id, NEW c, NEW w, NEW a, NEW j \in Opening(id, c, w, a)
      PROVE  Plain(j)
  <2>1. PICK kind \in {"setup", "ep", "record", "trial"} : j = [Job(kind, a) EXCEPT !.over = c]
    BY <1>3, Zenon DEF Opening, AddressQueries
  <2> QED  BY <2>1, JobIs, SMT DEF Plain, IsJob, HasJobFields, JobFields
<1>4. \A j \in Leave(jobs) \cup Gone(jobs) : Plain(j)
  BY LeaveIs, Zenon DEF Plain
<1>5. ASSUME \A j \in jobs : Anim(j) \/ Plain(j), NEW j \in LeaveBattle
      PROVE  Plain(j)
  <2>1. Live(j) => j \in jobs /\ j.kind # "animation"
    BY LeaveBattleIs, Zenon
  <2> QED  BY <1>5, <2>1, Zenon DEF Plain, Anim
<1> QED  BY <1>1, <1>2, <1>3, <1>4, <1>5, Zenon

\* The player moves
LEMMA PlayerHealth ==
  ASSUME Typed, Covered, HealthFits, Player
  PROVE  HealthFits'
<1> USE DEF appVars, linkVars, modalVars, frameRest, storageVars, chainVars, matchVars, history
<1>0. IsPage(page) /\ AreJobs(jobs)
  BY DEF Typed
\* A page is left or mounted, or a battle ends
<1>1. ASSUME NEW id, Go(id)
      PROVE  HealthFits'
  <2>1. page' = NewPage(id) /\ jobs' = Leave(jobs) \cup Opening(id, connection', wasm, account')
    BY <1>1, Zenon DEF Go
  <2>2. ~page'.played
    BY <2>1, NewPageIs, Zenon
  <2>3. \A j \in jobs' : Plain(j)
    BY <1>0, <2>1, PlainJobs, SMT
  <2> QED  BY <2>2, <2>3, OffBattleFits, Zenon
<1>2. ASSUME NEW id, Reload(id)
      PROVE  HealthFits'
  <2>1. page' = NewPage(id) /\ jobs' = Gone(jobs)
    BY <1>2, Zenon DEF Reload
  <2>2. ~page'.played
    BY <2>1, NewPageIs, Zenon
  <2>3. \A j \in jobs' : Plain(j)
    BY <1>0, <2>1, PlainJobs, SMT
  <2> QED  BY <2>2, <2>3, OffBattleFits, Zenon
<1>3. ASSUME PlayAgain
      PROVE  HealthFits'
  <2>1. page' = NewPage(route) /\ jobs' = jobs \cup Opening(route, connection, wasm, account) /\ page.phase = "result"
    BY <1>3, Zenon DEF PlayAgain, Click
  <2>2. ~page'.played
    BY <2>1, NewPageIs, Zenon
  <2>3. \A j \in jobs : Plain(j)
    BY <2>1, PlainOffBattle, SMT
  <2>4. \A j \in jobs' : Plain(j)
    BY <1>0, <2>1, <2>3, PlainJobs, SMT
  <2> QED  BY <2>2, <2>4, OffBattleFits, Zenon
<1>4. \A j \in LeaveBattle : Plain(j)
  <2>1. \A j \in jobs : Anim(j) \/ Plain(j)
    BY Zenon DEF HealthFits, Anim, Plain
  <2> QED  BY <1>0, <2>1, PlainJobs, Zenon
<1>5. ASSUME NextTurn \/ FinishTrial
      PROVE  HealthFits'
  <2>1. jobs' = LeaveBattle
    BY <1>5, Zenon DEF NextTurn, FinishTrial, Click
  <2>2. PICK m, x : \/ page' = [page EXCEPT !.phase = "shop", !.match = m]
                    \/ page' = [page EXCEPT !.phase = "result", !.match = m, !.result = x]
    BY <1>5, Zenon DEF NextTurn, FinishTrial, Click
  <2>3. page'.phase # "battle"
    <3> DEFINE shop == [page EXCEPT !.phase = "shop", !.match = m]
               result == [page EXCEPT !.phase = "result", !.match = m, !.result = x]
    <3>1. page' = shop \/ page' = result
      BY <2>2
    <3>2. shop.phase = "shop" /\ result.phase = "result"
      BY <1>0, SMT DEF IsPage, PageFields
    <3> HIDE DEF shop, result
    <3> QED  BY <3>1, <3>2, SMT
  <2>4. \A j \in jobs' : Plain(j)
    BY <1>4, <2>1, SMT
  <2> QED  BY <2>3, <2>4, OffBattleFits, Zenon
\* A battle starts
<1>6. ASSUME FinishTrialShop
      PROVE  HealthFits'
  <2>1. PICK m : page' = Battle(page, m) /\ jobs' = jobs
    BY <1>6, Zenon DEF FinishTrialShop, Click
  <2>2. ~page'.played
    BY <1>0, <2>1, SMT DEF IsPage, PageFields, Battle
  <2>3. page.phase = "shop"
    BY <1>6, Zenon DEF FinishTrialShop
  <2>4. \A j \in jobs : Plain(j)
    BY <2>3, PlainOffBattle, SMT
  <2>5. \A j \in jobs' : Plain(j)
    BY <2>1, <2>4, SMT
  <2> QED  BY <2>2, <2>5, OffBattleFits, Zenon
\* The last battle ends
<1>7. ASSUME FinishMatch
      PROVE  HealthFits'
  <2> DEFINE m == Fought(page.match)
             m2 == FinishBattle(page.match).match
  <2>1. m2 = m /\ FinalPlace(m) # 0
    BY <1>7, SMT DEF FinishMatch, FinishBattle, FrontPlace
  <2>2. PICK k, place : /\ k = [Job("result", account) EXCEPT !.match = m2, !.place = place]
                        /\ jobs' = jobs \cup {k}
    BY <1>7, Zenon DEF FinishMatch, Click
  <2>3. page' = [page EXCEPT !.match = m2, !.health = m2.health]
    BY <1>7, Zenon DEF FinishMatch, Click
  <2>4. Plain(k)
    BY <2>2, JobIs, SMT DEF Plain, IsJob, HasJobFields, JobFields
  <2>5. m.seed = page.match.seed
    BY <1>0, SMT DEF Fought, IsPage, IsMatch, MatchFields
  <2> HIDE DEF m, m2
  <2>6. page'.phase = page.phase /\ page'.played = page.played /\ page'.match = m
    BY <1>0, <2>1, <2>3, SMT DEF IsPage, PageFields
  <2>7. \A i : AnimFits(i) => AnimFits(i)'
    BY <2>1, <2>5, <2>6, SMT DEF AnimFits
  <2>8. \A i \in jobs' : i \in jobs \/ Plain(i)
    BY <2>2, <2>4, SMT
  <2>9. \A i \in jobs' : Live(i) => (i.kind = "animation" <=> i.stage \in {"grades", "boxes"})
    BY <2>8, Zenon DEF HealthFits, Plain
  <2>10. \A i \in jobs' : Anim(i) => AnimFits(i)'
    BY <2>7, <2>8, Zenon DEF HealthFits, Plain, Anim
  <2>11. FinalPlace(page'.match) # 0
    BY <2>1, <2>6, SMT
  <2> QED  BY <2>9, <2>10, <2>11, Zenon DEF HealthFits, Anim, Live
\* A click that asks for what the modal covers, and what concerns no battle
<1>8. ASSUME SameBattle, NEW k, Plain(k), jobs' = jobs \cup {k}
      PROVE  HealthFits'
  <2>1. (\A i \in jobs' : i \in jobs \/ Plain(i)) /\ \A i \in jobs : i \in jobs'
    BY <1>8, SMT
  <2> QED  BY <1>8, <2>1, SameBattleFits, Zenon
<1>9. ASSUME NEW a, SwitchAccount(a)
      PROVE  HealthFits'
  <2>1. SameBattle /\ jobs' = jobs \cup {Job("generate", a)}
    BY <1>9, SMT DEF SwitchAccount, SameBattle
  <2>2. Plain(Job("generate", a))
    BY <1>0, PlainJobs, SMT
  <2> QED  BY <1>8, <2>1, <2>2, Zenon
<1>10. ASSUME Start
       PROVE  HealthFits'
  <2>1. PICK k, x : /\ k = [Job("start", account) EXCEPT !.stage = "popup", !.deck = x, !.match.previousEp = page.ep]
                    /\ jobs' = jobs \cup {k}
    BY <1>10, Zenon DEF Start, Click
  <2>2. Plain(k)
    BY <2>1, JobIs, SMT DEF Plain, IsJob, HasJobFields, JobFields
  <2>3. SameBattle
    BY <1>0, <1>10, SMT DEF IsPage, PageFields, Start, Click, SameBattle
  <2> QED  BY <1>8, <2>1, <2>2, <2>3, Zenon
<1>11. ASSUME FinishShop
       PROVE  HealthFits'
  <2>1. PICK k : /\ k = [Job("shop", account) EXCEPT !.stage = "popup", !.match = page.match]
                 /\ jobs' = jobs \cup {k}
    BY <1>11, Zenon DEF FinishShop, Click
  <2>2. Plain(k)
    BY <2>1, JobIs, SMT DEF Plain, IsJob, HasJobFields, JobFields
  <2>3. SameBattle
    BY <1>11, SMT DEF FinishShop, Click, SameBattle
  <2> QED  BY <1>8, <2>1, <2>2, <2>3, Zenon
<1>12. ASSUME SameBattle, jobs' = jobs
       PROVE  HealthFits'
  <2>1. (\A i \in jobs' : i \in jobs) /\ \A i \in jobs : i \in jobs'
    BY <1>12, SMT
  <2> QED  BY <1>12, <2>1, SameBattleFits, Zenon
<1>13. ASSUME NEW a, EditElsewhere(a) \/ PlayElsewhere(a)
       PROVE  HealthFits'
  BY <1>12, <1>13, SMT DEF EditElsewhere, PlayElsewhere, SameBattle
<1>14. ASSUME ReleaseBases
       PROVE  HealthFits'
  BY <1>12, <1>14, SMT DEF ReleaseBases, SameBattle
<1>15. ASSUME EditDecks, Edited
       PROVE  HealthFits'
  <2>1. PICK x, y : page' = [page EXCEPT !.decks = x, !.index = y]
    BY <1>15, Zenon DEF Edited
  <2>2. SameBattle
    BY <1>0, <2>1, SMT DEF IsPage, PageFields, SameBattle
  <2> QED  BY <1>12, <1>15, <2>2, SMT DEF EditDecks
<1>16. ASSUME NEW i, SelectDeck(i) \/ DiscardDeck(i)
       PROVE  HealthFits'
  BY <1>15, <1>16, Zenon DEF SelectDeck, DiscardDeck
<1>17. ASSUME SaveDeck
       PROVE  HealthFits'
  BY <1>15, <1>17, Zenon DEF SaveDeck
<1>18. ASSUME NEW j \in jobs, NEW signed, PopupClosed(j, signed)
       PROVE  HealthFits'
  <2> DEFINE k == [j EXCEPT !.stage = "submitted"]
  <2>1. (jobs' = Replace(j, k) \/ jobs' = jobs \ {j}) /\ j.stage = "popup"
    BY <1>18, Zenon DEF PopupClosed
  <2>2. k.kind = j.kind /\ k.owner = j.owner /\ k.stage = "submitted"
    BY <1>0, SMT DEF AreJobs, IsJob, HasJobFields, JobFields
  <2> HIDE DEF k
  <2>3. Plain(j) /\ Plain(k)
    BY <2>1, <2>2, SMT DEF HealthFits, Plain, Live
  <2>4. SameBattle
    BY <1>18, SMT DEF PopupClosed, SameBattle
  <2>5. (\A i \in jobs' : i \in jobs \/ Plain(i)) /\ \A i \in jobs : i \in jobs' \/ Plain(i)
    BY <2>1, <2>3, SMT DEF Replace
  <2> QED  BY <2>4, <2>5, SameBattleFits, Zenon
<1>19. HealthFits'
  BY <1>1, <1>2, <1>3, <1>5, <1>6, <1>7, <1>9, <1>10, <1>11, <1>13, <1>14, <1>16, <1>17, <1>18, Zenon DEF Player
<1> QED  BY <1>19

\* What was asked is answered, or fails
LEMMA AnswerHealth ==
  ASSUME LinksCoherent, Typed, Covered, HealthFits, Answer \/ Failure, ~late'
  PROVE  HealthFits'
<1> USE DEF appVars, linkVars, modalVars, frameRest, storageVars, chainVars, matchVars, history, txRest
<1>0. IsPage(page) /\ AreJobs(jobs)
  BY DEF Typed
<1>20. ASSUME NEW j, late' = (late \/ ~Live(j))
       PROVE  Live(j)
  BY <1>20, Zenon
\* Outside battles
<1>1. ASSUME SameBattle, \A i \in jobs' : i \in jobs \/ Plain(i), \A i \in jobs : i \in jobs'
      PROVE  HealthFits'
  BY <1>1, SameBattleFits, Zenon
<1>2. ASSUME WasmReady
      PROVE  HealthFits'
  <2>1. SameBattle
    BY <1>2, SMT DEF WasmReady, SameBattle
  <2>2. jobs' = jobs \/ jobs' = jobs \cup Opening(route, connection, TRUE, account)
    BY <1>2, SMT DEF WasmReady, Mounted
  <2>3. (\A i \in jobs' : i \in jobs \/ Plain(i)) /\ \A i \in jobs : i \in jobs'
    <3> DEFINE opened == Opening(route, connection, TRUE, account)
    <3>1. jobs' = jobs \/ jobs' = jobs \cup opened
      BY <2>2
    <3>2. \A i \in opened : Plain(i)
      BY <1>0, PlainJobs, Zenon
    <3> HIDE DEF opened
    <3> QED  BY <3>1, <3>2, SMT
  <2> QED  BY <1>1, <2>1, <2>3, Zenon
<1>3. ASSUME NEW c, BasesAnswer(c)
      PROVE  HealthFits'
  <2>1. SameBattle
    BY <1>3, SMT DEF BasesAnswer, SameBattle
  <2>2. jobs' = jobs \/ \E w : jobs' = jobs \cup Opening(route, c, w, account)
    BY <1>3, SMT DEF BasesAnswer, Mounted
  <2>3. (\A i \in jobs' : i \in jobs \/ Plain(i)) /\ \A i \in jobs : i \in jobs'
    BY <1>0, <2>2, PlainJobs, SMT
  <2> QED  BY <1>1, <2>1, <2>3, Zenon
<1>4. ASSUME NEW c, LinkAnswers(c)
      PROVE  HealthFits'
  <2>1. SameBattle /\ jobs' = jobs
    BY <1>4, SMT DEF LinkAnswers, SameBattle
  <2> QED  BY <1>1, <2>1, SMT
\* One job is answered, and the page is rendered without battle
<1>5. ASSUME page.phase # "battle", NEW j
      PROVE  \A i \in jobs \ {j} : Plain(i)
  BY <1>5, PlainOffBattle, Zenon
<1>6. ASSUME page.phase # "battle", NEW j, NEW a
      PROVE  AreJobs(Readdress(a, jobs \ {j})) /\ \A i \in Readdress(a, jobs \ {j}) : Plain(i)
  <2>1. AreJobs(jobs \ {j})
    BY <1>0, JobsWithout, Zenon
  <2>2. /\ AreJobs(Readdress(a, jobs \ {j}))
        /\ \A i \in Readdress(a, jobs \ {j}) : Live(i) => i \in jobs \ {j} \/ i \in AddressQueries(a)
    BY <2>1, ReaddressIs, Zenon
  <2>3. \A i \in AddressQueries(a) : Plain(i)
    BY <1>0, PlainJobs, Zenon
  <2> QED  BY <1>5, <1>6, <2>2, <2>3, Zenon DEF Plain
<1>7. ASSUME NEW p, NEW a, NEW js, IsPage(p), AreJobs(js), Render(p, a, js), p.phase # "battle",
             \A i \in js : Plain(i)
      PROVE  HealthFits'
  <2>1. (page' = p /\ jobs' = js) \/ (page' = NewPage("/") /\ jobs' = Gone(js))
    BY <1>7, RenderEither, Zenon
  <2>2. NewPage("/").phase # "battle"
    BY NewPageIs, SMT
  <2>3. \A i \in Gone(js) : Plain(i)
    BY <1>7, LeaveIs, Zenon DEF Plain
  <2>4. page'.phase # "battle" /\ \A i \in jobs' : Plain(i)
    BY <1>7, <2>1, <2>2, <2>3, SMT
  <2> QED  BY <2>4, OffBattleFits, Zenon
<1>8. ASSUME NEW j \in jobs, Step(j)
      PROVE  AtStep(j)
  BY <1>8, AnsweredIsIdle, Zenon
<1>9. ASSUME NEW j \in jobs, SetupAnswered(j) \/ Generated(j)
      PROVE  HealthFits'
  <2>1. PICK p, a : /\ Render(p, a, Readdress(a, jobs \ {j}))
                    /\ \/ p = WithDecks(page, a)
                       \/ p = WithDecks([page EXCEPT !.built = release], a)
    BY <1>9, Zenon DEF SetupAnswered, Generated
  <2>2. Step(j)
    BY <1>9, <1>20, Zenon DEF SetupAnswered, Generated, Step, Steps, Covering
  <2>3. j.kind \in {"setup", "generate"}
    BY <1>9, SMT DEF SetupAnswered, Generated
  <2>4. page.phase = "setup" /\ page.phase # "battle"
    BY <1>8, <2>2, <2>3, SMT DEF AtStep
  <2>5. IsPage([page EXCEPT !.built = release]) /\ [page EXCEPT !.built = release].phase = page.phase
    BY <1>0, SMT DEF LinksCoherent, IsPage, PageFields
  <2>6. /\ IsPage(WithDecks(page, a)) /\ WithDecks(page, a).phase = page.phase
        /\ IsPage(WithDecks([page EXCEPT !.built = release], a))
        /\ WithDecks([page EXCEPT !.built = release], a).phase = [page EXCEPT !.built = release].phase
    BY <1>0, <2>5, WithDecksKeeps, Zenon DEF SameButDecks
  <2>7. IsPage(p) /\ p.phase # "battle"
    BY <2>1, <2>4, <2>5, <2>6, SMT
  <2>8. AreJobs(Readdress(a, jobs \ {j})) /\ \A i \in Readdress(a, jobs \ {j}) : Plain(i)
    BY <1>6, <2>4, Zenon
  <2> QED  BY <1>7, <2>1, <2>7, <2>8, Zenon
<1>10. ASSUME NEW j \in jobs, TrialAnswered(j)
       PROVE  HealthFits'
  <2>1. Step(j) /\ j.kind = "trial" /\ Live(j)
    BY <1>10, <1>20, Zenon DEF TrialAnswered, Step, Steps
  <2>2. page.phase # "battle"
    BY <1>8, <2>1, SMT DEF AtStep
  <2>3. PICK s \in Seeds :
          LET match == [previousEp |-> INITIAL_EP, turn |-> 1, seed |-> s, health |-> Health, rivals |-> Rivals]
          IN  Render(IF Live(j) THEN [page EXCEPT !.phase = "shop", !.match = match] ELSE page,
                     NoAccount, Readdress(NoAccount, jobs \ {j}))
    BY <1>10, Zenon DEF TrialAnswered
  <2> DEFINE m == [previousEp |-> INITIAL_EP, turn |-> 1, seed |-> s, health |-> Health, rivals |-> Rivals]
             p == [page EXCEPT !.phase = "shop", !.match = m]
  <2>4. Render(p, NoAccount, Readdress(NoAccount, jobs \ {j}))
    BY <2>1, <2>3, Zenon
  <2>5. IsMatch(m)
    BY StakesAssumption, SMT DEF IsMatch, MatchFields
  <2> HIDE DEF m
  <2>6. IsPage(p) /\ p.phase # "battle"
    BY <1>0, <2>5, SMT DEF IsPage, PageFields, Phases
  <2> HIDE DEF p
  <2>7. AreJobs(Readdress(NoAccount, jobs \ {j})) /\ \A i \in Readdress(NoAccount, jobs \ {j}) : Plain(i)
    BY <1>6, <2>2, Zenon
  <2> QED  BY <1>7, <2>4, <2>6, <2>7, Zenon
<1>11. ASSUME NEW j \in jobs, SetupBlocked(j)
       PROVE  HealthFits'
  <2>1. jobs' = Gone(jobs) /\ page' = NewPage("/")
    BY <1>11, Zenon DEF SetupBlocked
  <2>2. ~page'.played
    BY <2>1, NewPageIs, Zenon
  <2>3. \A i \in jobs' : Plain(i)
    BY <1>0, <2>1, PlainJobs, SMT
  <2> QED  BY <2>2, <2>3, OffBattleFits, Zenon
\* One job is answered, or moves on, and no battle is concerned
<1>12. ASSUME NEW j \in jobs, Plain(j), NEW k, Plain(k), SameBattle, jobs' = Replace(j, k) \/ jobs' = jobs \ {j}
       PROVE  HealthFits'
  <2>1. (\A i \in jobs' : i \in jobs \/ Plain(i)) /\ \A i \in jobs : i \in jobs' \/ Plain(i)
    BY <1>12, SMT DEF Replace
  <2> QED  BY <1>12, <2>1, SameBattleFits, Zenon
<1>13. ASSUME NEW j \in jobs, j.kind # "animation" \/ j.stage = "query"
       PROVE  Plain(j)
  BY <1>13, SMT DEF HealthFits, Plain
<1>14. ASSUME NEW j \in jobs, EpAnswered(j)
       PROVE  HealthFits'
  <2> DEFINE x == IF EpTaken(j) THEN PlayerEp(j.account) ELSE page.ep
             q == [page EXCEPT !.ep = x]
             p == IF page.ep # 0 THEN q ELSE WithDecks(q, account)
  <2>1. Render(p, account, jobs \ {j}) /\ j.kind = "ep"
    BY <1>14, Zenon DEF EpAnswered
  <2> HIDE DEF x
  <2>2. IsPage(q) /\ q.phase = page.phase /\ q.played = page.played /\ q.match = page.match /\ q.health = page.health
    BY <1>0, SMT DEF IsPage, PageFields
  <2> HIDE DEF q
  <2>3. IsPage(WithDecks(q, account)) /\ SameButDecks(WithDecks(q, account), q)
    BY <2>2, WithDecksKeeps, Zenon
  <2>4. IsPage(p) /\ p.phase = page.phase /\ p.played = page.played /\ p.match = page.match /\ p.health = page.health
    BY <2>2, <2>3, SMT DEF SameButDecks
  <2> HIDE DEF p
  <2>5. (page' = p /\ jobs' = jobs \ {j}) \/ (page' = NewPage("/") /\ jobs' = Gone(jobs \ {j}))
    BY <2>1, RenderEither, Zenon
  <2>6. CASE page' = p /\ jobs' = jobs \ {j}
    <3>1. SameBattle
      BY <2>4, <2>6, SMT DEF SameBattle
    <3>2. Plain(j)
      BY <1>13, <2>1, SMT
    <3> QED  BY <1>12, <2>6, <3>1, <3>2, Zenon
  <2>7. CASE page' = NewPage("/") /\ jobs' = Gone(jobs \ {j})
    <3>1. ~page'.played
      BY <2>7, NewPageIs, Zenon
    <3>2. AreJobs(jobs \ {j})
      BY <1>0, JobsWithout, Zenon
    <3>3. \A i \in jobs' : Plain(i)
      BY <2>7, <3>2, LeaveIs, SMT DEF Plain
    <3> QED  BY <3>1, <3>3, OffBattleFits, Zenon
  <2> QED  BY <2>5, <2>6, <2>7
<1>15. ASSUME NEW j \in jobs, RecordAnswered(j)
       PROVE  HealthFits'
  <2>1. jobs' = jobs \ {j} /\ j.kind = "record"
    BY <1>15, Zenon DEF RecordAnswered
  <2>2. SameBattle
    BY <1>0, <1>15, SMT DEF RecordAnswered, SameBattle, IsPage, PageFields
  <2>3. Plain(j)
    BY <1>13, <2>1, SMT
  <2> QED  BY <1>12, <2>1, <2>2, <2>3, Zenon
<1>16. ASSUME NEW j \in jobs, StartIncluded(j) \/ ShopIncluded(j)
       PROVE  HealthFits'
  <2>1. SameBattle /\ j.kind # "animation"
    BY <1>16, SMT DEF StartIncluded, ShopIncluded, SameBattle
  <2>2. Refused(j) \/ \E wants : Taken(j, wants)
    BY <1>16, Zenon DEF StartIncluded, ShopIncluded
  <2>3. \/ jobs' = jobs \ {j}
        \/ \E wants : jobs' = Replace(j, [j EXCEPT !.stage = "query", !.wants = wants])
    BY <2>2, Zenon DEF Refused, Taken
  <2>4. \A wants : Plain([j EXCEPT !.stage = "query", !.wants = wants])
    BY <1>0, <2>1, SMT DEF AreJobs, IsJob, HasJobFields, JobFields, Plain
  <2>5. Plain(j)
    BY <1>13, <2>1, SMT
  <2> QED  BY <1>12, <2>1, <2>3, <2>4, <2>5, Zenon
<1>17. ASSUME NEW j, Lost(j) \/ Fault(j)
       PROVE  HealthFits'
  <2>1. SameBattle /\ jobs' = jobs \ {j} /\ j.stage = "query"
    BY <1>17, SMT DEF Lost, Hopeless, Fault, QueryFails, SameBattle
  <2>2. j \in jobs => Plain(j)
    BY <1>13, <2>1, SMT
  <2>3. (\A i \in jobs' : i \in jobs \/ Plain(i)) /\ \A i \in jobs : i \in jobs' \/ Plain(i)
    BY <2>1, <2>2, SMT
  <2> QED  BY <2>1, <2>3, SameBattleFits, Zenon
<1>18. ASSUME NEW j \in jobs, NEW what, StartAnswered(j, what)
       PROVE  HealthFits'
  <2>1. PICK m, wants :
          \/ /\ jobs' = Replace(j, [j EXCEPT !.match = m, !.wants = wants])
             /\ page' = page
          \/ OpenShop(j, m)
    BY <1>18, Zenon DEF StartAnswered
  <2>2. j.kind = "start"
    BY <1>18, SMT DEF StartAnswered
  <2>3. CASE jobs' = Replace(j, [j EXCEPT !.match = m, !.wants = wants]) /\ page' = page
    <3> DEFINE k == [j EXCEPT !.match = m, !.wants = wants]
    <3>1. Plain(j)
      BY <1>13, <2>2, SMT
    <3>2. k.kind = j.kind /\ k.owner = j.owner /\ k.stage = j.stage
      BY <1>0, SMT DEF AreJobs, IsJob, HasJobFields, JobFields
    <3> HIDE DEF k
    <3>3. Plain(k)
      BY <3>1, <3>2, SMT DEF Plain, Live
    <3>4. SameBattle /\ jobs' = Replace(j, k)
      BY <2>3, SMT DEF SameBattle, k
    <3> QED  BY <1>12, <3>1, <3>3, <3>4, Zenon
  <2>4. CASE OpenShop(j, m)
    <3> DEFINE p == [page EXCEPT !.phase = "shop", !.match = m]
    <3>1. Live(j)
      BY <1>20, <2>4, Zenon DEF OpenShop
    <3>2. Render(p, account, jobs \ {j})
      BY <2>4, <3>1, Zenon DEF OpenShop
    <3>3. p.phase = "shop"
      BY <1>0, SMT DEF IsPage, PageFields
    <3> HIDE DEF p
    <3>4. Step(j)
      BY <2>2, <3>1, SMT DEF Step, Steps, Covering
    <3>5. page.phase # "battle"
      BY <1>8, <2>2, <3>4, SMT DEF AtStep
    <3>6. \A i \in jobs \ {j} : Plain(i)
      BY <1>5, <3>5, Zenon
    <3>7. (page' = p /\ jobs' = jobs \ {j}) \/ (page' = NewPage("/") /\ jobs' = Gone(jobs \ {j}))
      BY <3>2, RenderEither, Zenon
    <3>8. NewPage("/").phase # "battle"
      BY NewPageIs, SMT
    <3>9. \A i \in Gone(jobs \ {j}) : Plain(i)
      BY <1>0, JobsWithout, LeaveIs, Zenon DEF Plain
    <3>10. page'.phase # "battle" /\ \A i \in jobs' : Plain(i)
      BY <3>3, <3>6, <3>7, <3>8, <3>9, SMT
    <3> QED  BY <3>10, OffBattleFits, Zenon
  <2> QED  BY <2>1, <2>3, <2>4
\* A battle starts, the last one is over
<1>19. ASSUME NEW j \in jobs, ShopAnswered(j)
       PROVE  HealthFits'
  <2>1. Step(j) /\ j.kind = "shop" /\ Live(j)
    BY <1>19, <1>20, Zenon DEF ShopAnswered, Step, Steps, Covering
  <2>2. page.phase = "shop"
    BY <1>8, <2>1, Zenon DEF AtStep
  <2>3. PICK m : page' = Battle(page, m)
    BY <1>19, <2>1, Zenon DEF ShopAnswered
  <2>4. ~page'.played
    BY <1>0, <2>3, SMT DEF IsPage, PageFields, Battle
  <2>5. jobs' = jobs \ {j}
    BY <1>19, Zenon DEF ShopAnswered
  <2>6. \A i \in jobs' : Plain(i)
    BY <1>5, <2>2, <2>5, SMT
  <2> QED  BY <2>4, <2>6, OffBattleFits, Zenon
<1>21. ASSUME NEW j \in jobs, ResultAnswered(j)
       PROVE  HealthFits'
  <2>1. Live(j)
    BY <1>20, <1>21, Zenon DEF ResultAnswered
  <2>2. PICK x : page' = [page EXCEPT !.phase = "result", !.result = x]
    BY <1>21, <2>1, Zenon DEF ResultAnswered
  <2>3. page'.phase = "result"
    BY <1>0, <2>2, SMT DEF IsPage, PageFields
  <2>4. jobs' = LeaveBattle \ {j}
    BY <1>21, <2>1, Zenon DEF ResultAnswered
  <2>5. \A i \in LeaveBattle : Plain(i)
    <3>1. \A i \in jobs : Anim(i) \/ Plain(i)
      BY Zenon DEF HealthFits, Anim, Plain
    <3> QED  BY <1>0, <3>1, PlainJobs, Zenon
  <2> QED  BY <2>3, <2>4, <2>5, OffBattleFits, SMT
\* The end of a battle is animated
<1>22. ASSUME BattlePlayed
       PROVE  HealthFits'
  <2>1. page.phase = "battle" /\ ~page.played /\ page' = [page EXCEPT !.played = TRUE]
    BY <1>22, Zenon DEF BattlePlayed
  <2>2. page'.phase = "battle" /\ page'.played /\ page'.match = page.match /\ page'.health = page.health
    BY <1>0, <2>1, SMT DEF IsPage, PageFields
  <2>3. \A i \in jobs : Plain(i)
    BY <2>1, PlainOffBattle, Zenon
  <2>4. CASE page.match.seed = "won"
    <3>1. jobs' = jobs
      BY <1>22, <2>4, Zenon DEF BattlePlayed
    <3>2. page'.match.seed # "lost"
      BY <2>2, <2>4, SMT
    <3>3. \A i \in jobs' : Plain(i)
      BY <2>3, <3>1, SMT
    <3> QED  BY <3>2, <3>3, Zenon DEF HealthFits, Plain, Anim, Live
  <2>5. CASE page.match.seed # "won"
    <3> DEFINE h == HealthToWrite(page.match)
    <3>1. PICK k : /\ k = [Job("animation", account) EXCEPT !.stage = "grades", !.match.health = h]
                   /\ jobs' = jobs \cup {k}
      BY <1>22, <2>5, Zenon DEF BattlePlayed
    <3>2. k.kind = "animation" /\ k.stage = "grades" /\ k.match.health = h /\ Live(k)
      BY <3>1, JobIs, SMT DEF IsJob, HasJobFields, JobFields, IsMatch, MatchFields, Live
    <3> HIDE DEF h
    <3>3. \A i \in jobs' : i = k \/ Plain(i)
      BY <2>3, <3>1, SMT
    <3>4. \A i \in jobs' : Live(i) => (i.kind = "animation" <=> i.stage \in {"grades", "boxes"})
      BY <3>2, <3>3, SMT DEF Plain
    <3>5. AnimFits(k)'
      BY <2>2, <2>5, <3>2, SMT DEF AnimFits, HealthToWrite, FinalPlace, h
    <3>6. \A i \in jobs' : Anim(i) => i = k
      BY <3>3, Zenon DEF Plain, Anim
    <3>7. Anim(k) /\ k \in jobs'
      BY <3>1, <3>2, SMT DEF Anim
    <3> QED  BY <3>4, <3>5, <3>6, <3>7, Zenon DEF HealthFits, Anim, Live
  <2> QED  BY <2>4, <2>5
<1>23. ASSUME NEW j \in jobs, BoxesFound(j)
       PROVE  HealthFits'
  <2> DEFINE k == [j EXCEPT !.stage = "boxes"]
  <2>1. /\ j.stage = "grades" /\ page' = page
        /\ page.phase = "battle" => jobs' = Replace(j, k)
        /\ page.phase # "battle" => jobs' = jobs \ {j}
    BY <1>23, Zenon DEF BoxesFound
  <2>2. k.kind = j.kind /\ k.owner = j.owner /\ k.stage = "boxes" /\ k.match = j.match
    BY <1>0, SMT DEF AreJobs, IsJob, HasJobFields, JobFields
  <2> HIDE DEF k
  <2>3. CASE page.phase # "battle"
    <3>1. \A i \in jobs' : Plain(i)
      BY <1>5, <2>1, <2>3, SMT
    <3> QED  BY <2>1, <2>3, <3>1, OffBattleFits, SMT
  <2>4. CASE page.phase = "battle"
    <3>1. jobs' = Replace(j, k)
      BY <2>1, <2>4
    <3>2. Anim(k) <=> Anim(j)
      BY <2>2, SMT DEF Anim, Live
    <3>3. AnimFits(j) => AnimFits(k)
      BY <2>2, SMT DEF AnimFits
    <3>4. \A i \in jobs' : Anim(i) => AnimFits(i)
      BY <3>1, <3>2, <3>3, SMT DEF HealthFits, Replace
    <3>9. Live(j) => j.kind = "animation"
      BY <2>1, Zenon DEF HealthFits
    <3>5. Live(k) => k.kind = "animation"
      BY <2>2, <3>9, SMT DEF Live
    <3>6. \A i \in jobs' : Live(i) => (i.kind = "animation" <=> i.stage \in {"grades", "boxes"})
      BY <2>2, <3>1, <3>5, SMT DEF HealthFits, Replace
    <3>7. (\E i \in jobs : Anim(i)) => \E i \in jobs' : Anim(i)
      BY <3>1, <3>2, Zenon DEF Replace
    <3>8. /\ page.phase = "battle" /\ page.played /\ page.match.seed = "lost" /\ FinalPlace(page.match) = 0
          /\ ~\E i \in jobs' : Anim(i)
          => page.health = HealthToWrite(page.match)
      BY <3>7, Zenon DEF HealthFits
    <3> HIDE DEF HealthFits
    <3> QED  BY <2>1, <3>4, <3>6, <3>8, SMT DEF HealthFits, AnimFits, Anim, Live
  <2> QED  BY <2>3, <2>4
<1>24. ASSUME NEW j \in jobs, HealthWritten(j)
       PROVE  HealthFits'
  <2>1. /\ j.stage = "boxes" /\ jobs' = jobs \ {j}
        /\ page.phase = "battle" => page' = [page EXCEPT !.health = j.match.health]
        /\ page.phase # "battle" => page' = page
    BY <1>24, Zenon DEF HealthWritten
  <2>2. CASE page.phase # "battle"
    <3>1. \A i \in jobs' : Plain(i)
      BY <1>5, <2>1, <2>2, SMT
    <3> QED  BY <2>1, <2>2, <3>1, OffBattleFits, SMT
  <2>3. CASE page.phase = "battle"
    <3>1. Anim(j)
      BY <1>24, <2>3, Zenon DEF HealthWritten, HealthFits, Anim
    <3>2. AnimFits(j)
      BY <3>1, Zenon DEF HealthFits
    <3>3. /\ page'.phase = page.phase /\ page'.played = page.played /\ page'.match = page.match
          /\ page'.health = j.match.health
      BY <1>0, <2>1, <2>3, SMT DEF IsPage, PageFields
    <3>4. \A i : AnimFits(i) => AnimFits(i)'
      BY <3>3, SMT DEF AnimFits
    <3>5. FinalPlace(page'.match) = 0 => page'.health = HealthToWrite(page'.match)
      BY <3>2, <3>3, SMT DEF AnimFits
    <3>6. \A i \in jobs' : i \in jobs
      BY <2>1, SMT
    <3> QED  BY <3>4, <3>5, <3>6, Zenon DEF HealthFits, Anim, Live
  <2> QED  BY <2>2, <2>3
<1>25. HealthFits'
  BY <1>2, <1>3, <1>4, <1>9, <1>10, <1>11, <1>14, <1>15, <1>16, <1>17, <1>18, <1>19, <1>21, <1>22, <1>23, <1>24, Zenon
     DEF Answer, Failure
<1> QED  BY <1>25

LEMMA HealthFitsInit == Init => HealthFits
<1> SUFFICES ASSUME Init PROVE HealthFits
  OBVIOUS
<1>1. jobs = {} /\ page = NewPage(route)
  BY Zenon DEF Init
<1>2. ~page.played
  BY <1>1, NewPageIs, Zenon
<1> QED  BY <1>1, <1>2, SMT DEF HealthFits

LEMMA HealthFitsStep ==
  ASSUME LinksCoherent, Typed, late \/ (Covered /\ HealthFits), [Next]_vars
  PROVE  late' \/ (Covered' /\ HealthFits')
<1>1. CASE Next
  <2>1. CASE late
    BY <1>1, <2>1, LateStays, Zenon
  <2>2. CASE Covered /\ HealthFits
    BY <1>1, <2>2, PlayerCovered, AnswerCovered, PlayerHealth, AnswerHealth, Zenon DEF Next
  <2> QED  BY <2>1, <2>2
<1>2. CASE UNCHANGED vars
  <2>1. late' \/ Covered'
    BY <1>2, CoveredStep, Zenon
  <2>2. late' = late /\ jobs' = jobs /\ SameBattle
    BY <1>2, SMT DEF vars, history, SameBattle
  <2>3. HealthFits => HealthFits'
    <3>1. (\A i \in jobs' : i \in jobs) /\ \A i \in jobs : i \in jobs'
      BY <2>2, SMT
    <3> QED  BY <2>2, <3>1, SameBattleFits, Zenon
  <2>4. late => late'
    BY <2>2, Zenon
  <2> QED  BY <2>1, <2>3, <2>4, Zenon
<1> QED  BY <1>1, <1>2

\* When the animations of a lost battle are over, the health on the page is what the next
\* turn starts with: each of them writes what the fight shown leaves (animateFinish), and
\* a battle that is left takes its animations along, unless one was late
THEOREM HealthIsShown == Spec => []HealthShown
<1>1. Init => LinksCoherent /\ Typed /\ (late \/ (Covered /\ HealthFits))
  BY LinksCoherentInit, TypedInit, CoveredInit, HealthFitsInit
<1>2. /\ LinksCoherent /\ Typed /\ (late \/ (Covered /\ HealthFits)) /\ [Next]_vars
      => (LinksCoherent /\ Typed /\ (late \/ (Covered /\ HealthFits)))'
  BY LinksCoherentStep, TypedStep, HealthFitsStep
<1>3. ASSUME Typed, late \/ (Covered /\ HealthFits)
      PROVE  HealthShown
  <2>1. ASSUME page.phase = "battle", page.played, page.match.seed = "lost", FinalPlace(page.match) = 0,
               ~Pending({"animation"}), ~late
        PROVE  Fought(page.match).health = IF page.health > 0 THEN page.health ELSE 0
    <3>1. ~\E j \in jobs : Anim(j)
      BY <2>1, Zenon DEF Pending, Anim
    <3>2. page.health = HealthToWrite(page.match)
      BY <1>3, <2>1, <3>1, Zenon DEF HealthFits
    <3>3. IsMatch(page.match)
      BY <1>3, Zenon DEF Typed, IsPage
    <3>4. Damage \in Nat
      BY StakesAssumption
    <3> QED  BY <2>1, <3>2, <3>3, <3>4, SMT DEF Fought, HealthToWrite, IsMatch, MatchFields
  <2> QED  BY <2>1, Zenon DEF HealthShown
<1> QED  BY <1>1, <1>2, <1>3, PTL DEF Spec

--------------------------------------------------------------------------------
(* What the front makes of a match, and what the contract makes of it *)

\* The front plays on from a battle where the contract does
Moved(m, a) ==
  LET after == Fought(m)
  IN  IF FinalPlace(after) = 0 THEN Agrees(NextMatch(after), a)
      ELSE a \in DOMAIN placed /\ placed[a] = FinalPlace(after) /\ a \in DOMAIN ep

\* The seed of the next battle is asked for: the contract is past that battle
Asks(j) == Live(j) /\ j.kind = "shop" /\ j.stage = "query"

\* The jobs of a match are about the match of the account shown
JobAgrees(j) ==
  LET a == j.account
  IN  /\ j.kind \in {"start", "shop", "result"} => a = account
      /\ j.kind = "shop" => j.match = page.match
      /\ j.kind = "start" /\ j.wants # {} => j.stage = "query"
      /\ a \notin foreign =>
           /\ j.kind = "shop" /\ j.stage = "query" =>
                a \in DOMAIN seed /\ Moved([j.match EXCEPT !.seed = seed[a]], a)
           /\ j.kind = "start" /\ j.stage = "query" =>
                /\ a \in DOMAIN turns /\ turns[a] = 0
                /\ "seed" \notin j.wants => j.match.seed = seed[a]
                /\ "mutable" \notin j.wants =>
                     j.match.turn = 1 /\ [health |-> j.match.health, rivals |-> j.match.rivals] = record[a]
           /\ j.kind = "result" => a \in DOMAIN placed /\ j.place = placed[a] /\ a \in DOMAIN ep

\* The match on the page is the match of the contract, one battle behind it, or over.
\* Where a shop phase was refused or its seed never answered, the modal is there for good.
PageAgrees ==
  route = "/match" /\ account \notin foreign =>
    /\ page.phase = "shop" /\ (~\E j \in jobs : Asks(j)) =>
         Agrees(page.match, account) \/ (failed /\ waiting /\ Idle(jobs))
    /\ page.phase = "battle" => waiting \/ Moved(page.match, account)
    /\ page.phase = "result" =>
         /\ account \in DOMAIN placed /\ account \in DOMAIN ep
         /\ page.result = [place |-> placed[account], ep |-> ep[account]]

SeedsDrawn == DOMAIN turns \subseteq DOMAIN seed

AgreeFits == PageAgrees /\ \A j \in jobs : Step(j) => JobAgrees(j)

\* A mapping keeps what it has of a key
Kept(f, g, a) == a \in DOMAIN f => a \in DOMAIN g /\ g[a] = f[a]

LEMMA KeptIs ==
  ASSUME NEW m, NEW k, NEW a, a # k
  PROVE  (\A v : Kept(m, MapInsert(m, k, v), a)) /\ Kept(m, MapRemove(m, k), a)
BY SMT DEF Kept, MapInsert, MapRemove

Untouched(a) ==
  /\ Kept(turns, turns', a) /\ Kept(record, record', a) /\ Kept(seed, seed', a)
  /\ Kept(placed, placed', a) /\ Kept(ep, ep', a)

\* A call of the contract concerns one account
LEMMA CallsTouchOne ==
  ASSUME NEW b, ContractStart(b) \/ ContractShop(b), NEW a, a # b
  PROVE  Untouched(a)
<1>0. \A f : Kept(f, f, a)
  BY DEF Kept
<1>1. ASSUME ContractStart(b)
      PROVE  Untouched(a)
  <2>1. /\ turns' = MapInsert(turns, b, 0)
        /\ record' = MapInsert(record, b, [health |-> Health, rivals |-> Rivals])
        /\ \E s \in Seeds : seed' = MapInsert(seed, b, s)
        /\ placed' = placed
    BY <1>1, ContractStartIs, Zenon
  <2>2. ep' = ep \/ \E v : ep' = MapInsert(ep, b, v)
    BY <1>1, Zenon
       DEF ContractStart, Contract!StartFirst, Contract!Start, Contract!Abandon, Contract!MapInsert, MapInsert
  <2>3. Kept(ep, ep', a)
    BY <1>0, <2>2, KeptIs, Zenon
  <2>4. Kept(turns, turns', a) /\ Kept(record, record', a) /\ Kept(seed, seed', a) /\ Kept(placed, placed', a)
    BY <1>0, <2>1, KeptIs, Zenon
  <2> QED  BY <2>3, <2>4, Zenon DEF Untouched
<1>2. ASSUME ContractShop(b)
      PROVE  Untouched(a)
  <2>1. PICK s \in Seeds :
           /\ seed' = MapInsert(seed, b, s)
           /\ FinalPlace(Played(b, s)) = 0 =>
                /\ turns' = MapInsert(turns, b, turns[b] + 1)
                /\ \E v : record' = MapInsert(record, b, v)
                /\ ep' = ep
                /\ placed' = placed
           /\ FinalPlace(Played(b, s)) # 0 =>
                /\ turns' = MapRemove(turns, b)
                /\ record' = MapRemove(record, b)
                /\ \E v : placed' = MapInsert(placed, b, v)
                /\ \E v : ep' = MapInsert(ep, b, v)
    BY <1>2, ContractShopIs, Zenon
  <2> QED  BY <1>0, <2>1, KeptIs, Zenon DEF Untouched
<1> QED  BY <1>1, <1>2, Zenon

LEMMA SeedsStep ==
  ASSUME SeedsDrawn, [Next]_vars
  PROVE  SeedsDrawn'
<1>1. ASSUME UNCHANGED matchVars
      PROVE  SeedsDrawn'
  BY <1>1, SMT DEF SeedsDrawn, matchVars
<1>2. ASSUME NEW a, ContractStart(a) \/ ContractShop(a)
      PROVE  SeedsDrawn'
  <2>1. \E s : seed' = MapInsert(seed, a, s)
    BY <1>2, ContractStartIs, ContractShopIs, Zenon
  <2>2. turns' = MapRemove(turns, a) \/ \E n : turns' = MapInsert(turns, a, n)
    BY <1>2, ContractStartIs, ContractShopIs, Zenon
  <2>3. DOMAIN seed' = DOMAIN seed \cup {a}
    BY <2>1, InsertIs, Zenon
  <2>4. DOMAIN turns' \subseteq DOMAIN turns \cup {a}
    <3>1. /\ DOMAIN MapRemove(turns, a) = DOMAIN turns \ {a}
          /\ \A n : DOMAIN MapInsert(turns, a, n) = DOMAIN turns \cup {a}
      BY InsertIs, RemoveIs, Zenon
    <3> QED  BY <2>2, <3>1, SMT
  <2> QED  BY <2>3, <2>4, SMT DEF SeedsDrawn
<1>3. ASSUME NEW a, PlayElsewhere(a)
      PROVE  SeedsDrawn'
  BY <1>2, <1>3, Zenon DEF PlayElsewhere
<1>4. ASSUME NEW j, Refused(j)
      PROVE  SeedsDrawn'
  BY <1>1, <1>4, Zenon DEF Refused
<1>5. ASSUME NEW j, StartIncluded(j) \/ ShopIncluded(j)
      PROVE  SeedsDrawn'
  BY <1>2, <1>4, <1>5, Zenon DEF StartIncluded, ShopIncluded
<1>6. UNCHANGED vars => UNCHANGED matchVars
  BY SMT DEF vars, chainVars, matchVars
<1> QED  BY <1>1, <1>3, <1>5, <1>6, OthersKeepMatches, Zenon

\* What the contract holds of an account that is left alone
LEMMA UntouchedAgrees ==
  ASSUME ContractTyped, SeedsDrawn, NEW a, Untouched(a)
  PROVE  /\ \A m : Agrees(m, a) => Agrees(m, a)'
         /\ \A m : Moved(m, a) => Moved(m, a)'
<1>1. ASSUME NEW m, Agrees(m, a)
      PROVE  Agrees(m, a)'
  <2>1. a \in DOMAIN turns /\ a \in DOMAIN record /\ a \in DOMAIN seed
    BY <1>1, Zenon DEF Agrees, ContractTyped, AreMatches, SeedsDrawn
  <2>2. a \in DOMAIN turns' /\ turns'[a] = turns[a] /\ record'[a] = record[a] /\ seed'[a] = seed[a]
    BY <2>1, Zenon DEF Untouched, Kept
  <2> QED  BY <1>1, <2>2, SMT DEF Agrees
<1>2. ASSUME NEW m, Moved(m, a)
      PROVE  Moved(m, a)'
  <2>1. CASE FinalPlace(Fought(m)) = 0
    BY <1>1, <1>2, <2>1, Zenon DEF Moved, FinalPlace, Fought, NextMatch
  <2>2. CASE FinalPlace(Fought(m)) # 0
    <3>1. a \in DOMAIN placed /\ placed[a] = FinalPlace(Fought(m)) /\ a \in DOMAIN ep
      BY <1>2, <2>2, Zenon DEF Moved
    <3>2. a \in DOMAIN placed' /\ placed'[a] = placed[a] /\ a \in DOMAIN ep'
      BY <3>1, Zenon DEF Untouched, Kept
    <3>3. a \in DOMAIN placed' /\ placed'[a] = FinalPlace(Fought(m)) /\ a \in DOMAIN ep'
      BY <3>1, <3>2, Zenon
    <3> QED  BY <2>2, <3>3, Zenon DEF Moved
  <2> QED  BY <2>1, <2>2
<1> QED  BY <1>1, <1>2, Zenon

\* Nothing happens to the match that is shown
Calm ==
  /\ route' = route /\ account' = account
  /\ page'.phase = page.phase /\ page'.match = page.match /\ page'.result = page.result
  /\ waiting => waiting'
  /\ failed => failed'
  /\ account \notin foreign' => account \notin foreign /\ Untouched(account)

LEMMA CalmKeepsJob ==
  ASSUME ContractTyped, SeedsDrawn, Calm, NEW j, JobAgrees(j), j.kind \in Steps
  PROVE  JobAgrees(j)'
<1>1. CASE j.kind \notin {"start", "shop", "result"}
  BY <1>1, SMT DEF JobAgrees
<1>2. CASE j.kind \in {"start", "shop", "result"}
  <2>1. j.account = account /\ account' = account /\ page'.match = page.match
    BY <1>2, SMT DEF JobAgrees, Calm
  <2>2. CASE j.account \in foreign'
    BY <2>1, <2>2, SMT DEF JobAgrees
  <2>3. CASE j.account \notin foreign'
    <3>1. j.account \notin foreign /\ Untouched(j.account)
      BY <2>1, <2>3, SMT DEF Calm, Untouched, Kept
    <3>2. \A m : Moved(m, j.account) => Moved(m, j.account)'
      BY <3>1, UntouchedAgrees, Zenon
    <3>3. DOMAIN turns = DOMAIN record /\ DOMAIN turns \subseteq DOMAIN seed
      BY Zenon DEF ContractTyped, AreMatches, SeedsDrawn
    <3>4. ASSUME j.kind = "shop"
          PROVE  JobAgrees(j)'
      <4>1. j.match = page.match
        BY <3>4, Zenon DEF JobAgrees
      <4>2. ASSUME j.stage = "query"
            PROVE  (j.account \in DOMAIN seed /\ Moved([j.match EXCEPT !.seed = seed[j.account]], j.account))'
        <5>1. PICK m : m = [j.match EXCEPT !.seed = seed[j.account]]
          OBVIOUS
        <5>2. j.account \in DOMAIN seed /\ Moved([j.match EXCEPT !.seed = seed[j.account]], j.account)
          BY <3>1, <3>4, <4>2, Zenon DEF JobAgrees
        <5>3. j.account \in DOMAIN seed' /\ seed'[j.account] = seed[j.account]
          BY <3>1, <5>2, Zenon DEF Untouched, Kept
        <5>4. Moved(m, j.account)
          BY <5>1, <5>2, SMT
        <5>5. Moved(m, j.account)'
          BY <3>2, <5>4, Zenon
        <5>6. m = [j.match EXCEPT !.seed = seed'[j.account]]
          BY <5>1, <5>3, SMT
        <5> QED  BY <5>3, <5>5, <5>6, SMT
      <4> QED  BY <2>1, <3>4, <4>1, <4>2, SMT DEF JobAgrees
    <3>5. ASSUME j.kind = "start"
          PROVE  JobAgrees(j)'
      <4>1. CASE j.stage # "query"
        BY <2>1, <3>5, <4>1, SMT DEF JobAgrees
      <4>2. CASE j.stage = "query"
        <5>1. j.account \in DOMAIN turns
          BY <3>1, <3>5, <4>2, SMT DEF JobAgrees
        <5>2. /\ j.account \in DOMAIN turns' /\ turns'[j.account] = turns[j.account]
              /\ seed'[j.account] = seed[j.account] /\ record'[j.account] = record[j.account]
          BY <3>1, <3>3, <5>1, SMT DEF Untouched, Kept
        <5> QED  BY <2>1, <3>1, <3>5, <4>2, <5>2, SMT DEF JobAgrees
      <4> QED  BY <4>1, <4>2
    <3>6. ASSUME j.kind = "result"
          PROVE  JobAgrees(j)'
      <4>1. j.account \in DOMAIN placed /\ j.place = placed[j.account] /\ j.account \in DOMAIN ep
        BY <3>1, <3>6, SMT DEF JobAgrees
      <4>2. j.account \in DOMAIN placed' /\ placed'[j.account] = placed[j.account] /\ j.account \in DOMAIN ep'
        BY <3>1, <4>1, Zenon DEF Untouched, Kept
      <4> QED  BY <2>1, <3>6, <4>1, <4>2, SMT DEF JobAgrees
    <3> QED  BY <1>2, <3>4, <3>5, <3>6, SMT
  <2> QED  BY <2>2, <2>3
<1> QED  BY <1>1, <1>2

LEMMA CalmKeepsPage ==
  ASSUME ContractTyped, SeedsDrawn, Calm, PageAgrees,
         Idle(jobs) => Idle(jobs'),
         \A i \in jobs : Asks(i) => i \in jobs'
  PROVE  PageAgrees'
<1>1. PICK a, m : a = account /\ m = page.match
  OBVIOUS
<1>2. CASE route = "/match" /\ a \notin foreign'
  <2>1. /\ account' = a /\ page'.phase = page.phase /\ page'.match = m /\ page'.result = page.result
        /\ a \notin foreign /\ Untouched(a)
        /\ waiting => waiting'
        /\ failed => failed'
    BY <1>1, <1>2, SMT DEF Calm, Untouched, Kept
  <2>2. /\ page.phase = "shop" /\ (~\E j \in jobs : Asks(j)) => Agrees(m, a) \/ (failed /\ waiting /\ Idle(jobs))
        /\ page.phase = "battle" => waiting \/ Moved(m, a)
        /\ page.phase = "result" =>
             a \in DOMAIN placed /\ a \in DOMAIN ep /\ page.result = [place |-> placed[a], ep |-> ep[a]]
    BY <1>1, <1>2, <2>1, SMT DEF PageAgrees
  <2>3. (Agrees(m, a) => Agrees(m, a)') /\ (Moved(m, a) => Moved(m, a)')
    BY <2>1, UntouchedAgrees, Zenon
  <2>4. (~\E j \in jobs' : Asks(j)) => ~\E j \in jobs : Asks(j)
    BY Zenon
  <2>5. Idle(jobs) => Idle(jobs')
    OBVIOUS
  <2>6. page'.phase = "shop" /\ (~\E j \in jobs' : Asks(j)) => Agrees(m, a)' \/ (failed' /\ waiting' /\ Idle(jobs'))
    BY <2>1, <2>2, <2>3, <2>4, <2>5, SMT
  <2>7. page'.phase = "battle" => waiting' \/ Moved(m, a)'
    BY <2>1, <2>2, <2>3, SMT
  <2>8. page'.phase = "result" =>
          a \in DOMAIN placed' /\ a \in DOMAIN ep' /\ page'.result = [place |-> placed'[a], ep |-> ep'[a]]
    <3>1. CASE page.phase = "result"
      <4>1. a \in DOMAIN placed /\ a \in DOMAIN ep /\ page.result = [place |-> placed[a], ep |-> ep[a]]
        BY <2>2, <3>1, Zenon
      <4>2. a \in DOMAIN placed' /\ a \in DOMAIN ep' /\ placed'[a] = placed[a] /\ ep'[a] = ep[a]
        BY <2>1, <4>1, Zenon DEF Untouched, Kept
      <4> QED  BY <2>1, <4>1, <4>2, SMT
    <3> QED  BY <2>1, <3>1, SMT
  <2> QED  BY <2>1, <2>6, <2>7, <2>8, SMT DEF PageAgrees, Asks, Live, Idle, Step
<1>3. CASE ~(route = "/match" /\ a \notin foreign')
  BY <1>1, <1>3, SMT DEF PageAgrees, Calm
<1> QED  BY <1>2, <1>3

LEMMA CalmKeeps ==
  ASSUME ContractTyped, SeedsDrawn, Calm, AgreeFits,
         \A i \in jobs' : Step(i) => i \in jobs,
         \A i \in jobs : Asks(i) => i \in jobs'
  PROVE  AgreeFits'
<1>1. PageAgrees'
  BY CalmKeepsPage, Zenon DEF AgreeFits, Idle
<1>2. \A i \in jobs' : Step(i) => JobAgrees(i)'
  BY CalmKeepsJob, Zenon DEF AgreeFits, Step
<1> QED  BY <1>1, <1>2, Zenon DEF AgreeFits, Step, Live

\* Off the page of the match, or before it
LEMMA OffMatchAgrees ==
  ASSUME route' # "/match" \/ page'.phase \in {"setup", "loading"},
         \A i \in jobs' : Step(i) => i.kind \in {"setup", "generate", "trial"}
  PROVE  AgreeFits'
<1>1. PageAgrees'
  BY SMT DEF PageAgrees
<1>2. ASSUME NEW j, j.kind \in {"setup", "generate", "trial"}
      PROVE  JobAgrees(j)'
  BY <1>2, SMT DEF JobAgrees
<1>3. ASSUME NEW i \in jobs', Step(i)
      PROVE  JobAgrees(i)'
  <2>1. i.kind \in {"setup", "generate", "trial"}
    BY <1>3
  <2> QED  BY <1>2, <2>1
<1> QED  BY <1>1, <1>3, Zenon DEF AgreeFits, Step, Live

\* Of one step that is awaited
LEMMA OneAgrees ==
  ASSUME PageAgrees', NEW k, JobAgrees(k)', \A i \in jobs' : Step(i) => i = k
  PROVE  AgreeFits'
<1>1. \A i \in jobs' : Step(i) => JobAgrees(i)'
  BY Zenon
<1> QED  BY <1>1, Zenon DEF AgreeFits, Step, Live

LEMMA NoneAgrees ==
  ASSUME PageAgrees', Idle(jobs')
  PROVE  AgreeFits'
BY Zenon DEF AgreeFits, Idle, Step, Live

LEMMA AloneIsUntouched ==
  ASSUME UNCHANGED matchVars, NEW a
  PROVE  Untouched(a)
BY DEF Untouched, Kept, matchVars

\* Nothing of the match moves, on the page or in the contract
Still ==
  /\ UNCHANGED <<route, account, matchVars, foreign>>
  /\ page'.phase = page.phase /\ page'.match = page.match /\ page'.result = page.result
  /\ waiting => waiting'
  /\ failed => failed'

LEMMA StillIsCalm ==
  ASSUME Still
  PROVE  Calm
<1>1. Untouched(account)
  BY AloneIsUntouched, Zenon DEF Still
<1> QED  BY <1>1, SMT DEF Still, Calm

\* The contract plays the battle of a shop phase it takes as the front will
LEMMA ShopMoves ==
  ASSUME ContractTyped, NEW m, IsMatch(m), NEW a, Agrees(m, a), ContractShop(a)
  PROVE  a \in DOMAIN seed' /\ \A x : x = [m EXCEPT !.seed = seed'[a]] => Moved(x, a)'
<1>1. PICK s \in Seeds :
         /\ a \in DOMAIN turns
         /\ seed' = MapInsert(seed, a, s)
         /\ FinalPlace(Played(a, s)) = 0 =>
              /\ turns' = MapInsert(turns, a, turns[a] + 1)
              /\ record' = MapInsert(record, a, [health |-> Played(a, s).health, rivals |-> Played(a, s).rivals])
         /\ FinalPlace(Played(a, s)) # 0 =>
              /\ placed' = MapInsert(placed, a, FinalPlace(Played(a, s)))
              /\ \E e : ep' = MapInsert(ep, a, e)
  BY ContractShopIs, Zenon
<1>2. a \in DOMAIN seed' /\ seed'[a] = s
  BY <1>1, SMT DEF MapInsert
<1>3. PICK x : x = [m EXCEPT !.seed = s]
  OBVIOUS
<1>4. /\ m.turn = turns[a] + 1 /\ turns[a] \in Nat
      /\ record[a].health = m.health /\ record[a].rivals = m.rivals
  <2>1. /\ a \in DOMAIN turns /\ a \in DOMAIN record /\ m.turn = turns[a] + 1
        /\ record[a] = [health |-> m.health, rivals |-> m.rivals]
    BY SMT DEF Agrees, ContractTyped, AreMatches
  <2> QED  BY <2>1, SMT DEF ContractTyped, AreMatches
<1>5. /\ Fought(x).health = Played(a, s).health /\ Fought(x).rivals = Played(a, s).rivals
      /\ Fought(x).seed = s /\ Fought(x).turn = m.turn /\ IsMatch(Fought(x))
  <2>1. IsMatch(x) /\ x.seed = s /\ x.turn = m.turn /\ x.health = m.health /\ x.rivals = m.rivals
    BY <1>3, SMT DEF IsMatch, MatchFields
  <2>2. IsMatch(Fought(x))
    BY <2>1, FoughtIs, Zenon
  <2> QED  BY <1>4, <2>1, <2>2, StakesAssumption, SMT DEF Fought, Played, IsMatch, MatchFields
<1>6. FinalPlace(Fought(x)) = FinalPlace(Played(a, s))
  BY <1>5, SMT DEF FinalPlace
<1>7. PICK y : y = Fought(x)
  OBVIOUS
<1> HIDE DEF Played
<1>8. CASE FinalPlace(y) = 0
  <2>1. /\ a \in DOMAIN turns' /\ turns'[a] = turns[a] + 1
        /\ record'[a] = [health |-> y.health, rivals |-> y.rivals]
    BY <1>1, <1>5, <1>6, <1>7, <1>8, SMT DEF MapInsert
  <2>2. /\ NextMatch(y).turn = y.turn + 1 /\ NextMatch(y).seed = y.seed
        /\ NextMatch(y).health = y.health /\ NextMatch(y).rivals = y.rivals
    BY <1>5, <1>7, SMT DEF NextMatch, IsMatch, MatchFields
  <2>3. Agrees(NextMatch(y), a)'
    BY <1>2, <1>4, <1>5, <1>7, <2>1, <2>2, SMT DEF Agrees, NextMatch
  <2>4. Moved(x, a)'
    BY <1>7, <1>8, <2>3, SMT DEF Moved, Fought, FinalPlace, NextMatch
  <2> QED  BY <1>2, <1>3, <2>4, Zenon
<1>9. CASE FinalPlace(y) # 0
  <2>1. a \in DOMAIN placed' /\ placed'[a] = FinalPlace(y) /\ a \in DOMAIN ep'
    BY <1>1, <1>6, <1>7, <1>9, SMT DEF MapInsert
  <2>2. Moved(x, a)'
    BY <1>7, <1>9, <2>1, SMT DEF Moved, Fought, FinalPlace
  <2> QED  BY <1>2, <1>3, <2>2, Zenon
<1> QED  BY <1>8, <1>9

\* The player moves
LEMMA PlayerAgrees ==
  ASSUME Typed, Covered, SeedsDrawn, AgreeFits, Player
  PROVE  AgreeFits'
<1> USE DEF appVars, linkVars, modalVars, frameRest, storageVars, chainVars, history
<1>0. IsPage(page) /\ AreJobs(jobs) /\ ContractTyped
  BY DEF Typed
<1>1. ASSUME page.phase # "loading", Clickable
      PROVE  Idle(jobs)
  BY <1>1, ClickableIsIdle, Zenon
\* A page is left or mounted, or the trial is played
<1>2. ASSUME route' # "/match" \/ page'.phase \in {"setup", "loading"}, Idle(jobs')
      PROVE  AgreeFits'
  BY <1>2, OffMatchAgrees, Zenon DEF Idle
<1>3. ASSUME NEW id, Go(id)
      PROVE  AgreeFits'
  <2>1. /\ page' = NewPage(id) /\ route' = id
        /\ jobs' = Leave(jobs) \cup Opening(id, connection', wasm, account')
    BY <1>3, Zenon DEF Go, Reroute
  <2>2. route' # "/match" \/ page'.phase = "setup"
    BY <2>1, NewPageIs, Zenon
  <2>3. PICK x : x = Opening(id, connection', wasm, account')
    OBVIOUS
  <2>4. \A i \in x : Opens(i, id, account')
    BY <2>3, OpeningIs, Zenon
  <2>5. \A i \in Leave(jobs) : ~Live(i)
    BY <1>0, LeaveIs, Zenon
  <2>6. \A i \in jobs' : Step(i) => i.kind \in {"setup", "generate", "trial"}
    BY <2>1, <2>3, <2>4, <2>5, SMT DEF Step, Steps, Covering, Opens
  <2> QED  BY <2>2, <2>6, OffMatchAgrees, SMT
<1>4. ASSUME NEW id, Reload(id)
      PROVE  AgreeFits'
  <2>1. page' = NewPage(id) /\ jobs' = Gone(jobs) /\ route' = id
    BY <1>4, Zenon DEF Reload, Reloaded
  <2>2. route' # "/match" \/ page'.phase = "setup"
    BY <2>1, NewPageIs, Zenon
  <2>3. Idle(jobs')
    BY <1>0, <2>1, LeaveIs, SMT DEF Idle, Step
  <2> QED  BY <1>2, <2>2, <2>3, SMT
<1>5. ASSUME PlayAgain
      PROVE  AgreeFits'
  <2>1. page' = NewPage(route) /\ route' = route /\ jobs' = jobs \cup Opening(route, connection, wasm, account)
    BY <1>5, Zenon DEF PlayAgain, Click
  <2>2. Clickable /\ page.phase = "result"
    BY <1>5, Zenon DEF PlayAgain, Click
  <2>3. Idle(jobs)
    BY <1>1, <2>2, SMT
  <2>4. route' # "/match" \/ page'.phase = "setup"
    BY <2>1, NewPageIs, SMT
  <2>5. PICK x : x = Opening(route, connection, wasm, account)
    OBVIOUS
  <2>6. \A i \in x : Opens(i, route, account)
    BY <2>5, OpeningIs, Zenon
  <2>7. \A i \in jobs' : Step(i) => i.kind \in {"setup", "generate", "trial"}
    BY <2>1, <2>3, <2>5, <2>6, SMT DEF Idle, Step, Steps, Covering, Opens
  <2> QED  BY <2>4, <2>7, OffMatchAgrees, SMT
<1>6. ASSUME NEW a, SwitchAccount(a)
      PROVE  AgreeFits'
  <2>1. PICK k : k = Job("generate", a) /\ k.kind = "generate"
    BY JobIs, SMT
  <2>2. jobs' = jobs \cup {k} /\ page' = page /\ Clickable /\ page.phase = "setup"
    BY <1>6, <2>1, SMT DEF SwitchAccount, SetupOpen
  <2>3. Idle(jobs)
    BY <1>1, <2>2, SMT
  <2>4. \A i \in jobs' : Step(i) => i.kind \in {"setup", "generate", "trial"}
    BY <2>1, <2>2, <2>3, SMT DEF Idle
  <2> QED  BY <2>2, <2>4, OffMatchAgrees, SMT
<1>7. ASSUME FinishTrialShop \/ FinishTrial
      PROVE  AgreeFits'
  <2>1. route' # "/match" /\ Clickable /\ page.phase \in {"shop", "battle"} /\ (jobs' = jobs \/ jobs' = LeaveBattle)
    BY <1>7, Zenon DEF FinishTrialShop, FinishTrial, Click
  <2>2. Idle(jobs)
    BY <1>1, <2>1, SMT
  <2>3. Idle(jobs')
    BY <1>0, <2>1, <2>2, LeaveBattleIs, SMT DEF Idle, Step
  <2> QED  BY <1>2, <2>1, <2>3
\* A shop phase, or the match, starts
<1>8. ASSUME Start
      PROVE  AgreeFits'
  <2>1. PICK k : /\ k = [Job("start", account) EXCEPT !.stage = "popup", !.deck = page.decks[page.index],
                                                      !.match.previousEp = page.ep]
                 /\ jobs' = jobs \cup {k}
    BY <1>8, Zenon DEF Start, Click
  <2>2. k.kind = "start" /\ k.account = account /\ k.stage = "popup" /\ k.wants = {}
    BY <2>1, SMT DEF Job
  <2>3. page'.phase = "setup" /\ page.phase = "setup" /\ Clickable /\ account' = account
    BY <1>0, <1>8, SMT DEF IsPage, PageFields, Start, Click, SetupOpen
  <2>4. Idle(jobs)
    BY <1>1, <2>3, SMT
  <2>5. \A i \in jobs' : Step(i) => i = k
    BY <2>1, <2>4, SMT DEF Idle
  <2>6. JobAgrees(k)'
    BY <2>2, <2>3, SMT DEF JobAgrees
  <2>7. PageAgrees'
    BY <2>3, SMT DEF PageAgrees
  <2> QED  BY <2>5, <2>6, <2>7, OneAgrees, Zenon
<1>9. ASSUME FinishShop
      PROVE  AgreeFits'
  <2>1. PICK k : /\ k = [Job("shop", account) EXCEPT !.stage = "popup", !.match = page.match]
                 /\ page' = page /\ jobs' = jobs \cup {k}
    BY <1>9, Zenon DEF FinishShop, Click
  <2>2. k.kind = "shop" /\ k.account = account /\ k.stage = "popup" /\ k.match = page.match
    BY <2>1, SMT DEF Job
  <2>3. page.phase = "shop" /\ Clickable /\ UNCHANGED <<route, account, matchVars, foreign>>
    BY <1>9, SMT DEF FinishShop, Click
  <2>4. Idle(jobs)
    BY <1>1, <2>3, SMT
  <2>5. \A i \in jobs' : Step(i) => i = k
    BY <2>1, <2>4, SMT DEF Idle
  <2>6. JobAgrees(k)'
    BY <2>1, <2>2, <2>3, SMT DEF JobAgrees
  <2>7. ASSUME route = "/match", account \notin foreign
        PROVE  Agrees(page.match, account)
    <3>1. ~\E j \in jobs : Asks(j)
      BY <2>4, SMT DEF Idle, Step, Steps, Covering, Asks
    <3>2. ~waiting
      BY <2>3, Zenon DEF Clickable
    <3> QED  BY <2>3, <2>7, <3>1, <3>2, Zenon DEF AgreeFits, PageAgrees
  <2>8. Agrees(page.match, account) => Agrees(page.match, account)'
    BY <2>1, <2>3, SMT DEF Agrees, matchVars
  <2>9. PageAgrees'
    BY <2>1, <2>3, <2>7, <2>8, SMT DEF PageAgrees
  <2> QED  BY <2>5, <2>6, <2>9, OneAgrees, Zenon
<1>10. ASSUME NextTurn
       PROVE  AgreeFits'
  <2>1. PICK m, y : m = page.match /\ y = Fought(m)
    OBVIOUS
  <2>2. /\ page.phase = "battle" /\ FinalPlace(y) = 0 /\ Clickable /\ jobs' = LeaveBattle
        /\ page' = [page EXCEPT !.phase = "shop", !.match = NextMatch(y)]
    BY <1>10, <2>1, SMT DEF NextTurn, Click, FinishBattle, FrontPlace
  <2>3. page'.phase = "shop" /\ page'.match = NextMatch(y)
    BY <1>0, <2>2, SMT DEF IsPage, PageFields
  <2>4. UNCHANGED <<route, account, matchVars, foreign>>
    BY <1>10, SMT DEF NextTurn, Click
  <2>5. Idle(jobs)
    BY <1>1, <2>2, SMT
  <2>6. Idle(jobs')
    BY <1>0, <2>2, <2>5, LeaveBattleIs, SMT DEF Idle, Step
  <2>7. ASSUME route = "/match", account \notin foreign
        PROVE  Agrees(NextMatch(y), account)
    <3>1. ~waiting
      BY <2>2, Zenon DEF Clickable
    <3>2. Moved(m, account)
      BY <2>1, <2>2, <2>7, <3>1, SMT DEF AgreeFits, PageAgrees
    <3> QED  BY <2>1, <2>2, <3>2, SMT DEF Moved
  <2>8. PICK z : z = NextMatch(y)
    OBVIOUS
  <2>9. Agrees(z, account) => Agrees(z, account)'
    BY <2>4, SMT DEF Agrees, matchVars
  <2>10. PageAgrees'
    BY <2>3, <2>4, <2>7, <2>8, <2>9, SMT DEF PageAgrees
  <2> QED  BY <2>6, <2>10, NoneAgrees, Zenon
<1>11. ASSUME FinishMatch
       PROVE  AgreeFits'
  <2>1. PICK m, y : m = page.match /\ y = Fought(m)
    OBVIOUS
  <2>2. PICK z, k : /\ k = [Job("result", account) EXCEPT !.match = z, !.place = FinalPlace(y)]
                    /\ page' = [page EXCEPT !.match = z, !.health = z.health] /\ jobs' = jobs \cup {k}
    <3>1. FinishBattle(m).place = FinalPlace(y)
      BY <2>1, SMT DEF FinishBattle, FrontPlace
    <3>2. /\ page' = [page EXCEPT !.match = FinishBattle(m).match, !.health = FinishBattle(m).match.health]
          /\ jobs' = jobs \cup {[Job("result", account) EXCEPT !.match = FinishBattle(m).match,
                                                              !.place = FinishBattle(m).place]}
      BY <1>11, <2>1, SMT DEF FinishMatch, Click
    <3> QED  BY <3>1, <3>2, Zenon
  <2>3. k.kind = "result" /\ k.account = account /\ k.place = FinalPlace(y)
    BY <2>2, SMT DEF Job
  <2>4. /\ route = "/match" /\ page.phase = "battle" /\ FinalPlace(y) # 0 /\ Clickable /\ waiting' = TRUE
        /\ UNCHANGED <<route, account, matchVars, foreign>>
    BY <1>11, <2>1, SMT DEF FinishMatch, Click, FinishBattle, FrontPlace, Cover
  <2>5. page'.phase = "battle"
    BY <1>0, <2>2, <2>4, SMT DEF IsPage, PageFields
  <2>6. Idle(jobs)
    BY <1>1, <2>4, SMT
  <2>7. \A i \in jobs' : Step(i) => i = k
    BY <2>2, <2>6, SMT DEF Idle
  <2>8. ASSUME account \notin foreign
        PROVE  account \in DOMAIN placed /\ placed[account] = FinalPlace(y) /\ account \in DOMAIN ep
    <3>1. ~waiting
      BY <2>4, Zenon DEF Clickable
    <3>2. Moved(m, account)
      BY <2>1, <2>4, <2>8, <3>1, SMT DEF AgreeFits, PageAgrees
    <3> QED  BY <2>1, <2>4, <3>2, SMT DEF Moved
  <2>9. JobAgrees(k)'
    BY <2>3, <2>4, <2>8, SMT DEF JobAgrees, matchVars
  <2>10. PageAgrees'
    BY <2>4, <2>5, SMT DEF PageAgrees
  <2> QED  BY <2>7, <2>9, <2>10, OneAgrees, Zenon
\* What the match does not notice
<1>12. ASSUME Calm, jobs' = jobs
       PROVE  AgreeFits'
  <2>1. (\A i \in jobs' : Step(i) => i \in jobs) /\ \A i \in jobs : Asks(i) => i \in jobs'
    BY <1>12, SMT
  <2> QED  BY <1>0, <1>12, <2>1, CalmKeeps, Zenon
<1>13. ASSUME Still, jobs' = jobs
       PROVE  AgreeFits'
  BY <1>12, <1>13, StillIsCalm, Zenon
<1>14. ASSUME NEW a, EditElsewhere(a)
       PROVE  AgreeFits'
  BY <1>13, <1>14, SMT DEF EditElsewhere, Still
<1>15. ASSUME NEW a, PlayElsewhere(a)
       PROVE  AgreeFits'
  <2>1. account \notin foreign' => account \notin foreign /\ Untouched(account)
    <3>1. foreign' = foreign \cup {a} /\ (ContractStart(a) \/ ContractShop(a))
      BY <1>15, Zenon DEF PlayElsewhere
    <3> QED  BY <3>1, CallsTouchOne, Zenon
  <2>2. /\ UNCHANGED <<route, account, page, waiting, failed, jobs>>
    BY <1>15, SMT DEF PlayElsewhere
  <2>3. Calm
    BY <2>1, <2>2, SMT DEF Calm
  <2> QED  BY <1>12, <2>2, <2>3, SMT
<1>16. ASSUME ReleaseBases
       PROVE  AgreeFits'
  BY <1>13, <1>16, SMT DEF ReleaseBases, Still
<1>17. ASSUME EditDecks, Edited
       PROVE  AgreeFits'
  <2>1. PICK x, y : page' = [page EXCEPT !.decks = x, !.index = y]
    BY <1>17, Zenon DEF Edited
  <2>2. page'.phase = page.phase /\ page'.match = page.match /\ page'.result = page.result
    BY <1>0, <2>1, SMT DEF IsPage, PageFields
  <2>3. Still /\ jobs' = jobs
    BY <1>17, <2>2, SMT DEF EditDecks, Still
  <2> QED  BY <1>13, <2>3, Zenon
<1>18. ASSUME NEW i, SelectDeck(i) \/ DiscardDeck(i)
       PROVE  AgreeFits'
  BY <1>17, <1>18, Zenon DEF SelectDeck, DiscardDeck
<1>19. ASSUME SaveDeck
       PROVE  AgreeFits'
  BY <1>17, <1>19, Zenon DEF SaveDeck
\* A popup is closed
<1>20. ASSUME NEW j \in jobs, NEW signed, PopupClosed(j, signed)
       PROVE  AgreeFits'
  <2>1. PICK k : k = [j EXCEPT !.stage = "submitted"]
    OBVIOUS
  <2>2. j.stage = "popup" /\ (jobs' = Replace(j, k) \/ jobs' = jobs \ {j})
    BY <1>20, <2>1, Zenon DEF PopupClosed
  <2>3. Still
    BY <1>20, SMT DEF PopupClosed, Still
  <2>4. Calm /\ \A i \in jobs : Asks(i) => i \in jobs'
    <3>1. ~Asks(j)
      BY <2>2, SMT DEF Asks
    <3>2. \A i \in jobs : Asks(i) => i \in jobs'
      BY <2>2, <3>1, SMT DEF Replace
    <3> QED  BY <2>3, <3>2, StillIsCalm, Zenon
  <2>5. /\ k.kind = j.kind /\ k.account = j.account /\ k.owner = j.owner /\ k.stage = "submitted" /\ k.match = j.match
        /\ k.wants = j.wants /\ k.place = j.place
    BY <1>0, <2>1, SMT DEF AreJobs, IsJob, HasJobFields, JobFields
  <2>6. Step(k) <=> Step(j)
    BY <2>5, SMT DEF Step, Live
  <2>7. CASE jobs' = jobs \ {j} \/ ~Step(j)
    <3>1. \A i \in jobs' : Step(i) => i \in jobs
      BY <2>2, <2>6, <2>7, SMT DEF Replace
    <3> QED  BY <1>0, <2>4, <3>1, CalmKeeps, Zenon
  <2>8. CASE jobs' = Replace(j, k) /\ Step(j)
    <3>1. Idle(jobs \ {j})
      BY <2>8, AnsweredIsIdle, Zenon
    <3>2. \A i \in jobs' : Step(i) => i = k
      BY <2>8, <3>1, Zenon DEF Idle, Replace
    <3>3. Idle(jobs) => Idle(jobs')
      BY <2>8, Zenon DEF Idle
    <3>4. PageAgrees'
      BY <1>0, <2>4, <3>3, CalmKeepsPage, Zenon DEF AgreeFits
    <3>5. JobAgrees(j)
      BY <2>8, Zenon DEF AgreeFits
    <3>6. JobAgrees(k)'
      BY <2>2, <2>3, <2>5, <3>5, SMT DEF JobAgrees, Still, matchVars
    <3> QED  BY <3>2, <3>4, <3>6, OneAgrees, Zenon
  <2> QED  BY <2>2, <2>7, <2>8
<1>21. AgreeFits'
  BY <1>3, <1>4, <1>5, <1>6, <1>7, <1>8, <1>9, <1>10, <1>11, <1>14, <1>15, <1>16, <1>18, <1>19,
     <1>20, Zenon DEF Player
<1> QED  BY <1>21

\* What start makes of an answer
MatchWith(j, what) ==
  IF what = "seed" THEN [j.match EXCEPT !.seed = seed[j.account]]
  ELSE [j.match EXCEPT !.turn = 1, !.health = record[j.account].health, !.rivals = record[j.account].rivals]

\* What start queries, one answer at a time
LEMMA StartTakes ==
  ASSUME ContractTyped, NEW j, IsJob(j), j.kind = "start", j.stage = "query", JobAgrees(j), j.account \notin foreign,
         NEW what \in j.wants, NEW m, m = MatchWith(j, what)
  PROVE  LET a == j.account
         IN  /\ a \in DOMAIN turns /\ turns[a] = 0
             /\ "seed" \notin j.wants \ {what} => m.seed = seed[a]
             /\ "mutable" \notin j.wants \ {what} =>
                  m.turn = 1 /\ [health |-> m.health, rivals |-> m.rivals] = record[a]
<1> DEFINE a == j.account
<1>1. /\ a \in DOMAIN turns /\ turns[a] = 0 /\ a \in DOMAIN record
      /\ "seed" \notin j.wants => j.match.seed = seed[a]
      /\ "mutable" \notin j.wants =>
           j.match.turn = 1 /\ [health |-> j.match.health, rivals |-> j.match.rivals] = record[a]
  BY SMT DEF JobAgrees, ContractTyped, AreMatches
<1>2. IsMatch(j.match) /\ what \in Wants
  BY SMT DEF IsJob, HasJobFields
<1>3. record[a] \in [health : Int, rivals : Int]
  BY <1>1, SMT DEF ContractTyped, AreMatches
<1> HIDE DEF a
<1>4. CASE what = "seed"
  <2>1. /\ m.seed = seed[a] /\ m.turn = j.match.turn /\ m.health = j.match.health /\ m.rivals = j.match.rivals
    BY <1>2, <1>4, SMT DEF MatchWith, IsMatch, MatchFields, a
  <2> QED  BY <1>1, <1>4, <2>1, SMT DEF a
<1>5. CASE what # "seed"
  <2>1. what = "mutable"
    BY <1>2, <1>5, SMT DEF Wants
  <2>2. m.seed = j.match.seed /\ m.turn = 1 /\ m.health = record[a].health /\ m.rivals = record[a].rivals
    BY <1>2, <1>5, SMT DEF MatchWith, IsMatch, MatchFields, a
  <2>3. [health |-> m.health, rivals |-> m.rivals] = record[a]
    BY <1>3, <2>2, SMT
  <2> QED  BY <1>1, <2>1, <2>2, <2>3, SMT DEF a
<1> QED  BY <1>4, <1>5

\* What was asked is answered, or fails
LEMMA AnswerAgrees ==
  ASSUME LinksCoherent, Typed, Covered, HealthFits, SeedsDrawn, AgreeFits, Answer \/ Failure, ~late'
  PROVE  AgreeFits'
<1> USE DEF appVars, linkVars, modalVars, frameRest, storageVars, chainVars, history, txRest
<1>0. IsPage(page) /\ AreJobs(jobs) /\ ContractTyped /\ page.phase \in Phases
  BY DEF Typed, IsPage
<1>20. ASSUME NEW j, late' = (late \/ ~Live(j))
       PROVE  Live(j)
  BY <1>20, Zenon
<1>1. ASSUME NEW j \in jobs, Step(j)
      PROVE  AtStep(j) /\ Idle(jobs \ {j}) /\ JobAgrees(j)
  BY <1>1, AnsweredIsIdle, Zenon DEF AgreeFits
\* A loading screen ends
<1>2. ASSUME ~(wasm /\ connection # 0), NEW c, NEW w, jobs' = jobs \cup Opening(route, c, w, account), page' = page
      PROVE  AgreeFits'
  <2>1. Idle(jobs)
    BY <1>2, SMT DEF Covered, StepsFit, AtStep, Idle
  <2>2. page'.phase \in {"setup", "loading"}
    BY <1>0, <1>2, SMT DEF Covered, PageFits, Fits, Phases
  <2>3. PICK x : x = Opening(route, c, w, account)
    OBVIOUS
  <2>4. \A i \in x : Opens(i, route, account)
    BY <2>3, OpeningIs, Zenon
  <2>5. \A i \in jobs' : Step(i) => i.kind \in {"setup", "generate", "trial"}
    BY <1>2, <2>1, <2>3, <2>4, SMT DEF Idle, Step, Steps, Covering, Opens
  <2> QED  BY <2>2, <2>5, OffMatchAgrees, SMT
<1>3. ASSUME Still, jobs' = jobs
      PROVE  AgreeFits'
  <2>1. (\A i \in jobs' : Step(i) => i \in jobs) /\ \A i \in jobs : Asks(i) => i \in jobs'
    BY <1>3, SMT
  <2> QED  BY <1>0, <1>3, <2>1, StillIsCalm, CalmKeeps, Zenon
<1>4. ASSUME WasmReady
      PROVE  AgreeFits'
  <2>1. ~wasm /\ Mounted(connection, TRUE) /\ page' = page
    BY <1>4, Zenon DEF WasmReady
  <2>2. jobs' = jobs \cup Opening(route, connection, TRUE, account)
    BY <2>1, Zenon DEF Mounted
  <2> QED  BY <1>2, <2>1, <2>2, Zenon
<1>5. ASSUME NEW k, BasesAnswer(k)
      PROVE  AgreeFits'
  <2>1. Mounted(k, wasm) /\ page' = page /\ UNCHANGED <<route, account, matchVars, foreign, failed>>
    BY <1>5, SMT DEF BasesAnswer
  <2>2. CASE wasm /\ connection # 0
    <3>1. jobs' = jobs /\ (waiting => waiting')
      BY <2>1, <2>2, Zenon DEF Mounted
    <3>2. Still
      BY <2>1, <3>1, SMT DEF Still
    <3> QED  BY <1>3, <3>1, <3>2, Zenon
  <2>3. CASE ~(wasm /\ connection # 0)
    <3>1. jobs' = jobs \cup Opening(route, k, wasm, account)
      BY <2>1, <2>3, Zenon DEF Mounted
    <3> QED  BY <1>2, <2>1, <2>3, <3>1, Zenon
  <2> QED  BY <2>2, <2>3
<1>6. ASSUME NEW k, LinkAnswers(k)
      PROVE  AgreeFits'
  BY <1>3, <1>6, SMT DEF LinkAnswers, Still
\* Off the match
<1>7. ASSUME route' # "/match" \/ page'.phase \in {"setup", "loading"}, Idle(jobs')
      PROVE  AgreeFits'
  BY <1>7, OffMatchAgrees, Zenon DEF Idle
<1>8. ASSUME NEW js, AreJobs(js), NEW p, NEW a, Render(p, a, js), Idle(js),
             route' # "/match" \/ p.phase \in {"setup", "loading"}
      PROVE  AgreeFits'
  <2>1. (page' = p /\ jobs' = js) \/ (page' = NewPage("/") /\ jobs' = Gone(js))
    BY <1>8, RenderEither, Zenon
  <2>2. NewPage("/").phase = "loading"
    BY NewPageIs, SMT
  <2>3. Idle(Gone(js))
    BY <1>8, LeaveIs, Zenon DEF Idle, Step
  <2>4. (route' # "/match" \/ page'.phase \in {"setup", "loading"}) /\ Idle(jobs')
    BY <1>8, <2>1, <2>2, <2>3, SMT
  <2> QED  BY <1>7, <2>4, Zenon
<1>9. ASSUME NEW j \in jobs, Step(j), NEW a
      PROVE  AreJobs(Readdress(a, jobs \ {j})) /\ Idle(Readdress(a, jobs \ {j}))
  <2>1. AreJobs(jobs \ {j}) /\ Idle(jobs \ {j})
    BY <1>0, <1>1, <1>9, JobsWithout, Zenon
  <2>2. ASSUME NEW i \in AddressQueries(a)
        PROVE  ~Step(i)
    BY JobIs, SMT DEF AddressQueries, Step, Steps, Covering
  <2>3. /\ AreJobs(Readdress(a, jobs \ {j}))
        /\ \A i \in Readdress(a, jobs \ {j}) : Live(i) => i \in jobs \ {j} \/ i \in AddressQueries(a)
    BY <2>1, ReaddressIs, Zenon
  <2> QED  BY <2>1, <2>2, <2>3, Zenon DEF Idle, Step
<1>10. ASSUME NEW j \in jobs, SetupAnswered(j) \/ Generated(j)
       PROVE  AgreeFits'
  <2>1. PICK p, a : /\ Render(p, a, Readdress(a, jobs \ {j}))
                    /\ \/ p = WithDecks(page, a)
                       \/ p = WithDecks([page EXCEPT !.built = release], a)
    BY <1>10, Zenon DEF SetupAnswered, Generated
  <2>2. Step(j)
    BY <1>10, <1>20, Zenon DEF SetupAnswered, Generated, Step, Steps, Covering
  <2>3. j.kind \in {"setup", "generate"}
    BY <1>10, SMT DEF SetupAnswered, Generated
  <2>4. page.phase = "setup"
    <3>1. AtStep(j)
      BY <1>1, <2>2, Zenon
    <3> QED  BY <2>3, <3>1, SMT DEF AtStep
  <2>5. IsPage([page EXCEPT !.built = release]) /\ [page EXCEPT !.built = release].phase = page.phase
    BY <1>0, SMT DEF LinksCoherent, IsPage, PageFields
  <2>6. /\ WithDecks(page, a).phase = page.phase
        /\ WithDecks([page EXCEPT !.built = release], a).phase = [page EXCEPT !.built = release].phase
    BY <1>0, <2>5, WithDecksKeeps, Zenon DEF SameButDecks
  <2>7. p.phase \in {"setup", "loading"}
    BY <2>1, <2>4, <2>5, <2>6, SMT
  <2> QED  BY <1>8, <1>9, <2>1, <2>2, <2>7, Zenon
<1>11. ASSUME NEW j \in jobs, TrialAnswered(j)
       PROVE  AgreeFits'
  <2>1. Step(j) /\ j.kind = "trial" /\ route' = route
    BY <1>11, <1>20, Zenon DEF TrialAnswered, Step, Steps
  <2>2. route' # "/match"
    <3>1. AtStep(j)
      BY <1>1, <2>1, Zenon
    <3> QED  BY <2>1, <3>1, SMT DEF AtStep
  <2>3. PICK p : Render(p, NoAccount, Readdress(NoAccount, jobs \ {j}))
    BY <1>11, Zenon DEF TrialAnswered
  <2> QED  BY <1>8, <1>9, <2>1, <2>2, <2>3, Zenon
<1>12. ASSUME NEW j \in jobs, SetupBlocked(j)
       PROVE  AgreeFits'
  <2>1. jobs' = Gone(jobs) /\ page' = NewPage("/")
    BY <1>12, Zenon DEF SetupBlocked
  <2>2. page'.phase = "loading"
    BY <2>1, NewPageIs, Zenon
  <2>3. Idle(jobs')
    BY <1>0, <2>1, LeaveIs, SMT DEF Idle, Step
  <2> QED  BY <1>7, <2>2, <2>3, SMT
\* One that the match does not notice
<1>13. ASSUME Still, \A i \in jobs' : Step(i) => i \in jobs, \A i \in jobs : Asks(i) => i \in jobs'
       PROVE  AgreeFits'
  BY <1>0, <1>13, StillIsCalm, CalmKeeps, Zenon
<1>14. ASSUME NEW j \in jobs, EpAnswered(j)
       PROVE  AgreeFits'
  <2> DEFINE x == IF EpTaken(j) THEN PlayerEp(j.account) ELSE page.ep
             q == [page EXCEPT !.ep = x]
             p == IF page.ep # 0 THEN q ELSE WithDecks(q, account)
  <2>1. /\ Render(p, account, jobs \ {j}) /\ j.kind = "ep"
        /\ UNCHANGED <<route, waiting, matchVars, foreign, failed>>
    BY <1>14, Zenon DEF EpAnswered
  <2> HIDE DEF x
  <2>2. IsPage(q) /\ q.phase = page.phase /\ q.match = page.match /\ q.result = page.result
    BY <1>0, SMT DEF IsPage, PageFields
  <2> HIDE DEF q
  <2>3. IsPage(WithDecks(q, account)) /\ SameButDecks(WithDecks(q, account), q)
    BY <2>2, WithDecksKeeps, Zenon
  <2>4. IsPage(p) /\ p.phase = page.phase /\ p.match = page.match /\ p.result = page.result
    BY <2>2, <2>3, SMT DEF SameButDecks
  <2> HIDE DEF p
  <2>5. account' = account /\ ((page' = p /\ jobs' = jobs \ {j}) \/ (page' = NewPage("/") /\ jobs' = Gone(jobs \ {j})))
    BY <2>1, RenderEither, Zenon DEF Render
  <2>6. CASE page' = p /\ jobs' = jobs \ {j}
    <3>1. Still
      BY <2>1, <2>4, <2>5, <2>6, SMT DEF Still
    <3>2. ~Asks(j)
      BY <2>1, SMT DEF Asks
    <3>3. (\A i \in jobs' : Step(i) => i \in jobs) /\ \A i \in jobs : Asks(i) => i \in jobs'
      BY <2>6, <3>2, SMT
    <3> QED  BY <1>13, <3>1, <3>3, Zenon
  <2>7. CASE page' = NewPage("/") /\ jobs' = Gone(jobs \ {j})
    <3>1. page'.phase = "loading"
      BY <2>7, NewPageIs, Zenon
    <3>2. Idle(jobs')
      BY <1>0, <2>7, JobsWithout, LeaveIs, SMT DEF Idle, Step
    <3> QED  BY <1>7, <3>1, <3>2, SMT
  <2> QED  BY <2>5, <2>6, <2>7
<1>15. ASSUME NEW j \in jobs, RecordAnswered(j) \/ HealthWritten(j)
       PROVE  AgreeFits'
  <2>1. jobs' = jobs \ {j} /\ ~Asks(j)
    BY <1>15, SMT DEF RecordAnswered, HealthWritten, Asks
  <2>2. page'.phase = page.phase /\ page'.match = page.match /\ page'.result = page.result
    BY <1>0, <1>15, SMT DEF RecordAnswered, HealthWritten, IsPage, PageFields
  <2>3. Still
    BY <1>15, <2>2, SMT DEF RecordAnswered, HealthWritten, Still
  <2>4. (\A i \in jobs' : Step(i) => i \in jobs) /\ \A i \in jobs : Asks(i) => i \in jobs'
    BY <2>1, SMT
  <2> QED  BY <1>13, <2>3, <2>4, Zenon
<1>16. ASSUME BattlePlayed
       PROVE  AgreeFits'
  <2>1. PICK k : /\ \E h : k = [Job("animation", account) EXCEPT !.stage = "grades", !.match.health = h]
                 /\ jobs \subseteq jobs' /\ jobs' \subseteq jobs \cup {k}
    BY <1>16, Zenon DEF BattlePlayed
  <2>2. k.kind = "animation"
    BY <2>1, JobIs, SMT DEF IsJob, HasJobFields, JobFields
  <2>3. ~Step(k)
    BY <2>2, SMT DEF Step, Steps, Covering
  <2>4. (\A i \in jobs' : Step(i) => i \in jobs) /\ \A i \in jobs : Asks(i) => i \in jobs'
    BY <2>1, <2>3, Zenon
  <2>5. page'.phase = page.phase /\ page'.match = page.match /\ page'.result = page.result
    BY <1>0, <1>16, SMT DEF BattlePlayed, IsPage, PageFields
  <2>6. Still
    BY <1>16, <2>5, SMT DEF BattlePlayed, Still
  <2> QED  BY <1>13, <2>4, <2>6, Zenon
<1>17. ASSUME NEW j \in jobs, BoxesFound(j)
       PROVE  AgreeFits'
  <2> DEFINE k == [j EXCEPT !.stage = "boxes"]
  <2>2. j.stage = "grades" /\ (jobs' = Replace(j, k) \/ jobs' = jobs \ {j})
    BY <1>17, Zenon DEF BoxesFound
  <2>3. k.kind = j.kind /\ (Step(k) <=> Step(j))
    BY <1>0, SameStep, Zenon DEF AreJobs
  <2> HIDE DEF k
  <2>4. ~Step(j) /\ ~Asks(j)
    BY <2>2, SMT DEF HealthFits, Step, Steps, Covering, Asks
  <2>5. (\A i \in jobs' : Step(i) => i \in jobs) /\ \A i \in jobs : Asks(i) => i \in jobs'
    BY <2>2, <2>3, <2>4, SMT DEF Replace
  <2>6. Still
    BY <1>17, SMT DEF BoxesFound, Still
  <2> QED  BY <1>13, <2>5, <2>6, Zenon
\* A query fails: of the seed, the modal is left there
<1>18. ASSUME NEW j \in jobs, Lost(j) \/ Fault(j)
       PROVE  AgreeFits'
  <2>1. /\ jobs' = jobs \ {j} /\ failed' = TRUE
        /\ UNCHANGED <<route, account, waiting, page, matchVars, foreign>>
    BY <1>18, SMT DEF Lost, Fault, QueryFails
  <2>2. CASE ~Asks(j)
    <3>1. Still
      BY <2>1, SMT DEF Still
    <3>2. (\A i \in jobs' : Step(i) => i \in jobs) /\ \A i \in jobs : Asks(i) => i \in jobs'
      BY <2>1, <2>2, SMT
    <3> QED  BY <1>13, <3>1, <3>2, Zenon
  <2>3. CASE Asks(j)
    <3>1. Step(j) /\ j.kind = "shop"
      BY <2>3, SMT DEF Asks, Step, Steps, Covering
    <3>2. AtStep(j) /\ Idle(jobs')
      BY <1>1, <2>1, <3>1, SMT
    <3>3. page.phase = "shop" /\ waiting
      BY <3>1, <3>2, SMT DEF AtStep
    <3>4. PageAgrees'
      BY <2>1, <3>2, <3>3, SMT DEF PageAgrees, Idle, Step, Live
    <3> QED  BY <3>2, <3>4, NoneAgrees, Zenon
  <2> QED  BY <2>2, <2>3
\* A transaction of a page that is gone
<1>19. ASSUME NEW j \in jobs, ~Live(j), StartIncluded(j) \/ ShopIncluded(j)
       PROVE  AgreeFits'
  <2>1. /\ UNCHANGED <<route, account, waiting, page>>
        /\ failed => failed'
        /\ j.stage = "submitted"
    BY <1>19, Zenon DEF StartIncluded, ShopIncluded, NextInLine, Taken, Refused
  <2>2. \/ UNCHANGED <<matchVars, foreign>>
        \/ (ContractStart(j.account) \/ ContractShop(j.account)) /\ foreign' = foreign \cup {j.account}
    BY <1>19, Zenon DEF StartIncluded, ShopIncluded, Refused
  <2>3. account \notin foreign' => account \notin foreign /\ Untouched(account)
    <3>1. CASE UNCHANGED <<matchVars, foreign>>
      BY <3>1, AloneIsUntouched, Zenon
    <3>2. CASE (ContractStart(j.account) \/ ContractShop(j.account)) /\ foreign' = foreign \cup {j.account}
      BY <3>2, CallsTouchOne, Zenon
    <3> QED  BY <2>2, <3>1, <3>2
  <2>4. Calm
    BY <2>1, <2>3, SMT DEF Calm
  <2>5. \/ jobs' = jobs \ {j}
        \/ \E wants : jobs' = Replace(j, [j EXCEPT !.stage = "query", !.wants = wants])
    BY <1>19, Zenon DEF StartIncluded, ShopIncluded, Taken, Refused
  <2>6. \A wants : ~Step([j EXCEPT !.stage = "query", !.wants = wants])
    BY <1>0, <1>19, SameStep, Zenon DEF AreJobs, Step
  <2>7. (\A i \in jobs' : Step(i) => i \in jobs) /\ \A i \in jobs : Asks(i) => i \in jobs'
    <3>1. PICK k : ~Step(k) /\ (jobs' = jobs \ {j} \/ jobs' = Replace(j, k))
      BY <2>5, <2>6, Zenon
    <3>2. ~Asks(j)
      BY <2>1, SMT DEF Asks
    <3> QED  BY <3>1, <3>2, SMT DEF Replace
  <2> QED  BY <1>0, <2>4, <2>7, CalmKeeps, Zenon
\* A match starts
<1>21. ASSUME NEW j \in jobs, Live(j), StartIncluded(j)
       PROVE  AgreeFits'
  <2>1. j.kind = "start" /\ Step(j)
    BY <1>21, SMT DEF StartIncluded, Step, Steps, Covering
  <2>2. AtStep(j) /\ Idle(jobs \ {j}) /\ JobAgrees(j)
    BY <1>1, <2>1, Zenon
  <2>3. page'.phase = "setup" /\ page' = page /\ account' = account /\ j.account = account
    BY <1>21, <2>1, <2>2, SMT DEF AtStep, StartIncluded, JobAgrees
  <2>4. CASE jobs' = jobs \ {j}
    BY <1>7, <2>2, <2>3, <2>4, SMT
  <2>5. CASE jobs' # jobs \ {j}
    <3>1. PICK k : k = [j EXCEPT !.stage = "query", !.wants = {"seed", "mutable"}]
      OBVIOUS
    <3>2. ContractStart(j.account) /\ jobs' = Replace(j, k)
      BY <1>21, <2>5, <3>1, Zenon DEF StartIncluded, Taken, Refused
    <3>3. /\ k.kind = "start" /\ k.account = account /\ k.stage = "query" /\ k.wants = {"seed", "mutable"}
      BY <1>0, <2>1, <2>3, <3>1, SMT DEF AreJobs, IsJob, HasJobFields, JobFields
    <3>4. account \in DOMAIN turns' /\ turns'[account] = 0
      <4>1. turns' = MapInsert(turns, account, 0)
        BY <2>3, <3>2, ContractStartIs, Zenon
      <4> QED  BY <4>1, SMT DEF MapInsert
    <3>5. JobAgrees(k)'
      BY <2>3, <3>3, <3>4, SMT DEF JobAgrees
    <3>6. PageAgrees'
      BY <2>3, SMT DEF PageAgrees
    <3>7. \A i \in jobs' : Step(i) => i = k
      BY <2>2, <3>2, Zenon DEF Idle, Replace
    <3> QED  BY <3>5, <3>6, <3>7, OneAgrees, Zenon
  <2> QED  BY <2>4, <2>5
<1>22. ASSUME NEW j \in jobs, NEW what, StartAnswered(j, what)
       PROVE  AgreeFits'
  <2>1. PICK m, a : m = MatchWith(j, what) /\ a = j.account
    OBVIOUS
  <2>2. PICK k : k = [j EXCEPT !.match = m, !.wants = @ \ {what}]
    OBVIOUS
  <2>3. /\ j.kind = "start" /\ what \in j.wants
        /\ k.wants # {} => jobs' = Replace(j, k) /\ UNCHANGED <<account, waiting, page>>
        /\ k.wants = {} => OpenShop(j, m)
        /\ UNCHANGED <<route, wasm, connection, matchVars, foreign, failed>>
    BY <1>22, <2>1, <2>2, Zenon DEF StartAnswered, MatchWith
  <2>4. /\ k.kind = "start" /\ k.account = a /\ k.stage = j.stage /\ k.match = m /\ k.wants = j.wants \ {what}
        /\ k.owner = j.owner
    BY <1>0, <2>1, <2>2, <2>3, SMT DEF AreJobs, IsJob, HasJobFields, JobFields
  <2>5. ASSUME Live(j)
        PROVE  /\ Step(j) /\ AtStep(j) /\ Idle(jobs \ {j}) /\ JobAgrees(j)
               /\ page.phase = "setup" /\ a = account /\ j.stage = "query" /\ account # NoAccount
    <3>1. Step(j)
      BY <2>3, <2>5, SMT DEF Step, Steps, Covering
    <3>2. AtStep(j) /\ Idle(jobs \ {j}) /\ JobAgrees(j)
      BY <1>1, <3>1, Zenon
    <3>3. j.stage = "query" /\ a = account
      BY <2>1, <2>3, <3>2, SMT DEF JobAgrees
    <3>4. page.phase = "setup" /\ account # NoAccount
      BY <2>3, <3>2, SMT DEF AtStep
    <3> QED  BY <3>1, <3>2, <3>3, <3>4, Zenon
  <2>6. ASSUME Live(j), a \notin foreign
        PROVE  /\ a \in DOMAIN turns /\ turns[a] = 0
               /\ "seed" \notin k.wants => m.seed = seed[a]
               /\ "mutable" \notin k.wants =>
                    m.turn = 1 /\ [health |-> m.health, rivals |-> m.rivals] = record[a]
    <3>1. /\ IsJob(j) /\ what \in j.wants /\ j.account \notin foreign
          /\ j.kind = "start" /\ j.stage = "query" /\ JobAgrees(j)
      BY <1>0, <2>1, <2>3, <2>5, <2>6, SMT DEF AreJobs
    <3>2. /\ j.account \in DOMAIN turns /\ turns[j.account] = 0
          /\ "seed" \notin j.wants \ {what} => m.seed = seed[j.account]
          /\ "mutable" \notin j.wants \ {what} =>
               m.turn = 1 /\ [health |-> m.health, rivals |-> m.rivals] = record[j.account]
      BY <1>0, <2>1, <3>1, StartTakes, ZenonT(30)
    <3> QED  BY <2>1, <2>4, <3>2, SMT
  <2>7. CASE k.wants # {}
    <3>1. jobs' = Replace(j, k) /\ UNCHANGED <<account, waiting, page>>
      BY <2>3, <2>7
    <3>2. CASE ~Live(j)
      <4>1. ~Step(k) /\ ~Asks(j)
        BY <2>4, <3>2, SMT DEF Step, Live, Asks
      <4>2. (\A i \in jobs' : Step(i) => i \in jobs) /\ \A i \in jobs : Asks(i) => i \in jobs'
        BY <3>1, <4>1, SMT DEF Replace
      <4>3. Still
        BY <2>3, <3>1, SMT DEF Still
      <4> QED  BY <1>13, <4>2, <4>3, Zenon
    <3>3. CASE Live(j)
      <4>1. \A i \in jobs' : Step(i) => i = k
        BY <2>5, <3>1, <3>3, Zenon DEF Idle, Replace
      <4>2. JobAgrees(k)'
        BY <2>3, <2>4, <2>5, <2>6, <3>1, <3>3, SMT DEF JobAgrees, matchVars
      <4>3. PageAgrees'
        BY <2>5, <3>1, <3>3, SMT DEF PageAgrees
      <4> QED  BY <4>1, <4>2, <4>3, OneAgrees, Zenon
    <3> QED  BY <3>2, <3>3
  <2>8. CASE k.wants = {}
    <3>1. Live(j)
      BY <1>20, <2>3, <2>8, Zenon DEF OpenShop
    <3>2. PICK p : p = [page EXCEPT !.phase = "shop", !.match = m]
      OBVIOUS
    <3>3. Render(p, account, jobs \ {j})
      BY <2>3, <2>8, <3>1, <3>2, Zenon DEF OpenShop
    <3>4. p.phase = "shop" /\ p.match = m
      BY <1>0, <3>2, SMT DEF IsPage, PageFields
    <3>5. ~Crashes(p, account, connection)
      BY <2>5, <3>1, <3>4, SMT DEF Crashes, Shown
    <3>6. jobs' = jobs \ {j} /\ page' = p /\ account' = account
      BY <3>3, <3>5, Zenon DEF Render
    <3>7. a \notin foreign => Agrees(m, a)
      BY <2>6, <2>8, <3>1, SMT DEF Agrees
    <3>8. Agrees(m, a) => Agrees(m, a)'
      BY <2>3, SMT DEF Agrees, matchVars
    <3>9. PageAgrees'
      BY <2>3, <2>5, <3>1, <3>4, <3>6, <3>7, <3>8, SMT DEF PageAgrees
    <3> QED  BY <2>5, <3>1, <3>6, <3>9, NoneAgrees, SMT
  <2> QED  BY <2>7, <2>8
\* A shop phase is over: the contract plays the battle first, then the front
<1>23. ASSUME NEW j \in jobs, Live(j), ShopIncluded(j)
       PROVE  AgreeFits'
  <2>1. j.kind = "shop" /\ j.stage = "submitted" /\ Step(j)
    BY <1>23, SMT DEF ShopIncluded, NextInLine, Step, Steps, Covering
  <2>2. AtStep(j) /\ Idle(jobs \ {j}) /\ JobAgrees(j)
    BY <1>1, <2>1, Zenon
  <2>3. PICK a, m : a = account /\ m = page.match
    OBVIOUS
  <2>4. /\ j.account = a /\ j.match = m /\ page.phase = "shop" /\ waiting /\ route = "/match"
    BY <2>1, <2>2, <2>3, SMT DEF AtStep, JobAgrees
  <2>5. UNCHANGED <<route, account, waiting, page>> /\ foreign' = foreign
    BY <1>23, Zenon DEF ShopIncluded, Refused
  <2>6. a \notin foreign => Agrees(m, a)
    <3>1. ~\E i \in jobs : Asks(i)
      BY <2>1, <2>2, SMT DEF Asks, Idle, Step, Steps, Covering
    <3>2. ~Idle(jobs)
      BY <2>1, Zenon DEF Idle
    <3> QED  BY <2>3, <2>4, <3>1, <3>2, Zenon DEF AgreeFits, PageAgrees
  <2>7. PICK k : k = [j EXCEPT !.stage = "query", !.wants = {"seed"}]
    OBVIOUS
  <2>8. \/ jobs' = jobs \ {j} /\ (a \in foreign \/ failed')
        \/ jobs' = Replace(j, k) /\ ContractShop(a)
    <3>1. \/ ContractShop(j.account) /\ Taken(j, {"seed"})
          \/ ~Agrees(j.match, j.account) /\ Refused(j)
      BY <1>23, Zenon DEF ShopIncluded
    <3>2. CASE ContractShop(j.account) /\ Taken(j, {"seed"})
      <4>1. /\ Up(j) => jobs' = Replace(j, [j EXCEPT !.stage = "query", !.wants = {"seed"}])
            /\ ~Up(j) => jobs' = jobs \ {j} /\ failed'
        BY <3>2, Zenon DEF Taken
      <4>2. Up(j) => jobs' = Replace(j, k)
        BY <2>7, <4>1, SMT
      <4>3. ContractShop(a)
        BY <2>4, <3>2, SMT
      <4> QED  BY <4>1, <4>2, <4>3, Zenon
    <3>3. CASE ~Agrees(j.match, j.account) /\ Refused(j)
      BY <2>4, <2>6, <3>3, SMT DEF Refused
    <3> QED  BY <3>1, <3>2, <3>3
  <2>9. CASE jobs' = jobs \ {j} /\ (a \in foreign \/ failed')
    <3>1. Idle(jobs')
      BY <2>2, <2>9, SMT
    <3>2. PageAgrees'
      BY <2>3, <2>4, <2>5, <2>9, <3>1, SMT DEF PageAgrees, Idle, Step, Live
    <3> QED  BY <3>1, <3>2, NoneAgrees, Zenon
  <2>10. CASE jobs' = Replace(j, k) /\ ContractShop(a)
    <3>3. k.kind = "shop" /\ k.account = a /\ k.stage = "query" /\ k.match = m /\ k.owner = j.owner
      BY <1>0, <2>1, <2>4, <2>7, SMT DEF AreJobs, IsJob, HasJobFields, JobFields
    <3>4. Asks(k) /\ k \in jobs'
      BY <1>23, <2>10, <3>3, SMT DEF Asks, Live, Replace
    <3>5. IsMatch(m)
      BY <1>0, <2>3, SMT DEF IsPage
    <3>6. a \notin foreign => a \in DOMAIN seed' /\ \A x : x = [m EXCEPT !.seed = seed'[a]] => Moved(x, a)'
      BY <1>0, <2>6, <2>10, <3>5, ShopMoves, Zenon
    <3>7. PICK x : x = [m EXCEPT !.seed = seed'[a]]
      OBVIOUS
    <3>8. a \notin foreign => a \in DOMAIN seed' /\ Moved(x, a)'
      BY <3>6, <3>7, Zenon
    <3>9. JobAgrees(k)'
      BY <2>3, <2>5, <3>3, <3>7, <3>8, SMT DEF JobAgrees
    <3>10. PageAgrees'
      BY <2>4, <2>5, <3>4, SMT DEF PageAgrees, Asks, Live
    <3>11. \A i \in jobs' : Step(i) => i = k
      BY <2>2, <2>10, Zenon DEF Idle, Replace
    <3> QED  BY <3>9, <3>10, <3>11, OneAgrees, Zenon
  <2> QED  BY <2>8, <2>9, <2>10
<1>24. ASSUME NEW j \in jobs, ShopAnswered(j)
       PROVE  AgreeFits'
  <2>1. Live(j) /\ j.kind = "shop" /\ j.stage = "query" /\ Step(j)
    BY <1>20, <1>24, Zenon DEF ShopAnswered, Step, Steps, Covering
  <2>2. Idle(jobs \ {j}) /\ JobAgrees(j)
    BY <1>1, <2>1, Zenon
  <2>3. PICK a, m : a = account /\ m = [j.match EXCEPT !.seed = seed[a]]
    OBVIOUS
  <2>4. j.account = a
    BY <2>1, <2>2, <2>3, SMT DEF JobAgrees
  <2>5. a \notin foreign => Moved(m, a)
    BY <2>1, <2>2, <2>3, <2>4, SMT DEF JobAgrees
  <2>6. jobs' = jobs \ {j} /\ page' = Battle(page, m) /\ UNCHANGED <<route, account, matchVars, foreign>>
    BY <1>24, <2>1, <2>3, <2>4, SMT DEF ShopAnswered
  <2>7. page'.phase = "battle" /\ page'.match = m
    BY <1>0, <2>6, SMT DEF Battle, IsPage, PageFields
  <2>8. Moved(m, a) => Moved(m, a)'
    <3>1. Untouched(a)
      BY <2>6, AloneIsUntouched, Zenon
    <3> QED  BY <1>0, <3>1, UntouchedAgrees, Zenon
  <2>9. PageAgrees'
    BY <2>3, <2>5, <2>6, <2>7, <2>8, SMT DEF PageAgrees
  <2>10. Idle(jobs')
    BY <2>2, <2>6, SMT
  <2> QED  BY <2>9, <2>10, NoneAgrees, Zenon
\* The match is over
<1>25. ASSUME NEW j \in jobs, ResultAnswered(j)
       PROVE  AgreeFits'
  <2>1. Live(j) /\ j.kind = "result" /\ Step(j)
    BY <1>20, <1>25, Zenon DEF ResultAnswered, Step, Steps, Covering
  <2>2. Idle(jobs \ {j}) /\ JobAgrees(j)
    BY <1>1, <2>1, Zenon
  <2>3. PICK a : a = account
    OBVIOUS
  <2>4. /\ j.account = a
        /\ a \notin foreign => a \in DOMAIN placed /\ j.place = placed[a] /\ a \in DOMAIN ep
    BY <2>1, <2>2, <2>3, SMT DEF JobAgrees
  <2>5. /\ jobs' = LeaveBattle \ {j} /\ UNCHANGED <<route, account, matchVars, foreign>>
        /\ page' = [page EXCEPT !.phase = "result", !.result = [place |-> j.place, ep |-> ep[a]]]
    BY <1>25, <2>1, <2>4, SMT DEF ResultAnswered
  <2>6. page'.phase = "result" /\ page'.result = [place |-> j.place, ep |-> ep[a]]
    BY <1>0, <2>5, SMT DEF IsPage, PageFields
  <2>7. \A i \in LeaveBattle : Live(i) => i \in jobs
    BY <1>0, LeaveBattleIs, Zenon
  <2>8. Idle(jobs')
    BY <2>2, <2>5, <2>7, SMT DEF Idle, Step
  <2>9. PageAgrees'
    BY <2>3, <2>4, <2>5, <2>6, SMT DEF PageAgrees, matchVars
  <2> QED  BY <2>8, <2>9, NoneAgrees, Zenon
<1>26. AgreeFits'
  BY <1>4, <1>5, <1>6, <1>10, <1>11, <1>12, <1>14, <1>15, <1>16, <1>17, <1>18, <1>19, <1>21, <1>22, <1>23,
     <1>24, <1>25, Zenon DEF Answer, Failure
<1> QED  BY <1>26

LEMMA AgreeFitsInit == Init => SeedsDrawn /\ AgreeFits
<1> SUFFICES ASSUME Init PROVE SeedsDrawn /\ AgreeFits
  OBVIOUS
<1>1. jobs = {} /\ page = NewPage(route)
  BY Zenon DEF Init
<1>2. page.phase \in {"setup", "loading"}
  BY <1>1, NewPageIs, SMT
<1>3. AgreeFits
  BY <1>1, <1>2, SMT DEF AgreeFits, PageAgrees
<1>4. SeedsDrawn
  <2>1. turns = [a \in DOMAIN record |-> 0] /\ seed \in [DOMAIN record -> Seeds]
    BY Zenon DEF Init
  <2> QED  BY <2>1, SMT DEF SeedsDrawn
<1> QED  BY <1>3, <1>4

\* The page and the contract in step, unless an answer was late
InStep == Covered /\ HealthFits /\ AgreeFits

LEMMA InStepStep ==
  ASSUME LinksCoherent, Typed, SeedsDrawn, late \/ InStep, [Next]_vars
  PROVE  late' \/ InStep'
<1>1. CASE Next
  <2>1. CASE late
    BY <1>1, <2>1, LateStays, Zenon
  <2>2. CASE InStep
    <3>1. late' \/ (Covered' /\ HealthFits')
      BY <2>2, HealthFitsStep, Zenon DEF InStep
    <3>2. late' \/ AgreeFits'
      BY <1>1, <2>2, PlayerAgrees, AnswerAgrees, Zenon DEF InStep, Next
    <3> QED  BY <3>1, <3>2, Zenon DEF InStep
  <2> QED  BY <2>1, <2>2
<1>2. CASE UNCHANGED vars
  <2>1. late' = late /\ jobs' = jobs /\ Still
    BY <1>2, SMT DEF vars, appVars, modalVars, chainVars, history, Still
  <2>2. late => late'
    BY <2>1, Zenon
  <2>3. AgreeFits => AgreeFits'
    <3>1. (\A i \in jobs' : Step(i) => i \in jobs) /\ \A i \in jobs : Asks(i) => i \in jobs'
      BY <2>1, SMT
    <3> QED  BY <2>1, <3>1, StillIsCalm, CalmKeeps, Zenon DEF Typed
  <2>4. InStep => late' \/ (Covered' /\ HealthFits')
    BY HealthFitsStep, Zenon DEF InStep
  <2> QED  BY <2>2, <2>3, <2>4, Zenon DEF InStep
<1> QED  BY <1>1, <1>2

InStepInv == LinksCoherent /\ Typed /\ SeedsDrawn /\ (late \/ InStep)

LEMMA InStepAlways == Spec => []InStepInv
<1>1. Init => InStepInv
  BY LinksCoherentInit, TypedInit, CoveredInit, HealthFitsInit, AgreeFitsInit DEF InStepInv, InStep
<1>2. InStepInv /\ [Next]_vars => InStepInv'
  BY LinksCoherentStep, TypedStep, SeedsStep, InStepStep DEF InStepInv
<1> QED  BY <1>1, <1>2, PTL DEF Spec

\* In the shop the front is where the contract is, though it fights every battle itself
\* and asks the contract only for seeds (startMtc and startBattle in components/pages/Mtc):
\* both play the same battle with the seed of the phase before, one after the other.
\* Excused are matches somebody else touched, failed queries and late answers
THEOREM ClientIsInStep == Spec => []ClientAgrees
<1>1. ASSUME InStepInv
      PROVE  ClientAgrees
  <2>1. ASSUME route = "/match", page.phase = "shop", account \notin foreign, ~late, ~failed,
               ~\E j \in jobs : Live(j) /\ j.kind = "shop" /\ j.stage = "query"
        PROVE  Agrees(page.match, account)
    BY <1>1, <2>1, Zenon DEF InStepInv, InStep, AgreeFits, PageAgrees, Asks
  <2> QED  BY <2>1, Zenon DEF ClientAgrees
<1> QED  BY <1>1, InStepAlways, PTL

\* The place the front works out for itself and the EP it queries then (finishBattle in
\* components/pages/Mtc) are those the contract settled the match with
THEOREM ResultIsTrue == Spec => []ResultTrue
<1>1. ASSUME InStepInv
      PROVE  ResultTrue
  <2>1. ASSUME route = "/match", page.phase = "result", account \notin foreign, ~late
        PROVE  page.result = [place |-> placed[account], ep |-> ep[account]]
    BY <1>1, <2>1, Zenon DEF InStepInv, InStep, AgreeFits, PageAgrees
  <2> QED  BY <2>1, Zenon DEF ResultTrue
<1> QED  BY <1>1, InStepAlways, PTL

--------------------------------------------------------------------------------
(* The deck that is shown *)

\* Whoever is waited for to be used is an account of the extension
Generates(js) == \A j \in js : j.kind = "generate" => j.account \in Accounts

AccountsKnown == account \in Accounts \cup {NoAccount} /\ Generates(jobs)

\* The setup lists the decks that are stored for the account
Lists(p, a) ==
  Shown(p, a) =>
    /\ p.decks = Listed(a, BuiltIds[p.built])
    /\ p.index = GetDecks(a, BuiltIds[p.built]).index

DecksShown == elsewhere \/ Lists(page, account)

\* The deck an account has selected is the one that was selected for it last
ChosenStored ==
  /\ DOMAIN chosen = Accounts
  /\ elsewhere \/ \A a \in Accounts :
       selectedDeckIndex[a] >= 2 => chosen[a] = customDecks[a][selectedDeckIndex[a] - 1]

\* What became of the jobs when their owner did
LEMMA OwnerWith ==
  ASSUME NEW j, IsJob(j), NEW x
  PROVE  LET k == [j EXCEPT !.owner = x] IN k.kind = j.kind /\ k.account = j.account /\ k.stage = j.stage
BY SMT DEF IsJob, HasJobFields, JobFields

LEMMA GeneratesStay ==
  ASSUME NEW js, AreJobs(js), Generates(js)
  PROVE  /\ Generates(Leave(js)) /\ Generates(Gone(js))
         /\ \A a : Generates(Readdress(a, js))
         /\ \A j : Generates(js \ {j})
<1>1. \A j \in js : \A x : LET k == [j EXCEPT !.owner = x] IN k.kind = "generate" => k.account \in Accounts
  BY OwnerWith, Zenon DEF AreJobs, Generates
<1>2. Generates(Leave(js))
  <2>1. \A k \in Leave(js) : \E j \in js : \E x : k = [j EXCEPT !.owner = x]
    BY Zenon DEF Leave
  <2> QED  BY <1>1, <2>1, Zenon DEF Generates
<1>3. Generates(Gone(js))
  <2>1. \A k \in Gone(js) : \E j \in js : \E x : k = [j EXCEPT !.owner = x]
    BY Zenon DEF Gone
  <2> QED  BY <1>1, <2>1, Zenon DEF Generates
<1>4. ASSUME NEW a
      PROVE  Generates(Readdress(a, js))
  <2>1. \A k \in AddressQueries(a) : k.kind # "generate"
    <3>1. \A k \in AddressQueries(a) : k = Job("ep", a) \/ k = Job("record", a)
      BY Zenon DEF AddressQueries
    <3> QED  BY <3>1, JobIs, SMT
  <2>2. \A k \in Readdress(a, js) : k \in js \/ k \in AddressQueries(a) \/ \E j \in js : \E x : k = [j EXCEPT !.owner = x]
    BY Zenon DEF Readdress
  <2> QED  BY <1>1, <2>1, <2>2, Zenon DEF Generates
<1> QED  BY <1>2, <1>3, <1>4, Zenon DEF Generates

LEMMA LeaveBattleGenerates ==
  ASSUME AreJobs(jobs), Generates(jobs)
  PROVE  Generates(LeaveBattle)
<1>1. \A k \in LeaveBattle : \E j \in jobs : \E x : k = [j EXCEPT !.owner = x]
  BY Zenon DEF LeaveBattle
<1>2. \A j \in jobs : \A x : LET k == [j EXCEPT !.owner = x] IN k.kind = "generate" => k.account \in Accounts
  BY OwnerWith, Zenon DEF AreJobs, Generates
<1> QED  BY <1>1, <1>2, Zenon DEF Generates

\* What is asked for besides
LEMMA OthersGenerateNot ==
  /\ \A id, c, w, a : Generates(Opening(id, c, w, a))
  /\ \A k : k.kind # "generate" => Generates({k})
  /\ \A js, ks : Generates(js) /\ Generates(ks) => Generates(js \cup ks)
<1>1. ASSUME NEW id, NEW c, NEW w, NEW a
      PROVE  Generates(Opening(id, c, w, a))
  BY OpeningIs, SMT DEF Opens, Generates
<1> QED  BY <1>1, Zenon DEF Generates

--------------------------------------------------------------------------------

\* Where no decks are shown
LEMMA AwayLists ==
  ASSUME page'.phase # "setup" \/ page'.built = 0 \/ account' = NoAccount
  PROVE  DecksShown'
BY SMT DEF DecksShown, Lists, Shown

\* A page shows what it listed, while nobody edits
LEMMA StillLists ==
  ASSUME UNCHANGED storageVars, elsewhere' = elsewhere,
         NEW p, NEW a, page' = p, account' = a, elsewhere \/ Lists(p, a)
  PROVE  DecksShown'
BY SMT DEF DecksShown, Lists, Shown, Listed, GetDecks, storageVars

SameList(q, p) ==
  q.phase = p.phase /\ q.built = p.built /\ q.ep = p.ep /\ q.decks = p.decks /\ q.index = p.index

LEMMA SameLists ==
  ASSUME NEW q, NEW p, NEW a, SameList(q, p), Lists(p, a)
  PROVE  Lists(q, a)
BY SMT DEF SameList, Lists, Shown

LEMMA WithDecksLists ==
  ASSUME NEW p, IsPage(p), NEW a
  PROVE  Lists(WithDecks(p, a), a)
<1> DEFINE got == GetDecks(a, BuiltIds[p.built])
<1>1. got.decks = Listed(a, BuiltIds[p.built])
  BY DEF GetDecks
<1>2. SameButDecks(WithDecks(p, a), p)
  BY WithDecksKeeps, Zenon
<1>3. Shown(WithDecks(p, a), a) <=> Shown(p, a)
  BY <1>2, SMT DEF SameButDecks, Shown
<1>4. Shown(p, a) => WithDecks(p, a) = [p EXCEPT !.decks = got.decks, !.index = got.index]
  BY Zenon DEF WithDecks
<1> HIDE DEF got
<1>6. ASSUME Shown(p, a)
      PROVE  WithDecks(p, a).decks = got.decks /\ WithDecks(p, a).index = got.index
  <2>1. PICK q, x, y : q = WithDecks(p, a) /\ x = got.decks /\ y = got.index
    OBVIOUS
  <2>2. q = [p EXCEPT !.decks = x, !.index = y]
    BY <1>4, <1>6, <2>1, Zenon
  <2>3. q.decks = x /\ q.index = y
    BY <2>2, SMT DEF IsPage, PageFields
  <2> QED  BY <2>1, <2>3
<1>7. WithDecks(p, a).built = p.built
  BY <1>2, Zenon DEF SameButDecks
<1> QED  BY <1>1, <1>3, <1>6, <1>7, Zenon DEF Lists, got

LEMMA RenderLists ==
  ASSUME UNCHANGED storageVars, elsewhere' = elsewhere,
         NEW p, NEW a, NEW js, IsPage(p), AreJobs(js), Render(p, a, js),
         a \in Accounts \cup {NoAccount}, Generates(js), elsewhere \/ Lists(p, a)
  PROVE  AccountsKnown' /\ DecksShown'
<1>1. account' = a
  BY Zenon DEF Render
<1>2. CASE page' = p /\ jobs' = js
  <2>1. DecksShown'
    BY <1>1, <1>2, StillLists, Zenon
  <2> QED  BY <1>1, <1>2, <2>1, Zenon DEF AccountsKnown, Generates
<1>3. CASE page' = NewPage("/") /\ jobs' = Gone(js)
  <2>1. page'.built = 0
    BY <1>3, NewPageIs, Zenon
  <2>2. Generates(jobs')
    BY <1>3, GeneratesStay, Zenon
  <2> QED  BY <1>1, <2>1, <2>2, AwayLists, Zenon DEF AccountsKnown, Generates
<1> QED  BY <1>2, <1>3, RenderEither, Zenon

\* An edit lists the decks anew
LEMMA EditedLists ==
  ASSUME IsPage(page), EditDecks, Edited
  PROVE  DecksShown'
<1>1. PICK a, r : a = account /\ r = page.built
  OBVIOUS
<1>2. account' = a
  BY <1>1, SMT DEF EditDecks, appVars
<1> DEFINE decks == <<DefaultDeck(BuiltIds[r])>> \o customDecks'[a]
           index == IF selectedDeckIndex'[a] \in DOMAIN decks THEN selectedDeckIndex'[a] ELSE 1
<1>3. PICK x, y : x = decks /\ y = index
  OBVIOUS
<1>4. page' = [page EXCEPT !.decks = x, !.index = y]
  BY <1>1, <1>2, <1>3 DEF Edited, GetDecks, Listed
<1>5. page'.built = r /\ page'.decks = x /\ page'.index = y
  BY <1>1, <1>4, SMT DEF IsPage, PageFields
<1> QED  BY <1>2, <1>3, <1>5, SMT DEF DecksShown, Lists, Shown, Listed, GetDecks

\* What is awaited in place of a job, or besides
LEMMA GeneratesWith ==
  ASSUME Generates(jobs), NEW j, NEW k
  PROVE  /\ j \in jobs /\ k.kind = j.kind /\ k.account = j.account => Generates(Replace(j, k))
         /\ k.kind # "generate" => Generates(jobs \cup {k})
         /\ Generates(jobs \ {j})
BY Zenon DEF Generates, Replace

LEMMA KnownStays ==
  ASSUME account' \in Accounts \cup {NoAccount}, Generates(jobs')
  PROVE  AccountsKnown'
BY Zenon DEF AccountsKnown, Generates

LEMMA SamePageLists ==
  ASSUME DecksShown, UNCHANGED storageVars, elsewhere' = elsewhere, account' = account, SameList(page', page)
  PROVE  DecksShown'
BY SMT DEF DecksShown, Lists, Shown, SameList, Listed, GetDecks, storageVars

LEMMA PageListWith ==
  ASSUME NEW p, IsPage(p)
  PROVE  /\ SameList(p, p)
         /\ \A x : SameList([p EXCEPT !.message = x], p)
         /\ \A x : SameList([p EXCEPT !.button = x], p)
         /\ \A x : SameList([p EXCEPT !.health = x], p)
BY SMT DEF SameList, IsPage, PageFields

\* The player moves, and edits nothing
LEMMA PlayerLists ==
  ASSUME Typed, AccountsKnown, DecksShown, Player, UNCHANGED editVars,
         ~\E i \in DOMAIN page.decks : SelectDeck(i) \/ DiscardDeck(i),
         ~SaveDeck
  PROVE  AccountsKnown' /\ DecksShown'
<1> DEFINE GoesOn == AccountsKnown' /\ DecksShown'
<1> USE DEF appVars, linkVars, modalVars, frameRest, chainVars, matchVars, history
<1>0. /\ IsPage(page) /\ AreJobs(jobs)
      /\ account \in Accounts \cup {NoAccount} /\ Generates(jobs)
      /\ UNCHANGED storageVars /\ elsewhere' = elsewhere
  BY SMT DEF Typed, AccountsKnown, editVars
<1>1. ASSUME account' = account, SameList(page', page) \/ page'.phase # "setup" \/ page'.built = 0, Generates(jobs')
      PROVE  GoesOn
  BY <1>0, <1>1, KnownStays, SamePageLists, AwayLists, Zenon
<1>2. SameList(page, page)
  BY <1>0, PageListWith, Zenon
<1> HIDE DEF GoesOn
<1>3. ASSUME NEW id, Go(id) \/ Reload(id)
      PROVE  GoesOn
  <2>1. page' = NewPage(id) /\ (jobs' = Leave(jobs) \cup Opening(id, connection', wasm, account') \/ jobs' = Gone(jobs))
    BY <1>3, Zenon DEF Go, Reload
  <2>2. Generates(jobs')
    BY <1>0, <2>1, GeneratesStay, OthersGenerateNot, Zenon
  <2>3. account' \in {account, NoAccount}
    BY <1>3, SMT DEF Go, Reload, Reroute, LeaveContract, Reloaded
  <2>4. page'.built = 0
    BY <2>1, NewPageIs, Zenon
  <2> QED  BY <1>0, <2>2, <2>3, <2>4, KnownStays, AwayLists, SMT DEF GoesOn
<1>4. ASSUME NEW a \in Accounts, SwitchAccount(a)
      PROVE  GoesOn
  <2>1. page' = page /\ account' = account /\ jobs' = jobs \cup {Job("generate", a)}
    BY <1>4, Zenon DEF SwitchAccount
  <2>2. Generates({Job("generate", a)})
    BY JobIs, SMT DEF Generates
  <2>3. Generates(jobs')
    BY <1>0, <2>1, <2>2, OthersGenerateNot, Zenon
  <2> QED  BY <1>1, <1>2, <2>1, <2>3, Zenon
<1>5. ASSUME NEW a, EditElsewhere(a) \/ PlayElsewhere(a)
      PROVE  GoesOn
  <2>1. page' = page /\ account' = account /\ jobs' = jobs
    BY <1>5, SMT DEF EditElsewhere, PlayElsewhere
  <2> QED  BY <1>0, <1>1, <1>2, <2>1, Zenon
<1>6. ASSUME NEW j \in jobs, NEW signed, PopupClosed(j, signed)
      PROVE  GoesOn
  <2>1. /\ page' = page /\ account' = account
        /\ jobs' = Replace(j, [j EXCEPT !.stage = "submitted"]) \/ jobs' = jobs \ {j}
    BY <1>6, Zenon DEF PopupClosed
  <2>2. LET k == [j EXCEPT !.stage = "submitted"] IN k.kind = j.kind /\ k.account = j.account
    BY <1>0, JobWith, Zenon DEF AreJobs
  <2>3. Generates(jobs')
    BY <1>0, <2>1, <2>2, GeneratesWith, Zenon
  <2> QED  BY <1>1, <1>2, <2>1, <2>3, Zenon
<1>7. ASSUME Start
      PROVE  GoesOn
  <2> DEFINE j == [Job("start", account) EXCEPT !.stage = "popup", !.deck = page.decks[page.index],
                                               !.match.previousEp = page.ep]
  <2>1. page' = [page EXCEPT !.button = FALSE] /\ account' = account /\ jobs' = jobs \cup {j}
    BY <1>7, Zenon DEF Start, Click
  <2>2. IsMatch(NoMatch)
    BY SMT DEF NoMatch, IsMatch, MatchFields
  <2>3. j.kind = "start"
    <3>1. Adds(j, Job("start", account))
      BY <2>2, JobIs, JobWithMatch, Zenon
    <3> QED  BY <3>1, JobIs, SMT DEF Adds
  <2> HIDE DEF j
  <2>4. Generates(jobs')
    BY <1>0, <2>1, <2>3, GeneratesWith, SMT
  <2>5. SameList(page', page)
    BY <1>0, <2>1, PageListWith, Zenon
  <2> QED  BY <1>1, <2>1, <2>4, <2>5, Zenon
<1>8. ASSUME FinishShop
      PROVE  GoesOn
  <2> DEFINE j == [Job("shop", account) EXCEPT !.stage = "popup", !.match = page.match]
  <2>1. page' = page /\ account' = account /\ jobs' = jobs \cup {j}
    BY <1>8, Zenon DEF FinishShop, Click
  <2>2. j.kind = "shop"
    <3>1. Adds(j, Job("shop", account))
      BY <1>0, JobIs, JobWithMatch, Zenon DEF IsPage
    <3> QED  BY <3>1, JobIs, SMT DEF Adds
  <2> HIDE DEF j
  <2>3. Generates(jobs')
    BY <1>0, <2>1, <2>2, GeneratesWith, SMT
  <2> QED  BY <1>1, <1>2, <2>1, <2>3, Zenon
<1>9. ASSUME FinishTrialShop
      PROVE  GoesOn
  <2>1. PICK s : page' = Battle(page, [page.match EXCEPT !.seed = s]) /\ account' = account /\ jobs' = jobs
    BY <1>9, Zenon DEF FinishTrialShop, Click
  <2>3. page'.phase # "setup"
    <3>1. \A n : Battle(page, n).phase = "battle"
      BY <1>0, SMT DEF Battle, IsPage, PageFields
    <3> QED  BY <2>1, <3>1, SMT
  <2> QED  BY <1>0, <1>1, <2>1, <2>3, Zenon
<1>10. IsMatch(FinishBattle(page.match).match)
  BY <1>0, FinishIs, Zenon DEF IsPage
<1>11. PICK m : m = FinishBattle(page.match).match
  OBVIOUS
<1>12. ASSUME NextTurn
       PROVE  GoesOn
  <2>1. page' = [page EXCEPT !.phase = "shop", !.match = m] /\ account' = account /\ jobs' = LeaveBattle
    BY <1>11, <1>12 DEF NextTurn, Click
  <2>2. page'.phase # "setup"
    BY <1>0, <2>1, SMT DEF IsPage, PageFields
  <2> QED  BY <1>0, <1>1, <2>1, <2>2, LeaveBattleGenerates, Zenon
<1>13. ASSUME FinishMatch
       PROVE  GoesOn
  <2>1. PICK x, y :
          /\ page.phase = "battle" /\ account' = account
          /\ page' = [page EXCEPT !.match = m, !.health = x]
          /\ jobs' = jobs \cup {[Job("result", account) EXCEPT !.match = m, !.place = y]}
    BY <1>11, <1>13 DEF FinishMatch, Click
  <2> DEFINE j == [Job("result", account) EXCEPT !.match = m, !.place = y]
  <2>2. jobs' = jobs \cup {j} /\ j.kind = "result"
    <3>1. Adds(j, Job("result", account))
      BY <1>10, <1>11, JobIs, JobWithMatch, Zenon
    <3> QED  BY <2>1, <3>1, JobIs, SMT DEF Adds
  <2> HIDE DEF j
  <2>3. page'.phase # "setup"
    BY <1>0, <2>1, SMT DEF IsPage, PageFields
  <2>4. Generates(jobs')
    BY <1>0, <2>2, GeneratesWith, SMT
  <2> QED  BY <1>1, <2>1, <2>3, <2>4, Zenon
<1>14. ASSUME FinishTrial
       PROVE  GoesOn
  <2>1. PICK x : /\ page' = [page EXCEPT !.phase = "result", !.match = m, !.result = x]
                 /\ account' = account /\ jobs' = LeaveBattle
    BY <1>11, <1>14 DEF FinishTrial, Click
  <2>2. page'.phase # "setup"
    BY <1>0, <2>1, SMT DEF IsPage, PageFields
  <2> QED  BY <1>0, <1>1, <2>1, <2>2, LeaveBattleGenerates, Zenon
<1>15. ASSUME PlayAgain
       PROVE  GoesOn
  <2>1. page' = NewPage(route) /\ account' = account /\ jobs' = jobs \cup Opening(route, connection, wasm, account)
    BY <1>15, Zenon DEF PlayAgain, Click
  <2>2. Generates(jobs')
    BY <1>0, <2>1, OthersGenerateNot, Zenon
  <2>3. page'.built = 0
    BY <2>1, NewPageIs, Zenon
  <2> QED  BY <1>1, <2>1, <2>2, <2>3, Zenon
<1>16. ASSUME ReleaseBases
       PROVE  GoesOn
  <2>1. page' = page /\ account' = account /\ jobs' = jobs
    BY <1>16, SMT DEF ReleaseBases
  <2> QED  BY <1>0, <1>1, <1>2, <2>1, Zenon
<1>17. GoesOn
  BY <1>3, <1>4, <1>5, <1>6, <1>7, <1>8, <1>9, <1>12, <1>13, <1>14, <1>15, <1>16, Zenon DEF Player
<1> QED  BY <1>17, Zenon DEF GoesOn

\* What was asked is answered, or fails
LEMMA AnswerLists ==
  ASSUME LinksCoherent, Typed, AccountsKnown, DecksShown, Answer \/ Failure, UNCHANGED editVars
  PROVE  AccountsKnown' /\ DecksShown'
<1> DEFINE GoesOn == AccountsKnown' /\ DecksShown'
<1> USE DEF appVars, linkVars, modalVars, frameRest, chainVars, matchVars, history, txRest
<1>0. /\ IsPage(page) /\ AreJobs(jobs)
      /\ account \in Accounts \cup {NoAccount} /\ Generates(jobs)
      /\ UNCHANGED storageVars /\ elsewhere' = elsewhere
      /\ elsewhere \/ Lists(page, account)
  BY SMT DEF Typed, AccountsKnown, DecksShown, editVars
<1>1. ASSUME account' = account, SameList(page', page) \/ page'.phase # "setup" \/ page'.built = 0, Generates(jobs')
      PROVE  GoesOn
  BY <1>0, <1>1, KnownStays, SamePageLists, AwayLists, Zenon
<1>2. SameList(page, page)
  BY <1>0, PageListWith, Zenon
<1>3. ASSUME NEW p, IsPage(p), NEW a \in Accounts \cup {NoAccount}, NEW js, AreJobs(js), Generates(js),
             Lists(p, a) \/ (p = page /\ a = account), Render(p, a, js)
      PROVE  GoesOn
  BY <1>0, <1>3, RenderLists, Zenon
<1> HIDE DEF GoesOn
<1>4. ASSUME NEW j
      PROVE  /\ AreJobs(jobs \ {j}) /\ Generates(jobs \ {j})
             /\ \A a : AreJobs(Readdress(a, jobs \ {j})) /\ Generates(Readdress(a, jobs \ {j}))
  <2>1. AreJobs(jobs \ {j}) /\ Generates(jobs \ {j})
    BY <1>0, JobsWithout, GeneratesStay, Zenon
  <2> QED  BY <2>1, ReaddressIs, GeneratesStay, Zenon
<1>5. ASSUME NEW c, NEW w, Mounted(c, w), page' = page, account' = account
      PROVE  GoesOn
  <2>1. jobs' = jobs \/ jobs' = jobs \cup Opening(route, c, w, account)
    BY <1>5, SMT DEF Mounted
  <2>2. Generates(jobs')
    BY <1>0, <2>1, OthersGenerateNot, Zenon
  <2> QED  BY <1>1, <1>2, <1>5, <2>2, Zenon
<1>6. ASSUME WasmReady
      PROVE  GoesOn
  <2>1. Mounted(connection, TRUE) /\ page' = page /\ account' = account
    BY <1>6, Zenon DEF WasmReady
  <2> QED  BY <1>5, <2>1, Zenon
<1>7. ASSUME NEW k, LinkAnswers(k)
      PROVE  GoesOn
  <2>1. page' = page /\ account' = account /\ jobs' = jobs
    BY <1>7, SMT DEF LinkAnswers
  <2> QED  BY <1>0, <1>1, <1>2, <2>1, Zenon
<1>8. ASSUME NEW k, BasesAnswer(k)
      PROVE  GoesOn
  <2>1. Mounted(k, wasm) /\ page' = page /\ account' = account
    BY <1>8, SMT DEF BasesAnswer
  <2> QED  BY <1>5, <2>1, Zenon
<1>9. ASSUME BattlePlayed
      PROVE  GoesOn
  <2> DEFINE h == HealthToWrite(page.match)
             j == [Job("animation", account) EXCEPT !.stage = "grades", !.match.health = h]
  <2>1. /\ page.phase = "battle" /\ account' = account
        /\ page' = [page EXCEPT !.played = TRUE] /\ (jobs' = jobs \/ jobs' = jobs \cup {j})
    BY <1>9, SMT DEF BattlePlayed
  <2>2. h \in Int
    BY <1>0, StakesAssumption, SMT DEF HealthToWrite, IsPage, IsMatch
  <2> HIDE DEF h
  <2>3. j.kind = "animation"
    <3>1. Adds(j, Job("animation", account))
      BY <1>0, <2>2, JobIs, JobWithMatch, Zenon DEF IsPage
    <3> QED  BY <3>1, JobIs, SMT DEF Adds
  <2> HIDE DEF j
  <2>4. page'.phase # "setup"
    BY <1>0, <2>1, SMT DEF IsPage, PageFields
  <2>5. Generates(jobs')
    BY <1>0, <2>1, <2>3, GeneratesWith, SMT
  <2> QED  BY <1>1, <2>1, <2>4, <2>5, Zenon
<1>10. ASSUME NEW p, IsPage(p), NEW a
       PROVE  IsPage(WithDecks(p, a)) /\ Lists(WithDecks(p, a), a)
  BY <1>10, WithDecksKeeps, WithDecksLists, Zenon
<1>11. ASSUME NEW j, SetupAnswered(j)
       PROVE  GoesOn
  <2> DEFINE a == SetupAccount(j.account)
             p == IF Live(j) THEN WithDecks([page EXCEPT !.built = release], a) ELSE WithDecks(page, a)
  <2>1. Render(p, a, Readdress(a, jobs \ {j}))
    BY <1>11, Zenon DEF SetupAnswered
  <2>2. IsPage([page EXCEPT !.built = release])
    BY <1>0, PageWith, Zenon DEF LinksCoherent
  <2>3. IsPage(p) /\ Lists(p, a)
    BY <1>0, <1>10, <2>2, Zenon
  <2>4. a \in Accounts
    BY ExtensionAssumption, Zenon DEF SetupAccount, Accounts, ExtensionAssumption
  <2> HIDE DEF a, p
  <2> QED  BY <1>3, <1>4, <2>1, <2>3, <2>4, Zenon
<1>12. ASSUME NEW j, EpAnswered(j)
       PROVE  GoesOn
  <2> DEFINE x == IF EpTaken(j) THEN PlayerEp(j.account) ELSE page.ep
             p == [page EXCEPT !.ep = x]
             q == IF page.ep # 0 THEN p ELSE WithDecks(p, account)
  <2>1. Render(q, account, jobs \ {j})
    BY <1>12, Zenon DEF EpAnswered
  <2> HIDE DEF x
  <2>2. IsPage(p)
    BY <1>0, PageWith, Zenon
  <2>3. page.ep # 0 /\ Lists(page, account) => Lists(p, account)
    BY <1>0, SMT DEF Lists, Shown, IsPage, PageFields
  <2> HIDE DEF p
  <2>4. IsPage(q) /\ (elsewhere \/ Lists(q, account))
    BY <1>0, <1>10, <2>2, <2>3, Zenon
  <2> HIDE DEF q
  <2> QED  BY <1>0, <1>4, <2>1, <2>4, RenderLists, Zenon DEF GoesOn
<1>13. ASSUME NEW j, RecordAnswered(j)
       PROVE  GoesOn
  <2>1. page' = [page EXCEPT !.message = Warns(j)] /\ jobs' = jobs \ {j} /\ account' = account
    BY <1>13, SMT DEF RecordAnswered
  <2>2. SameList(page', page)
    BY <1>0, <2>1, PageListWith, Zenon
  <2> QED  BY <1>1, <1>4, <2>1, <2>2, Zenon
<1>14. ASSUME NEW j \in jobs, Generated(j)
       PROVE  GoesOn
  <2>1. j.account \in Accounts /\ Render(WithDecks(page, j.account), j.account, Readdress(j.account, jobs \ {j}))
    BY <1>0, <1>14, Zenon DEF Generated, Generates
  <2> QED  BY <1>0, <1>3, <1>4, <1>10, <2>1, Zenon
<1>15. ASSUME NEW j \in jobs, StartIncluded(j) \/ ShopIncluded(j)
       PROVE  GoesOn
  <2>1. page' = page /\ account' = account
    BY <1>15, SMT DEF StartIncluded, ShopIncluded
  <2>2. jobs' = jobs \ {j} \/ \E wants \in SUBSET Wants : jobs' = Replace(j, [j EXCEPT !.stage = "query", !.wants = wants])
    <3>1. Refused(j) \/ \E wants \in SUBSET Wants : Taken(j, wants)
      BY <1>15, Zenon DEF StartIncluded, ShopIncluded, Wants
    <3> QED  BY <3>1, Zenon DEF Refused, Taken
  <2>3. \A wants \in SUBSET Wants : Adds([j EXCEPT !.stage = "query", !.wants = wants], j)
    BY <1>0, JobWithMatch, Zenon DEF AreJobs, IsJob, HasJobFields
  <2>4. Generates(jobs')
    BY <1>0, <1>4, <2>2, <2>3, GeneratesWith, Zenon DEF Adds
  <2> QED  BY <1>1, <1>2, <2>1, <2>4, Zenon
<1>16. ASSUME NEW j \in jobs, NEW what \in j.wants, StartAnswered(j, what)
       PROVE  GoesOn
  <2>1. PICK m : m = MatchWith(j, what)
    OBVIOUS
  <2>2. \/ page' = page /\ account' = account /\ jobs' = Replace(j, [j EXCEPT !.match = m, !.wants = j.wants \ {what}])
        \/ OpenShop(j, m)
    BY <1>16, <2>1, Zenon DEF StartAnswered, MatchWith
  <2>3. /\ IsMatch(j.match) /\ j.wants \in SUBSET Wants
        /\ what = "mutable" => record[j.account].health \in Int /\ record[j.account].rivals \in Int
    BY <1>0, <1>16, SMT DEF StartAnswered, AreJobs, IsJob, HasJobFields, Typed, ContractTyped, AreMatches
  <2>4. IsMatch(m)
    BY <2>1, <2>3, FoughtIs, SMT DEF MatchWith, IsMatch, MatchFields, Wants
  <2>5. CASE page' = page /\ account' = account /\ jobs' = Replace(j, [j EXCEPT !.match = m, !.wants = j.wants \ {what}])
    <3>1. j.wants \ {what} \in SUBSET Wants
      BY <2>3, SMT
    <3>2. Adds([j EXCEPT !.match = m, !.wants = j.wants \ {what}], j)
      BY <1>0, <2>4, <3>1, JobWithMatch, Zenon DEF AreJobs
    <3>3. Generates(jobs')
      BY <1>0, <2>5, <3>2, GeneratesWith, Zenon DEF Adds
    <3> QED  BY <1>1, <1>2, <2>5, <3>3, Zenon
  <2>6. CASE OpenShop(j, m)
    <3> DEFINE p == IF Live(j) THEN [page EXCEPT !.phase = "shop", !.match = m] ELSE page
    <3>1. Render(p, account, jobs \ {j})
      BY <2>6, Zenon DEF OpenShop
    <3>2. IsPage(p)
      BY <1>0, <2>4, PageWith, Zenon
    <3>3. p = page \/ Lists(p, account)
      BY <1>0, SMT DEF Lists, Shown, IsPage, PageFields
    <3> HIDE DEF p
    <3> QED  BY <1>0, <1>3, <1>4, <3>1, <3>2, <3>3, Zenon
  <2> QED  BY <2>2, <2>5, <2>6, Zenon
<1>17. ASSUME NEW j, ShopAnswered(j)
       PROVE  GoesOn
  <2>1. PICK m : /\ page' = Battle(page, m) \/ page' = page
                 /\ jobs' = jobs \ {j} /\ account' = account
    BY <1>17, Zenon DEF ShopAnswered
  <2>2. Battle(page, m).phase # "setup"
    BY <1>0, SMT DEF Battle, IsPage, PageFields
  <2> QED  BY <1>1, <1>2, <1>4, <2>1, <2>2, Zenon
<1>18. ASSUME NEW j, ResultAnswered(j)
       PROVE  GoesOn
  <2>1. PICK x : /\ page' = [page EXCEPT !.phase = "result", !.result = x] \/ page' = page
                 /\ account' = account
    BY <1>18, Zenon DEF ResultAnswered
  <2>2. jobs' = LeaveBattle \ {j} \/ jobs' = jobs \ {j}
    BY <1>18, Zenon DEF ResultAnswered
  <2>3. [page EXCEPT !.phase = "result", !.result = x].phase # "setup"
    BY <1>0, SMT DEF IsPage, PageFields
  <2>4. Generates(LeaveBattle \ {j})
    BY <1>0, LeaveBattleGenerates, Zenon DEF Generates
  <2> QED  BY <1>1, <1>2, <1>4, <2>1, <2>2, <2>3, <2>4, Zenon
<1>19. ASSUME NEW j, TrialAnswered(j)
       PROVE  GoesOn
  <2>1. PICK s \in Seeds :
          LET match == [previousEp |-> INITIAL_EP, turn |-> 1, seed |-> s, health |-> Health, rivals |-> Rivals]
          IN  Render(IF Live(j) THEN [page EXCEPT !.phase = "shop", !.match = match] ELSE page,
                     NoAccount, Readdress(NoAccount, jobs \ {j}))
    BY <1>19, Zenon DEF TrialAnswered
  <2> DEFINE m == [previousEp |-> INITIAL_EP, turn |-> 1, seed |-> s, health |-> Health, rivals |-> Rivals]
             p == IF Live(j) THEN [page EXCEPT !.phase = "shop", !.match = m] ELSE page
  <2>2. Render(p, NoAccount, Readdress(NoAccount, jobs \ {j}))
    BY <2>1, Zenon
  <2>3. IsMatch(m)
    BY StakesAssumption, SMT DEF IsMatch, MatchFields
  <2> HIDE DEF m
  <2>4. IsPage(p)
    BY <1>0, <2>3, PageWith, Zenon
  <2> HIDE DEF p
  <2>5. Lists(p, NoAccount)
    BY Zenon DEF Lists, Shown
  <2> QED  BY <1>3, <1>4, <2>2, <2>4, <2>5, Zenon
<1>20. ASSUME NEW j \in jobs, BoxesFound(j)
       PROVE  GoesOn
  <2>1. /\ page' = page /\ account' = account
        /\ jobs' = Replace(j, [j EXCEPT !.stage = "boxes"]) \/ jobs' = jobs \ {j}
    BY <1>20, SMT DEF BoxesFound
  <2>2. LET k == [j EXCEPT !.stage = "boxes"] IN k.kind = j.kind /\ k.account = j.account
    BY <1>0, JobWith, Zenon DEF AreJobs
  <2>3. Generates(jobs')
    BY <1>0, <2>1, <2>2, GeneratesWith, Zenon
  <2> QED  BY <1>1, <1>2, <2>1, <2>3, Zenon
<1>21. ASSUME NEW j, HealthWritten(j)
       PROVE  GoesOn
  <2>1. PICK x : /\ page' = [page EXCEPT !.health = x] \/ page' = page
                 /\ jobs' = jobs \ {j} /\ account' = account
    BY <1>21, Zenon DEF HealthWritten
  <2>2. SameList(page', page)
    BY <1>0, <2>1, PageListWith, Zenon
  <2> QED  BY <1>1, <1>4, <2>1, <2>2, Zenon
<1>22. ASSUME NEW j, Lost(j) \/ Fault(j)
       PROVE  GoesOn
  <2>1. page' = page /\ jobs' = jobs \ {j} /\ account' = account
    BY <1>22, Zenon DEF Lost, Fault, QueryFails
  <2> QED  BY <1>1, <1>2, <1>4, <2>1, Zenon
<1>23. ASSUME NEW j, SetupBlocked(j)
       PROVE  GoesOn
  <2>1. page' = NewPage("/") /\ jobs' = Gone(jobs) /\ account' = account
    BY <1>23, Zenon DEF SetupBlocked
  <2>2. Generates(jobs') /\ page'.built = 0
    BY <1>0, <2>1, GeneratesStay, NewPageIs, Zenon
  <2> QED  BY <1>1, <2>1, <2>2, Zenon
<1>24. GoesOn
  BY <1>6, <1>7, <1>8, <1>9, <1>11, <1>12, <1>13, <1>14, <1>15, <1>16, <1>17, <1>18, <1>19, <1>20, <1>21,
     <1>22, <1>23, Zenon DEF Answer, Failure
<1> QED  BY <1>24, Zenon DEF GoesOn

--------------------------------------------------------------------------------
\* The list starts with the default, and goes on as stored
LEMMA ListedAt ==
  ASSUME NEW a, customDecks[a] \in Seq(AnyDeck), NEW builtIds, NEW i \in 2 .. 1 + Len(customDecks[a])
  PROVE  Listed(a, builtIds)[i] = customDecks[a][i - 1]
<1> DEFINE first == DefaultDeck(builtIds)
           S == AnyDeck \cup {first}
<1> HIDE DEF first
<1>1. <<first>> \in Seq(S) /\ Len(<<first>>) = 1
  <2>1. first \in S
    OBVIOUS
  <2> HIDE DEF S
  <2> QED  BY <2>1, SMT
<1>2. customDecks[a] \in Seq(S) /\ Len(customDecks[a]) \in Nat
  <2>1. \A k \in 1 .. Len(customDecks[a]) : customDecks[a][k] \in S
    BY ElementOfSeq, Zenon
  <2>2. Len(customDecks[a]) \in Nat /\ customDecks[a] \in [1 .. Len(customDecks[a]) -> AnyDeck]
    BY LenProperties, Zenon
  <2> HIDE DEF S
  <2> QED  BY <2>1, <2>2, SMT
<1> HIDE DEF S
<1>3. (<<first>> \o customDecks[a])[i] = customDecks[a][i - 1]
  BY <1>1, <1>2, SMT
<1> QED  BY <1>3, Zenon DEF Listed, first

\* An edit of the player: of the decks shown, for the account shown
LEMMA EditsList ==
  ASSUME IsPage(page), AccountsKnown, EditDecks, Edited
  PROVE  AccountsKnown' /\ DecksShown' /\ elsewhere' = elsewhere /\ account \in Accounts
<1>1. account' = account /\ jobs' = jobs /\ elsewhere' = elsewhere /\ account # NoAccount
  BY SMT DEF EditDecks, appVars, Shown
<1>2. AccountsKnown'
  BY <1>1, KnownStays, Zenon DEF AccountsKnown
<1>3. account \in Accounts
  BY <1>1, SMT DEF AccountsKnown
<1> QED  BY <1>1, <1>2, <1>3, EditedLists, Zenon

LEMMA SelectStores ==
  ASSUME NEW i, SelectDeck(i), DecksInv, DecksShown, ChosenStored, account \in Accounts, elsewhere' = elsewhere
  PROVE  ChosenStored'
<1>1. PICK a : a = account
  OBVIOUS
<1>2. PICK ids : ids = BuiltIds[page.built]
  OBVIOUS
<1>3. a \in Accounts /\ Shown(page, a)
  BY <1>1, Zenon DEF SelectDeck, EditDecks
<1>4. /\ i \in DOMAIN Listed(a, ids)
      /\ customDecks' = customDecks
      /\ selectedDeckIndex' = [selectedDeckIndex EXCEPT ![a] = i]
  BY <1>1, <1>2, SMT DEF SelectDeck, SelectDeckIndex
<1>5. PICK deck : deck = page.decks[i]
  OBVIOUS
<1>6. chosen' = [chosen EXCEPT ![a] = deck]
  BY <1>1, <1>5, SMT DEF SelectDeck
<1>7. DOMAIN chosen = Accounts
  BY DEF ChosenStored
<1>8. DOMAIN chosen' = Accounts
  BY <1>6, <1>7, SMT
<1>9. CASE elsewhere
  BY <1>8, <1>9, Zenon DEF ChosenStored
<1>10. CASE ~elsewhere
  <2>1. page.decks = Listed(a, ids)
    BY <1>1, <1>2, <1>3, <1>10, Zenon DEF DecksShown, Lists
  <2>2. customDecks[a] \in Seq(AnyDeck)
    BY <1>3, SMT DEF DecksInv
  <2>3. ASSUME i >= 2
        PROVE  deck = customDecks[a][i - 1]
    <3>1. i \in 2 .. 1 + Len(customDecks[a])
      <4>1. i \in 1 .. 1 + Len(customDecks[a]) /\ Len(customDecks[a]) \in Nat
        BY <1>4, <2>2, ListedIs, LenProperties, Zenon
      <4> QED  BY <2>3, <4>1, SMT
    <3>2. Listed(a, ids)[i] = customDecks[a][i - 1]
      BY <2>2, <3>1, ListedAt, Zenon
    <3> QED  BY <1>5, <2>1, <3>2, SMT
  <2>4. ASSUME NEW b \in Accounts, selectedDeckIndex'[b] >= 2
        PROVE  chosen'[b] = customDecks'[b][selectedDeckIndex'[b] - 1]
    <3>1. selectedDeckIndex \in [Accounts -> Nat]
      BY DEF DecksInv
    <3>2. CASE b = a
      <4>1. selectedDeckIndex'[b] = i /\ chosen'[b] = deck
        BY <1>4, <1>6, <1>7, <3>1, <3>2, SMT
      <4> QED  BY <1>4, <2>3, <2>4, <3>2, <4>1, SMT
    <3>3. CASE b # a
      <4>1. selectedDeckIndex'[b] = selectedDeckIndex[b] /\ chosen'[b] = chosen[b]
        BY <1>4, <1>6, <1>7, <3>1, <3>3, SMT
      <4>2. chosen[b] = customDecks[b][selectedDeckIndex[b] - 1]
        BY <1>10, <2>4, <4>1, SMT DEF ChosenStored
      <4> QED  BY <1>4, <4>1, <4>2, SMT
    <3> QED  BY <3>2, <3>3, Zenon
  <2> QED  BY <1>8, <2>4, Zenon DEF ChosenStored
<1> QED  BY <1>9, <1>10, Zenon

\* A deleted deck takes the selection with it, and one that is added comes last
LEMMA DeleteStores ==
  ASSUME NEW a \in Accounts, NEW i, DeleteDeck(a, i), DecksInv, ChosenStored,
         UNCHANGED chosen, elsewhere' = elsewhere
  PROVE  ChosenStored'
<1>1. PICK rest : /\ customDecks' = [customDecks EXCEPT ![a] = rest]
                  /\ selectedDeckIndex' = [selectedDeckIndex EXCEPT ![a] = 0]
  BY Zenon DEF DeleteDeck
<1>2. customDecks \in [Accounts -> Seq(AnyDeck)] /\ selectedDeckIndex \in [Accounts -> Nat]
  BY DEF DecksInv
<1>3. ASSUME ~elsewhere, NEW b \in Accounts, selectedDeckIndex'[b] >= 2
      PROVE  chosen'[b] = customDecks'[b][selectedDeckIndex'[b] - 1]
  <2>1. b # a
    BY <1>1, <1>2, <1>3, SMT
  <2>2. selectedDeckIndex'[b] = selectedDeckIndex[b] /\ customDecks'[b] = customDecks[b]
    BY <1>1, <1>2, <2>1, SMT
  <2>3. chosen[b] = customDecks[b][selectedDeckIndex[b] - 1]
    BY <1>3, <2>2, SMT DEF ChosenStored
  <2> QED  BY <2>2, <2>3, SMT
<1> QED  BY <1>3, Zenon DEF ChosenStored

LEMMA AddStores ==
  ASSUME NEW a \in Accounts, NEW deck \in AnyDeck, NEW ids, AddDeck(a, deck, ids), DecksInv, ChosenStored,
         UNCHANGED chosen, elsewhere' = elsewhere
  PROVE  ChosenStored'
<1>1. /\ selectedDeckIndex' = selectedDeckIndex
      /\ customDecks' = customDecks \/ customDecks' = [customDecks EXCEPT ![a] = Append(customDecks[a], deck)]
  BY Zenon DEF AddDeck
<1>2. customDecks \in [Accounts -> Seq(AnyDeck)] /\ selectedDeckIndex \in [Accounts -> Nat]
  BY DEF DecksInv
<1>3. ASSUME ~elsewhere, NEW b \in Accounts, selectedDeckIndex'[b] >= 2
      PROVE  chosen'[b] = customDecks'[b][selectedDeckIndex'[b] - 1]
  <2>1. chosen[b] = customDecks[b][selectedDeckIndex[b] - 1]
    BY <1>1, <1>3, SMT DEF ChosenStored
  <2>2. customDecks[b] \in Seq(AnyDeck) /\ selectedDeckIndex[b] \in Nat
    BY <1>2, <1>3, SMT
  <2>3. Len(customDecks[b]) \in Nat /\ selectedDeckIndex[b] - 1 \in 1 .. Len(customDecks[b])
    <3>1. Len(customDecks[b]) \in Nat
      BY <2>2, LenProperties, Zenon
    <3>2. selectedDeckIndex[b] <= 1 + Len(customDecks[b])
      BY Zenon DEF DecksInv, DecksCoherent
    <3> QED  BY <1>1, <1>3, <2>2, <3>1, <3>2, SMT
  <2>4. customDecks'[b] = customDecks[b] \/ customDecks'[b] = Append(customDecks[b], deck)
    BY <1>1, <1>2, SMT
  <2>5. PICK n : n = selectedDeckIndex[b] - 1
    OBVIOUS
  <2>6. Append(customDecks[b], deck)[n] = customDecks[b][n]
    <3>1. n \in 1 .. Len(customDecks[b])
      BY <2>3, <2>5, SMT
    <3>2. PICK s : s = customDecks[b]
      OBVIOUS
    <3>3. s \in Seq(AnyDeck) /\ n \in 1 .. Len(s)
      BY <2>2, <3>1, <3>2, SMT
    <3>4. Append(s, deck)[n] = s[n]
      BY <3>3, SMT
    <3> QED  BY <3>2, <3>4, SMT
  <2>7. customDecks'[b][n] = customDecks[b][n]
    BY <2>4, <2>6, Zenon
  <2> QED  BY <1>1, <2>1, <2>5, <2>7, SMT
<1> QED  BY <1>3, Zenon DEF ChosenStored

--------------------------------------------------------------------------------

DeckInv == LinksCoherent /\ Typed /\ DecksInv /\ AccountsKnown /\ DecksShown /\ ChosenStored

LEMMA DeckInvStep ==
  ASSUME DeckInv, [Next]_vars
  PROVE  DeckInv'
<1> DEFINE GoesOn == AccountsKnown' /\ DecksShown' /\ ChosenStored'
<1> HIDE DEF GoesOn
<1>0. /\ LinksCoherent /\ Typed /\ DecksInv /\ AccountsKnown /\ DecksShown /\ ChosenStored
      /\ IsPage(page)
  BY Zenon DEF DeckInv, Typed
<1>1. LinksCoherent' /\ Typed' /\ DecksInv'
  BY <1>0, LinksCoherentStep, TypedStep, DecksInvStep, Zenon
<1>2. ASSUME UNCHANGED editVars
      PROVE  ChosenStored'
  BY <1>0, <1>2, SMT DEF editVars, storageVars, ChosenStored
<1>3. ASSUME NEW i, SelectDeck(i)
      PROVE  GoesOn
  <2>1. EditDecks /\ Edited
    BY <1>3, Zenon DEF SelectDeck
  <2>2. AccountsKnown' /\ DecksShown' /\ elsewhere' = elsewhere /\ account \in Accounts
    BY <1>0, <2>1, EditsList, Zenon
  <2> QED  BY <1>0, <1>3, <2>2, SelectStores, Zenon DEF GoesOn
<1>4. ASSUME NEW i, DiscardDeck(i)
      PROVE  GoesOn
  <2>1. EditDecks /\ Edited /\ DeleteDeck(account, i) /\ UNCHANGED chosen
    BY <1>4, Zenon DEF DiscardDeck
  <2>2. AccountsKnown' /\ DecksShown' /\ elsewhere' = elsewhere /\ account \in Accounts
    BY <1>0, <2>1, EditsList, Zenon
  <2> QED  BY <1>0, <2>1, <2>2, DeleteStores, Zenon DEF GoesOn
<1>5. ASSUME SaveDeck
      PROVE  GoesOn
  <2>1. PICK deck \in BuilderDecks(BuiltIds[page.built]) : AddDeck(account, deck, BuiltIds[page.built])
    BY <1>5, Zenon DEF SaveDeck
  <2>2. EditDecks /\ Edited /\ UNCHANGED chosen
    BY <1>5, Zenon DEF SaveDeck
  <2>3. AccountsKnown' /\ DecksShown' /\ elsewhere' = elsewhere /\ account \in Accounts
    BY <1>0, <2>2, EditsList, Zenon
  <2>4. deck \in AnyDeck
    <3>1. page.built \in DOMAIN BuiltIds
      BY <1>0, <2>2, SMT DEF EditDecks, Shown, IsPage
    <3> QED  BY <2>1, <3>1, Zenon DEF AnyDeck
  <2> QED  BY <1>0, <2>1, <2>2, <2>3, <2>4, AddStores, Zenon DEF GoesOn
<1>6. ASSUME NEW a, EditElsewhere(a)
      PROVE  GoesOn
  <2>1. elsewhere' = TRUE /\ UNCHANGED <<account, jobs, chosen>>
    BY <1>6, SMT DEF EditElsewhere, appVars
  <2>2. DecksShown'
    BY <2>1, SMT DEF DecksShown
  <2>3. ChosenStored'
    BY <1>0, <2>1, SMT DEF ChosenStored
  <2>4. AccountsKnown'
    BY <1>0, <2>1, KnownStays, SMT DEF AccountsKnown
  <2> QED  BY <2>2, <2>3, <2>4, Zenon DEF GoesOn
<1>7. ASSUME Next,
             ~\E a \in Accounts : EditElsewhere(a),
             ~\E i \in DOMAIN page.decks : SelectDeck(i) \/ DiscardDeck(i),
             ~SaveDeck
      PROVE  GoesOn
  <2>1. UNCHANGED editVars
    BY <1>7, OthersKeepDecks, Zenon
  <2>2. AccountsKnown' /\ DecksShown'
    BY <1>0, <1>7, <2>1, PlayerLists, AnswerLists, Zenon DEF Next
  <2> QED  BY <1>2, <2>1, <2>2, Zenon DEF GoesOn
<1>8. ASSUME UNCHANGED vars
      PROVE  GoesOn
  <2>1. UNCHANGED <<editVars, account, jobs, page>>
    BY <1>8, SMT DEF vars, appVars, storageVars, history, editVars
  <2>2. AccountsKnown'
    BY <1>0, <2>1, KnownStays, SMT DEF AccountsKnown
  <2>3. DecksShown'
    <3>1. UNCHANGED storageVars /\ elsewhere' = elsewhere
      BY <2>1, SMT DEF editVars
    <3>2. SameList(page', page)
      BY <1>0, <2>1, PageListWith, Zenon
    <3> QED  BY <1>0, <2>1, <3>1, <3>2, SamePageLists, Zenon
  <2>4. ChosenStored'
    BY <1>2, <2>1
  <2> QED  BY <2>2, <2>3, <2>4, Zenon DEF GoesOn
<1>9. GoesOn
  BY <1>3, <1>4, <1>5, <1>6, <1>7, <1>8, Zenon
<1> QED  BY <1>1, <1>9, Zenon DEF DeckInv, GoesOn

LEMMA DeckInvInit == Init => DeckInv
<1> SUFFICES ASSUME Init PROVE DeckInv
  OBVIOUS
<1>1. LinksCoherent /\ Typed /\ DecksInv
  BY LinksCoherentInit, TypedInit, DecksInvInit, Zenon
<1>2. /\ page = NewPage(route) /\ jobs = {} /\ account = NoAccount
      /\ selectedDeckIndex = [a \in Accounts |-> 0]
      /\ chosen = [a \in Accounts |-> <<>>]
  BY DEF Init, AppInit, DecksInit
<1>3. AccountsKnown
  BY <1>2, SMT DEF AccountsKnown, Generates
<1>4. DecksShown
  BY <1>2, SMT DEF DecksShown, Lists, Shown
<1>5. ChosenStored
  BY <1>2, SMT DEF ChosenStored
<1> QED  BY <1>1, <1>3, <1>4, <1>5, Zenon DEF DeckInv

\* The deck a match is started with is the default or the one the player selected,
\* through all edits of the list: what Decks in components/pages/Mtc/Setup shows is what is
\* stored for the account, deleteDeck drops the selection and addDeck never moves a deck
THEOREM DeckIsChosen == Spec => []DeckChosen
<1>1. DeckInv => DeckChosen
  <2> SUFFICES ASSUME DeckInv, Shown(page, account), ~elsewhere
               PROVE  page.decks[page.index] \in {page.decks[1], chosen[account]}
    BY DEF DeckChosen
  <2>1. PICK a, ids : a = account /\ ids = BuiltIds[page.built]
    OBVIOUS
  <2>2. /\ page.decks = Listed(a, ids)
        /\ page.index = GetDecks(a, ids).index
    BY <2>1, Zenon DEF DeckInv, DecksShown, Lists
  <2>3. a \in Accounts
    BY <2>1, SMT DEF DeckInv, AccountsKnown, Shown
  <2>4. customDecks[a] \in Seq(AnyDeck) /\ selectedDeckIndex[a] \in Nat
    BY <2>3, SMT DEF DeckInv, DecksInv
  <2>5. DOMAIN Listed(a, ids) = 1 .. 1 + Len(customDecks[a]) /\ Len(customDecks[a]) \in Nat
    BY <2>4, ListedIs, LenProperties, Zenon
  <2>6. page.index = IF selectedDeckIndex[a] \in DOMAIN Listed(a, ids) THEN selectedDeckIndex[a] ELSE 1
    BY <2>2, SMT DEF GetDecks
  <2>7. CASE page.index = 1
    BY <2>7, SMT
  <2>8. CASE page.index # 1
    <3>1. page.index = selectedDeckIndex[a] /\ page.index \in 2 .. 1 + Len(customDecks[a])
      BY <2>5, <2>6, <2>8, SMT
    <3>2. page.decks[page.index] = customDecks[a][page.index - 1]
      <4>1. PICK n : n = page.index
        OBVIOUS
      <4>2. Listed(a, ids)[n] = customDecks[a][n - 1]
        BY <2>4, <3>1, <4>1, ListedAt, SMT
      <4> QED  BY <2>2, <4>1, <4>2, SMT
    <3>3. chosen[a] = customDecks[a][selectedDeckIndex[a] - 1]
      BY <2>3, <3>1, SMT DEF DeckInv, ChosenStored
    <3> QED  BY <2>1, <3>1, <3>2, <3>3, SMT
  <2> QED  BY <2>7, <2>8, Zenon
<1> QED  BY DeckInvInit, DeckInvStep, <1>1, PTL DEF Spec

--------------------------------------------------------------------------------
(* The EP and the warning on the setup page *)

\* The queries of the address effects whose answers are taken
IsQuery(j) == Live(j) /\ j.kind \in {"ep", "record"}
Asked(js, kind) == \E j \in js : Live(j) /\ j.kind = kind

\* They are for the account of the frame
AskFits(j) ==
  /\ route = "/match" /\ wasm /\ connection # 0
  /\ account # NoAccount /\ j.account = account
  /\ j.stage = "query"

AsksFit == \A j \in jobs : IsQuery(j) => AskFits(j)

\* An EP comes with the setup only
EpInSetup == page.phase = "setup" /\ page.ep # 0 => SetupOpen

\* The button goes with the start
StartPressed == Asked(jobs, "start") => ~page.button

\* What the contract has of the account is shown, or asked for
SetupTells ==
  SetupOpen /\ account # NoAccount /\ account \notin foreign /\ ~failed /\ page.button =>
    /\ Asked(jobs, "ep") \/ page.ep = PlayerEp(account)
    /\ Asked(jobs, "record") \/ (page.message <=> account \in DOMAIN record)

SetupFits == AsksFit /\ EpInSetup /\ StartPressed /\ SetupTells

\* Nothing happens to what the setup shows
SetupStill ==
  /\ route' = route /\ wasm' = wasm /\ account' = account
  /\ connection' # 0 <=> connection # 0
  /\ page'.phase = page.phase /\ page'.ep = page.ep /\ page'.message = page.message
  /\ page'.button => page.button
  /\ failed => failed'
  /\ account \notin foreign' /\ page'.button =>
       /\ account \notin foreign
       /\ PlayerEp(account)' = PlayerEp(account)
       /\ account \in DOMAIN record' <=> account \in DOMAIN record

LEMMA StillSetup ==
  ASSUME SetupFits, SetupStill,
         \A j : IsQuery(j) => (j \in jobs' <=> j \in jobs),
         Asked(jobs', "start") => Asked(jobs, "start") \/ ~page'.button
  PROVE  SetupFits'
<1>1. AsksFit'
  BY SMT DEF SetupFits, AsksFit, AskFits, IsQuery, Live, SetupStill
<1>2. EpInSetup'
  BY SMT DEF SetupFits, EpInSetup, SetupOpen, SetupStill
<1>3. StartPressed'
  BY SMT DEF SetupFits, StartPressed, Asked, Live, SetupStill
<1>4. SetupTells'
  <2>1. Asked(jobs, "ep") => Asked(jobs, "ep")'
    BY SMT DEF Asked, IsQuery, Live
  <2>2. Asked(jobs, "record") => Asked(jobs, "record")'
    BY SMT DEF Asked, IsQuery, Live
  <2> SUFFICES ASSUME SetupOpen', account' # NoAccount, account' \notin foreign', ~failed', page'.button
               PROVE  /\ Asked(jobs, "ep")' \/ page'.ep = PlayerEp(account)'
                      /\ Asked(jobs, "record")' \/ (page'.message <=> account' \in DOMAIN record')
    BY Zenon DEF SetupTells
  <2>3. /\ account \notin foreign' /\ account' = account
        /\ PlayerEp(account)' = PlayerEp(account)
        /\ account \in DOMAIN record' <=> account \in DOMAIN record
        /\ page'.ep = page.ep /\ page'.message = page.message
    BY Zenon DEF SetupStill
  <2>4. SetupOpen /\ account # NoAccount /\ account \notin foreign /\ ~failed /\ page.button
    BY SMT DEF SetupStill, SetupOpen
  <2>5. /\ Asked(jobs, "ep") \/ page.ep = PlayerEp(account)
        /\ Asked(jobs, "record") \/ (page.message <=> account \in DOMAIN record)
    BY <2>4, Zenon DEF SetupFits, SetupTells
  <2>6. Asked(jobs, "ep")' \/ page'.ep = PlayerEp(account)'
    BY <2>1, <2>3, <2>5
  <2>7. Asked(jobs, "record")' \/ (page'.message <=> account' \in DOMAIN record')
    BY <2>2, <2>3, <2>5
  <2> QED  BY <2>6, <2>7
<1> QED  BY <1>1, <1>2, <1>3, <1>4, Zenon DEF SetupFits

\* but a job that asks for something else
LEMMA StillSetupBut ==
  ASSUME SetupFits, SetupStill, NEW j, NEW k,
         j \in jobs => ~IsQuery(j),
         ~IsQuery(k),
         jobs' \subseteq jobs \cup {k}, jobs \ {j} \subseteq jobs',
         Live(k) /\ k.kind = "start" => Asked(jobs, "start") \/ ~page'.button
  PROVE  SetupFits'
<1>1. \A i : IsQuery(i) => (i \in jobs' <=> i \in jobs)
  BY SMT
<1>2. Asked(jobs', "start") => Asked(jobs, "start") \/ ~page'.button
  BY SMT DEF Asked
<1> QED  BY <1>1, <1>2, StillSetup, Zenon

\* Another page, or another phase of this one
LEMMA OffSetup ==
  ASSUME Covered', page'.phase # "setup", AsksFit'
  PROVE  SetupFits'
<1>1. ~Asked(jobs, "start")'
  BY SMT DEF Covered, StepsFit, Step, Steps, Covering, AtStep, Asked, Live
<1> QED  BY <1>1, SMT DEF SetupFits, EpInSetup, StartPressed, SetupTells, SetupOpen

LEMMA NothingLiveFits ==
  ASSUME \A j \in jobs' : ~Live(j)
  PROVE  AsksFit' /\ StartPressed'
BY SMT DEF AsksFit, IsQuery, StartPressed, Asked, Live

\* Queries that go on
LEMMA AsksGoOn ==
  ASSUME AsksFit, route' = route, wasm' = wasm, account' = account, connection' # 0 <=> connection # 0,
         \A j \in jobs' : IsQuery(j) => j \in jobs
  PROVE  AsksFit'
BY SMT DEF AsksFit, AskFits, IsQuery, Live

LEMMA OpeningAsks ==
  ASSUME NEW id, NEW c, NEW w, NEW a
  PROVE  /\ \A j \in Opening(id, c, w, a) : IsQuery(j) =>
              id = "/match" /\ w /\ c # 0 /\ a # NoAccount /\ j.account = a /\ j.stage = "query"
         /\ id = "/match" /\ w /\ c # 0 /\ a # NoAccount =>
              Asked(Opening(id, c, w, a), "ep") /\ Asked(Opening(id, c, w, a), "record")
<1> DEFINE O(j) == [j EXCEPT !.over = c]
<1>1. \A kind : LET j == O(Job(kind, a))
                IN  Live(j) /\ j.kind = kind /\ j.account = a /\ j.stage = "query"
  <2> TAKE kind
  <2> QED  BY JobIs, SMT DEF Live, IsJob, HasJobFields, JobFields
<1> HIDE DEF O
<1>2. \A j \in Opening(id, c, w, a) :
        /\ c # 0 /\ w
        /\ \/ id = "/match" /\ j = O(Job("setup", a))
           \/ id = "/match" /\ a # NoAccount /\ (j = O(Job("ep", a)) \/ j = O(Job("record", a)))
           \/ id = "/match_trial" /\ j = O(Job("trial", a))
  BY Zenon DEF Opening, AddressQueries, O
<1>3. \A j \in Opening(id, c, w, a) : IsQuery(j) =>
        id = "/match" /\ w /\ c # 0 /\ a # NoAccount /\ j.account = a /\ j.stage = "query"
  BY <1>1, <1>2, SMT DEF IsQuery
<1>4. ASSUME id = "/match", w, c # 0, a # NoAccount
      PROVE  O(Job("ep", a)) \in Opening(id, c, w, a) /\ O(Job("record", a)) \in Opening(id, c, w, a)
  <2>1. Opening(id, c, w, a) = {O(j) : j \in {Job("setup", a)} \cup AddressQueries(a)}
    BY <1>4 DEF Opening, O
  <2>2. Job("ep", a) \in AddressQueries(a) /\ Job("record", a) \in AddressQueries(a)
    BY <1>4, Zenon DEF AddressQueries
  <2> QED  BY <2>1, <2>2, Zenon
<1>5. ASSUME id = "/match", w, c # 0, a # NoAccount
      PROVE  Asked(Opening(id, c, w, a), "ep") /\ Asked(Opening(id, c, w, a), "record")
  BY <1>1, <1>4, <1>5, Zenon DEF Asked
<1> QED  BY <1>3, <1>5, Zenon

\* A page that has just been mounted asks for both
LEMMA MountedSetup ==
  ASSUME NEW opened, opened = Opening(route', connection', wasm', account'),
         opened \subseteq jobs',
         \A j \in jobs' : IsQuery(j) => j \in opened \/ AskFits(j)',
         ~Asked(jobs', "start"),
         page'.phase = "setup" => page'.ep = 0
  PROVE  SetupFits'
<1>1. /\ \A j \in opened : IsQuery(j) =>
           route' = "/match" /\ wasm' /\ connection' # 0 /\ account' # NoAccount /\ j.account = account' /\ j.stage = "query"
      /\ route' = "/match" /\ wasm' /\ connection' # 0 /\ account' # NoAccount => Asked(opened, "ep") /\ Asked(opened, "record")
  <2>1. PICK id, c, w, a : id = route' /\ c = connection' /\ w = wasm' /\ a = account'
    OBVIOUS
  <2>2. /\ \A j \in opened : IsQuery(j) =>
              id = "/match" /\ w /\ c # 0 /\ a # NoAccount /\ j.account = a /\ j.stage = "query"
        /\ id = "/match" /\ w /\ c # 0 /\ a # NoAccount => Asked(opened, "ep") /\ Asked(opened, "record")
    <3>1. opened = Opening(id, c, w, a)
      BY <2>1
    <3> QED  BY <3>1, OpeningAsks
  <2> QED  BY <2>1, <2>2
<1>2. AsksFit'
  BY <1>1, SMT DEF AsksFit, AskFits, IsQuery, Live
<1>3. EpInSetup' /\ StartPressed'
  BY SMT DEF EpInSetup, StartPressed, Asked, Live
<1>4. Asked(opened, "ep") => Asked(jobs', "ep")
  BY Zenon DEF Asked
<1>5. Asked(opened, "record") => Asked(jobs', "record")
  BY Zenon DEF Asked
<1>6. Asked(jobs, "ep")' = Asked(jobs', "ep") /\ Asked(jobs, "record")' = Asked(jobs', "record")
  BY DEF Asked, Live
<1>7. SetupTells'
  BY <1>1, <1>4, <1>5, <1>6, SMT DEF SetupTells, SetupOpen
<1> QED  BY <1>2, <1>3, <1>7, Zenon DEF SetupFits

\* A call of the contract for another account
LEMMA CallsTellNothing ==
  ASSUME NEW b, ContractStart(b) \/ ContractShop(b), NEW a, a # b
  PROVE  /\ a \in DOMAIN ep' <=> a \in DOMAIN ep
         /\ a \in DOMAIN ep => ep'[a] = ep[a]
         /\ a \in DOMAIN record' <=> a \in DOMAIN record
<1>1. ep' = ep \/ \E v : ep' = MapInsert(ep, b, v)
  <2>1. ContractStart(b) => ep' = ep \/ \E v : ep' = MapInsert(ep, b, v)
    BY Zenon
       DEF ContractStart, Contract!StartFirst, Contract!Start, Contract!Abandon, Contract!MapInsert, MapInsert
  <2>2. ContractShop(b) => ep' = ep \/ \E v : ep' = MapInsert(ep, b, v)
    BY ContractShopIs, Zenon
  <2> QED  BY <2>1, <2>2
<1>2. record' = MapRemove(record, b) \/ \E v : record' = MapInsert(record, b, v)
  BY ContractStartIs, ContractShopIs, Zenon
<1>3. ASSUME NEW v
      PROVE  /\ DOMAIN MapInsert(ep, b, v) = DOMAIN ep \cup {b}
             /\ a \in DOMAIN ep => MapInsert(ep, b, v)[a] = ep[a]
  BY SMT DEF MapInsert
<1>4. /\ \A v : DOMAIN MapInsert(record, b, v) = DOMAIN record \cup {b}
      /\ DOMAIN MapRemove(record, b) = DOMAIN record \ {b}
  BY InsertIs, RemoveIs, Zenon
<1>5. /\ a \in DOMAIN ep' <=> a \in DOMAIN ep
      /\ a \in DOMAIN ep => ep'[a] = ep[a]
  <2>1. CASE ep' = ep
    BY <2>1
  <2>2. CASE \E v : ep' = MapInsert(ep, b, v)
    <3>1. PICK v : ep' = MapInsert(ep, b, v)
      BY <2>2
    <3> QED  BY <1>3, <3>1, SMT
  <2> QED  BY <1>1, <2>1, <2>2
<1>6. a \in DOMAIN record' <=> a \in DOMAIN record
  <2>1. CASE record' = MapRemove(record, b)
    BY <1>4, <2>1, SMT
  <2>2. CASE \E v : record' = MapInsert(record, b, v)
    <3>1. PICK v : record' = MapInsert(record, b, v)
      BY <2>2
    <3> QED  BY <1>4, <3>1, SMT
  <2> QED  BY <1>2, <2>1, <2>2
<1> QED  BY <1>5, <1>6

\* The player moves
LEMMA PlayerSetup ==
  ASSUME LinksCoherent, Typed, Covered, SetupFits, Player, Covered'
  PROVE  SetupFits'
<1> USE DEF appVars, linkVars, modalVars, frameRest, storageVars, chainVars, matchVars, history
<1>0. IsPage(page) /\ AreJobs(jobs) /\ page.phase \in Phases
  BY DEF Typed, IsPage
<1>1. ASSUME NEW id, Go(id)
      PROVE  SetupFits'
  <2> DEFINE opened == Opening(id, connection', wasm', account')
  <2>1. page' = NewPage(id) /\ route' = id /\ wasm' = wasm /\ jobs' = Leave(jobs) \cup Opening(id, connection', wasm, account')
    BY <1>1, Zenon DEF Go, Reroute
  <2>2. jobs' = Leave(jobs) \cup opened /\ opened = Opening(route', connection', wasm', account')
    BY <2>1
  <2> HIDE DEF opened
  <2>3. \A j \in Leave(jobs) : ~Live(j)
    BY <1>0, LeaveIs, Zenon
  <2>4. \A j \in opened : j.kind # "start"
    BY <2>2, OpeningIs, SMT DEF Opens
  <2>5. page'.ep = 0
    BY <2>1, SMT DEF NewPage
  <2>6. /\ opened \subseteq jobs'
        /\ \A j \in jobs' : IsQuery(j) => j \in opened
        /\ ~Asked(jobs', "start")
    BY <2>2, <2>3, <2>4, Zenon DEF IsQuery, Asked
  <2> QED  BY <2>2, <2>5, <2>6, MountedSetup, Zenon
<1>2. ASSUME NEW id, Reload(id)
      PROVE  SetupFits'
  <2>1. page' = NewPage(id) /\ jobs' = Gone(jobs) /\ wasm' = FALSE
    BY <1>2, Zenon DEF Reload, Reloaded
  <2>2. AsksFit' /\ StartPressed'
    BY <1>0, <2>1, LeaveIs, NothingLiveFits, SMT
  <2>3. page'.ep = 0
    BY <2>1, SMT DEF NewPage
  <2>4. EpInSetup' /\ SetupTells'
    BY <2>1, <2>3, SMT DEF EpInSetup, SetupTells, SetupOpen
  <2> QED  BY <2>2, <2>4, Zenon DEF SetupFits
\* In a match
<1>3. ASSUME page'.phase # "setup", UNCHANGED <<route, wasm, account, connection>>,
             \A j \in jobs' : IsQuery(j) => j \in jobs
      PROVE  SetupFits'
  <2>1. AsksFit'
    BY <1>3, AsksGoOn, Zenon DEF SetupFits
  <2> QED  BY <1>3, <2>1, OffSetup, Zenon
\* What asks for something else
<1>4. ASSUME SetupStill, NEW k, ~IsQuery(k), jobs' = jobs \cup {k}, k.kind = "start" => ~page'.button
      PROVE  SetupFits'
  BY <1>4, StillSetupBut, Zenon
<1>5. ASSUME SetupStill, jobs' = jobs
      PROVE  SetupFits'
  BY <1>5, StillSetup, SMT
<1>6. ASSUME NEW a, SwitchAccount(a)
      PROVE  SetupFits'
  <2>1. PICK k : k = Job("generate", a) /\ k.kind = "generate"
    BY JobIs, SMT
  <2>2. jobs' = jobs \cup {k}
    BY <1>6, <2>1, SMT DEF SwitchAccount
  <2>3. SetupStill
    BY <1>6, SMT DEF SwitchAccount, SetupStill, PlayerEp
  <2> QED  BY <1>4, <2>1, <2>2, <2>3, SMT DEF IsQuery
<1>7. ASSUME Start
      PROVE  SetupFits'
  <2>1. PICK k : /\ k = [Job("start", account) EXCEPT !.stage = "popup", !.deck = page.decks[page.index],
                                                      !.match.previousEp = page.ep]
                 /\ jobs' = jobs \cup {k}
    BY <1>7, Zenon DEF Start, Click
  <2>2. IsMatch(NoMatch)
    BY SMT DEF NoMatch, IsMatch, MatchFields
  <2>3. k.kind = "start"
    BY <2>1, JobIs, SMT DEF IsJob, HasJobFields, JobFields
  <2>4. /\ page'.phase = page.phase /\ page'.ep = page.ep /\ page'.message = page.message
        /\ page'.button = FALSE
    BY <1>0, <1>7, SMT DEF IsPage, PageFields, Start, Click
  <2>5. SetupStill
    BY <1>7, <2>4, SMT DEF Start, Click, SetupStill
  <2>6. ~IsQuery(k)
    BY <2>3, SMT DEF IsQuery
  <2> QED  BY <1>4, <2>1, <2>4, <2>5, <2>6, Zenon
<1>8. ASSUME FinishShop
      PROVE  SetupFits'
  <2>1. PICK k : /\ k = [Job("shop", account) EXCEPT !.stage = "popup", !.match = page.match]
                 /\ page' = page /\ jobs' = jobs \cup {k}
    BY <1>8, Zenon DEF FinishShop, Click
  <2>2. k.kind = "shop"
    BY <2>1, JobIs, SMT DEF IsJob, HasJobFields, JobFields
  <2>3. page.phase = "shop" /\ UNCHANGED <<route, wasm, connection, account>>
    BY <1>8, SMT DEF FinishShop, Click
  <2>4. ~IsQuery(k)
    BY <2>2, SMT DEF IsQuery
  <2>5. \A i \in jobs' : IsQuery(i) => i \in jobs
    BY <2>1, <2>4, Zenon
  <2>6. page'.phase # "setup"
    BY <2>1, <2>3, SMT
  <2> QED  BY <1>3, <2>3, <2>5, <2>6, Zenon
<1>9. ASSUME FinishMatch
      PROVE  SetupFits'
  <2>1. PICK m, place, k :
          /\ k = [Job("result", account) EXCEPT !.match = m, !.place = place]
          /\ page' = [page EXCEPT !.match = m, !.health = m.health] /\ jobs' = jobs \cup {k}
    BY <1>9, Zenon DEF FinishMatch, Click
  <2>2. k.kind = "result"
    BY <2>1, JobIs, SMT DEF IsJob, HasJobFields, JobFields
  <2>3. page'.phase = page.phase
    BY <1>0, <2>1, SMT DEF IsPage, PageFields
  <2>4. page.phase = "battle" /\ UNCHANGED <<route, wasm, connection, account>>
    BY <1>9, SMT DEF FinishMatch, Click
  <2>5. ~IsQuery(k)
    BY <2>2, SMT DEF IsQuery
  <2>6. \A i \in jobs' : IsQuery(i) => i \in jobs
    BY <2>1, <2>5, Zenon
  <2>7. page'.phase # "setup"
    BY <2>3, <2>4, SMT
  <2> QED  BY <1>3, <2>4, <2>6, <2>7, Zenon
<1>10. ASSUME FinishTrialShop
       PROVE  SetupFits'
  <2>1. PICK m : page' = Battle(page, m) /\ jobs' = jobs
    BY <1>10, Zenon DEF FinishTrialShop, Click
  <2>2. page'.phase = "battle"
    BY <1>0, <2>1, SMT DEF IsPage, PageFields, Battle
  <2>3. UNCHANGED <<route, wasm, connection, account>>
    BY <1>10, SMT DEF FinishTrialShop, Click
  <2> QED  BY <1>3, <2>1, <2>2, <2>3, SMT
<1>11. \A j \in LeaveBattle : Live(j) => j \in jobs
  BY <1>0, LeaveBattleIs, Zenon
<1>12. ASSUME NextTurn
       PROVE  SetupFits'
  <2>1. PICK m : page' = [page EXCEPT !.phase = "shop", !.match = m] /\ jobs' = LeaveBattle
    BY <1>12, Zenon DEF NextTurn, Click
  <2>2. page'.phase = "shop"
    BY <1>0, <2>1, SMT DEF IsPage, PageFields
  <2>3. UNCHANGED <<route, wasm, connection, account>>
    BY <1>12, SMT DEF NextTurn, Click
  <2> QED  BY <1>3, <1>11, <2>1, <2>2, <2>3, SMT DEF IsQuery
<1>13. ASSUME FinishTrial
       PROVE  SetupFits'
  <2>1. jobs' = LeaveBattle
    BY <1>13, Zenon DEF FinishTrial, Click
  <2>2. PICK m, x : page' = [page EXCEPT !.phase = "result", !.match = m, !.result = x]
    BY <1>13, Zenon DEF FinishTrial, Click
  <2>3. page'.phase = "result"
    BY <1>0, <2>2, SMT DEF IsPage, PageFields
  <2>4. UNCHANGED <<route, wasm, connection, account>>
    BY <1>13, SMT DEF FinishTrial, Click
  <2> QED  BY <1>3, <1>11, <2>1, <2>3, <2>4, SMT DEF IsQuery
<1>14. ASSUME PlayAgain
       PROVE  SetupFits'
  <2> DEFINE opened == Opening(route, connection, wasm, account)
  <2>1. page' = NewPage(route) /\ jobs' = jobs \cup opened
    BY <1>14, Zenon DEF PlayAgain, Click
  <2>2. Clickable /\ page.phase = "result" /\ UNCHANGED <<route, wasm, connection, account>>
    BY <1>14, SMT DEF PlayAgain, Click
  <2>3. opened = Opening(route', connection', wasm', account')
    BY <2>2, SMT
  <2>4. \A j \in opened : j.kind # "start"
    BY OpeningIs, SMT DEF Opens
  <2> HIDE DEF opened
  <2>5. Idle(jobs)
    BY <2>2, ClickableIsIdle, SMT
  <2>6. page'.ep = 0
    BY <2>1, SMT DEF NewPage
  <2>7. \A j \in jobs : IsQuery(j) => AskFits(j)'
    BY <2>2, SMT DEF SetupFits, AsksFit, AskFits
  <2>8. ~Asked(jobs', "start")
    BY <2>1, <2>4, <2>5, SMT DEF Asked, Idle, Step, Steps, Covering
  <2>9. opened \subseteq jobs' /\ \A j \in jobs' : IsQuery(j) => j \in opened \/ AskFits(j)'
    BY <2>1, <2>7, Zenon
  <2> QED  BY <2>3, <2>6, <2>8, <2>9, MountedSetup, Zenon
\* What the page does not notice
<1>15. ASSUME NEW a, EditElsewhere(a)
       PROVE  SetupFits'
  <2>1. SetupStill /\ jobs' = jobs
    BY <1>15, SMT DEF EditElsewhere, SetupStill, PlayerEp
  <2> QED  BY <1>5, <2>1, Zenon
<1>16. ASSUME NEW a, PlayElsewhere(a)
       PROVE  SetupFits'
  <2>1. ContractStart(a) \/ ContractShop(a)
    BY <1>16, Zenon DEF PlayElsewhere
  <2>2. foreign' = foreign \cup {a} /\ UNCHANGED <<appVars, page, jobs, failed>>
    BY <1>16, SMT DEF PlayElsewhere
  <2>3. PICK b : b = account
    OBVIOUS
  <2>4. b # a => /\ b \in DOMAIN ep' <=> b \in DOMAIN ep
                 /\ b \in DOMAIN ep => ep'[b] = ep[b]
                 /\ b \in DOMAIN record' <=> b \in DOMAIN record
    BY <2>1, CallsTellNothing, Zenon
  <2>5. SetupStill
    BY <2>2, <2>3, <2>4, SMT DEF SetupStill, PlayerEp
  <2> QED  BY <1>5, <2>2, <2>5, SMT
<1>17. ASSUME ReleaseBases
       PROVE  SetupFits'
  <2>1. SetupStill /\ jobs' = jobs
    BY <1>17, SMT DEF ReleaseBases, SetupStill, PlayerEp
  <2> QED  BY <1>5, <2>1, Zenon
<1>18. ASSUME EditDecks, Edited
       PROVE  SetupFits'
  <2>1. PICK x, y : page' = [page EXCEPT !.decks = x, !.index = y]
    BY <1>18, Zenon DEF Edited
  <2>2. /\ page'.phase = page.phase /\ page'.ep = page.ep /\ page'.message = page.message
        /\ page'.button = page.button
    BY <1>0, <2>1, SMT DEF IsPage, PageFields
  <2>3. SetupStill /\ jobs' = jobs
    BY <1>18, <2>2, SMT DEF EditDecks, SetupStill, PlayerEp
  <2> QED  BY <1>5, <2>3, Zenon
<1>19. ASSUME NEW i, SelectDeck(i) \/ DiscardDeck(i)
       PROVE  SetupFits'
  BY <1>18, <1>19, Zenon DEF SelectDeck, DiscardDeck
<1>20. ASSUME SaveDeck
       PROVE  SetupFits'
  BY <1>18, <1>20, Zenon DEF SaveDeck
<1>21. ASSUME NEW j \in jobs, NEW signed, PopupClosed(j, signed)
       PROVE  SetupFits'
  <2> DEFINE k == [j EXCEPT !.stage = "submitted"]
  <2>1. jobs' = Replace(j, k) \/ jobs' = jobs \ {j}
    BY <1>21, Zenon DEF PopupClosed
  <2>2. k.kind = j.kind /\ k.owner = j.owner
    BY <1>0, JobWith, Zenon DEF AreJobs
  <2> HIDE DEF k
  <2>3. j.stage = "popup"
    BY <1>21, Zenon DEF PopupClosed
  <2>4. ~IsQuery(j)
    BY <2>3, SMT DEF SetupFits, AsksFit, AskFits
  <2>5. ~IsQuery(k)
    BY <2>2, <2>4, SMT DEF IsQuery, Live
  <2>6. SetupStill
    BY <1>21, SMT DEF PopupClosed, SetupStill, PlayerEp
  <2>7. Live(k) /\ k.kind = "start" => Asked(jobs, "start")
    <3>1. Live(k) /\ k.kind = "start" => Live(j) /\ j.kind = "start"
      BY <2>2, SMT DEF Live
    <3> QED  BY <3>1, Zenon DEF Asked
  <2>8. jobs' \subseteq jobs \cup {k} /\ jobs \ {j} \subseteq jobs'
    BY <2>1, SMT DEF Replace
  <2> QED  BY <2>4, <2>5, <2>6, <2>7, <2>8, StillSetupBut, Zenon
<1>22. SetupFits'
  BY <1>1, <1>2, <1>6, <1>7, <1>8, <1>9, <1>10, <1>12, <1>13, <1>14, <1>15, <1>16, <1>17, <1>19, <1>20, <1>21, Zenon
     DEF Player
<1> QED  BY <1>22

\* What was asked is answered, or fails
LEMMA AnswerSetup ==
  ASSUME LinksCoherent, Typed, Covered, SetupFits, Answer \/ Failure, ~late', Covered'
  PROVE  SetupFits'
<1> USE DEF appVars, linkVars, modalVars, frameRest, storageVars, chainVars, matchVars, history, txRest
<1>0. IsPage(page) /\ AreJobs(jobs) /\ page.phase \in Phases
  BY DEF Typed, IsPage
<1>1. ASSUME NEW j, late' = (late \/ ~Live(j))
      PROVE  Live(j)
  BY <1>1, Zenon
<1>2. ASSUME NEW j \in jobs, Step(j)
      PROVE  AtStep(j) /\ Idle(jobs \ {j})
  BY <1>2, AnsweredIsIdle, Zenon
\* A loading screen ends
<1>3. ASSUME ~(wasm /\ connection # 0), NEW c, NEW w, c = connection', w = wasm',
             jobs' = jobs \cup Opening(route, c, w, account), UNCHANGED <<route, account, page>>
      PROVE  SetupFits'
  <2> DEFINE opened == Opening(route, c, w, account)
  <2>1. opened = Opening(route', connection', wasm', account')
    BY <1>3, SMT
  <2>2. \A j \in opened : j.kind # "start"
    BY OpeningIs, SMT DEF Opens
  <2>3. jobs' = jobs \cup opened
    BY <1>3
  <2> HIDE DEF opened
  <2>4. \A j \in jobs : ~IsQuery(j)
    BY <1>3, SMT DEF SetupFits, AsksFit, AskFits
  <2>5. Idle(jobs)
    BY <1>3, SMT DEF Covered, StepsFit, AtStep, Idle
  <2>6. ~Asked(jobs', "start")
    BY <2>2, <2>3, <2>5, SMT DEF Asked, Idle, Step, Steps, Covering
  <2>7. page'.phase = "setup" => page'.ep = 0
    BY <1>3, SMT DEF SetupFits, EpInSetup, SetupOpen
  <2>8. opened \subseteq jobs' /\ \A j \in jobs' : IsQuery(j) => j \in opened
    BY <2>3, <2>4, Zenon
  <2> QED  BY <2>1, <2>6, <2>7, <2>8, MountedSetup, Zenon
<1>4. ASSUME WasmReady
      PROVE  SetupFits'
  <2>1. ~wasm /\ wasm' = TRUE /\ connection' = connection /\ Mounted(connection, TRUE)
    BY <1>4, Zenon DEF WasmReady
  <2>2. UNCHANGED <<route, account, page>>
    BY <1>4, SMT DEF WasmReady
  <2>3. jobs' = jobs \cup Opening(route, connection, TRUE, account)
    BY <2>1, Zenon DEF Mounted
  <2>4. ~(wasm /\ connection # 0) /\ connection = connection' /\ TRUE = wasm'
    BY <2>1, Zenon
  <2> QED  BY <1>3, <2>2, <2>3, <2>4, Zenon
<1>5. ASSUME SetupStill, jobs' = jobs
      PROVE  SetupFits'
  BY <1>5, StillSetup, SMT
<1>6. ASSUME NEW k, LinkAnswers(k)
      PROVE  SetupFits'
  <2>1. SetupStill /\ jobs' = jobs
    BY <1>6, SMT DEF LinkAnswers, LinkAnswered, SetupStill, PlayerEp
  <2> QED  BY <1>5, <2>1, Zenon
<1>7. ASSUME NEW k \in DOMAIN links, BasesAnswer(k)
      PROVE  SetupFits'
  <2>1. connection' = k /\ k # 0
    BY <1>7, SMT DEF BasesAnswer, ConnectionBuilt, LinksCoherent
  <2>2. wasm' = wasm /\ Mounted(k, wasm) /\ UNCHANGED <<route, account, page, frameRest, history>>
    BY <1>7, SMT DEF BasesAnswer
  <2>3. CASE wasm /\ connection # 0
    <3>1. jobs' = jobs
      BY <2>2, <2>3, Zenon DEF Mounted
    <3>2. SetupStill
      BY <2>1, <2>2, <2>3, SMT DEF SetupStill, PlayerEp
    <3> QED  BY <1>5, <3>1, <3>2, Zenon
  <2>4. CASE ~(wasm /\ connection # 0)
    <3>1. jobs' = jobs \cup Opening(route, k, wasm, account)
      BY <2>2, <2>4, Zenon DEF Mounted
    <3>2. k = connection' /\ wasm = wasm' /\ UNCHANGED <<route, account, page>>
      BY <2>1, <2>2, SMT
    <3> QED  BY <1>3, <2>4, <3>1, <3>2, Zenon
  <2> QED  BY <2>3, <2>4
\* What asks for something else
<1>8. ASSUME SetupStill, NEW j, ~IsQuery(j), jobs' = jobs \ {j}
      PROVE  SetupFits'
  <2>1. \A i : IsQuery(i) => (i \in jobs' <=> i \in jobs)
    BY <1>8, Zenon
  <2>2. Asked(jobs', "start") => Asked(jobs, "start")
    BY <1>8, Zenon DEF Asked
  <2> QED  BY <1>8, <2>1, <2>2, StillSetup, Zenon
<1>9. ASSUME SetupStill, NEW j \in jobs, ~IsQuery(j), NEW k, k.kind = j.kind, k.owner = j.owner,
             jobs' = Replace(j, k) \/ jobs' = jobs \ {j}
      PROVE  SetupFits'
  <2>1. ~IsQuery(k)
    BY <1>9, SMT DEF IsQuery, Live
  <2>2. Live(k) /\ k.kind = "start" => Live(j) /\ j.kind = "start"
    BY <1>9, SMT DEF Live
  <2>3. Live(k) /\ k.kind = "start" => Asked(jobs, "start")
    BY <2>2, Zenon DEF Asked
  <2>4. jobs' \subseteq jobs \cup {k} /\ jobs \ {j} \subseteq jobs'
    BY <1>9, SMT DEF Replace
  <2> QED  BY <1>9, <2>1, <2>3, <2>4, StillSetupBut, Zenon
\* In a match
<1>10. ASSUME page'.phase # "setup", UNCHANGED <<route, wasm, account, connection>>,
              \A j \in jobs' : IsQuery(j) => j \in jobs
       PROVE  SetupFits'
  <2>1. AsksFit'
    BY <1>10, AsksGoOn, Zenon DEF SetupFits
  <2> QED  BY <1>10, <2>1, OffSetup, Zenon
\* A render
<1>11. ASSUME NEW js, AreJobs(js), page' = NewPage("/"), jobs' = Gone(js)
       PROVE  SetupFits'
  <2>1. page'.phase # "setup"
    BY <1>11, NewPageIs, SMT
  <2>2. AsksFit'
    BY <1>11, LeaveIs, NothingLiveFits, SMT
  <2> QED  BY <2>1, <2>2, OffSetup, Zenon
<1>12. ASSUME NEW p, NEW a, NEW js, AreJobs(js), Render(p, a, js)
       PROVE  SetupFits' \/ (page' = p /\ account' = a /\ jobs' = js)
  <2>1. account' = a
    BY <1>12, Zenon DEF Render
  <2>2. (page' = p /\ jobs' = js) \/ (page' = NewPage("/") /\ jobs' = Gone(js))
    BY <1>12, RenderEither, Zenon
  <2> QED  BY <1>11, <1>12, <2>1, <2>2, Zenon
<1>13. ASSUME NEW j \in jobs, SetupBlocked(j)
       PROVE  SetupFits'
  <2>1. jobs' = Gone(jobs) /\ page' = NewPage("/")
    BY <1>13, Zenon DEF SetupBlocked
  <2> QED  BY <1>0, <1>11, <2>1, Zenon
\* The address
<1>14. ASSUME NEW j \in jobs, Step(j), j.kind \in {"setup", "generate"}, NEW a,
              UNCHANGED <<route, wasm, connection, ep, record, foreign, failed>>,
              NEW p, SameButDecks(p, page) \/ SameButDecks(p, [page EXCEPT !.built = release]),
              Render(p, a, Readdress(a, jobs \ {j}))
       PROVE  SetupFits'
  <2>1. SetupOpen /\ Idle(jobs \ {j}) /\ page.phase = "setup"
    <3>1. AtStep(j) /\ Idle(jobs \ {j})
      BY <1>2, <1>14, Zenon
    <3> QED  BY <1>14, <3>1, SMT DEF AtStep, SetupOpen
  <2>2. AreJobs(jobs \ {j})
    BY <1>0, JobsWithout, Zenon
  <2>3. /\ AreJobs(Readdress(a, jobs \ {j}))
        /\ \A i \in Readdress(a, jobs \ {j}) : Live(i) => i \in jobs \ {j} \/ i \in AddressQueries(a)
        /\ \A i \in Readdress(a, jobs \ {j}) : IsQuery(i) =>
             (a = account /\ i \in jobs \ {j}) \/ i \in AddressQueries(a)
    BY <2>1, <2>2, ReaddressIs, Zenon DEF IsQuery
  <2>4. p.phase = page.phase /\ p.ep = page.ep /\ p.message = page.message /\ p.button = page.button
    BY <1>0, <1>14, SMT DEF IsPage, PageFields, SameButDecks
  <2>5. SetupFits' \/ (page' = p /\ account' = a /\ jobs' = Readdress(a, jobs \ {j}))
    BY <1>12, <1>14, <2>3, Zenon
  <2>6. ASSUME page' = p, account' = a, jobs' = Readdress(a, jobs \ {j}), a = account
        PROVE  SetupFits'
    <3>1. jobs' = jobs \ {j}
      BY <2>6, Zenon DEF Readdress
    <3>2. SetupStill
      BY <1>14, <2>4, <2>6, SMT DEF SetupStill, PlayerEp
    <3>3. ~IsQuery(j)
      BY <1>14, SMT DEF IsQuery
    <3> QED  BY <1>8, <3>1, <3>2, <3>3, Zenon
  <2>7. ASSUME page' = p, account' = a, jobs' = Readdress(a, jobs \ {j}), a # account
        PROVE  SetupFits'
    <3>1. AddressQueries(a) \subseteq jobs'
      BY <2>1, <2>7, SMT DEF Readdress
    <3>2. \A i \in jobs' : IsQuery(i) => i \in AddressQueries(a)
      BY <2>3, <2>7, Zenon
    <3>3. \A i \in AddressQueries(a) :
            /\ a # NoAccount /\ i.account = a /\ i.stage = "query" /\ Live(i) /\ i.kind \in {"ep", "record"}
      BY JobIs, SMT DEF AddressQueries, Live
    <3>4. SetupOpen'
      BY <1>14, <2>1, <2>4, <2>7, SMT DEF SetupOpen
    <3>5. AsksFit'
      BY <2>7, <3>2, <3>3, <3>4, SMT DEF AsksFit, AskFits, IsQuery, Live, SetupOpen
    <3>6. \A i \in jobs' : Live(i) => i.kind # "start"
      BY <2>1, <2>3, <2>7, <3>3, SMT DEF Idle, Step, Steps, Covering
    <3>7. StartPressed'
      BY <3>6, SMT DEF StartPressed, Asked, Live
    <3>8. a # NoAccount => Asked(jobs', "ep") /\ Asked(jobs', "record")
      <4>1. a # NoAccount => Job("ep", a) \in jobs' /\ Job("record", a) \in jobs'
        BY <3>1, Zenon DEF AddressQueries
      <4>2. \A kind : Live(Job(kind, a)) /\ Job(kind, a).kind = kind
        BY JobIs, SMT DEF Live
      <4> QED  BY <4>1, <4>2, Zenon DEF Asked
    <3>9. Asked(jobs, "ep")' = Asked(jobs', "ep") /\ Asked(jobs, "record")' = Asked(jobs', "record")
      BY DEF Asked, Live
    <3>10. SetupTells'
      BY <2>7, <3>8, <3>9, SMT DEF SetupTells
    <3> QED  BY <3>4, <3>5, <3>7, <3>10, Zenon DEF SetupFits, EpInSetup
  <2> QED  BY <2>5, <2>6, <2>7
<1>15. IsPage([page EXCEPT !.built = release])
  BY <1>0, SMT DEF LinksCoherent, IsPage, PageFields
<1>16. ASSUME NEW j \in jobs, SetupAnswered(j) \/ Generated(j)
       PROVE  SetupFits'
  <2>1. PICK p, a : /\ Render(p, a, Readdress(a, jobs \ {j}))
                    /\ \/ p = WithDecks(page, a)
                       \/ p = WithDecks([page EXCEPT !.built = release], a)
    BY <1>16, Zenon DEF SetupAnswered, Generated
  <2>2. Step(j)
    BY <1>1, <1>16, Zenon DEF SetupAnswered, Generated, Step, Steps, Covering
  <2>3. j.kind \in {"setup", "generate"} /\ UNCHANGED <<route, wasm, connection, ep, record, foreign, failed>>
    BY <1>16, SMT DEF SetupAnswered, Generated
  <2>4. SameButDecks(p, page) \/ SameButDecks(p, [page EXCEPT !.built = release])
    BY <1>0, <1>15, <2>1, WithDecksKeeps, Zenon
  <2> QED  BY <1>14, <2>1, <2>2, <2>3, <2>4, Zenon
\* The queries
<1>17. ASSUME NEW j \in jobs, EpAnswered(j)
       PROVE  SetupFits'
  <2>1. PICK x : x = IF EpTaken(j) THEN PlayerEp(j.account) ELSE page.ep
    OBVIOUS
  <2>2. PICK q : q = [page EXCEPT !.ep = x]
    OBVIOUS
  <2>3. PICK p : p = IF page.ep # 0 THEN q ELSE WithDecks(q, account)
    OBVIOUS
  <2>4. /\ Render(p, account, jobs \ {j}) /\ j.kind = "ep"
        /\ UNCHANGED <<route, wasm, connection, ep, record, foreign, failed>>
    <3>1. UNCHANGED <<route, wasm, connection, ep, record, foreign, failed>> /\ j.kind = "ep"
      BY <1>17, SMT DEF EpAnswered
    <3>2. Render(p, account, jobs \ {j})
      BY <1>17, <2>1, <2>2, <2>3, Zenon DEF EpAnswered
    <3> QED  BY <3>1, <3>2
  <2>5. /\ IsPage(q) /\ q.phase = page.phase /\ q.ep = x /\ q.message = page.message /\ q.button = page.button
    BY <1>0, <2>2, SMT DEF IsPage, PageFields
  <2>6. SameButDecks(WithDecks(q, account), q)
    BY <2>5, WithDecksKeeps, Zenon
  <2>7. p.phase = page.phase /\ p.ep = x /\ p.message = page.message /\ p.button = page.button
    BY <2>3, <2>5, <2>6, SMT DEF SameButDecks
  <2>8. AreJobs(jobs \ {j})
    BY <1>0, JobsWithout, Zenon
  <2>9. SetupFits' \/ (page' = p /\ account' = account /\ jobs' = jobs \ {j})
    BY <1>12, <2>4, <2>8, Zenon
  <2>10. ASSUME page' = p, account' = account, jobs' = jobs \ {j}, ~Live(j)
         PROVE  SetupFits'
    <3>1. x = page.ep
      BY <2>1, <2>10, Zenon DEF EpTaken
    <3>2. SetupStill
      BY <2>4, <2>7, <2>10, <3>1, SMT DEF SetupStill, PlayerEp
    <3>3. ~IsQuery(j)
      BY <2>10, Zenon DEF IsQuery
    <3> QED  BY <1>8, <2>10, <3>2, <3>3, Zenon
  <2>11. ASSUME page' = p, account' = account, jobs' = jobs \ {j}, Live(j)
         PROVE  SetupFits'
    <3>1. AskFits(j)
      BY <2>4, <2>11, SMT DEF SetupFits, AsksFit, IsQuery
    <3>2. x = PlayerEp(account)
      BY <2>1, <2>11, <3>1, SMT DEF EpTaken, AskFits
    <3>3. AsksFit'
      BY <2>4, <2>11, AsksGoOn, SMT DEF SetupFits
    <3>4. EpInSetup'
      BY <2>4, <2>11, <3>1, SMT DEF EpInSetup, SetupOpen, AskFits
    <3>5. StartPressed'
      BY <2>7, <2>11, SMT DEF SetupFits, StartPressed, Asked, Live
    <3>6. Asked(jobs, "record") => Asked(jobs, "record")'
      BY <2>4, <2>11, SMT DEF Asked, Live
    <3>7. page'.ep = PlayerEp(account)'
      BY <2>4, <2>7, <2>11, <3>2, SMT DEF PlayerEp
    <3>8. SetupOpen' => SetupOpen
      BY <2>4, <2>7, <2>11, SMT DEF SetupOpen
    <3>9. SetupTells'
      BY <2>4, <2>7, <2>11, <3>6, <3>7, <3>8, SMT DEF SetupFits, SetupTells
    <3> QED  BY <3>3, <3>4, <3>5, <3>9, Zenon DEF SetupFits
  <2> QED  BY <2>9, <2>10, <2>11
<1>18. ASSUME NEW j \in jobs, RecordAnswered(j)
       PROVE  SetupFits'
  <2>1. /\ Live(j) /\ j.kind = "record" /\ jobs' = jobs \ {j}
        /\ UNCHANGED <<route, wasm, connection, account, ep, record, foreign, failed>>
    <3>1. Live(j)
      BY <1>1, <1>18, Zenon DEF RecordAnswered
    <3> QED  BY <1>18, <3>1, SMT DEF RecordAnswered
  <2>2. PICK x : x = Warns(j) /\ page' = [page EXCEPT !.message = x]
    BY <1>18, Zenon DEF RecordAnswered
  <2>3. page'.phase = page.phase /\ page'.ep = page.ep /\ page'.message = x /\ page'.button = page.button
    BY <1>0, <2>2, SMT DEF IsPage, PageFields
  <2>4. AskFits(j)
    BY <2>1, SMT DEF SetupFits, AsksFit, IsQuery
  <2>5. x <=> account \in DOMAIN record
    <3>1. x = Warns(j) /\ j.account = account
      BY <2>2, <2>4, Zenon DEF AskFits
    <3>2. Warns(j) <=> account \in DOMAIN record
      BY <2>1, <3>1, Zenon DEF Warns
    <3> QED  BY <3>1, <3>2
  <2>6. AsksFit'
    BY <2>1, AsksGoOn, SMT DEF SetupFits
  <2>7. EpInSetup' /\ StartPressed'
    BY <2>1, <2>3, SMT DEF SetupFits, EpInSetup, StartPressed, SetupOpen, Asked, Live
  <2>8. Asked(jobs, "ep") => Asked(jobs, "ep")'
    BY <2>1, SMT DEF Asked, Live
  <2>9. page'.message <=> account' \in DOMAIN record'
    BY <2>1, <2>3, <2>5
  <2>10. SetupTells'
    BY <2>1, <2>3, <2>8, <2>9, SMT DEF SetupFits, SetupTells, SetupOpen, PlayerEp
  <2> QED  BY <2>6, <2>7, <2>10, Zenon DEF SetupFits
\* The transactions
<1>19. ASSUME NEW j \in jobs, StartIncluded(j) \/ ShopIncluded(j)
       PROVE  SetupFits'
  <2>1. /\ j.kind \in {"start", "shop"}
        /\ UNCHANGED <<route, wasm, connection, account, page>> /\ (failed => failed')
    <3>1. j.kind \in {"start", "shop"} /\ UNCHANGED <<route, wasm, connection, account, page>>
      BY <1>19, SMT DEF StartIncluded, ShopIncluded
    <3>2. failed => failed'
      BY <1>19, Zenon DEF StartIncluded, ShopIncluded, Taken, Refused
    <3> QED  BY <3>1, <3>2
  <2>2. Refused(j) \/ \E wants : Taken(j, wants)
    BY <1>19, Zenon DEF StartIncluded, ShopIncluded
  <2>3. \/ jobs' = jobs \ {j}
        \/ \E wants : jobs' = Replace(j, [j EXCEPT !.stage = "query", !.wants = wants])
    BY <2>2, Zenon DEF Refused, Taken
  <2>4. \A wants : LET k == [j EXCEPT !.stage = "query", !.wants = wants]
                   IN  k.kind = j.kind /\ k.owner = j.owner
    BY <1>0, SMT DEF AreJobs, IsJob, HasJobFields, JobFields
  <2>5. PICK k : k.kind = j.kind /\ k.owner = j.owner /\ (jobs' = Replace(j, k) \/ jobs' = jobs \ {j})
    BY <2>3, <2>4, Zenon
  <2>6. ~IsQuery(j)
    BY <2>1, SMT DEF IsQuery
  <2>7. ASSUME SetupStill
        PROVE  SetupFits'
    BY <1>9, <2>5, <2>6, <2>7, Zenon
  <2>8. ASSUME Refused(j)
        PROVE  SetupFits'
    <3>1. UNCHANGED <<ep, record, foreign>>
      BY <2>8, SMT DEF Refused
    <3>2. SetupStill
      BY <2>1, <3>1, SMT DEF SetupStill, PlayerEp
    <3> QED  BY <2>7, <3>2, Zenon
  <2>9. ASSUME ~Live(j), ~Refused(j)
        PROVE  SetupFits'
    <3>1. ContractStart(j.account) \/ ContractShop(j.account)
      BY <1>19, <2>9, Zenon DEF StartIncluded, ShopIncluded
    <3>2. foreign' = foreign \cup {j.account}
      BY <1>19, <2>9, Zenon DEF StartIncluded, ShopIncluded
    <3>3. PICK a, b : a = j.account /\ b = account
      OBVIOUS
    <3>4. b # a => /\ b \in DOMAIN ep' <=> b \in DOMAIN ep
                   /\ b \in DOMAIN ep => ep'[b] = ep[b]
                   /\ b \in DOMAIN record' <=> b \in DOMAIN record
      <4>1. ContractStart(a) \/ ContractShop(a)
        BY <3>1, <3>3
      <4> QED  BY <4>1, CallsTellNothing, Zenon
    <3>5. b \notin foreign' => b # a /\ b \notin foreign
      BY <3>2, <3>3, Zenon
    <3>6. b # a => PlayerEp(b)' = PlayerEp(b)
      BY <3>4, SMT DEF PlayerEp
    <3>7. PlayerEp(account)' = PlayerEp(b)' /\ PlayerEp(account) = PlayerEp(b)
      BY <2>1, <3>3, SMT DEF PlayerEp
    <3>8. account \notin foreign' =>
            /\ account \notin foreign
            /\ PlayerEp(account)' = PlayerEp(account)
            /\ account \in DOMAIN record' <=> account \in DOMAIN record
      <4> SUFFICES ASSUME account \notin foreign'
                   PROVE  /\ account \notin foreign
                          /\ PlayerEp(account)' = PlayerEp(account)
                          /\ account \in DOMAIN record' <=> account \in DOMAIN record
        OBVIOUS
      <4>1. b # a /\ b \notin foreign
        BY <3>3, <3>5, Zenon
      <4>2. PlayerEp(account)' = PlayerEp(account)
        BY <3>6, <3>7, <4>1
      <4>3. account \in DOMAIN record' <=> account \in DOMAIN record
        BY <3>3, <3>4, <4>1, Zenon
      <4> QED  BY <3>3, <4>1, <4>2, <4>3, Zenon
    <3>9. SetupStill
      BY <2>1, <3>8, SMT DEF SetupStill
    <3> QED  BY <2>7, <3>9, Zenon
  <2>10. ASSUME Live(j), ~Refused(j), j.kind = "start"
         PROVE  SetupFits'
    <3>1. ~page.button
      BY <2>10, SMT DEF SetupFits, StartPressed, Asked
    <3>2. SetupStill
      BY <2>1, <3>1, SMT DEF SetupStill
    <3> QED  BY <2>7, <3>2, Zenon
  <2>11. ASSUME Live(j), j.kind = "shop"
         PROVE  SetupFits'
    <3>1. AtStep(j)
      BY <1>2, <2>11, Zenon DEF Step, Steps, Covering
    <3>2. page'.phase # "setup"
      BY <2>1, <2>11, <3>1, SMT DEF AtStep
    <3>3. \A i \in jobs' : IsQuery(i) => i \in jobs
      BY <2>1, <2>5, SMT DEF Replace, IsQuery
    <3> QED  BY <1>10, <2>1, <3>2, <3>3, SMT
  <2> QED  BY <2>1, <2>8, <2>9, <2>10, <2>11, SMT
<1>20. ASSUME NEW j \in jobs, NEW what, StartAnswered(j, what)
       PROVE  SetupFits'
  <2>1. PICK m, wants :
          \/ /\ jobs' = Replace(j, [j EXCEPT !.match = m, !.wants = wants])
             /\ UNCHANGED <<account, page>>
          \/ OpenShop(j, m)
    BY <1>20, Zenon DEF StartAnswered
  <2>2. UNCHANGED <<route, wasm, connection, ep, record, foreign, failed>> /\ j.kind = "start"
    BY <1>20, SMT DEF StartAnswered
  <2>3. ~IsQuery(j)
    BY <2>2, SMT DEF IsQuery
  <2>4. ASSUME jobs' = Replace(j, [j EXCEPT !.match = m, !.wants = wants]), UNCHANGED <<account, page>>
        PROVE  SetupFits'
    <3>1. PICK k : k = [j EXCEPT !.match = m, !.wants = wants]
      OBVIOUS
    <3>2. k.kind = j.kind /\ k.owner = j.owner
      BY <1>0, <3>1, SMT DEF AreJobs, IsJob, HasJobFields, JobFields
    <3>3. jobs' = Replace(j, k)
      BY <2>4, <3>1
    <3>4. SetupStill
      BY <2>2, <2>4, SMT DEF SetupStill, PlayerEp
    <3> QED  BY <1>9, <2>3, <3>2, <3>3, <3>4, Zenon
  <2>5. ASSUME OpenShop(j, m)
        PROVE  SetupFits'
    <3> DEFINE p == [page EXCEPT !.phase = "shop", !.match = m]
    <3>1. Live(j)
      BY <1>1, <2>5, Zenon DEF OpenShop
    <3>2. Render(p, account, jobs \ {j})
      BY <2>5, <3>1, Zenon DEF OpenShop
    <3>3. p.phase = "shop"
      BY <1>0, SMT DEF IsPage, PageFields
    <3> HIDE DEF p
    <3>4. AreJobs(jobs \ {j})
      BY <1>0, JobsWithout, Zenon
    <3>5. SetupFits' \/ (page' = p /\ account' = account /\ jobs' = jobs \ {j})
      BY <1>12, <3>2, <3>4, Zenon
    <3>6. ASSUME page' = p, account' = account, jobs' = jobs \ {j}
          PROVE  SetupFits'
      <4>1. page'.phase # "setup" /\ \A i \in jobs' : IsQuery(i) => i \in jobs
        BY <3>3, <3>6, SMT
      <4> QED  BY <1>10, <2>2, <3>6, <4>1, SMT
    <3> QED  BY <3>5, <3>6
  <2> QED  BY <2>1, <2>4, <2>5
<1>21. ASSUME NEW j \in jobs, ShopAnswered(j)
       PROVE  SetupFits'
  <2>1. Live(j)
    BY <1>1, <1>21, Zenon DEF ShopAnswered
  <2>2. PICK m : page' = Battle(page, m)
    BY <1>21, <2>1, Zenon DEF ShopAnswered
  <2>3. page'.phase # "setup"
    BY <1>0, <2>2, SMT DEF IsPage, PageFields, Battle
  <2>4. jobs' = jobs \ {j} /\ UNCHANGED <<route, wasm, connection, account>>
    BY <1>21, SMT DEF ShopAnswered
  <2>5. \A i \in jobs' : IsQuery(i) => i \in jobs
    BY <2>4, Zenon
  <2> QED  BY <1>10, <2>3, <2>4, <2>5, Zenon
<1>22. ASSUME NEW j \in jobs, ResultAnswered(j)
       PROVE  SetupFits'
  <2>1. Live(j)
    BY <1>1, <1>22, Zenon DEF ResultAnswered
  <2>2. PICK x : page' = [page EXCEPT !.phase = "result", !.result = x]
    BY <1>22, <2>1, Zenon DEF ResultAnswered
  <2>3. page'.phase # "setup"
    BY <1>0, <2>2, SMT DEF IsPage, PageFields
  <2>4. jobs' = LeaveBattle \ {j} /\ UNCHANGED <<route, wasm, connection, account>>
    BY <1>22, <2>1, SMT DEF ResultAnswered
  <2>5. \A i \in LeaveBattle : Live(i) => i \in jobs
    BY <1>0, LeaveBattleIs, Zenon
  <2>6. \A i \in jobs' : IsQuery(i) => i \in jobs
    BY <2>4, <2>5, Zenon DEF IsQuery
  <2> QED  BY <1>10, <2>3, <2>4, <2>6, Zenon
<1>23. ASSUME NEW j \in jobs, TrialAnswered(j)
       PROVE  SetupFits'
  <2>1. Live(j) /\ j.kind = "trial"
    BY <1>1, <1>23, Zenon DEF TrialAnswered
  <2>2. AtStep(j)
    BY <1>2, <2>1, Zenon DEF Step, Steps
  <2>3. PICK m : Render([page EXCEPT !.phase = "shop", !.match = m], NoAccount, Readdress(NoAccount, jobs \ {j}))
    BY <1>23, <2>1, Zenon DEF TrialAnswered
  <2>4. PICK p : p = [page EXCEPT !.phase = "shop", !.match = m]
    OBVIOUS
  <2>5. p.phase = "shop"
    BY <1>0, <2>4, SMT DEF IsPage, PageFields
  <2>6. AreJobs(jobs \ {j})
    BY <1>0, JobsWithout, Zenon
  <2>7. /\ AreJobs(Readdress(NoAccount, jobs \ {j}))
        /\ \A i \in Readdress(NoAccount, jobs \ {j}) : Live(i) => i \in jobs \ {j} \/ i \in AddressQueries(NoAccount)
    BY <2>6, ReaddressIs, Zenon
  <2>8. AddressQueries(NoAccount) = {}
    BY Zenon DEF AddressQueries
  <2>9. \A i \in jobs : ~IsQuery(i)
    BY <2>1, <2>2, SMT DEF SetupFits, AsksFit, AskFits, AtStep
  <2>10. Render(p, NoAccount, Readdress(NoAccount, jobs \ {j}))
    BY <2>3, <2>4
  <2>11. SetupFits' \/ (page' = p /\ jobs' = Readdress(NoAccount, jobs \ {j}))
    BY <1>12, <2>7, <2>10, Zenon
  <2>12. ASSUME page' = p, jobs' = Readdress(NoAccount, jobs \ {j})
         PROVE  SetupFits'
    <3>1. \A i \in jobs' : ~IsQuery(i)
      BY <2>7, <2>8, <2>9, <2>12, SMT DEF IsQuery
    <3>2. AsksFit'
      BY <3>1, SMT DEF AsksFit, IsQuery, Live
    <3>3. page'.phase # "setup"
      BY <2>5, <2>12, SMT
    <3> QED  BY <3>2, <3>3, OffSetup, Zenon
  <2> QED  BY <2>11, <2>12
\* The battle
<1>24. ASSUME BattlePlayed
       PROVE  SetupFits'
  <2>1. PICK k : /\ \E h : k = [Job("animation", account) EXCEPT !.stage = "grades", !.match.health = h]
                 /\ jobs' \subseteq jobs \cup {k}
    BY <1>24, Zenon DEF BattlePlayed
  <2>2. k.kind = "animation"
    BY <2>1, JobIs, SMT DEF IsJob, HasJobFields, JobFields
  <2>3. ~IsQuery(k)
    BY <2>2, SMT DEF IsQuery
  <2>4. \A i \in jobs' : IsQuery(i) => i \in jobs
    BY <2>1, <2>3, Zenon
  <2>5. page'.phase # "setup"
    BY <1>0, <1>24, SMT DEF BattlePlayed, IsPage, PageFields
  <2>6. UNCHANGED <<route, wasm, connection, account>>
    BY <1>24, SMT DEF BattlePlayed
  <2> QED  BY <1>10, <2>4, <2>5, <2>6, Zenon
<1>25. ASSUME NEW j \in jobs, j.stage # "query"
       PROVE  ~IsQuery(j)
  BY <1>25, SMT DEF SetupFits, AsksFit, AskFits
<1>26. ASSUME NEW j \in jobs, BoxesFound(j)
       PROVE  SetupFits'
  <2>1. PICK k : k = [j EXCEPT !.stage = "boxes"]
    OBVIOUS
  <2>2. jobs' = Replace(j, k) \/ jobs' = jobs \ {j}
    BY <1>26, <2>1, Zenon DEF BoxesFound
  <2>3. k.kind = j.kind /\ k.owner = j.owner
    BY <1>0, <2>1, JobWith, Zenon DEF AreJobs
  <2>4. j.stage = "grades"
    BY <1>26, Zenon DEF BoxesFound
  <2>5. ~IsQuery(j)
    BY <1>25, <2>4, SMT
  <2>6. SetupStill
    BY <1>26, SMT DEF BoxesFound, SetupStill, PlayerEp
  <2> QED  BY <1>9, <2>2, <2>3, <2>5, <2>6, Zenon
<1>27. ASSUME NEW j \in jobs, HealthWritten(j)
       PROVE  SetupFits'
  <2>1. jobs' = jobs \ {j} /\ j.stage = "boxes"
    BY <1>27, SMT DEF HealthWritten
  <2>2. ~IsQuery(j)
    BY <1>25, <2>1, SMT
  <2>3. page'.phase = page.phase /\ page'.ep = page.ep /\ page'.message = page.message /\ page'.button = page.button
    BY <1>0, <1>27, SMT DEF HealthWritten, IsPage, PageFields
  <2>4. SetupStill
    BY <1>27, <2>3, SMT DEF HealthWritten, SetupStill, PlayerEp
  <2> QED  BY <1>8, <2>1, <2>2, <2>4, Zenon
\* A query fails
<1>28. ASSUME NEW j \in jobs, Lost(j) \/ Fault(j)
       PROVE  SetupFits'
  <2>1. jobs' = jobs \ {j} /\ failed' /\ UNCHANGED <<route, wasm, connection, account, page>>
    BY <1>28, SMT DEF Lost, Fault, QueryFails
  <2>2. AsksFit'
    BY <2>1, AsksGoOn, SMT DEF SetupFits
  <2>3. EpInSetup' /\ StartPressed'
    BY <2>1, SMT DEF SetupFits, EpInSetup, StartPressed, SetupOpen, Asked, Live
  <2>4. SetupTells'
    BY <2>1, Zenon DEF SetupTells
  <2> QED  BY <2>2, <2>3, <2>4, Zenon DEF SetupFits
<1>29. SetupFits'
  BY <1>4, <1>6, <1>7, <1>13, <1>16, <1>17, <1>18, <1>19, <1>20, <1>21, <1>22, <1>23, <1>24, <1>26, <1>27, <1>28,
     Zenon DEF Answer, Failure
<1> QED  BY <1>29

LEMMA SetupFitsInit == Init => SetupFits
<1> SUFFICES ASSUME Init PROVE SetupFits
  OBVIOUS
<1>1. jobs = {} /\ page = NewPage(route) /\ connection = 0
  BY Zenon DEF Init, AppInit
<1>2. page.ep = 0
  BY <1>1, SMT DEF NewPage
<1> QED  BY <1>1, <1>2, SMT DEF SetupFits, AsksFit, EpInSetup, StartPressed, SetupTells, Asked, SetupOpen

LEMMA SetupFitsStep ==
  ASSUME LinksCoherent, Typed, late \/ (Covered /\ SetupFits), [Next]_vars
  PROVE  late' \/ (Covered /\ SetupFits)'
<1>1. late' \/ Covered'
  BY CoveredStep
<1>2. CASE late /\ Next
  BY <1>2, LateStays, Zenon
<1>3. CASE ~late /\ Next
  BY <1>1, <1>3, PlayerSetup, AnswerSetup, Zenon DEF Next
<1>4. CASE UNCHANGED vars
  <2>1. late' = late /\ jobs' = jobs
    BY <1>4, SMT DEF vars, history
  <2>2. SetupStill
    BY <1>4, SMT DEF vars, history, appVars, linkVars, modalVars, chainVars, matchVars, SetupStill, PlayerEp
  <2>3. SetupFits => SetupFits'
    BY <2>1, <2>2, StillSetup, SMT
  <2> QED  BY <1>1, <2>1, <2>3, Zenon
<1> QED  BY <1>2, <1>3, <1>4

SetupInv == LinksCoherent /\ Typed /\ (late \/ (Covered /\ SetupFits))

LEMMA SetupAlways == Spec => []SetupInv
<1>1. Init => SetupInv
  BY LinksCoherentInit, TypedInit, CoveredInit, SetupFitsInit, Zenon DEF SetupInv
<1>2. SetupInv /\ [Next]_vars => SetupInv'
  BY LinksCoherentStep, TypedStep, SetupFitsStep, Zenon DEF SetupInv
<1> QED  BY <1>1, <1>2, PTL DEF Spec

\* The EP on the setup page (setEp of components/pages/Mtc/Setup) is that of the account
\* shown: the answers for the accounts tried before are not taken (isMounted of the
\* effect), and the last one asked for is
THEOREM EpIsShown == Spec => []EpShown
<1>1. SetupInv => EpShown
  <2> SUFFICES ASSUME SetupInv, Shown(page, account), page.button, ~Pending({"ep"}),
                      account \notin foreign, ~failed, ~late
               PROVE  page.ep = PlayerEp(account)
    BY Zenon DEF EpShown
  <2>1. SetupFits
    BY Zenon DEF SetupInv
  <2>2. SetupOpen /\ account # NoAccount
    BY <2>1, SMT DEF SetupFits, EpInSetup, Shown
  <2>3. ~Asked(jobs, "ep")
    BY SMT DEF Asked, Pending
  <2> QED  BY <2>1, <2>2, <2>3, Zenon DEF SetupFits, SetupTells
<1> QED  BY <1>1, SetupAlways, PTL

\* The warning of the setup page (setStartMessage) is there if, and only if, the account
\* shown has an unfinished match: it is asked for again with each account
THEOREM WarningIsTrue == Spec => []WarningTrue
<1>1. SetupInv => WarningTrue
  <2> SUFFICES ASSUME SetupInv, Shown(page, account), page.button, ~Pending({"record"}),
                      account \notin foreign, ~failed, ~late
               PROVE  page.message <=> account \in DOMAIN record
    BY Zenon DEF WarningTrue
  <2>1. SetupFits
    BY Zenon DEF SetupInv
  <2>2. SetupOpen /\ account # NoAccount
    BY <2>1, SMT DEF SetupFits, EpInSetup, Shown
  <2>3. ~Asked(jobs, "record")
    BY SMT DEF Asked, Pending
  <2> QED  BY <2>1, <2>2, <2>3, Zenon DEF SetupFits, SetupTells
<1> QED  BY <1>1, SetupAlways, PTL

================================================================================
