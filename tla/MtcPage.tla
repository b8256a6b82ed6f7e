-------------------------------- MODULE MtcPage --------------------------------
(***************************************************************************)
(* The pages a match is played on, /match (components/pages/Mtc) and the   *)
(* trial (components/pages/MtcTrial), in the frame of FrontApp, with the   *)
(* decks of Decks, against a contract that keeps the promises of           *)
(* MatchLifecycle.                                                         *)
(*                                                                         *)
(* Whatever the code awaits is a member of jobs: a query, a transaction,   *)
(* an animation.  Nothing cancels it when the component that awaits it is  *)
(* unmounted; the code after the await runs whenever the answer comes, and *)
(* only React ignores a state update of a component that is gone.          *)
(*                                                                         *)
(* A battle is won or lost by its seed alone: it costs the player Damage   *)
(* health or the match one rival.  What a fight really does is the subject *)
(* of BattleMarch, Organizer and Match.                                    *)
(***************************************************************************)
EXTENDS FrontApp, Decks, Mapping, EpRules

CONSTANTS
  TurnLimit,  \* of the contract
  Health,     \* of a player at the start of a match
  Rivals,     \* in a match
  Damage,     \* a lost battle does
  BuiltIds,   \* release -> get_deck_built_emo_base_ids
  KnownIds,   \* release -> the ids in get_emo_bases
  Worlds      \* the contract as the page finds it, and a budget: how often the players
              \* do each of the things they may do

ASSUME ReleasesAssumption == 1 \in DOMAIN BuiltIds

\* An extension without an account is one of the ways a page is blocked
ASSUME ExtensionAssumption == 1 \in DOMAIN Extension

ASSUME StakesAssumption == Health \in Nat /\ Rivals \in Nat /\ Damage \in Nat

\* The contract as it is found
ASSUME WorldsAssumption ==
  \A world \in Worlds :
    world.routes \subseteq RouteIds /\ \A a \in DOMAIN world.record : world.record[a] \in [health : Nat, rivals : Nat]

Seeds == {"won", "lost"}

VARIABLES
  ep, turns,  \* of the contract, see MatchLifecycle
  record,     \* account -> health and rivals of its match
  seed,       \* account -> player_seed
  release,    \* of the emo bases
  page,       \* the state of the page shown
  jobs,       \* what is awaited
  budget,     \* what is left of the bounds
  placed,     \* history: account -> the place of the last match it finished
  foreign,    \* history: accounts whose match somebody else touched last
  chosen,     \* history: address -> the deck selected last in this tab
  elsewhere,  \* history: another tab changed the decks
  late,       \* history: an answer took effect after its component was gone
  failed      \* history: a query failed

matchVars == <<ep, turns, record, seed, placed>>
chainVars == <<matchVars, release>>
history == <<foreign, chosen, elsewhere, late, failed>>
vars == <<appVars, storageVars, chainVars, page, jobs, budget, history>>

Accounts == {Extension[i] : i \in DOMAIN Extension}
Contract == INSTANCE MatchLifecycle

\* Mutant: the modal is not shown
CoverLate == UNCHANGED waiting

\* withToggleAsync, before and after what is awaited; nothing hides the modal if that fails
Cover == waiting' = TRUE

\* Mutant: the modal stays
UncoverNever == UNCHANGED waiting

Uncover == waiting' = FALSE

Spend(what) == budget[what] > 0 /\ budget' = [budget EXCEPT ![what] = @ - 1]

--------------------------------------------------------------------------------
(* The contract *)

\* battle_all, by the seed
Fought(match) ==
  IF match.seed = "won" THEN [match EXCEPT !.rivals = @ - 1]
  ELSE [match EXCEPT !.health = IF @ > Damage THEN @ - Damage ELSE 0]

\* calc_final_place, 0 while the match goes on
FinalPlace(match) ==
  IF match.rivals = 0 THEN 1 ELSE IF match.health = 0 THEN match.rivals + 1 ELSE 0

\* start_mtc, for a deck of built bases
ContractStart(a) ==
  /\ Contract!StartFirst(a) \/ Contract!Start(a) \/ Contract!Abandon(a)
  /\ record' = MapInsert(record, a, [health |-> Health, rivals |-> Rivals])
  /\ \E s \in Seeds : seed' = MapInsert(seed, a, s)
  /\ UNCHANGED placed

\* finish_mtc_shop, for operations that pass the verification
ContractShop(a) ==
  \E s \in Seeds :
    LET after == Fought([health |-> record[a].health, rivals |-> record[a].rivals, seed |-> s])
        place == FinalPlace(after)
    IN  /\ seed' = MapInsert(seed, a, s)
        /\ IF place = 0
           THEN /\ Contract!PlayOn(a)
                /\ record' = MapInsert(record, a, [health |-> after.health, rivals |-> after.rivals])
                /\ UNCHANGED placed
           ELSE /\ Contract!Finish(a, place)
                /\ record' = MapRemove(record, a)
                /\ placed' = MapInsert(placed, a, place)

PlayerEp(a) == IF a \in DOMAIN ep THEN ep[a] ELSE INITIAL_EP

--------------------------------------------------------------------------------
(* Pages and jobs *)

NoMatch == [previousEp |-> 0, turn |-> 0, seed |-> "none", health |-> 0, rivals |-> 0]

\* The state of a page that has just been mounted
NewPage(id) ==
  [phase      |-> IF id = "/match" THEN "setup" ELSE "loading",
   built      |-> 0,      \* the release of builtEmoBaseIds, 0 while they are not there
   ep         |-> 0,      \* of the setup, 0 is null
   message    |-> FALSE,  \* the warning about an unfinished match
   button     |-> TRUE,   \* hasPowButton
   decks      |-> <<>>,
   index      |-> 1,
   match      |-> NoMatch,                  \* mtcState
   result     |-> [place |-> 0, ep |-> 0],  \* resultState
   played     |-> FALSE,  \* the boards of the battle were played to the end
   health     |-> 0]      \* of the player, as the battle page shows it

Job(kind, a) ==
  [kind  |-> kind, account |-> a, over |-> connection,
   owner |-> "page",  \* what awaits it: "page", "old" effect of it, "left" page, "reloaded" tab
   stage |-> "query", deck |-> <<>>, match |-> NoMatch, place |-> 0, wants |-> {}]

\* The effects that run when the address of the account changes
AddressQueries(a) == IF a = NoAccount THEN {} ELSE {Job("ep", a), Job("record", a)}

\* What a page awaits once it is past the loading screen, of connection c and wasm w
Opening(id, c, w, a) ==
  IF c = 0 \/ ~w THEN {}
  ELSE CASE id = "/match"       -> {[j EXCEPT !.over = c] : j \in {Job("setup", a)} \cup AddressQueries(a)}
         [] id = "/match_trial" -> {[Job("trial", a) EXCEPT !.over = c]}
         [] OTHER               -> {}

\* The jobs of a page that is unmounted.  The queries of its address effects have
\* nothing left to change.
Leave(js) ==
  {[j EXCEPT !.owner = IF @ = "page" THEN "left" ELSE @] : j \in {i \in js : i.kind \notin {"ep", "record"}}}

\* Of a tab that is gone, what was submitted goes on
Gone(js) == {[j EXCEPT !.owner = "reloaded"] : j \in {i \in js : i.stage = "submitted"}}

SetupOpen == route = "/match" /\ wasm /\ connection # 0 /\ page.phase = "setup"

\* The setup is shown for an account, not the loading screen
Shown(p, a) == p.phase = "setup" /\ p.built # 0 /\ p.ep # 0 /\ a # NoAccount

\* The effect of Decks, when the address or the built ids change
WithDecks(p, a) ==
  LET got == GetDecks(a, BuiltIds[p.built])
  IN  IF Shown(p, a) THEN [p EXCEPT !.decks = got.decks, !.index = got.index] ELSE p

\* A base that the connection did not fetch, or a match without its account
Crashes(p, a, c) ==
  \/ route = "/match" /\ p.phase \in {"shop", "battle", "result"} /\ a = NoAccount
  \/ /\ Shown(p, a)
     /\ ~UNION {ToSet(deck) : deck \in ToSet(Append(GetDecks(a, BuiltIds[p.built]).decks, BuiltIds[p.built]))}
          \subseteq ToSet(KnownIds[links[c].release])

\* A render, with what an action left: a page, an account and jobs
Render(p, a, js) ==
  /\ account' = a
  /\ IF Crashes(p, a, connection)
     THEN ended' = "crashed" /\ page' = NewPage("/") /\ jobs' = Gone(js)
     ELSE ended' = ended /\ page' = p /\ jobs' = js

\* The jobs after setAccount: the address effects of the setup run again
Readdress(a, js) ==
  IF a = account \/ ~SetupOpen THEN js
  ELSE {[j EXCEPT !.owner = IF j.kind \in {"ep", "record"} THEN "old" ELSE @] : j \in js} \cup AddressQueries(a)

Live(j) == j.owner = "page"
Up(j) == j.owner # "reloaded" /\ links[j.over].state = "up"
Replace(j, k) == (jobs \ {j}) \cup {k}

--------------------------------------------------------------------------------
(* The frame: routes, reloads, the connection *)

frameRest == <<storageVars, chainVars>>

\* Mutant: the trial leaves the navigation bar as it is
NavLeftHidden == hasNav \/ route = "/match"

\* The navigation bar after the cleanup of the page
NavAfter == hasNav \/ route = "/match" \/ (route = "/match_trial" /\ wasm /\ connection # 0)

\* The address bar and the back button work under a modal, too
Go(id) ==
  /\ ended = "no"
  /\ id # route
  /\ Spend("moves")
  /\ Reroute(id)
  /\ hasNav' = NavAfter
  /\ page' = NewPage(id)
  /\ LET opened == Opening(id, connection', wasm, account')
     IN  /\ jobs' = Leave(jobs) \cup opened
         /\ waiting' = (waiting \/ \E j \in opened : j.kind = "setup")
  /\ UNCHANGED <<wasm, errorModal, ended, frameRest, history>>

Reload(id) ==
  /\ id \in ReloadRoutes
  /\ Spend("moves")
  /\ Reloaded(id)
  /\ page' = NewPage(id)
  /\ jobs' = Gone(jobs)
  /\ UNCHANGED <<frameRest, history>>

\* A loading screen ends: the page is mounted
Mounted(c, w) ==
  LET opened == IF wasm /\ connection # 0 THEN {} ELSE Opening(route, c, w, account)
  IN  /\ jobs' = jobs \cup opened
      /\ waiting' = (waiting \/ \E j \in opened : j.kind = "setup")

WasmReady ==
  /\ ~wasm
  /\ ended = "no"
  /\ wasm' = TRUE
  /\ Mounted(connection, TRUE)
  /\ UNCHANGED <<route, linkVars, account, hasNav, errorModal, ended, page, budget, frameRest, history>>

LinkAnswers(k) ==
  /\ ended = "no"
  /\ LinkAnswered(k)
  /\ UNCHANGED <<route, wasm, account, hasNav, modalVars, page, jobs, budget, frameRest, history>>

BasesAnswer(k) ==
  /\ ended = "no"
  /\ ConnectionBuilt(k, release)
  /\ Mounted(k, wasm)
  /\ UNCHANGED <<route, wasm, account, hasNav, errorModal, ended, page, budget, frameRest, history>>

--------------------------------------------------------------------------------
(* The setup: the account and the deck *)

\* setup: the extension and the built ids, in a withToggleAsync
SetupAnswered(j) ==
  /\ j.kind = "setup"
  /\ Up(j)
  /\ Uncover
  /\ late' = (late \/ ~Live(j))
  /\ LET a == SetupAccount(j.account)
         p == IF Live(j) THEN WithDecks([page EXCEPT !.built = release], a) ELSE WithDecks(page, a)
     IN  Render(p, a, Readdress(a, jobs \ {j}))
  /\ UNCHANGED <<route, wasm, linkVars, hasNav, errorModal, budget, frameRest, foreign, chosen, elsewhere, failed>>

\* No extension, or no account in it: blockMessage
SetupBlocked(j) ==
  /\ j.kind = "setup"
  /\ Spend("faults")
  /\ Uncover
  /\ ended' = "blocked"
  /\ hasNav' = NavAfter
  /\ page' = NewPage("/")
  /\ jobs' = Gone(jobs)
  /\ UNCHANGED <<route, wasm, linkVars, account, errorModal, frameRest, history>>

\* Mutant: an answer for the account before is taken, too
EpTakenAnyway(j) == TRUE

\* isMounted of the effect
EpTaken(j) == Live(j)

EpAnswered(j) ==
  /\ j.kind = "ep"
  /\ Up(j)
  /\ LET p == [page EXCEPT !.ep = IF EpTaken(j) THEN PlayerEp(j.account) ELSE @]
     IN  Render(IF page.ep # 0 THEN p ELSE WithDecks(p, account), account, jobs \ {j})
  /\ UNCHANGED <<route, wasm, linkVars, hasNav, waiting, errorModal, budget, frameRest, history>>

\* Mutant: the warning is only ever set
WarnsOnce(j) == page.message \/ (Live(j) /\ j.account \in DOMAIN record)

\* An answer for the account before clears the warning
Warns(j) == Live(j) /\ j.account \in DOMAIN record

RecordAnswered(j) ==
  /\ j.kind = "record"
  /\ Up(j)
  /\ page' = [page EXCEPT !.message = Warns(j)]
  /\ jobs' = jobs \ {j}
  /\ late' = (late \/ ~Live(j))
  /\ UNCHANGED <<appVars, budget, frameRest, foreign, chosen, elsewhere, failed>>

\* AccountsDropdown
SwitchAccount(a) ==
  /\ Clickable
  /\ SetupOpen
  /\ Shown(page, account)
  /\ a # account
  /\ Spend("switches")
  /\ Cover
  /\ jobs' = jobs \cup {Job("generate", a)}
  /\ UNCHANGED <<route, wasm, linkVars, account, hasNav, errorModal, ended, page, frameRest, history>>

Generated(j) ==
  /\ j.kind = "generate"
  /\ j.owner # "reloaded"
  /\ Uncover
  /\ late' = (late \/ ~Live(j))
  /\ Render(WithDecks(page, j.account), j.account, Readdress(j.account, jobs \ {j}))
  /\ UNCHANGED <<route, wasm, linkVars, hasNav, errorModal, budget, frameRest, foreign, chosen, elsewhere, failed>>

\* An edit of the decks, and updateDecksState
Edited ==
  \E r \in {page.built} :
    LET got == GetDecks(account, BuiltIds[r])'
    IN  page' = [page EXCEPT !.decks = got.decks, !.index = got.index]

EditDecks ==
  /\ Clickable
  /\ SetupOpen
  /\ Shown(page, account)
  /\ Spend("edits")
  /\ UNCHANGED <<appVars, chainVars, jobs, foreign, elsewhere, late, failed>>

SelectDeck(i) ==
  /\ i # page.index
  /\ ~IsStale(page.decks[i], BuiltIds[page.built])
  /\ EditDecks
  /\ SelectDeckIndex(account, i, BuiltIds[page.built])
  /\ chosen' = [chosen EXCEPT ![account] = page.decks[i]]
  /\ Edited

DiscardDeck(i) ==
  /\ i # page.index
  /\ EditDecks
  /\ DeleteDeck(account, i)
  /\ UNCHANGED chosen
  /\ Edited

SaveDeck ==
  /\ EditDecks
  /\ \E deck \in BuilderDecks(BuiltIds[page.built]) : AddDeck(account, deck, BuiltIds[page.built])
  /\ UNCHANGED chosen
  /\ Edited

\* Another tab of the browser does the same
EditElsewhere(a) ==
  /\ Spend("others")
  /\ \/ \E deck \in BuilderDecks(BuiltIds[release]) : AddDeck(a, deck, BuiltIds[release])
     \/ \E i \in DOMAIN customDecks[a] : DeleteDeck(a, i + 1)
     \/ \E i \in DOMAIN customDecks[a] : SelectDeckIndex(a, i + 1, BuiltIds[release])
  /\ elsewhere' = TRUE
  /\ UNCHANGED <<appVars, chainVars, page, jobs, foreign, chosen, late, failed>>

--------------------------------------------------------------------------------
(* Transactions: signed in the popup of the extension, then in a block *)

\* The player decides in the popup; a link that is down refuses what was signed
PopupClosed(j, signed) ==
  /\ j.stage = "popup"
  /\ IF signed /\ Up(j)
     THEN jobs' = Replace(j, [j EXCEPT !.stage = "submitted"]) /\ UNCHANGED errorModal
     ELSE jobs' = jobs \ {j} /\ errorModal' = TRUE
  /\ UNCHANGED <<route, wasm, linkVars, account, hasNav, waiting, ended, page, budget, frameRest, history>>

\* Transactions of an account go by their nonces: what a page left behind is first
NextInLine(j) ==
  /\ j.stage = "submitted"
  /\ Live(j) => ~\E i \in jobs : i.stage = "submitted" /\ i.account = j.account /\ ~Live(i)

\* The contract took the transaction; what comes then is queried, if its api is still there
Taken(j, wants) ==
  /\ jobs' = IF Up(j) THEN Replace(j, [j EXCEPT !.stage = "query", !.wants = wants]) ELSE jobs \ {j}
  /\ failed' = (failed \/ ~Up(j))
  /\ UNCHANGED errorModal

\* The contract refused it; the waiting modal stays
Refused(j) ==
  /\ jobs' = jobs \ {j}
  /\ errorModal' = (errorModal \/ Up(j))
  /\ failed' = (failed \/ ~Up(j))
  /\ UNCHANGED <<matchVars, foreign>>

txRest == <<route, wasm, linkVars, account, hasNav, waiting, ended, page, budget, storageVars, release,
            chosen, elsewhere, late>>

StartIncluded(j) ==
  /\ j.kind = "start"
  /\ NextInLine(j)
  /\ IF ToSet(j.deck) \subseteq ToSet(BuiltIds[release])
     THEN /\ ContractStart(j.account)
          /\ Taken(j, {"seed", "mutable"})
          /\ foreign' = IF Live(j) THEN foreign \ {j.account} ELSE foreign \cup {j.account}
     ELSE Refused(j)
  /\ UNCHANGED txRest

\* The match the operations were made for is the match of the contract
Agrees(match, a) ==
  /\ a \in DOMAIN turns
  /\ match.turn = turns[a] + 1
  /\ match.seed = seed[a]
  /\ [health |-> match.health, rivals |-> match.rivals] = record[a]

ShopIncluded(j) ==
  /\ j.kind = "shop"
  /\ NextInLine(j)
  /\ \/ /\ j.account \in DOMAIN turns
        /\ ContractShop(j.account)
        /\ Taken(j, {"seed"})
        /\ foreign' = IF Live(j) THEN foreign ELSE foreign \cup {j.account}
     \/ /\ ~Agrees(j.match, j.account)
        /\ Refused(j)
  /\ UNCHANGED txRest

\* The account is played from somewhere else
PlayElsewhere(a) ==
  /\ Spend("others")
  /\ ContractStart(a) \/ (a \in DOMAIN turns /\ ContractShop(a))
  /\ foreign' = foreign \cup {a}
  /\ UNCHANGED <<appVars, storageVars, release, page, jobs, chosen, elsewhere, late, failed>>

ReleaseBases ==
  /\ release + 1 \in DOMAIN BuiltIds
  /\ Spend("releases")
  /\ release' = release + 1
  /\ UNCHANGED <<appVars, storageVars, matchVars, page, jobs, history>>

--------------------------------------------------------------------------------
(* The match *)

\* A click on a button of the page
Click(p, js) ==
  /\ Clickable
  /\ wasm /\ connection # 0
  /\ page' = p
  /\ jobs' = js
  /\ UNCHANGED <<route, wasm, linkVars, account, errorModal, ended, frameRest, history>>

\* Start: the button goes, and the deck is submitted
Start ==
  /\ SetupOpen
  /\ Shown(page, account)
  /\ page.button
  /\ Spend("starts")
  /\ Click([page EXCEPT !.button = FALSE],
           jobs \cup {[Job("start", account) EXCEPT !.stage = "popup", !.deck = page.decks[page.index],
                                                    !.match.previousEp = page.ep]})
  /\ Cover
  /\ UNCHANGED hasNav

\* startMtc, after start: the shop, and the navigation bar goes whatever page is shown
OpenShop(j, match) ==
  /\ Uncover
  /\ hasNav' = FALSE
  /\ late' = (late \/ ~Live(j))
  /\ Render(IF Live(j) THEN [page EXCEPT !.phase = "shop", !.match = match] ELSE page, account, jobs \ {j})

\* start: seed and record are queried, each answered in its time
StartAnswered(j, what) ==
  LET match == IF what = "seed" THEN [j.match EXCEPT !.seed = seed[j.account]]
               ELSE [j.match EXCEPT !.turn = 1, !.health = record[j.account].health,
                                    !.rivals = record[j.account].rivals]
      got == [j EXCEPT !.match = match, !.wants = @ \ {what}]
  IN  /\ j.kind = "start"
      /\ what \in j.wants
      /\ Up(j)
      /\ what = "mutable" => j.account \in DOMAIN record
      /\ IF got.wants # {}
         THEN jobs' = Replace(j, got) /\ UNCHANGED <<account, hasNav, waiting, ended, page, late>>
         ELSE OpenShop(j, match)
      /\ UNCHANGED <<route, wasm, linkVars, errorModal, budget, frameRest, foreign, chosen, elsewhere, failed>>

Battle(p, match) ==
  [p EXCEPT !.phase = "battle", !.match = match, !.health = match.health, !.played = FALSE]

\* startBattle, when the shop phase is over
FinishShop ==
  /\ route = "/match" /\ page.phase = "shop"
  /\ Spend("shops")
  /\ Cover
  /\ Click(page, jobs \cup {[Job("shop", account) EXCEPT !.stage = "popup", !.match = page.match]})
  /\ UNCHANGED hasNav

\* The trial draws the seed itself
FinishTrialShop ==
  /\ route = "/match_trial" /\ page.phase = "shop"
  /\ Spend("shops")
  /\ \E s \in Seeds : Click(Battle(page, [page.match EXCEPT !.seed = s]), jobs)
  /\ UNCHANGED <<hasNav, waiting>>

\* getSeed answered: the battle
ShopAnswered(j) ==
  /\ j.kind = "shop"
  /\ j.stage = "query"
  /\ Up(j)
  /\ Uncover
  /\ late' = (late \/ ~Live(j))
  /\ page' = IF Live(j) THEN Battle(page, [j.match EXCEPT !.seed = seed[j.account]]) ELSE page
  /\ jobs' = jobs \ {j}
  /\ UNCHANGED <<route, wasm, linkVars, account, hasNav, errorModal, ended, budget, frameRest, foreign, chosen,
                 elsewhere, failed>>

\* Mutant: the health the battle was fought with goes into the next turn
NextMatchUnhurt(after) == [after EXCEPT !.turn = @ + 1, !.health = page.match.health]

NextMatch(after) == [after EXCEPT !.turn = @ + 1]

\* Mutant: the player is placed among the rivals that are left
FrontPlaceAmongRivals(after) ==
  IF after.rivals = 0 THEN 1 ELSE IF after.health = 0 THEN after.rivals ELSE 0

FrontPlace(after) == FinalPlace(after)

\* finishBattle: the fight of the contract once more, in the front
FinishBattle(match) ==
  LET after == Fought(match)
  IN  [match |-> IF FrontPlace(after) = 0 THEN NextMatch(after) ELSE after, place |-> FrontPlace(after)]

\* The animations go on without the battle page
LeaveBattle ==
  {[j EXCEPT !.owner = IF j.kind = "animation" /\ Live(j) THEN "left" ELSE @] : j \in jobs}

\* Next, whether or not the animations are over, while the match goes on
NextTurn ==
  LET finished == FinishBattle(page.match)
  IN  /\ page.phase = "battle"
      /\ finished.place = 0
      /\ Click([page EXCEPT !.phase = "shop", !.match = finished.match], LeaveBattle)
      /\ UNCHANGED <<hasNav, waiting, budget>>

\* Next in the last battle: the EP is queried on top of it
FinishMatch ==
  LET finished == FinishBattle(page.match)
  IN  /\ route = "/match" /\ page.phase = "battle"
      /\ finished.place # 0
      /\ Cover
      /\ Click([page EXCEPT !.match = finished.match, !.health = finished.match.health],
               jobs \cup {[Job("result", account) EXCEPT !.match = finished.match, !.place = finished.place]})
      /\ UNCHANGED <<hasNav, budget>>

\* The trial makes up an EP
FinishTrial ==
  LET finished == FinishBattle(page.match)
  IN  /\ route = "/match_trial" /\ page.phase = "battle"
      /\ finished.place # 0
      /\ hasNav' = TRUE
      /\ Click([page EXCEPT !.phase = "result", !.match = finished.match,
                            !.result = [place |-> finished.place, ep |-> INITIAL_EP + 50]], LeaveBattle)
      /\ UNCHANGED <<waiting, budget>>

\* The EP of the finished match; without one unwrap throws
ResultAnswered(j) ==
  /\ j.kind = "result"
  /\ Up(j)
  /\ j.account \in DOMAIN ep
  /\ Uncover
  /\ hasNav' = TRUE
  /\ late' = (late \/ ~Live(j))
  /\ page' = IF Live(j) THEN [page EXCEPT !.phase = "result", !.result = [place |-> j.place, ep |-> ep[j.account]]]
             ELSE page
  /\ jobs' = (IF Live(j) THEN LeaveBattle ELSE jobs) \ {j}
  /\ UNCHANGED <<route, wasm, linkVars, account, errorModal, ended, budget, frameRest, foreign, chosen, elsewhere,
                 failed>>

\* startAgain
PlayAgain ==
  LET opened == Opening(route, connection, wasm, account)
  IN  /\ page.phase = "result"
      /\ Spend("moves")
      /\ Click(NewPage(route), jobs \cup opened)
      /\ waiting' = \E j \in opened : j.kind = "setup"
      /\ UNCHANGED hasNav

\* setup of the trial: there is no account in it, and no check that it is still wanted
TrialAnswered(j) ==
  /\ j.kind = "trial"
  /\ Up(j)
  /\ hasNav' = FALSE
  /\ late' = (late \/ ~Live(j))
  /\ \E s \in Seeds :
       LET match == [previousEp |-> INITIAL_EP, turn |-> 1, seed |-> s, health |-> Health, rivals |-> Rivals]
       IN  Render(IF Live(j) THEN [page EXCEPT !.phase = "shop", !.match = match] ELSE page,
                  NoAccount, Readdress(NoAccount, jobs \ {j}))
  /\ UNCHANGED <<route, wasm, linkVars, waiting, errorModal, budget, frameRest, foreign, chosen, elsewhere, failed>>

--------------------------------------------------------------------------------
(* The end of a battle, animated: animateFinish *)

\* Mutant: the health before the battle is written once more
HealthToWriteUnhurt(match) == match.health

\* lostSideHealth - damage: negative where the contract stops at 0
HealthToWrite(match) == match.health - Damage

\* onFinish of the boards: of a lost battle, the health that will be written
BattlePlayed ==
  /\ page.phase = "battle"
  /\ ~page.played
  /\ ended = "no"
  /\ page' = [page EXCEPT !.played = TRUE]
  /\ jobs' = IF page.match.seed = "won" THEN jobs
             ELSE jobs \cup {[Job("animation", account) EXCEPT !.stage = "grades",
                                                              !.match.health = HealthToWrite(page.match)]}
  /\ UNCHANGED <<appVars, budget, frameRest, history>>

\* The boxes are looked up; without them the animation is over
BoxesFound(j) ==
  /\ j.stage = "grades"
  /\ jobs' = IF page.phase = "battle" THEN Replace(j, [j EXCEPT !.stage = "boxes"]) ELSE jobs \ {j}
  /\ UNCHANGED <<appVars, page, budget, frameRest, history>>

\* The health is looked up again and written, whichever battle shows it by now
HealthWritten(j) ==
  /\ j.stage = "boxes"
  /\ page' = IF page.phase = "battle" THEN [page EXCEPT !.health = j.match.health] ELSE page
  /\ late' = (late \/ (~Live(j) /\ page.phase = "battle"))
  /\ jobs' = jobs \ {j}
  /\ UNCHANGED <<appVars, budget, frameRest, foreign, chosen, elsewhere, failed>>

--------------------------------------------------------------------------------
(* Failures: withToggleAsync does not hide the modal of what failed *)

\* Something asked of a link that is down, a record that is gone, the EP of another account
Hopeless(j) ==
  /\ j.stage = "query"
  /\ j.kind # "generate"
  /\ \/ ~Up(j)
     \/ "mutable" \in j.wants /\ j.account \notin DOMAIN record
     \/ j.kind = "result" /\ j.account \notin DOMAIN ep

QueryFails(j) ==
  /\ jobs' = jobs \ {j}
  /\ failed' = TRUE
  /\ UNCHANGED <<appVars, page, frameRest, foreign, chosen, elsewhere, late>>

Lost(j) == Hopeless(j) /\ QueryFails(j) /\ UNCHANGED budget

Fault(j) == j.stage = "query" /\ Spend("faults") /\ QueryFails(j)

--------------------------------------------------------------------------------

Init ==
  /\ \E world \in Worlds :
       /\ route \in world.routes
       /\ budget = world.budget
       /\ ep = world.ep
       /\ record = world.record
  /\ AppInit
  /\ DecksInit(Accounts)
  /\ turns = [a \in DOMAIN record |-> 0]
  /\ seed \in [DOMAIN record -> Seeds]
  /\ placed = EmptyMapping
  /\ release = 1
  /\ page = NewPage(route)
  /\ jobs = {}
  /\ foreign = {}
  /\ chosen = [a \in Accounts |-> <<>>]
  /\ elsewhere = FALSE
  /\ late = FALSE
  /\ failed = FALSE

\* The player, in this tab and elsewhere, and the operator
Player ==
  \/ \E id \in RouteIds : Go(id) \/ Reload(id)
  \/ \E a \in Accounts : SwitchAccount(a) \/ EditElsewhere(a) \/ PlayElsewhere(a)
  \/ \E i \in DOMAIN page.decks : SelectDeck(i) \/ DiscardDeck(i)
  \/ \E j \in jobs, signed \in BOOLEAN : PopupClosed(j, signed)
  \/ SaveDeck \/ Start \/ FinishShop \/ FinishTrialShop
  \/ NextTurn \/ FinishMatch \/ FinishTrial \/ PlayAgain
  \/ ReleaseBases

\* What was asked is answered
Answer ==
  \/ WasmReady
  \/ \E k \in DOMAIN links : LinkAnswers(k) \/ BasesAnswer(k)
  \/ BattlePlayed
  \/ \E j \in jobs :
       \/ SetupAnswered(j) \/ EpAnswered(j) \/ RecordAnswered(j) \/ Generated(j)
       \/ StartIncluded(j) \/ \E what \in j.wants : StartAnswered(j, what)
       \/ ShopIncluded(j) \/ ShopAnswered(j) \/ ResultAnswered(j) \/ TrialAnswered(j)
       \/ BoxesFound(j) \/ HealthWritten(j)
       \/ Lost(j)

\* What was asked fails
Failure == \E j \in jobs : SetupBlocked(j) \/ Fault(j)

Next == Player \/ Answer \/ Failure

\* Extension, node and animations answer in the end; the player may do nothing for ever
Spec == Init /\ [][Next]_vars /\ WF_vars(Answer)

--------------------------------------------------------------------------------
(* A player who leaves a page with an answer pending meets it again later: late says  *)
(* that one took effect by then.  foreign and failed are the other excuses below.     *)

Pending(kinds) == \E j \in jobs : Live(j) /\ j.kind \in kinds

\* The navigation bar is hidden during a match only
NavShown == ~hasNav => page.phase \in {"shop", "battle"} \/ late

\* The modal covers the page while anything it must not outrun is awaited, so that no
\* transaction is submitted twice and none for an account that is being changed
WaitingCovers == Pending({"setup", "generate", "start", "shop", "result"}) => waiting \/ late

\* Once the popup is closed the modal goes, unless something failed: two jobs never leave
\* it to each other
WaitingEnds ==
  (waiting /\ ~\E j \in jobs : j.stage = "popup")
    ~> (~waiting \/ errorModal \/ failed \/ ended # "no")

\* The EP on the setup page, which the result is later compared with, is that of the
\* account shown, in whatever order the answers for the accounts tried came in
EpShown ==
  /\ Shown(page, account) /\ page.button /\ ~Pending({"ep"})
  /\ account \notin foreign /\ ~failed /\ ~late
  => page.ep = PlayerEp(account)

\* The warning is there if, and only if, starting costs the account the penalty
WarningTrue ==
  /\ Shown(page, account) /\ page.button /\ ~Pending({"record"})
  /\ account \notin foreign /\ ~failed /\ ~late
  => (page.message <=> account \in DOMAIN record)

\* The deck a match is started with is the default or the one the player selected,
\* through all edits of the list
DeckChosen ==
  Shown(page, account) /\ ~elsewhere => page.decks[page.index] \in {page.decks[1], chosen[account]}

\* Tabs that edit the decks of an address at the same time never leave a selection of a
\* deck that is not there
DecksCoherent == \A a \in Accounts : selectedDeckIndex[a] <= 1 + Len(customDecks[a])

\* The front fights every battle itself and never asks for the outcome: in the shop it is
\* where the contract is
ClientAgrees ==
  /\ route = "/match" /\ page.phase = "shop"
  /\ account \notin foreign /\ ~late
  /\ ~\E j \in jobs : Live(j) /\ j.kind = "shop" /\ j.stage = "query"
  /\ ~failed
  => Agrees(page.match, account)

\* The result shown is the one the contract settled the match with
ResultTrue ==
  /\ route = "/match" /\ page.phase = "result"
  /\ account \notin foreign /\ ~late
  => page.result = [place |-> placed[account], ep |-> ep[account]]

\* When the animations of a lost battle are over, the health on the page is the health
\* the next turn starts with
HealthShown ==
  /\ page.phase = "battle" /\ page.played /\ page.match.seed = "lost" /\ FinalPlace(page.match) = 0
  /\ ~Pending({"animation"}) /\ ~late
  => Fought(page.match).health = IF page.health > 0 THEN page.health ELSE 0

================================================================================
