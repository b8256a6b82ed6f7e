-------------------------------- MODULE FrontApp --------------------------------
(***************************************************************************)
(* The frame every page of the front runs in (front/src/components/App):   *)
(* the route, the modals, the wasm module, and the connection to the       *)
(* contract with the account used over it.                                 *)
(*                                                                         *)
(* Contract, the component that connects, is mounted once for all routes   *)
(* that need the contract and unmounted on the others.  links holds the    *)
(* api of each of its mounts since the page was loaded: the promise of     *)
(* connect cannot be cancelled, so an api may come up after its mount is   *)
(* gone.                                                                   *)
(***************************************************************************)
EXTENDS Naturals, Sequences

CONSTANTS
  NoAccount,  \* null in AccountContext
  Extension   \* the accounts of the browser extension, in its order

VARIABLES
  route,       \* the route id
  wasm,        \* isWasmReady
  links,       \* mount -> state of its api, and the release of the bases it fetched
  connection,  \* ConnectionContext: 0 is null, else the mount whose api it uses
  account,     \* AccountContext
  hasNav,      \* the navigation bar is shown
  waiting,     \* the waiting modal is shown
  errorModal,  \* the error modal is shown; it cannot be closed
  ended        \* "no", or the modal that leaves only a reload: "blocked", "crashed"

linkVars == <<links, connection>>
modalVars == <<waiting, errorModal, ended>>
appVars == <<route, wasm, linkVars, account, hasNav, modalVars>>

RouteIds == {"/", "/match", "/match_trial", "/not_found"}

GetRouteConnectionKind(id) == IF id = "/not_found" THEN "none" ELSE "contract"

\* Where a reload leads, and where it leads from the modals that offer it
ReloadRoutes == {route} \cup IF ended = "no" THEN {} ELSE {"/"}

Connecting == [state |-> "connecting", release |-> 0]

\* The links after the first render on a route
FirstLinks(id) == IF GetRouteConnectionKind(id) = "none" THEN <<>> ELSE <<Connecting>>

AppInit ==
  /\ wasm = FALSE
  /\ links = FirstLinks(route)
  /\ connection = 0
  /\ account = NoAccount
  /\ hasNav = TRUE
  /\ waiting = FALSE
  /\ errorModal = FALSE
  /\ ended = "no"

\* A modal covers everything that can be clicked
Clickable == ~waiting /\ ~errorModal /\ ended = "no"

\* The account is one the extension still has, or its first
SetupAccount(a) == IF \E i \in DOMAIN Extension : Extension[i] = a THEN a ELSE Extension[1]

\* Mutant: the connection outlives the api it uses
LeaveContractKeepingConnection ==
  /\ links' = [links EXCEPT ![Len(links)].state = IF @ = "connecting" THEN @ ELSE "down"]
  /\ UNCHANGED connection
  /\ account' = NoAccount

\* Contract is unmounted: its api is disconnected, if it is there already
LeaveContract ==
  /\ links' = [links EXCEPT ![Len(links)].state = IF @ = "connecting" THEN @ ELSE "down"]
  /\ connection' = 0
  /\ account' = NoAccount

\* The part of a change of route that concerns the connection
Reroute(id) ==
  /\ route' = id
  /\ CASE GetRouteConnectionKind(id) = GetRouteConnectionKind(route) -> UNCHANGED <<linkVars, account>>
       [] GetRouteConnectionKind(id) = "none" -> LeaveContract
       [] OTHER -> links' = Append(links, Connecting) /\ UNCHANGED <<connection, account>>

\* connect answered: the bases are queried next
LinkAnswered(k) ==
  /\ links[k].state = "connecting"
  /\ links' = [links EXCEPT ![k].state = "building"]
  /\ UNCHANGED connection

\* buildConnection answered, with the bases of a release: setConnection, even if the
\* mount is gone
ConnectionBuilt(k, release) ==
  /\ links[k].state = "building"
  /\ links' = [links EXCEPT ![k] = [state |-> "up", release |-> release]]
  /\ connection' = k

\* All of it starts anew; null is what the contexts hold
Reloaded(id) ==
  /\ route' = id
  /\ links' = FirstLinks(id)
  /\ wasm' = FALSE
  /\ connection' = 0
  /\ account' = NoAccount
  /\ hasNav' = TRUE
  /\ waiting' = FALSE
  /\ errorModal' = FALSE
  /\ ended' = "no"

--------------------------------------------------------------------------------

\* No page is ever handed a connection whose api was disconnected, however the answers
\* to connect and to the query of the bases cross the changes of route
ConnectionLive == connection # 0 => links[connection].state = "up"

================================================================================
