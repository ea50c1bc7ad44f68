------------------------------ MODULE Frontend ------------------------------
(***************************************************************************)
(* App(): the clients' app, of which the paged lists are followed here, or *)
(* the staff app, over one SessionManager and one HTTP client.             *)
(***************************************************************************)
EXTENDS BackofficeApp

CONSTANT Hooks  \* what the list hooks of a client load: the page, and the balance

Apps == Hooks \cup {{"backoffice"}}

ASSUME HooksAssumption == \A hook \in Hooks : "page" \in hook /\ hook \subseteq {"page", "balance"}

\* The numbers of loads do not run out, as those of a counter: one is free whatever the
\* present load, that of the pages on screen and those of the open requests are.
ASSUME BoundsAssumption ==
  \A a \in Apps :
    /\ MaxTokens[a] \in Nat /\ MaxOpen[a] \in Nat
    /\ IsFiniteSet(LoadNumbers) => Cardinality(LoadNumbers) > MaxOpen[a] + 2

vars == <<sessionVars, screenVars, stack>>

Backoffice == app = {"backoffice"}

Init ==
  /\ app \in Apps
  /\ SessionInit /\ ScreensInit /\ BackofficeInit

-----------------------------------------------------------------------------
(* The clients' lists.                                                     *)

\* The effect of the hook when the gate opens or closes.
ClientRenders ==
  /\ ~Backoffice /\ shown # (status = "authenticated") /\ shown' = ~shown
  /\ IF shown' THEN StartLoad(list, app) ELSE StopLoad
  /\ Quiet /\ UNCHANGED <<stack, form>>

ClientReloads ==
  /\ ~Backoffice /\ shown /\ list.status \in {"success", "error"} /\ StartLoad(list, app)
  /\ Quiet /\ UNCHANGED <<shown, stack, form>>

\* Only the movements list has the button.
ClientLoadsMore ==
  /\ app = {"page"} /\ shown /\ loadMore
  /\ Quiet /\ UNCHANGED <<shown, stack, form>>

-----------------------------------------------------------------------------
(* Both apps.                                                              *)

Renders == ClientRenders \/ (Backoffice /\ BackofficeRenders)

\* Bound: what an old token leads to is the same in both apps.
TokenAges == ~Backoffice /\ Ages

\* LoginScreen and SessionGate.
SignsIn == ~shown /\ signIn
SignsOut == shown /\ (Backoffice => Route = "home") /\ signOut

\* The process is killed and started again: only the device remembers.
Restart ==
  /\ restarts < MaxRestarts[app] /\ restarts' = restarts + 1
  /\ session' = NoSession /\ status' = "initializing" /\ generation' = 0
  /\ restoring' = Restoring(0) /\ refreshing' = Idle /\ signing' = Idle /\ deletes' = 0
  /\ requests' = {} /\ load' = 0 /\ stack' = <<Home>>
  /\ shown' = FALSE /\ list' = NoList /\ form' = "idle"
  /\ overtaken' = {} /\ diskFailed' = FALSE
  /\ UNCHANGED <<stored, issued, app>>

Answered == ListAnswered \/ WriteAnswered

Next ==
  \/ (SessionNext \/ TokenAges \/ SignsIn \/ SignsOut) /\ UNCHANGED <<screenVars, stack>>
  \/ ClientReloads \/ ClientLoadsMore \/ Renders \/ (Backoffice /\ Screens)
  \/ Answered /\ UNCHANGED stack
  \/ Restart

Spec == Init /\ [][Next]_vars

\* The device answers, a status is rendered, and its timer ends a request, to the
\* backend or to the provider, whose head does not arrive.  No timer bounds a body.
Screenless == UNCHANGED <<screenVars, stack>>
TimesOut ==
  /\ Answered /\ UNCHANGED stack
  /\ \E r \in requests : r.phase = "sent" /\ r \notin requests'
ProviderTimesOut == refreshing.at = "provider" /\ RefreshFailed /\ Screenless

FairSpec ==
  /\ Spec
  /\ WF_vars(RestoreLoaded /\ Screenless) /\ WF_vars(RefreshStored /\ Screenless)
  /\ WF_vars(SignInStored /\ Screenless) /\ WF_vars(Deleted /\ Screenless)
  /\ WF_vars(Renders) /\ WF_vars(TimesOut) /\ WF_vars(ProviderTimesOut)

-----------------------------------------------------------------------------
(* Properties.                                                             *)

\* The variables have their types.
TypeOK ==
  /\ session.user \in Users \cup {Nobody} /\ session.token \in 0..MaxTokens[app]
  /\ status \in {"initializing", "authenticated", "anonymous", "unavailable"}
  /\ restoring.at \in {"none", "storage", "refresh", "clearing"}
  /\ refreshing.at \in {"none", "provider", "body", "storage"}
  /\ signing.at \in {"none", "provider", "body", "storage"}
  /\ stored \in Users \cup {Nobody} /\ deletes \in Nat /\ Cardinality(requests) <= MaxOpen[app]
  /\ \A r \in requests : r.phase \in {"refresh", "clearing", "sent", "body"}
  /\ list.status \in {"idle", "loading", "success", "error"} /\ list.cursor \in {0} \cup 2..LastPage
  /\ form \in {"idle", "sending", "done", "error"} /\ Len(stack) <= MaxDepth

\* A list on screen is whole: the pages of one load, from the first to the one before
\* its cursor, whatever answers of older loads arrived (generation.current).
NoGaps ==
  list.status = "success" /\ list.pages # {} =>
    /\ \A p, q \in list.pages : p.load = q.load
    /\ {p.page : p \in list.pages} = 1..(IF list.cursor = 0 THEN LastPage ELSE list.cursor - 1)

\* What is on screen, and the routes Back leads to, are of the user who is signed in,
\* unless the session changed while the device was storing a token of the one before.
OwnScreens ==
  shown /\ session # NoSession /\ "store" \notin overtaken =>
    /\ \A p \in list.pages : p.by = session.user
    /\ \A i \in 2..Len(stack) : stack[i].by = session.user

\* The device keeps the token of the session in memory, and none after a sign-out, so
\* a restart brings back the same user or nobody; unless the device failed, or the session
\* changed while it was storing a token, or deleting one.
DeviceAgrees ==
  overtaken = {} /\ ~diskFailed =>
    /\ session # NoSession => stored = session.user
    /\ status = "anonymous" => stored = Nobody

\* A 401 to what one user asked never closes the session of another (handleUnauthorized).
OnlyOwn401Closes ==
  [][session # NoSession /\ session' = NoSession /\ UNCHANGED restarts =>
     \A r \in requests \ requests' : r.phase = "body" => r.token.user = session.user]_vars

\* A screen that loads is never left waiting for a request nobody will resume.
NothingLost ==
  list.status = "loading" =>
    \A part \in list.missing : \E r \in requests :
      /\ r.part = part /\ r.of = load
      /\ r.phase = "refresh" => refreshing # Idle

\* The load waits for a body, which no timer bounds: of an answer of its own, or of the
\* refresh that is to give it a token.
AwaitsBody ==
  \E r \in requests :
    r.of = load /\ (r.phase = "body" \/ (r.phase = "refresh" /\ refreshing.at = "body"))

\* A load of a client's list that never ends waits for a body, and for nothing else, from
\* some time on.
LoadsEnd == <>[](~Backoffice /\ list.status = "loading") => <>[]AwaitsBody

\* An app that never leaves its first screen (restore) waits for the body of its refresh.
StartEnds ==
  <>[](status = "initializing") => <>[](restoring.at = "refresh" /\ refreshing.at = "body")
=============================================================================
