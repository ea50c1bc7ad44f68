--------------------------- MODULE FrontendProofs ---------------------------
(***************************************************************************)
(* Frontend: what closes a session, what the device keeps of it, and what  *)
(* the lists on screen hold, for any users, roles, hooks and bounds.       *)
(***************************************************************************)
EXTENDS Frontend, FiniteSetTheorems, TLAPS

-----------------------------------------------------------------------------
(* A 401 closes the session it answers.                                    *)

\* A step of the screens other than an answer leaves the session alone.
LEMMA ScreensAreQuiet ==
  ASSUME ClientReloads \/ ClientLoadsMore \/ Renders \/ Screens
  PROVE  Quiet
<1>1. ASSUME ClientReloads \/ ClientLoadsMore \/ Renders
      PROVE  Quiet
  BY <1>1 DEF ClientReloads, ClientLoadsMore, Renders, ClientRenders, BackofficeRenders
<1>2. ASSUME Screens
      PROVE  Quiet
  BY <1>2 DEF Screens, Header, Retry, HomeScreen, UsersListScreen, UserDetailScreen,
    UserStatusScreen, UserRolesScreen, CasesListScreen, CaseDetailScreen, CaseStatusScreen,
    CaseAssignScreen, CaseEscalateScreen, CustomerSearchScreen, CustomerProfileScreen,
    CustomerOperationsScreen, OperationSearchScreen, OperationScreen, ReversalCreateScreen,
    ReversalDetailScreen, At, Loaded, Apply, Done
<1> QED
  BY <1>1, <1>2

\* An answer takes away its own request, and closes the session only if that request
\* carried the token of the session.
LEMMA AnswerCloses ==
  ASSUME Answered, session # NoSession, session' = NoSession
  PROVE  \A r \in requests \ requests' : r.token.user = session.user
<1>1. PICK r \in requests : \E e \in Ends(r) : execute(r, e)
  BY DEF Answered, ListAnswered, WriteAnswered
<1>2. requests' = requests \ {r}
  BY <1>1 DEF execute
<1>3. r.token = idToken
  BY <1>1 DEF execute, KeepSession, handleUnauthorized
<1> QED
  BY <1>2, <1>3 DEF idToken

RestartsInv == restarts \in Nat

LEMMA RestartsAreCounted == Spec => []RestartsInv
<1>1. Init => RestartsInv
  BY DEF Init, SessionInit, RestartsInv
<1>2. RestartsInv /\ [Next]_vars => RestartsInv'
  <2> SUFFICES ASSUME RestartsInv, [Next]_vars PROVE RestartsInv'
    OBVIOUS
  <2>1. CASE ClientReloads \/ ClientLoadsMore \/ Renders \/ Screens
    BY <2>1, ScreensAreQuiet DEF Quiet, counts, RestartsInv
  <2>2. CASE Answered
    BY <2>2 DEF Answered, ListAnswered, WriteAnswered, execute, counts, RestartsInv
  <2>3. CASE SessionNext \/ TokenAges \/ SignsIn \/ SignsOut
    BY <2>3 DEF SessionNext, TokenAges, Ages, SignsIn, signIn, SignsOut, signOut, RestoreLoaded,
      Restore, ProviderAnswers, RefreshGranted, RefreshStored, RefreshRefused, RefreshFailed, SignInAnswered,
      SignInStored, Deleted, HeadArrives, counts, RestartsInv
  <2>4. CASE Restart \/ UNCHANGED vars
    BY <2>4 DEF Restart, vars, sessionVars, counts, RestartsInv
  <2> QED
    BY <2>1, <2>2, <2>3, <2>4 DEF Next
<1> QED
  BY <1>1, <1>2, PTL DEF Spec

\* A 401 that answers what one user asked never closes the session of another
\* (SessionManager.handleUnauthorized, the token of apiClient's execute).
THEOREM NoForeign401 == Spec => OnlyOwn401Closes
<1>1. ASSUME RestartsInv, [Next]_vars, session # NoSession, session' = NoSession,
             UNCHANGED restarts, NEW r \in requests \ requests', r.phase = "body"
      PROVE  r.token.user = session.user
  <2>1. CASE ClientReloads \/ ClientLoadsMore \/ Renders \/ Screens
    BY <1>1, <2>1, ScreensAreQuiet DEF Quiet
  <2>2. CASE Answered
    BY <1>1, <2>2, AnswerCloses
  <2>3. CASE RestoreLoaded \/ Restore \/ ProviderAnswers \/ RefreshGranted \/ SignInAnswered
             \/ SignInStored \/ TokenAges \/ SignsIn \/ SignsOut
    BY <1>1, <2>3 DEF RestoreLoaded, Restore, ProviderAnswers, RefreshGranted, SignInAnswered, SignInStored,
      TokenAges, Ages, SignsIn, signIn, SignsOut, signOut
  <2>4. CASE RefreshStored \/ RefreshRefused \/ RefreshFailed
    <3>1. requests \ Waiting \subseteq requests'
      BY <2>4 DEF RefreshStored, RefreshRefused, RefreshFailed
    <3> QED
      BY <1>1, <3>1 DEF Waiting
  <2>5. CASE Deleted \/ HeadArrives
    BY <1>1, <2>5 DEF Deleted, HeadArrives
  <2>6. CASE Restart
    BY <1>1, <2>6 DEF Restart, RestartsInv
  <2>7. CASE UNCHANGED vars
    BY <1>1, <2>7 DEF vars, sessionVars
  <2> QED
    BY <1>1, <2>1, <2>2, <2>3, <2>4, <2>5, <2>6, <2>7 DEF Next, SessionNext
<1>2. RestartsInv /\ [Next]_vars =>
        (session # NoSession /\ session' = NoSession /\ UNCHANGED restarts =>
           \A r \in requests \ requests' : r.phase = "body" => r.token.user = session.user)
  BY <1>1
<1> QED
  BY <1>2, RestartsAreCounted, PTL DEF Spec, OnlyOwn401Closes

-----------------------------------------------------------------------------
(* The device keeps what the memory holds.                                 *)

Statuses == {"initializing", "authenticated", "anonymous", "unavailable"}
Tasks == [user : Users \cup {Nobody}, gen : Nat, token : Nat,
          at : {"none", "storage", "provider", "body", "refresh", "clearing"}]

\* A request has the fields a token is put in.
IsRequest(r) == {"phase", "gen", "token"} \subseteq DOMAIN r /\ r.gen \in Nat

SessionTyped ==
  /\ session \in [user : Users \cup {Nobody}, token : Nat, age : {"none", "fresh", "near", "expired"}]
  /\ status \in Statuses /\ generation \in Nat /\ deletes \in Nat /\ issued \in Nat
  /\ restoring \in Tasks /\ refreshing \in Tasks /\ signing \in Tasks
  /\ \A r \in requests : IsRequest(r)

\* Nobody waits for a token in the name of the present generation.
NothingCurrent ==
  /\ \A r \in Waiting : r.gen < generation
  /\ refreshing # Idle => refreshing.at # "storage" /\ refreshing.gen < generation

\* The course of a session.  Deletions may go on in any part of it but the first.
Starting ==
  /\ status \in {"initializing", "unavailable"}
  /\ session = NoSession /\ signing = Idle /\ Waiting = {}
  /\ deletes = 0 /\ \A r \in requests : r.phase # "clearing"
  /\ restoring.at \in {"storage", "refresh"} => restoring.gen = generation
  /\ restoring.at # "refresh" => refreshing = Idle

SignedOut ==
  /\ status = "anonymous" /\ session = NoSession /\ restoring.at = "none" /\ NothingCurrent

\* A deletion that is late may leave the status behind.
SignedIn ==
  /\ status \in {"authenticated", "anonymous"} /\ session # NoSession /\ restoring.at = "none"
  /\ signing # Idle => status = "anonymous" /\ NothingCurrent
  /\ \A r \in Waiting : r.gen <= generation
  /\ refreshing.gen <= generation

SigningOut ==
  /\ status = "authenticated" /\ session = NoSession /\ restoring.at = "none" /\ signing = Idle
  /\ NothingCurrent

Course == Starting \/ SignedOut \/ SignedIn \/ SigningOut

\* No deletion is late where no sign-in overtook one.
Settled ==
  overtaken = {} /\ (session # NoSession \/ signing # Idle) =>
    ~Deleting /\ (session # NoSession => status = "authenticated")

SessionInv ==
  /\ SessionTyped
  /\ "store" \notin overtaken => Course
  /\ Settled
  /\ DeviceAgrees

-----------------------------------------------------------------------------
(* What the screens do to the session: they ask for tokens.                *)

Asks ==
  /\ \/ refreshing' = refreshing
     \/ NeedsRefresh /\ refreshing' = refreshWith(session.user, generation)
  /\ \A r \in requests' :
       \/ r \in requests
       \/ /\ IsRequest(r) /\ r.phase # "clearing"
          /\ r.phase = "refresh" => NeedsRefresh /\ r.gen = generation

LEMMA TokenForRequest ==
  ASSUME generation \in Nat, NEW n, NEW part, NEW page,
         NEW r \in getAccessToken({Request(n, part, page)})
  PROVE  /\ IsRequest(r) /\ r.phase # "clearing"
         /\ r.phase = "refresh" => NeedsRefresh /\ r.gen = generation
<1>1. r = [Request(n, part, page) EXCEPT
             !.phase = IF NeedsRefresh THEN "refresh" ELSE "sent",
             !.gen = IF NeedsRefresh THEN generation ELSE 0, !.token = idToken]
  BY DEF getAccessToken
<1>2. r = [of |-> n, part |-> part, page |-> page,
           phase |-> IF NeedsRefresh THEN "refresh" ELSE "sent",
           gen |-> IF NeedsRefresh THEN generation ELSE 0, token |-> idToken]
  BY <1>1 DEF Request
<1> QED
  BY <1>2 DEF IsRequest

LEMMA StartLoadAsks ==
  ASSUME generation \in Nat, NEW before, NEW parts, StartLoad(before, parts)
  PROVE  Asks
<1>1. Ask({Request(load', part, 1) : part \in parts})
  BY DEF StartLoad
<1>2. ASSUME NEW r \in getAccessToken({Request(load', part, 1) : part \in parts})
      PROVE  /\ IsRequest(r) /\ r.phase # "clearing"
             /\ r.phase = "refresh" => NeedsRefresh /\ r.gen = generation
  <2>1. PICK part \in parts : r \in getAccessToken({Request(load', part, 1)})
    <3> DEFINE WithToken(q) ==
                 [q EXCEPT !.phase = IF NeedsRefresh THEN "refresh" ELSE "sent",
                           !.gen = IF NeedsRefresh THEN generation ELSE 0, !.token = idToken]
    <3>1. \A rs : getAccessToken(rs) = {WithToken(q) : q \in rs}
      BY DEF getAccessToken
    <3> HIDE DEF WithToken
    <3> QED
      BY <1>2, <3>1
  <2> QED
    BY <2>1, TokenForRequest
<1> QED
  BY <1>1, <1>2 DEF Ask, Asks, Kept

LEMMA OneRequestAsks ==
  ASSUME generation \in Nat, loadMore \/ Execute
  PROVE  Asks
<1>1. \E page, part : requests' = requests \cup getAccessToken({Request(load, part, page)})
  BY DEF loadMore, Execute
<1>2. \/ refreshing' = refreshing
      \/ NeedsRefresh /\ refreshing' = refreshWith(session.user, generation)
  BY DEF loadMore, Execute
<1> QED
  BY <1>1, <1>2, TokenForRequest DEF Asks

LEMMA StopLoadAsks ==
  ASSUME StopLoad
  PROVE  Asks
  BY DEF StopLoad, Kept, Asks

LEMMA MountAsks ==
  ASSUME generation \in Nat, NEW routes, Mount(routes)
  PROVE  Asks
  BY StartLoadAsks, StopLoadAsks DEF Mount

LEMMA NavigationAsks ==
  ASSUME generation \in Nat, back \/ home \/ \E name : push(name) \/ replace(name)
  PROVE  Asks
  BY MountAsks DEF back, home, push, replace

LEMMA ScreensAsk ==
  ASSUME generation \in Nat, ClientReloads \/ ClientLoadsMore \/ Renders \/ Screens
  PROVE  Asks
<1>1. ASSUME ClientReloads \/ ClientLoadsMore \/ Renders
      PROVE  Asks
  BY <1>1, StartLoadAsks, StopLoadAsks, OneRequestAsks, MountAsks
  DEF ClientReloads, ClientLoadsMore, Renders, ClientRenders, BackofficeRenders
<1>2. ASSUME Screens
      PROVE  \/ back \/ home \/ \E name : push(name) \/ replace(name)
             \/ Execute \/ \E before, parts : StartLoad(before, parts)
  BY <1>2 DEF Screens, Header, Retry, HomeScreen, UsersListScreen, UserDetailScreen,
    UserStatusScreen, UserRolesScreen, CasesListScreen, CaseDetailScreen, CaseStatusScreen,
    CaseAssignScreen, CaseEscalateScreen, CustomerSearchScreen, CustomerProfileScreen,
    CustomerOperationsScreen, OperationSearchScreen, OperationScreen, ReversalCreateScreen,
    ReversalDetailScreen, Apply
<1> QED
  BY <1>1, <1>2, StartLoadAsks, OneRequestAsks, NavigationAsks

-----------------------------------------------------------------------------
(* Each action keeps the course of the session.                            *)

LEMMA IdleTask == Idle \in Tasks /\ Idle.at = "none" /\ Idle.gen = 0
  BY DEF Idle, Tasks

LEMMA RestoringTask ==
  ASSUME NEW gen \in Nat
  PROVE  Restoring(gen) = [user |-> Nobody, gen |-> gen, token |-> 0, at |-> "storage"]
<1> DEFINE mid == [Idle EXCEPT !.gen = gen]
<1>1. mid = [user |-> Nobody, gen |-> gen, token |-> 0, at |-> "none"]
  BY DEF Idle
<1>2. Restoring(gen) = [mid EXCEPT !.at = "storage"]
  BY DEF Restoring
<1> HIDE DEF mid
<1> QED
  BY <1>1, <1>2

\* A task the provider has answered.
LEMMA GrantedTask ==
  ASSUME NEW task \in Tasks, NEW n \in Nat
  PROVE  /\ [task EXCEPT !.at = "storage", !.token = n] \in Tasks
         /\ [task EXCEPT !.at = "storage", !.token = n].gen = task.gen
         /\ [task EXCEPT !.at = "storage", !.token = n].at = "storage"
         /\ [task EXCEPT !.at = "storage", !.token = n].user = task.user
         /\ [task EXCEPT !.at = "storage", !.token = n].token = n
<1> DEFINE mid == [task EXCEPT !.at = "storage"]
<1>1. mid \in Tasks /\ mid.gen = task.gen /\ mid.at = "storage" /\ mid.user = task.user
  BY DEF Tasks
<1>2. [task EXCEPT !.at = "storage", !.token = n] = [mid EXCEPT !.token = n]
  OBVIOUS
<1> HIDE DEF mid
<1> QED
  BY <1>1, <1>2 DEF Tasks

LEMMA NoSessionTyped ==
  NoSession \in [user : Users \cup {Nobody}, token : Nat, age : {"none", "fresh", "near", "expired"}]
  BY DEF NoSession

\* A task whose answer has a head.
LEMMA HeadedTask ==
  ASSUME NEW task \in Tasks
  PROVE  /\ [task EXCEPT !.at = "body"] \in Tasks /\ [task EXCEPT !.at = "body"].at = "body"
         /\ [task EXCEPT !.at = "body"].gen = task.gen
         /\ [task EXCEPT !.at = "body"].user = task.user
         /\ [task EXCEPT !.at = "body"].token = task.token
  BY DEF Tasks

\* A deletion under way goes on, or ends.
LEMMA DeletesNoMore ==
  ASSUME deletes' = deletes, restoring'.at = "clearing" => restoring.at = "clearing",
         \A r \in requests' : r \in requests \/ r.phase # "clearing"
  PROVE  Deleting' => Deleting
  BY DEF Deleting

\* Where a sign-in overtakes nothing, nobody signs in beside a session.
LEMMA OneSignIn ==
  ASSUME SessionInv, overtaken = {}, session # NoSession
  PROVE  signing = Idle /\ status = "authenticated" /\ ~Deleting
  BY DEF SessionInv, Settled, Course, Starting, SignedOut, SignedIn, SigningOut

LEMMA SessionInitInv == Init => SessionInv
<1> SUFFICES ASSUME Init PROVE SessionInv
  OBVIOUS
<1>1. /\ session = NoSession /\ status = "initializing" /\ generation = 0
      /\ restoring = [user |-> Nobody, gen |-> 0, token |-> 0, at |-> "storage"]
      /\ refreshing = Idle /\ signing = Idle /\ deletes = 0 /\ requests = {} /\ issued = 0
  BY RestoringTask DEF Init, SessionInit
<1>2. SessionTyped
  BY <1>1, IdleTask, NoSessionTyped DEF SessionTyped, Statuses, Tasks, Idle
<1>3. Starting
  BY <1>1 DEF Starting, Waiting
<1>4. DeviceAgrees /\ Settled
  BY <1>1 DEF DeviceAgrees, Settled
<1> QED
  BY <1>2, <1>3, <1>4 DEF SessionInv, Course

LEMMA SharedRefresh ==
  ASSUME SessionTyped, NEW user \in Users \cup {Nobody}
  PROVE  /\ refreshWith(user, generation) \in Tasks
         /\ refreshWith(user, generation) # Idle
         /\ refreshing = Idle =>
              /\ refreshWith(user, generation).at = "provider"
              /\ refreshWith(user, generation).gen = generation
         /\ refreshing # Idle => refreshWith(user, generation) = refreshing
<1>1. refreshing \in Tasks /\ generation \in Nat
  BY DEF SessionTyped
<1>2. CASE refreshing = Idle
  <2>1. refreshWith(user, generation) =
          [user |-> user, gen |-> generation, token |-> 0, at |-> "provider"]
    BY <1>2 DEF refreshWith, Idle
  <2> QED
    BY <1>1, <1>2, <2>1 DEF Tasks, Idle
<1>3. CASE refreshing # Idle
  BY <1>1, <1>3 DEF refreshWith
<1> QED
  BY <1>2, <1>3

LEMMA AskingInv ==
  ASSUME SessionInv, Quiet, Asks, "store" \notin overtaken => signing = Idle
  PROVE  SessionInv'
<1>1. UNCHANGED <<session, status, generation, restoring, signing, deletes, stored, diskFailed,
                  issued, overtaken>>
  BY DEF Quiet, device, counts
<1>2. session.user \in Users \cup {Nobody} /\ generation \in Nat
  BY DEF SessionInv, SessionTyped
<1>3. /\ refreshing' \in Tasks
      /\ \A r \in requests' : IsRequest(r)
  BY <1>2, SharedRefresh DEF Asks, SessionInv, SessionTyped
<1>4. SessionTyped'
  BY <1>1, <1>3 DEF SessionInv, SessionTyped
<1>5. Settled' /\ DeviceAgrees'
  <2>1. Deleting' => Deleting
    BY <1>1, DeletesNoMore DEF Asks
  <2> QED
    BY <1>1, <2>1 DEF SessionInv, Settled, DeviceAgrees
<1>6. CASE session # NoSession
  <2>1. "store" \notin overtaken => SignedIn
    BY <1>6 DEF SessionInv, Course, Starting, SignedOut, SigningOut
  <2>2. refreshing'.gen <= generation \/ "store" \in overtaken
    BY <1>2, <2>1, SharedRefresh DEF Asks, SignedIn, SessionInv
  <2>3. "store" \notin overtaken => \A r \in Waiting' : r.gen <= generation
    BY <1>2, <2>1 DEF Asks, SignedIn, Waiting
  <2> QED
    BY <1>1, <1>4, <1>5, <2>1, <2>2, <2>3 DEF SessionInv, Course, SignedIn
<1>7. CASE session = NoSession
  <2>1. /\ refreshing' = refreshing /\ Waiting' \subseteq Waiting
        /\ \A r \in requests' : r \in requests \/ r.phase # "clearing"
    BY <1>7 DEF Asks, NeedsRefresh, Waiting
  <2> QED
    BY <1>1, <1>4, <1>5, <1>7, <2>1
    DEF SessionInv, Course, Starting, SignedOut, SignedIn, SigningOut, NothingCurrent
<1> QED
  BY <1>6, <1>7

\* Time, and requests that come or go without a token of theirs being renewed.
LEMMA StillInv ==
  ASSUME SessionInv,
         UNCHANGED <<status, generation, tasks, deletes, device, issued, overtaken>>,
         session' \in [user : Users \cup {Nobody}, token : Nat,
                       age : {"none", "fresh", "near", "expired"}],
         session' = NoSession <=> session = NoSession, session'.user = session.user,
         \A r \in requests' : \/ r \in requests
                              \/ IsRequest(r) /\ r.phase # "refresh" /\ r.phase # "clearing"
  PROVE  SessionInv'
<1>1. UNCHANGED <<restoring, refreshing, signing, stored, diskFailed>>
  BY DEF tasks, device
<1>2. Waiting' \subseteq Waiting
  BY DEF Waiting
<1>3. SessionTyped'
  BY <1>1 DEF SessionInv, SessionTyped
<1>4. Deleting' => Deleting
  BY <1>1, DeletesNoMore
<1>5. Settled' /\ DeviceAgrees'
  BY <1>1, <1>4 DEF SessionInv, Settled, DeviceAgrees
<1>6. "store" \notin overtaken => Course'
  BY <1>1, <1>2
  DEF SessionInv, Course, Starting, SignedOut, SignedIn, SigningOut, NothingCurrent
<1> QED
  BY <1>1, <1>3, <1>5, <1>6 DEF SessionInv

\* clearSession, from the screens or from an answer.
LEMMA ClosingInv ==
  ASSUME SessionInv, clearSession, deletes' = deletes + 1,
         "store" \notin overtaken /\ session = NoSession =>
           status \in {"authenticated", "anonymous"} /\ signing = Idle,
         UNCHANGED <<status, tasks, device, issued>>, requests' \subseteq requests
  PROVE  SessionInv'
<1>1. /\ UNCHANGED <<restoring, refreshing, signing, stored, diskFailed>>
      /\ session' = NoSession /\ generation' = generation + 1
      /\ overtaken' = overtaken \cup Storing
  BY DEF tasks, device, clearSession
<1>2. SessionTyped'
  BY <1>1, NoSessionTyped DEF SessionInv, SessionTyped
<1>3. generation \in Nat /\ refreshing.gen \in Nat /\ \A r \in Waiting : r.gen \in Nat
  BY DEF SessionInv, SessionTyped, Tasks, IsRequest, Waiting
<1>4. ASSUME "store" \notin overtaken' PROVE SignedOut' \/ SigningOut'
  <2>1. refreshing.at # "storage" /\ "store" \notin overtaken /\ Waiting' \subseteq Waiting
    BY <1>1, <1>4 DEF Storing, Waiting
  <2>2. SignedOut \/ SignedIn \/ SigningOut
    BY <2>1 DEF SessionInv, Course, Starting
  <2>3. NothingCurrent'
    BY <1>1, <1>3, <2>1, <2>2 DEF NothingCurrent, SignedOut, SignedIn, SigningOut
  <2>4. status = "authenticated" => signing = Idle
    BY <2>2 DEF SignedOut, SignedIn, SigningOut
  <2>5. status \in {"authenticated", "anonymous"} /\ restoring.at = "none"
    BY <2>2 DEF SignedOut, SignedIn, SigningOut
  <2> QED
    BY <1>1, <2>3, <2>4, <2>5 DEF SigningOut, SignedOut
<1>5. overtaken' = {} => overtaken = {} /\ signing = Idle
  BY <1>1, OneSignIn
<1>6. Settled'
  BY <1>1, <1>5 DEF Settled
<1>7. DeviceAgrees'
  BY <1>1, <1>5 DEF DeviceAgrees, SessionInv
<1> QED
  BY <1>2, <1>4, <1>6, <1>7 DEF SessionInv, Course

LEMMA AnsweredInv ==
  ASSUME SessionInv, Answered
  PROVE  SessionInv'
<1>1. PICK r \in requests : \E e \in Ends(r) : execute(r, e)
  BY DEF Answered, ListAnswered, WriteAnswered
<1>2. /\ requests' \subseteq requests
      /\ UNCHANGED <<status, tasks, device, issued>>
      /\ \/ KeepSession /\ UNCHANGED deletes
         \/ session # NoSession /\ clearSession /\ deletes' = deletes + 1
  BY <1>1 DEF execute, handleUnauthorized, counts
<1>3. CASE KeepSession /\ UNCHANGED deletes
  BY <1>2, <1>3, StillInv DEF KeepSession, SessionInv, SessionTyped
<1> QED
  BY <1>2, <1>3, ClosingInv

LEMMA AgesInv ==
  ASSUME SessionInv, Ages
  PROVE  SessionInv'
<1>1. /\ session.age \in {"fresh", "near"}
      /\ session' = [session EXCEPT !.age = IF @ = "fresh" THEN "near" ELSE "expired"]
      /\ UNCHANGED <<status, generation, tasks, deletes, device, requests, issued, overtaken>>
  BY DEF Ages, counts
<1>2. /\ session' \in [user : Users \cup {Nobody}, token : Nat,
                       age : {"none", "fresh", "near", "expired"}]
      /\ session' # NoSession /\ session # NoSession /\ session'.user = session.user
  BY <1>1 DEF SessionInv, SessionTyped, NoSession
<1> QED
  BY <1>1, <1>2, StillInv

LEMMA HeadInv ==
  ASSUME SessionInv, HeadArrives
  PROVE  SessionInv'
<1>1. PICK r \in requests : requests' = (requests \ {r}) \cup {[r EXCEPT !.phase = "body"]}
  BY DEF HeadArrives
<1>2. IsRequest([r EXCEPT !.phase = "body"]) /\ [r EXCEPT !.phase = "body"].phase = "body"
  BY DEF SessionInv, SessionTyped, IsRequest
<1>3. UNCHANGED <<session, status, generation, tasks, deletes, device, issued, overtaken>>
  BY DEF HeadArrives, counts
<1> QED
  BY <1>1, <1>2, <1>3, StillInv DEF SessionInv, SessionTyped

-----------------------------------------------------------------------------
(* The tasks of SessionManager.                                            *)

LEMMA ResumedRequests ==
  ASSUME SessionTyped, NEW rs \in SUBSET requests, NEW token, NEW x \in Resume(rs, token)
  PROVE  IsRequest(x) /\ x.phase = "sent"
<1>1. PICK r \in rs : x = [r EXCEPT !.phase = "sent", !.gen = 0, !.token = token[r]]
  BY DEF Resume
<1>2. IsRequest(r)
  BY DEF SessionTyped
<1> QED
  BY <1>1, <1>2 DEF IsRequest

LEMMA RestoreInv ==
  ASSUME SessionInv, RestoreLoaded \/ Restore
  PROVE  SessionInv'
<1>1. /\ UNCHANGED <<generation, signing, deletes, stored, diskFailed, requests, issued, overtaken>>
      /\ Waiting' = Waiting
  BY DEF RestoreLoaded, Restore, device, counts, Waiting
<1>2. restoring \in Tasks /\ generation \in Nat
  BY DEF SessionInv, SessionTyped
<1>3. CASE Restore
  <2>1. /\ status = "unavailable" /\ restoring = Idle /\ UNCHANGED <<session, status, refreshing>>
        /\ restoring' = [user |-> Nobody, gen |-> generation, token |-> 0, at |-> "storage"]
    BY <1>3 DEF Restore, Restoring, Idle
  <2>2. SessionTyped'
    BY <1>1, <1>2, <2>1 DEF SessionInv, SessionTyped, Tasks
  <2>3. "store" \notin overtaken => Starting'
    BY <1>1, <2>1, IdleTask
    DEF SessionInv, Course, Starting, SignedOut, SignedIn, SigningOut
  <2>4. Settled'
    BY <1>1, <2>1, DeletesNoMore DEF SessionInv, Settled
  <2> QED
    BY <1>1, <2>1, <2>2, <2>3, <2>4 DEF SessionInv, Course, DeviceAgrees
<1>4. CASE RestoreLoaded
  <2>1. "store" \notin overtaken => Starting
    BY <1>4 DEF RestoreLoaded, SessionInv, Course, SignedOut, SignedIn, SigningOut
  <2>2. CASE /\ restoring.at = "storage" /\ stored \in Users
             /\ restoring' = [restoring EXCEPT !.at = "refresh"]
             /\ refreshing' = refreshWith(stored, generation)
             /\ UNCHANGED <<session, status>>
    <3>1. /\ refreshing' \in Tasks
          /\ restoring' \in Tasks /\ restoring'.at = "refresh" /\ restoring'.gen = restoring.gen
      BY <1>2, <2>2, SharedRefresh DEF Tasks, SessionInv
    <3>2. SessionTyped'
      BY <1>1, <2>2, <3>1 DEF SessionInv, SessionTyped
    <3>3. "store" \notin overtaken => Starting'
      BY <1>1, <2>1, <2>2, <3>1 DEF Starting
    <3>4. Settled'
      BY <1>1, <2>2, <3>1, DeletesNoMore DEF SessionInv, Settled
    <3> QED
      BY <1>1, <2>2, <3>2, <3>3, <3>4 DEF SessionInv, Course, DeviceAgrees
  <2>3. CASE /\ restoring.at = "storage"
             /\ status' \in {"unavailable"} \cup (IF stored = Nobody THEN {"anonymous"} ELSE {})
             /\ restoring' = Idle /\ session' = NoSession /\ UNCHANGED refreshing
    <3>1. SessionTyped'
      BY <1>1, <2>3, IdleTask, NoSessionTyped DEF SessionInv, SessionTyped, Statuses
    <3>2. "store" \notin overtaken => Starting' \/ SignedOut'
      BY <1>1, <2>1, <2>3, IdleTask DEF Starting, SignedOut, NothingCurrent
    <3>3. Settled'
      BY <1>1, <2>3, IdleTask, DeletesNoMore DEF SessionInv, Settled
    <3> QED
      BY <1>1, <2>3, <3>1, <3>2, <3>3 DEF SessionInv, Course, DeviceAgrees
  <2> QED
    BY <1>4, <2>2, <2>3 DEF RestoreLoaded
<1> QED
  BY <1>3, <1>4

\* The head of an answer of the provider.
LEMMA ProviderInv ==
  ASSUME SessionInv, ProviderAnswers
  PROVE  SessionInv'
<1>1. UNCHANGED <<session, status, generation, restoring, deletes, stored, diskFailed, requests,
                  issued, overtaken>>
  BY DEF ProviderAnswers, device, counts
<1>2. /\ refreshing \in Tasks /\ signing \in Tasks
      /\ refreshing' = refreshing \/ (refreshing # Idle /\ refreshing' = [refreshing EXCEPT !.at = "body"])
      /\ signing' = signing \/ (signing # Idle /\ signing' = [signing EXCEPT !.at = "body"])
  BY IdleTask DEF ProviderAnswers, SessionInv, SessionTyped
<1>3. /\ refreshing' \in Tasks /\ refreshing'.gen = refreshing.gen
      /\ refreshing'.at = "storage" => refreshing.at = "storage"
      /\ refreshing = Idle => refreshing' = Idle
  BY <1>2, HeadedTask
<1>4. signing' \in Tasks /\ (signing = Idle => signing' = Idle)
  BY <1>2, HeadedTask
<1>5. SessionTyped'
  BY <1>1, <1>3, <1>4 DEF SessionInv, SessionTyped
<1>6. NothingCurrent => NothingCurrent'
  BY <1>1, <1>3 DEF NothingCurrent, Waiting
<1>7. "store" \notin overtaken => Course'
  BY <1>1, <1>3, <1>4, <1>6
  DEF SessionInv, Course, Starting, SignedOut, SignedIn, SigningOut, Waiting
<1>8. Settled' /\ DeviceAgrees'
  BY <1>1, <1>4, DeletesNoMore DEF SessionInv, Settled, DeviceAgrees
<1> QED
  BY <1>1, <1>5, <1>7, <1>8 DEF SessionInv

LEMMA GrantedInv ==
  ASSUME SessionInv, RefreshGranted
  PROVE  SessionInv'
<1>1. /\ refreshing.at = "body" /\ refreshing.gen = generation
      /\ issued' = issued + 1
      /\ refreshing' = [refreshing EXCEPT !.at = "storage", !.token = issued']
      /\ UNCHANGED <<session, status, generation, restoring, signing, deletes, stored, diskFailed,
                     requests, overtaken>>
  BY DEF RefreshGranted, device
<1>2. refreshing \in Tasks /\ issued \in Nat /\ generation \in Nat
  BY DEF SessionInv, SessionTyped
<1>3. refreshing' \in Tasks /\ refreshing'.gen = generation
  <2>1. issued' \in Nat
    BY <1>1, <1>2
  <2> QED
    BY <1>1, <1>2, <2>1, GrantedTask
<1>4. SessionTyped'
  BY <1>1, <1>2, <1>3 DEF SessionInv, SessionTyped
<1>5. "store" \notin overtaken => Starting \/ (SignedIn /\ signing = Idle)
  BY <1>1, <1>2, IdleTask DEF SessionInv, Course, SignedOut, SignedIn, SigningOut, NothingCurrent
<1>6. "store" \notin overtaken => Starting' \/ SignedIn'
  BY <1>1, <1>2, <1>3, <1>5, IdleTask DEF Starting, SignedIn, Waiting
<1>7. Settled' /\ DeviceAgrees'
  BY <1>1, DeletesNoMore DEF SessionInv, Settled, DeviceAgrees
<1> QED
  BY <1>1, <1>4, <1>6, <1>7 DEF SessionInv, Course

\* A refresh that is over leaves no task, but a restoring that reads the device.
LEMMA EndedRefresh ==
  ASSUME SessionTyped, RefreshEnds
  PROVE  /\ refreshing' = Idle /\ restoring' \in Tasks /\ refreshing' \in Tasks
         /\ restoring.at = "refresh" => restoring'.at = "none"
         /\ restoring.at # "refresh" => restoring' = restoring
  BY IdleTask DEF RefreshEnds, SessionTyped

LEMMA StoredInv ==
  ASSUME SessionInv, RefreshStored
  PROVE  SessionInv'
<1>1. /\ refreshing.at = "storage" /\ RefreshEnds /\ Store(refreshing.user)
      /\ session' = [user |-> refreshing.user, token |-> refreshing.token, age |-> "fresh"]
      /\ status' = "authenticated"
      /\ UNCHANGED <<generation, signing, deletes, issued, overtaken>>
  BY DEF RefreshStored, counts
<1>2. refreshing \in Tasks /\ generation \in Nat /\ SessionTyped
  BY DEF SessionInv, SessionTyped
<1>3. /\ session' \in [user : Users \cup {Nobody}, token : Nat,
                       age : {"none", "fresh", "near", "expired"}]
      /\ session' # NoSession /\ session'.user = refreshing.user
  BY <1>1, <1>2 DEF Tasks, NoSession
<1>4. \A r \in requests' : /\ IsRequest(r) /\ r.phase # "refresh"
                           /\ r \in requests \/ r.phase = "sent"
  BY <1>2, ResumedRequests DEF RefreshStored, Waiting, SessionTyped
<1>5. SessionTyped'
  BY <1>1, <1>2, <1>3, <1>4, EndedRefresh DEF SessionTyped, Statuses
<1>6. "store" \notin overtaken => Starting \/ (SignedIn /\ signing = Idle)
  BY <1>1, IdleTask DEF SessionInv, Course, SignedOut, SignedIn, SigningOut, NothingCurrent
<1>7. "store" \notin overtaken => SignedIn'
  <2>1. Waiting' = {}
    BY <1>4 DEF Waiting
  <2>2. refreshing' = Idle /\ ("store" \notin overtaken => restoring'.at = "none")
    BY <1>1, <1>2, <1>6, EndedRefresh, IdleTask DEF Starting, SignedIn
  <2>3. "store" \notin overtaken => signing = Idle
    BY <1>6 DEF Starting
  <2> QED
    BY <1>1, <1>2, <1>3, <2>1, <2>2, <2>3, IdleTask DEF SignedIn
<1>8. DeviceAgrees'
  BY <1>1, <1>3 DEF DeviceAgrees, Store
<1>9. Settled'
  <2>1. overtaken = {} => ~Deleting
    <3>1. CASE overtaken = {} /\ Starting
      BY <1>1, <3>1, IdleTask DEF Starting, Deleting
    <3>2. CASE overtaken = {} /\ SignedIn
      BY <3>2, OneSignIn DEF SignedIn
    <3> QED
      BY <1>6, <3>1, <3>2
  <2>2. Deleting' => Deleting
    BY <1>1, <1>2, <1>4, EndedRefresh, DeletesNoMore
  <2> QED
    BY <1>1, <2>1, <2>2 DEF Settled
<1> QED
  BY <1>1, <1>5, <1>7, <1>8, <1>9 DEF SessionInv, Course

LEMMA FailedInv ==
  ASSUME SessionInv, RefreshFailed
  PROVE  SessionInv'
<1>1. /\ refreshing.at \in {"provider", "body"} /\ RefreshEnds
      /\ IF RestoreWaits THEN session' = NoSession /\ status' = "unavailable"
         ELSE UNCHANGED <<session, status>>
      /\ UNCHANGED <<generation, signing, deletes, stored, diskFailed, issued, overtaken>>
  BY DEF RefreshFailed, AtProvider, counts, device
<1>2. refreshing \in Tasks /\ generation \in Nat /\ SessionTyped
  BY DEF SessionInv, SessionTyped
<1>3. \A r \in requests' : /\ IsRequest(r) /\ r.phase # "refresh"
                           /\ r \in requests \/ r.phase = "sent"
  BY <1>2, ResumedRequests DEF RefreshFailed, Waiting, SessionTyped
<1>4. SessionTyped'
  BY <1>1, <1>2, <1>3, EndedRefresh, NoSessionTyped DEF SessionTyped, Statuses
<1>5. Waiting' = {} /\ refreshing' = Idle
  BY <1>2, <1>1, <1>3, EndedRefresh DEF Waiting
<1>6. ASSUME "store" \notin overtaken
      PROVE  Course'
  <2>1. CASE Starting
    <3>1. restoring.at = "refresh" /\ RestoreWaits
      BY <1>1, <2>1, IdleTask DEF Starting, RestoreWaits
    <3>2. restoring'.at = "none"
      BY <1>1, <1>2, <3>1, EndedRefresh
    <3>3. \A r \in requests' : r.phase # "clearing"
      BY <1>3, <2>1 DEF Starting
    <3> QED
      BY <1>1, <1>5, <2>1, <3>1, <3>2, <3>3 DEF Starting, Course
  <2>2. CASE SignedOut \/ SignedIn \/ SigningOut
    <3>1. ~RestoreWaits /\ restoring' = restoring
      BY <1>1, <1>2, <2>2, EndedRefresh DEF SignedOut, SignedIn, SigningOut, RestoreWaits
    <3> QED
      BY <1>1, <1>2, <1>5, <2>2, <3>1, IdleTask
      DEF SignedOut, SignedIn, SigningOut, NothingCurrent, Course
  <2> QED
    BY <1>6, <2>1, <2>2 DEF SessionInv, Course
<1>7. DeviceAgrees'
  BY <1>1 DEF SessionInv, DeviceAgrees
<1>8. Settled'
  <2>1. Deleting' => Deleting
    BY <1>1, <1>2, <1>3, EndedRefresh, DeletesNoMore
  <2>2. overtaken = {} /\ RestoreWaits => Starting
    BY DEF SessionInv, Course, SignedOut, SignedIn, SigningOut, RestoreWaits
  <2>3. CASE RestoreWaits
    BY <1>1, <2>2, <2>3 DEF Settled, Starting
  <2>4. CASE ~RestoreWaits
    BY <1>1, <2>1, <2>4 DEF SessionInv, Settled
  <2> QED
    BY <2>3, <2>4
<1> QED
  BY <1>1, <1>4, <1>6, <1>7, <1>8 DEF SessionInv

LEMMA RefusedInv ==
  ASSUME SessionInv, RefreshRefused
  PROVE  SessionInv'
<1> DEFINE current == {r \in Waiting : r.gen = generation}
<1>1. /\ refreshing.at = "body" /\ refreshing' = Idle
      /\ restoring' = IF RestoreWaits THEN [restoring EXCEPT !.at = "clearing"]
                      ELSE IF restoring.at = "refresh" THEN Idle ELSE restoring
      /\ UNCHANGED <<status, signing, deletes, stored, diskFailed, issued>>
      /\ \/ current = {} /\ ~RestoreWaits /\ KeepSession
         \/ RestoreWaits /\ clearSession
         \/ current # {} /\ clearSession
  BY DEF RefreshRefused, device, counts
<1>2. refreshing \in Tasks /\ restoring \in Tasks /\ generation \in Nat /\ SessionTyped
  BY DEF SessionInv, SessionTyped
<1>3. \A r \in requests' : IsRequest(r) /\ r.phase # "refresh"
  <2>1. \A r \in Waiting : /\ IsRequest([r EXCEPT !.phase = "clearing"])
                           /\ [r EXCEPT !.phase = "clearing"].phase = "clearing"
    BY <1>2 DEF SessionTyped, IsRequest, Waiting
  <2>2. \A rs \in SUBSET requests : \A x \in WithoutToken(rs) :
         IsRequest(x) /\ x.phase = "sent"
    BY <1>2, ResumedRequests DEF WithoutToken
  <2>3. \A r \in requests \ Waiting : IsRequest(r) /\ r.phase # "refresh"
    BY <1>2 DEF SessionTyped, Waiting
  <2>4. \E rs \in SUBSET requests : requests' \subseteq
          (requests \ Waiting) \cup WithoutToken(rs)
            \cup {[r EXCEPT !.phase = "clearing"] : r \in Waiting}
    <3>1. \A rs : Waiting \ rs \in SUBSET requests
      BY DEF Waiting
    <3> QED
      BY <3>1 DEF RefreshRefused
  <2>5. PICK rs \in SUBSET requests : requests' \subseteq
          (requests \ Waiting) \cup WithoutToken(rs)
            \cup {[r EXCEPT !.phase = "clearing"] : r \in Waiting}
    BY <2>4
  <2>6. \A x \in {[r EXCEPT !.phase = "clearing"] : r \in Waiting} :
          IsRequest(x) /\ x.phase # "refresh"
    BY <2>1
  <2>7. \A x \in WithoutToken(rs) : IsRequest(x) /\ x.phase # "refresh"
    BY <2>2
  <2> QED
    BY <2>3, <2>5, <2>6, <2>7
<1>4. Waiting' = {}
  BY <1>3 DEF Waiting
<1>5. /\ restoring' \in Tasks
      /\ RestoreWaits => restoring'.at = "clearing"
      /\ ~RestoreWaits => restoring' = restoring \/ restoring'.at = "none"
  BY <1>1, <1>2, IdleTask DEF Tasks
<1>6. SessionTyped'
  BY <1>1, <1>2, <1>3, <1>5, IdleTask, NoSessionTyped DEF SessionTyped, KeepSession, clearSession
<1>7. ASSUME "store" \notin overtaken', Starting
      PROVE  Starting'
  <2>1. RestoreWaits
    BY <1>1, <1>7, IdleTask DEF Starting, RestoreWaits
  <2>2. clearSession
    BY <1>1, <1>7, <2>1 DEF Starting, RestoreWaits
  <2>3. \A r \in requests' : r.phase # "clearing"
    <3>1. Waiting = {}
      BY <1>7 DEF Starting
    <3>2. WithoutToken({}) = {}
      BY DEF WithoutToken, Resume
    <3>3. \A rs : Waiting \ rs = {}
      BY <3>1
    <3>4. requests' = requests \cup WithoutToken({})
      BY <3>1, <3>3 DEF RefreshRefused
    <3> QED
      BY <1>7, <3>2, <3>4 DEF Starting
  <2> QED
    BY <1>1, <1>4, <1>5, <1>7, <2>1, <2>2, <2>3 DEF Starting, clearSession
<1>8. ASSUME "store" \notin overtaken', SignedIn
      PROVE  SignedIn' \/ SignedOut' \/ SigningOut'
  <2>1. ~RestoreWaits /\ restoring' = restoring
    BY <1>1, <1>8 DEF SignedIn, RestoreWaits
  <2>2. CASE KeepSession
    BY <1>1, <1>2, <1>4, <1>8, <2>1, <2>2, IdleTask DEF SignedIn, NothingCurrent, KeepSession
  <2>3. CASE clearSession
    BY <1>1, <1>4, <1>8, <2>1, <2>3
    DEF SignedIn, SignedOut, SigningOut, NothingCurrent, clearSession
  <2> QED
    BY <1>1, <2>2, <2>3
<1>9. ASSUME SignedOut \/ SigningOut
      PROVE  KeepSession /\ ~RestoreWaits /\ restoring' = restoring
  <2>1. ~RestoreWaits /\ current = {}
    BY <1>2, <1>9
    DEF SignedOut, SigningOut, NothingCurrent, RestoreWaits, SessionTyped, IsRequest, Waiting
  <2> QED
    BY <1>1, <1>9, <2>1 DEF SignedOut, SigningOut
<1>10. ASSUME "store" \notin overtaken', SignedOut \/ SigningOut
       PROVE  SignedOut' \/ SigningOut'
  BY <1>1, <1>4, <1>9, <1>10 DEF SignedOut, SigningOut, NothingCurrent, KeepSession
<1>11. overtaken \subseteq overtaken'
  BY <1>1 DEF KeepSession, clearSession
<1>12. DeviceAgrees'
  BY <1>1, <1>11 DEF SessionInv, DeviceAgrees, KeepSession, clearSession
<1>13. Settled'
  <2>1. CASE KeepSession /\ ~RestoreWaits /\ current = {}
    <3>1. \A r \in requests' : r \in requests \/ r.phase # "clearing"
      <4>1. current = {} /\ ~RestoreWaits
        BY <2>1
      <4>2. requests' = (requests \ Waiting) \cup WithoutToken(Waiting \ {})
        BY <4>1 DEF RefreshRefused
      <4>3. \A x \in WithoutToken(Waiting \ {}) : x.phase = "sent"
        BY <1>2, ResumedRequests DEF WithoutToken, Waiting
      <4> QED
        BY <4>2, <4>3
    <3>2. Deleting' => Deleting
      BY <1>1, <1>5, <2>1, <3>1, DeletesNoMore
    <3> QED
      BY <1>1, <2>1, <3>2 DEF SessionInv, Settled, KeepSession
  <2>2. CASE clearSession
    <3>1. overtaken' = {} => overtaken = {} /\ session' = NoSession
      BY <1>11, <2>2 DEF clearSession
    <3>2. ASSUME overtaken = {} PROVE signing = Idle
      <4>1. CASE Starting
        BY <4>1 DEF Starting
      <4>2. CASE SignedIn
        BY <3>2, <4>2, OneSignIn DEF SignedIn
      <4>3. CASE SigningOut
        BY <4>3 DEF SigningOut
      <4>4. CASE SignedOut
        <5>1. KeepSession
          BY <1>9, <4>4
        <5>2. generation' = generation
          BY <5>1 DEF KeepSession
        <5> QED
          BY <1>2, <2>2, <5>2 DEF clearSession
      <4> QED
        BY <3>2, <4>1, <4>2, <4>3, <4>4 DEF SessionInv, Course
    <3> QED
      BY <1>1, <3>1, <3>2 DEF Settled
  <2> QED
    BY <1>1, <2>1, <2>2
<1> QED
  BY <1>6, <1>7, <1>8, <1>10, <1>11, <1>12, <1>13 DEF SessionInv, Course

LEMMA SignInInv ==
  ASSUME SessionInv, signIn
  PROVE  SessionInv'
<1>1. /\ status = "anonymous" /\ signing = Idle /\ generation' = generation + 1
      /\ overtaken' = overtaken \cup Storing \cup (IF Deleting THEN {"delete"} ELSE {})
      /\ \E u \in Users :
           signing' = [Idle EXCEPT !.user = u, !.gen = generation', !.at = "provider"]
      /\ UNCHANGED <<session, status, restoring, refreshing, deletes, stored, diskFailed, requests,
                     issued>>
  BY DEF signIn, device, counts
<1>2. generation \in Nat /\ refreshing \in Tasks /\ \A r \in Waiting : r.gen \in Nat
  BY DEF SessionInv, SessionTyped, IsRequest, Waiting
<1>3. signing' \in Tasks
  <2>1. PICK u \in Users :
          signing' = [Idle EXCEPT !.user = u, !.gen = generation', !.at = "provider"]
    BY <1>1
  <2>2. signing' = [user |-> u, gen |-> generation', token |-> 0, at |-> "provider"]
    BY <2>1 DEF Idle
  <2> QED
    BY <1>1, <1>2, <2>2 DEF Tasks
<1>4. SessionTyped'
  BY <1>1, <1>2, <1>3 DEF SessionInv, SessionTyped
<1>5. "store" \notin overtaken' => SignedOut' \/ SignedIn'
  <2> SUFFICES ASSUME "store" \notin overtaken' PROVE SignedOut' \/ SignedIn'
    OBVIOUS
  <2>1. refreshing.at # "storage" /\ (SignedOut \/ SignedIn)
    BY <1>1 DEF Storing, SessionInv, Course, Starting, SigningOut
  <2>2. refreshing # Idle => refreshing.gen <= generation
    BY <1>2, <2>1 DEF SignedOut, SignedIn, NothingCurrent, Tasks
  <2>3. \A r \in Waiting : r.gen <= generation
    BY <1>2, <2>1 DEF SignedOut, SignedIn, NothingCurrent
  <2>4. refreshing.gen \in Nat /\ Idle.gen = 0
    BY <1>2, IdleTask DEF Tasks
  <2>5. NothingCurrent'
    BY <1>1, <1>2, <2>1, <2>2, <2>3, <2>4 DEF NothingCurrent, Waiting
  <2>6. /\ \A r \in Waiting' : r.gen <= generation'
        /\ refreshing'.gen <= generation'
    BY <1>1, <1>2, <2>2, <2>3, <2>4 DEF Waiting
  <2> QED
    BY <1>1, <2>1, <2>5, <2>6 DEF SignedOut, SignedIn
<1>6. Settled'
  <2>1. overtaken' = {} => overtaken = {} /\ ~Deleting
    BY <1>1
  <2>2. Deleting' => Deleting
    BY <1>1, DeletesNoMore
  <2>3. overtaken' = {} => session = NoSession
    BY <1>1, <2>1, OneSignIn
  <2> QED
    BY <1>1, <2>1, <2>2, <2>3 DEF Settled
<1>7. DeviceAgrees'
  <2>1. overtaken' = {} => overtaken = {}
    BY <1>1
  <2> QED
    BY <1>1, <2>1 DEF SessionInv, DeviceAgrees
<1> QED
  BY <1>4, <1>5, <1>6, <1>7 DEF SessionInv, Course

\* Only an app that shows the gate signs in.
LEMMA SigningTaskInv ==
  ASSUME SessionInv, SignInAnswered \/ SignInStored
  PROVE  SessionInv'
<1>0. signing # Idle
  BY IdleTask DEF SignInAnswered, SignInStored, AtProvider
<1>1. "store" \notin overtaken => (SignedOut \/ SignedIn) /\ NothingCurrent
  BY <1>0 DEF SessionInv, Course, Starting, SignedOut, SignedIn, SigningOut
<1>2. signing \in Tasks /\ issued \in Nat /\ generation \in Nat /\ SessionTyped
  BY DEF SessionInv, SessionTyped
<1>3. CASE SignInAnswered
  <2>1. /\ UNCHANGED <<session, status, generation, restoring, refreshing, deletes, stored,
                       diskFailed, requests, overtaken>>
        /\ issued' \in Nat
        /\ signing' = Idle \/ signing' = [signing EXCEPT !.at = "storage", !.token = issued']
    BY <1>2, <1>3 DEF SignInAnswered, device
  <2>2. signing' \in Tasks
    <3>1. [signing EXCEPT !.at = "storage", !.token = issued'] \in Tasks
      BY <1>2, <2>1, GrantedTask
    <3> QED
      BY <2>1, <3>1, IdleTask
  <2>3. SessionTyped'
    BY <1>2, <2>1, <2>2 DEF SessionTyped
  <2>4. NothingCurrent => NothingCurrent'
    BY <2>1 DEF NothingCurrent, Waiting
  <2>5. SignedOut => SignedOut'
    BY <2>1, <2>4 DEF SignedOut
  <2>6. "store" \notin overtaken /\ SignedIn => SignedIn'
    BY <1>0, <2>1, <2>4 DEF SignedIn, Waiting
  <2>7. Settled' /\ DeviceAgrees'
    BY <1>0, <2>1, DeletesNoMore DEF SessionInv, Settled, DeviceAgrees
  <2> QED
    BY <1>1, <2>1, <2>3, <2>5, <2>6, <2>7 DEF SessionInv, Course
<1>4. CASE SignInStored
  <2>1. /\ signing' = Idle /\ Store(signing.user) /\ status' = "authenticated"
        /\ session' = [user |-> signing.user, token |-> signing.token, age |-> "fresh"]
        /\ UNCHANGED <<generation, restoring, refreshing, deletes, requests, issued, overtaken>>
    BY <1>4 DEF SignInStored, counts
  <2>2. /\ session' \in [user : Users \cup {Nobody}, token : Nat,
                         age : {"none", "fresh", "near", "expired"}]
        /\ session' # NoSession /\ session'.user = signing.user
    BY <1>2, <2>1 DEF Tasks, NoSession
  <2>3. SessionTyped'
    BY <1>2, <2>1, <2>2, IdleTask DEF SessionTyped, Statuses
  <2>4. "store" \notin overtaken => SignedIn'
    <3>1. /\ refreshing.gen \in Nat
          /\ refreshing = Idle => refreshing.gen = 0
          /\ \A r \in Waiting : r.gen \in Nat
      BY <1>2, IdleTask DEF SessionTyped, Tasks, IsRequest, Waiting
    <3>2. "store" \notin overtaken => restoring.at = "none"
      BY <1>1 DEF SignedOut, SignedIn
    <3> QED
      BY <1>1, <1>2, <2>1, <2>2, <3>1, <3>2 DEF SignedIn, NothingCurrent, Waiting
  <2>5. DeviceAgrees'
    BY <2>1, <2>2 DEF DeviceAgrees, Store
  <2>6. Settled'
    BY <1>0, <2>1, DeletesNoMore DEF SessionInv, Settled
  <2> QED
    BY <2>1, <2>3, <2>4, <2>5, <2>6 DEF SessionInv, Course
<1> QED
  BY <1>3, <1>4

LEMMA DeletedInv ==
  ASSUME SessionInv, Deleted
  PROVE  SessionInv'
<1>1. /\ DeletionEnds /\ Store(Nobody) /\ status' = "anonymous"
      /\ UNCHANGED <<session, generation, refreshing, signing, issued, overtaken>>
  BY DEF Deleted, counts
<1>2. SessionTyped /\ restoring \in Tasks /\ deletes \in Nat
  BY DEF SessionInv, SessionTyped
<1>3. \A r \in requests' : r \in requests \/ (IsRequest(r) /\ r.phase = "sent")
  <2>1. ASSUME NEW q \in requests, requests' = (requests \ {q}) \cup WithoutToken({q})
        PROVE  \A r \in requests' : r \in requests \/ (IsRequest(r) /\ r.phase = "sent")
    <3>1. \A x \in WithoutToken({q}) : IsRequest(x) /\ x.phase = "sent"
      BY <1>2, ResumedRequests DEF WithoutToken
    <3> QED
      BY <2>1, <3>1
  <2> QED
    BY <1>1, <2>1 DEF DeletionEnds
<1>4. Waiting' \subseteq Waiting
  BY <1>3 DEF Waiting
<1>5. /\ restoring' \in Tasks /\ deletes' \in Nat
      /\ restoring' = restoring \/ (restoring.at = "clearing" /\ restoring'.at = "none")
      /\ Deleting
  <2>1. CASE deletes > 0 /\ deletes' = deletes - 1 /\ UNCHANGED <<restoring, requests>>
    BY <1>2, <2>1 DEF Deleting
  <2>2. CASE restoring.at = "clearing" /\ restoring' = Idle /\ UNCHANGED <<deletes, requests>>
    BY <1>2, <2>2, IdleTask DEF Deleting
  <2>3. CASE (\E r \in requests : r.phase = "clearing") /\ UNCHANGED <<deletes, restoring>>
    BY <1>2, <2>3 DEF Deleting
  <2> QED
    BY <1>1, <2>1, <2>2, <2>3 DEF DeletionEnds
<1>6. SessionTyped'
  BY <1>1, <1>2, <1>3, <1>5 DEF SessionTyped, Statuses
<1>7. NothingCurrent => NothingCurrent'
  BY <1>1, <1>4 DEF NothingCurrent
<1>8. ASSUME "store" \notin overtaken PROVE SignedOut' \/ SignedIn'
  <2>1. CASE Starting
    <3>1. restoring.at = "clearing" /\ restoring' = Idle
      <4>1. ~(deletes > 0) /\ ~\E r \in requests : r.phase = "clearing"
        BY <2>1 DEF Starting
      <4> QED
        BY <1>1, <4>1 DEF DeletionEnds
    <3>2. restoring'.at = "none" /\ refreshing = Idle
      BY <2>1, <3>1, IdleTask DEF Starting
    <3> QED
      BY <1>1, <1>4, <2>1, <3>2 DEF Starting, SignedOut, NothingCurrent
  <2>2. CASE SigningOut \/ SignedOut
    BY <1>1, <1>5, <1>7, <2>2 DEF SigningOut, SignedOut
  <2>3. CASE SignedIn
    BY <1>1, <1>4, <1>5, <1>7, <2>3 DEF SignedIn
  <2> QED
    BY <1>8, <2>1, <2>2, <2>3 DEF SessionInv, Course
<1>9. overtaken = {} => session = NoSession /\ signing = Idle
  BY <1>5 DEF SessionInv, Settled
<1>10. DeviceAgrees' /\ Settled'
  BY <1>1, <1>9 DEF DeviceAgrees, Settled, Store
<1> QED
  BY <1>1, <1>6, <1>8, <1>10 DEF SessionInv, Course

LEMMA RestartInv ==
  ASSUME SessionInv, Restart
  PROVE  SessionInv'
<1>1. /\ session' = NoSession /\ status' = "initializing" /\ generation' = 0
      /\ restoring' = [user |-> Nobody, gen |-> 0, token |-> 0, at |-> "storage"]
      /\ refreshing' = Idle /\ signing' = Idle /\ deletes' = 0 /\ requests' = {}
      /\ UNCHANGED issued
  BY RestoringTask DEF Restart
<1>2. SessionTyped'
  BY <1>1, IdleTask, NoSessionTyped DEF SessionInv, SessionTyped, Statuses, Tasks
<1>3. Starting'
  BY <1>1 DEF Starting, Waiting
<1>4. DeviceAgrees' /\ Settled'
  BY <1>1 DEF DeviceAgrees, Settled
<1> QED
  BY <1>2, <1>3, <1>4 DEF SessionInv, Course

-----------------------------------------------------------------------------
(* The screens: what they wait for, and whose it is.                       *)

Loads  == LoadNumbers \cup {0}
Tokens == [user : Users \cup {Nobody}, n : Nat]
Reqs   == [of : Loads, part : {"page", "balance", "more", "write"}, page : Nat,
           phase : {"refresh", "clearing", "sent", "body"}, gen : Nat, token : Tokens]
Pages  == [load : Loads, page : Nat, by : Users \cup {Nobody}]
Lists  == [status : {"idle", "loading", "success", "error"}, pages : SUBSET Pages,
           cursor : {0} \cup 2..LastPage, more : BOOLEAN,
           missing : SUBSET {"page", "balance"}, got : SUBSET Pages]
Names  == Loading \cup {"home", "customer", "support search", "finance search", "reversalCreate"}
Routes == [name : Names, by : Users \cup {Nobody}]

\* The screens, and the requests each within its type, and within the bounds.
ScreensTyped ==
  /\ app \in Apps /\ load \in Loads /\ shown \in BOOLEAN
  /\ list \in Lists /\ form \in {"idle", "sending", "done", "error"}
  /\ stack \in Seq(Routes) /\ Len(stack) \in 1..MaxDepth
  /\ ~Backoffice => stack = <<Home>>
  /\ requests \subseteq Reqs /\ IsFiniteSet(requests) /\ Cardinality(requests) <= MaxOpen[app]

\* The tokens in use are tokens that were issued.
TokensIssued ==
  /\ issued <= MaxTokens[app]
  /\ session.token <= issued /\ refreshing.token <= issued /\ signing.token <= issued
  /\ stored \in Users \cup {Nobody}

\* Who waits for a refresh has one.
NobodyForgotten == \A r \in requests : r.phase = "refresh" => refreshing # Idle

Current(r) == r.of = load /\ r.part # "write"

\* The pages there are, the answers there are, and the requests of the present load.
Progress ==
  /\ \A p, q \in list.pages : p.load = q.load
  /\ list.status \in {"idle", "error"} => list.pages = {}
  /\ list.status = "success" =>
       /\ \A p \in list.pages : p.load = load
       /\ {p.page : p \in list.pages} = 1..(IF list.cursor = 0 THEN LastPage ELSE list.cursor - 1)
  /\ list.status = "loading" =>
       /\ \A p \in list.got : p.load = load /\ p.page = 1
       /\ "page" \in list.missing \/ list.got # {}
       /\ \A part \in list.missing : \E r \in requests : r.part = part /\ r.of = load

Asked ==
  /\ \A r \in requests : Current(r) =>
       IF r.part = "more"
       THEN list.status = "success" /\ list.more /\ r.page = list.cursor /\ list.cursor # 0
       ELSE r.page = 1
  /\ \A r, s \in requests : Current(r) /\ Current(s) /\ r.part = "more" /\ s.part = "more" => r = s

Hidden == ~shown => list = NoList /\ \A r \in requests : r.of # load

\* Whose it is that is on screen, or is to be.
OurTokens == {NoToken} \cup {t \in Tokens : t.user = session.user}

Ours ==
  session # NoSession /\ shown =>
    /\ \A p \in list.pages \cup list.got : p.by = session.user
    /\ \A r \in requests : Current(r) => r.token \in OurTokens
    /\ \A i \in 2..Len(stack) : stack[i].by = session.user

\* The gate is closed while the session may become another's.
Gate ==
  /\ status \in {"initializing", "unavailable"} => ~shown
  /\ signing # Idle => ~shown
  /\ ~shown => stack = <<Home>>
  /\ refreshing.at = "storage" => refreshing.gen = generation
  /\ session # NoSession /\ refreshing # Idle /\ refreshing.gen = generation =>
       refreshing.user = session.user

ScreensInv ==
  /\ ScreensTyped /\ TokensIssued /\ NobodyForgotten /\ Progress /\ Asked /\ Hidden
  /\ "store" \notin overtaken => Gate /\ Ours
-----------------------------------------------------------------------------
(* The requests that wait go on.                                           *)

LEMMA ImageIsNoLarger ==
  ASSUME NEW S, IsFiniteSet(S), NEW U, NEW f \in [S -> U], NEW T, T \subseteq {f[x] : x \in S}
  PROVE  IsFiniteSet(T) /\ Cardinality(T) <= Cardinality(S)
<1> DEFINE R == {f[x] : x \in S}
<1>1. f \in Surjection(S, R)
  BY DEF Surjection
<1>2. IsFiniteSet(R) /\ Cardinality(R) <= Cardinality(S)
  BY <1>1, FS_Surjection
<1>3. IsFiniteSet(T) /\ Cardinality(T) <= Cardinality(R)
  BY <1>2, FS_Subset
<1>4. /\ Cardinality(T) \in Nat /\ Cardinality(R) \in Nat /\ Cardinality(S) \in Nat
  BY <1>2, <1>3, FS_CardinalityType
<1> QED
  BY <1>2, <1>3, <1>4

\* Request r, with a new phase and token.
Now(r, phase, gen, token) ==
  [of |-> r.of, part |-> r.part, page |-> r.page, phase |-> phase, gen |-> gen, token |-> token]

LEMMA SentRequest ==
  ASSUME NEW r \in Reqs, NEW t
  PROVE  [r EXCEPT !.phase = "sent", !.gen = 0, !.token = t] = Now(r, "sent", 0, t)
<1> DEFINE a == [r EXCEPT !.phase = "sent"]
           b == [a EXCEPT !.gen = 0]
<1>1. a = Now(r, "sent", r.gen, r.token)
  BY DEF Reqs, Now
<1>2. b = Now(r, "sent", 0, r.token)
  <2>1. \A z : z = Now(r, "sent", r.gen, r.token) =>
                 [z EXCEPT !.gen = 0] = Now(r, "sent", 0, r.token)
    BY DEF Now
  <2> HIDE DEF a
  <2> QED
    BY <1>1, <2>1
<1>3. [r EXCEPT !.phase = "sent", !.gen = 0, !.token = t] = [b EXCEPT !.token = t]
  OBVIOUS
<1> HIDE DEF a, b
<1> QED
  BY <1>2, <1>3 DEF Now

LEMMA PhasedRequest ==
  ASSUME NEW r \in Reqs, NEW p
  PROVE  [r EXCEPT !.phase = p] = Now(r, p, r.gen, r.token)
  BY DEF Reqs, Now

LEMMA NowIsRequest ==
  ASSUME NEW r \in Reqs, NEW p \in {"refresh", "clearing", "sent", "body"}, NEW t \in Tokens,
         NEW g \in Nat
  PROVE  /\ Now(r, p, g, t) \in Reqs
         /\ Now(r, p, g, t).of = r.of /\ Now(r, p, g, t).part = r.part
         /\ Now(r, p, g, t).page = r.page
         /\ Now(r, p, g, t).phase = p /\ Now(r, p, g, t).token = t
  BY DEF Now, Reqs

\* Every request is followed by at most one, for the same answer, and by one if it is
\* wanted.
Follows(f) ==
  /\ f \in [requests -> Reqs]
  /\ \A r \in requests : f[r].of = r.of /\ f[r].part = r.part /\ f[r].page = r.page
  /\ requests' \subseteq {f[r] : r \in requests}
  /\ \A r \in requests : Wanted(r) => f[r] \in requests'

LEMMA ResumedAre ==
  ASSUME requests \subseteq Reqs, NEW rs \in SUBSET requests, NEW token
  PROVE  \A x : x \in Resume(rs, token) <=>
                  \E r \in rs : Wanted(r) /\ x = Now(r, "sent", 0, token[r])
<1> DEFINE Sent(r) == [r EXCEPT !.phase = "sent", !.gen = 0, !.token = token[r]]
<1>1. \A r \in rs : Sent(r) = Now(r, "sent", 0, token[r])
  BY SentRequest
<1>2. Resume(rs, token) = {Sent(r) : r \in {z \in rs : Wanted(z)}}
  BY DEF Resume
<1> HIDE DEF Sent
<1> QED
  BY <1>1, <1>2

\* The screens see nothing of it, but that requests go on.
LEMMA FollowsKeeps ==
  ASSUME ScreensTyped, Progress, Asked, Hidden, NEW f, Follows(f),
         UNCHANGED <<app, load, screenVars, stack>>
  PROVE  ScreensTyped' /\ Progress' /\ Asked' /\ Hidden'
<1>1. /\ UNCHANGED <<app, load, shown, list, form, stack>>
      /\ f \in [requests -> Reqs]
      /\ \A r \in requests : f[r].of = r.of /\ f[r].part = r.part /\ f[r].page = r.page
      /\ \A x \in requests' : \E r \in requests : x = f[r]
      /\ \A r \in requests : Wanted(r) => f[r] \in requests'
  BY DEF Follows, screenVars
<1>2. ScreensTyped'
  <2>1. IsFiniteSet(requests') /\ Cardinality(requests') <= Cardinality(requests)
    BY ImageIsNoLarger DEF ScreensTyped, Follows
  <2>2. Cardinality(requests) \in Nat /\ Cardinality(requests') \in Nat /\ MaxOpen[app] \in Nat
    BY <2>1, FS_CardinalityType, BoundsAssumption DEF ScreensTyped
  <2> QED
    BY <1>1, <2>1, <2>2 DEF ScreensTyped, Backoffice
<1>3. Progress'
  <2>1. ASSUME list.status = "loading", NEW part \in list.missing
        PROVE  \E x \in requests' : x.part = part /\ x.of = load
    <3>1. PICK r \in requests : r.part = part /\ r.of = load
      BY <2>1 DEF Progress
    <3> QED
      BY <1>1, <3>1 DEF Wanted
  <2> QED
    BY <1>1, <2>1 DEF Progress
<1>4. Asked'
  <2>1. \A r \in requests : Current(f[r])' <=> Current(r)
    BY <1>1 DEF Current
  <2> QED
    BY <1>1, <2>1 DEF Asked
<1>5. Hidden'
  BY <1>1 DEF Hidden
<1> QED
  BY <1>2, <1>3, <1>4, <1>5
-----------------------------------------------------------------------------
(* The steps of the session.                                               *)

LEMMA StepKeeps ==
  ASSUME ScreensInv, NEW f, Follows(f), UNCHANGED <<app, load, screenVars, stack>>,
         TokensIssued', NobodyForgotten', "store" \in overtaken => "store" \in overtaken', "store" \notin overtaken' => Gate',
         "store" \notin overtaken' /\ shown /\ session' # NoSession =>
           /\ session # NoSession /\ session'.user = session.user
           /\ \A r \in requests : f[r].token \in {r.token} \cup OurTokens
  PROVE  ScreensInv'
<1>1. ScreensTyped' /\ Progress' /\ Asked' /\ Hidden'
  BY FollowsKeeps DEF ScreensInv
<1>2. /\ UNCHANGED <<load, shown, list, stack>>
      /\ \A r \in requests : f[r].of = r.of /\ f[r].part = r.part
      /\ \A x \in requests' : \E r \in requests : x = f[r]
  BY DEF Follows, screenVars
<1>3. ASSUME "store" \notin overtaken' PROVE Ours'
  <2> SUFFICES ASSUME session' # NoSession, shown PROVE Ours'
    BY <1>2 DEF Ours
  <2>1. Ours /\ session # NoSession /\ session'.user = session.user
    BY <1>3 DEF ScreensInv
  <2>2. OurTokens' = OurTokens
    BY <2>1 DEF OurTokens
  <2>3. ASSUME NEW x \in requests', Current(x)' PROVE x.token \in OurTokens
    <3>1. PICK r \in requests : x = f[r]
      BY <1>2
    <3>2. Current(r)
      BY <1>2, <2>3, <3>1 DEF Current
    <3> QED
      BY <1>3, <2>1, <3>1, <3>2 DEF Ours
  <2> QED
    BY <1>2, <2>1, <2>2, <2>3 DEF Ours
<1> QED
  BY <1>1, <1>3 DEF ScreensInv

\* Requests that stay as they are.
LEMMA SameFollow ==
  ASSUME requests \subseteq Reqs, UNCHANGED requests
  PROVE  \E f \in [requests -> Reqs] : Follows(f) /\ \A r \in requests : f[r] = r
<1> DEFINE f == [r \in requests |-> r]
<1>1. Follows(f) /\ f \in [requests -> Reqs] /\ \A r \in requests : f[r] = r
  BY DEF Follows
<1> QED
  BY <1>1

LEMMA StillKeeps ==
  ASSUME ScreensInv, UNCHANGED <<requests, app, load, screenVars, stack>>,
         TokensIssued', NobodyForgotten', "store" \in overtaken => "store" \in overtaken', "store" \notin overtaken' => Gate',
         "store" \notin overtaken' /\ shown /\ session' # NoSession =>
           session # NoSession /\ session'.user = session.user
  PROVE  ScreensInv'
<1>1. PICK f \in [requests -> Reqs] : Follows(f) /\ \A r \in requests : f[r] = r
  BY SameFollow DEF ScreensInv, ScreensTyped
<1> QED
  BY <1>1, StepKeeps

LEMMA RestoreScreens ==
  ASSUME SessionInv, ScreensInv, RestoreLoaded \/ Restore, UNCHANGED <<screenVars, stack>>
  PROVE  ScreensInv'
<1>1. /\ UNCHANGED <<requests, app, load, issued, stored, signing, generation, deletes, overtaken>>
      /\ session' = NoSession \/ session' = session
      /\ status' \in {status, "unavailable", "anonymous"}
      /\ refreshing' = refreshing \/ (stored \in Users /\ refreshing' = refreshWith(stored, generation))
  BY DEF RestoreLoaded, Restore, device, counts
<1>2. "store" \notin overtaken => Starting
  BY DEF RestoreLoaded, Restore, SessionInv, Course, Starting, SignedOut, SignedIn, SigningOut
<1>3. /\ refreshing' \in Tasks
      /\ refreshing # Idle => refreshing' # Idle
      /\ refreshing' = refreshing \/ refreshing'.at = "provider"
      /\ refreshing'.token \in {0, refreshing.token}
  BY <1>1, SharedRefresh DEF SessionInv, SessionTyped, refreshWith, Idle
<1>4. TokensIssued'
  BY <1>1, <1>3 DEF ScreensInv, TokensIssued, SessionInv, SessionTyped, NoSession
<1>5. NobodyForgotten'
  BY <1>1, <1>3 DEF ScreensInv, NobodyForgotten
<1>6. "store" \notin overtaken => session' = NoSession /\ ~shown
  BY <1>1, <1>2 DEF ScreensInv, Gate, Starting
<1>7. "store" \notin overtaken => Gate'
  BY <1>1, <1>3, <1>6 DEF ScreensInv, Gate, screenVars
<1> QED
  BY <1>1, <1>4, <1>5, <1>6, <1>7, StillKeeps

LEMMA ProviderScreens ==
  ASSUME SessionInv, ScreensInv, ProviderAnswers, UNCHANGED <<screenVars, stack>>
  PROVE  ScreensInv'
<1>1. UNCHANGED <<requests, app, load, issued, stored, session, status, generation, deletes, overtaken>>
  BY DEF ProviderAnswers, device, counts
<1>2. /\ refreshing \in Tasks /\ signing \in Tasks
      /\ refreshing' = refreshing \/ (refreshing # Idle /\ refreshing' = [refreshing EXCEPT !.at = "body"])
      /\ signing' = signing \/ (signing # Idle /\ signing' = [signing EXCEPT !.at = "body"])
  BY IdleTask DEF ProviderAnswers, SessionInv, SessionTyped
<1>3. /\ refreshing'.gen = refreshing.gen /\ refreshing'.user = refreshing.user
      /\ refreshing'.token = refreshing.token
      /\ refreshing'.at = "storage" => refreshing.at = "storage"
      /\ refreshing = Idle => refreshing' = Idle
  BY <1>2, HeadedTask
<1>4. signing'.token = signing.token /\ (signing = Idle => signing' = Idle)
  BY <1>2, HeadedTask
<1>5. TokensIssued'
  BY <1>1, <1>3, <1>4 DEF ScreensInv, TokensIssued
<1>6. refreshing # Idle => refreshing' # Idle
  BY <1>2, IdleTask, HeadedTask
<1>7. NobodyForgotten'
  BY <1>1, <1>6 DEF ScreensInv, NobodyForgotten
<1>8. "store" \notin overtaken => Gate'
  BY <1>1, <1>3, <1>4 DEF ScreensInv, Gate, screenVars
<1> QED
  BY <1>1, <1>5, <1>7, <1>8, StillKeeps

LEMMA GrantedScreens ==
  ASSUME SessionInv, ScreensInv, RefreshGranted \/ SignInAnswered, UNCHANGED <<screenVars, stack>>
  PROVE  ScreensInv'
<1>1. /\ UNCHANGED <<requests, app, load, stored, session, status, generation, deletes, overtaken>>
      /\ issued' = issued \/ (issued < MaxTokens[app] /\ issued' = issued + 1)
      /\ \/ /\ refreshing.gen = generation /\ signing' = signing /\ issued' = issued + 1
            /\ refreshing' = [refreshing EXCEPT !.at = "storage", !.token = issued']
         \/ /\ refreshing' = refreshing /\ signing' = Idle
         \/ /\ refreshing' = refreshing /\ signing.at = "body" /\ issued' = issued + 1
            /\ signing' = [signing EXCEPT !.at = "storage", !.token = issued']
  BY DEF RefreshGranted, SignInAnswered, device
<1>2. /\ issued \in Nat /\ issued' \in Nat /\ signing \in Tasks /\ refreshing \in Tasks
      /\ session.token \in Nat /\ MaxTokens[app] \in Nat
  BY <1>1, BoundsAssumption DEF SessionInv, SessionTyped, ScreensInv, ScreensTyped
<1>3. /\ refreshing' # refreshing =>
           /\ refreshing'.gen = generation /\ refreshing'.at = "storage"
           /\ refreshing'.user = refreshing.user /\ refreshing.gen = generation
           /\ refreshing # Idle
      /\ refreshing'.token = refreshing.token \/ refreshing'.token = issued'
      /\ signing'.token \in {signing.token, 0, issued'}
  <2>1. RefreshGranted => refreshing # Idle
    BY IdleTask DEF RefreshGranted
  <2>2. Idle.token = 0
    BY DEF Idle
  <2>3. refreshing' # refreshing => refreshing # Idle
    BY <1>1, <2>1 DEF SignInAnswered
  <2>4. \A task \in Tasks :
          LET new == [task EXCEPT !.at = "storage", !.token = issued']
          IN  new.gen = task.gen /\ new.at = "storage" /\ new.user = task.user /\ new.token = issued'
    BY <1>2, GrantedTask
  <2> QED
    BY <1>1, <1>2, <2>2, <2>3, <2>4
<1>4. TokensIssued'
  BY <1>1, <1>2, <1>3 DEF ScreensInv, TokensIssued, Tasks
<1>5. NobodyForgotten'
  BY <1>1, <1>3, IdleTask DEF ScreensInv, NobodyForgotten
<1>6. signing' # Idle => signing # Idle
  BY <1>1, IdleTask
<1>7. "store" \notin overtaken => Gate'
  BY <1>1, <1>3, <1>6 DEF ScreensInv, Gate, screenVars
<1> QED
  BY <1>1, <1>4, <1>5, <1>7, StillKeeps

LEMMA SignInScreens ==
  ASSUME SessionInv, ScreensInv, (signIn /\ ~shown) \/ SignInStored, UNCHANGED <<screenVars, stack>>
  PROVE  ScreensInv'
<1>1. /\ UNCHANGED <<requests, app, load, issued, refreshing, deletes>>
      /\ "store" \in overtaken => "store" \in overtaken'
      /\ signing' \in Tasks /\ session'.token \in Nat
      /\ signing'.token <= issued /\ session'.token <= issued
      /\ stored' \in Users \cup {Nobody}
  <2>1. CASE signIn
    <3>1. PICK u \in Users :
            signing' = [Idle EXCEPT !.user = u, !.gen = generation', !.at = "provider"]
      BY <2>1 DEF signIn
    <3>2. signing' = [user |-> u, gen |-> generation', token |-> 0, at |-> "provider"]
      BY <3>1 DEF Idle
    <3>3. generation' \in Nat
      <4>1. generation' = generation + 1
        BY <2>1 DEF signIn
      <4> QED
        BY <4>1 DEF SessionInv, SessionTyped
    <3>4. signing' \in Tasks /\ signing'.token = 0
      BY <3>2, <3>3 DEF Tasks
    <3>5. UNCHANGED <<requests, app, load, issued, refreshing, deletes, session, stored>>
      BY <2>1 DEF signIn, device, counts
    <3>6. "store" \in overtaken => "store" \in overtaken'
      BY <2>1 DEF signIn, Storing
    <3> QED
      BY <3>4, <3>5, <3>6
      DEF SessionInv, SessionTyped, ScreensInv, TokensIssued
  <2>2. CASE SignInStored
    <3>1. Idle.token = 0
      BY DEF Idle
    <3> QED
      BY <2>2, <3>1, IdleTask
      DEF SignInStored, Store, counts, SessionInv, SessionTyped, Tasks, ScreensInv, TokensIssued
  <2> QED
    BY <2>1, <2>2
<1>2. TokensIssued'
  BY <1>1 DEF ScreensInv, TokensIssued
<1>3. NobodyForgotten'
  BY <1>1 DEF ScreensInv, NobodyForgotten
<1>4. ASSUME "store" \notin overtaken' PROVE Gate' /\ ~shown
  <2>1. "store" \notin overtaken /\ (SignedOut \/ SignedIn) /\ ~shown
    <3>1. CASE signIn /\ ~shown
      BY <1>1, <1>4, <3>1 DEF signIn, SessionInv, Course, Starting, SigningOut
    <3>2. CASE SignInStored
      <4>1. signing # Idle
        BY <3>2, IdleTask DEF SignInStored
      <4> QED
        BY <1>1, <1>4, <4>1 DEF SessionInv, Course, Starting, SigningOut, ScreensInv, Gate
    <3> QED
      BY <3>1, <3>2
  <2>2. generation \in Nat /\ refreshing.gen \in Nat
    BY DEF SessionInv, SessionTyped, Tasks
  <2>3. refreshing # Idle => refreshing.at # "storage" /\ refreshing.gen # generation'
    <3>1. CASE signIn
      <4>1. generation' = generation + 1 /\ refreshing.at # "storage"
        BY <1>4, <3>1 DEF signIn, Storing
      <4>2. refreshing # Idle => refreshing.gen <= generation
        BY <2>1, <2>2 DEF SignedOut, SignedIn, NothingCurrent
      <4> QED
        BY <2>2, <4>1, <4>2
    <3>2. CASE SignInStored
      <4>1. generation' = generation /\ signing # Idle
        BY <3>2, IdleTask DEF SignInStored
      <4>2. NothingCurrent
        BY <2>1, <4>1 DEF SignedOut, SignedIn
      <4> QED
        BY <2>2, <4>1, <4>2 DEF NothingCurrent
    <3> QED
      BY <3>1, <3>2
  <2>5. Gate
    BY <2>1 DEF ScreensInv
  <2> QED
    BY <1>1, <2>1, <2>3, <2>5, IdleTask DEF Gate, screenVars
<1> QED
  BY <1>1, <1>2, <1>3, <1>4, StillKeeps

\* Closing the session, and time.
LEMMA ClosingGate ==
  ASSUME SessionInv, ScreensInv, clearSession, "store" \notin overtaken', UNCHANGED <<status, signing, shown, stack>>,
         refreshing' \in {refreshing, Idle}
  PROVE  Gate'
<1>1. /\ session' = NoSession /\ "store" \notin overtaken /\ refreshing.at # "storage"
  BY DEF clearSession, Storing
<1>2. Gate
  BY <1>1 DEF ScreensInv
<1> QED
  BY <1>1, <1>2, IdleTask DEF Gate

LEMMA SignOutScreens ==
  ASSUME SessionInv, ScreensInv, signOut \/ Ages, UNCHANGED <<screenVars, stack>>
  PROVE  ScreensInv'
<1>1. /\ UNCHANGED <<requests, app, load, issued, stored, refreshing, signing, status>>
      /\ "store" \in overtaken => "store" \in overtaken'
      /\ signOut => clearSession
  <2>1. CASE signOut
    BY <2>1 DEF signOut, clearSession, Storing, tasks, device, counts
  <2>2. CASE Ages
    <3>1. UNCHANGED <<requests, app, load, issued, stored, refreshing, signing, status, overtaken,
                      generation>>
      BY <2>2 DEF Ages, tasks, device, counts
    <3>2. signOut => generation' = generation + 1 /\ generation \in Nat
      BY DEF signOut, clearSession, SessionInv, SessionTyped
    <3> QED
      BY <3>1, <3>2
  <2> QED
    BY <2>1, <2>2
<1>2. /\ Ages => /\ session' # NoSession /\ session # NoSession /\ session'.user = session.user
                 /\ session'.token = session.token /\ UNCHANGED <<generation, deletes, overtaken>>
      /\ signOut => session' = NoSession /\ deletes' = deletes + 1
  BY DEF Ages, signOut, clearSession, SessionInv, SessionTyped, NoSession
<1>3. TokensIssued'
  BY <1>1, <1>2 DEF ScreensInv, TokensIssued, SessionInv, SessionTyped, NoSession
<1>4. NobodyForgotten'
  BY <1>1, <1>2 DEF ScreensInv, NobodyForgotten, SessionInv, SessionTyped
<1>5. "store" \notin overtaken' => Gate'
  <2>1. CASE signOut
    BY <1>1, <2>1, ClosingGate DEF screenVars
  <2>2. CASE Ages
    BY <1>1, <1>2, <2>2 DEF ScreensInv, Gate, screenVars
  <2> QED
    BY <2>1, <2>2
<1> QED
  BY <1>1, <1>2, <1>3, <1>4, <1>5, StillKeeps

\* The head of an answer.
LEMMA HeadScreens ==
  ASSUME SessionInv, ScreensInv, HeadArrives, UNCHANGED <<screenVars, stack>>
  PROVE  ScreensInv'
<1>1. /\ UNCHANGED <<app, load, issued, stored, refreshing, signing, session, status, generation,
                     deletes, overtaken>>
  BY DEF HeadArrives, tasks, device, counts
<1>2. PICK r \in requests : requests' = (requests \ {r}) \cup {[r EXCEPT !.phase = "body"]}
  BY DEF HeadArrives
<1> DEFINE f == [q \in requests |-> IF q = r THEN Now(r, "body", r.gen, r.token) ELSE q]
<1>3. requests \subseteq Reqs /\ r \in Reqs
  BY DEF ScreensInv, ScreensTyped
<1>4. /\ Now(r, "body", r.gen, r.token) \in Reqs
      /\ Now(r, "body", r.gen, r.token).of = r.of
      /\ Now(r, "body", r.gen, r.token).part = r.part
      /\ Now(r, "body", r.gen, r.token).page = r.page
      /\ Now(r, "body", r.gen, r.token).phase = "body"
      /\ Now(r, "body", r.gen, r.token).token = r.token
  BY <1>3 DEF Reqs, Now
<1>5. requests' = {f[q] : q \in requests}
  BY <1>2, <1>3, PhasedRequest
<1>6. /\ f \in [requests -> Reqs]
      /\ \A q \in requests : /\ f[q].of = q.of /\ f[q].part = q.part /\ f[q].page = q.page
                             /\ f[q].token = q.token /\ (f[q] = q \/ f[q].phase = "body")
  BY <1>3, <1>4
<1> HIDE DEF f
<1>7. Follows(f)
  BY <1>5, <1>6 DEF Follows
<1>8. NobodyForgotten'
  BY <1>1, <1>5, <1>6 DEF ScreensInv, NobodyForgotten
<1>9. TokensIssued' /\ ("store" \notin overtaken' => Gate')
  BY <1>1 DEF ScreensInv, TokensIssued, Gate, screenVars
<1> QED
  BY <1>1, <1>6, <1>7, <1>8, <1>9, StepKeeps

LEMMA PartResumes ==
  ASSUME requests \subseteq Reqs, NEW rs \in SUBSET requests, NEW token \in [rs -> Tokens],
         requests' = (requests \ rs) \cup Resume(rs, token)
  PROVE  \E f \in [requests -> Reqs] :
           /\ Follows(f)
           /\ \A r \in rs : f[r].phase = "sent" /\ f[r].token = token[r]
           /\ \A r \in requests \ rs : f[r] = r
<1> DEFINE f == [r \in requests |-> IF r \in rs THEN Now(r, "sent", 0, token[r]) ELSE r]
<1>1. f \in [requests -> Reqs]
  BY NowIsRequest
<1>2. \A r \in requests :
        /\ f[r].of = r.of /\ f[r].part = r.part /\ f[r].page = r.page
        /\ IF r \in rs THEN f[r].phase = "sent" /\ f[r].token = token[r] ELSE f[r] = r
  BY NowIsRequest
<1>3. /\ requests' \subseteq {f[r] : r \in requests}
      /\ \A r \in requests : Wanted(r) => f[r] \in requests'
  BY ResumedAre
<1> HIDE DEF f
<1> QED
  BY <1>1, <1>2, <1>3 DEF Follows

LEMMA EndedTokens ==
  ASSUME SessionInv, ScreensInv, RefreshEnds \/ refreshing' = Idle, UNCHANGED <<app, issued, signing>>,
         session' \in {session, NoSession}, stored' \in Users \cup {Nobody}
  PROVE  TokensIssued'
<1>1. refreshing' = Idle /\ Idle.token = 0 /\ NoSession.token = 0
  BY DEF RefreshEnds, Idle, NoSession
<1> QED
  BY <1>1 DEF ScreensInv, TokensIssued, SessionInv, SessionTyped

LEMMA FailedScreens ==
  ASSUME SessionInv, ScreensInv, RefreshFailed, UNCHANGED <<screenVars, stack>>
  PROVE  ScreensInv'
<1>1. /\ UNCHANGED <<app, load, issued, stored, signing, generation, deletes, overtaken>>
      /\ refreshing' = Idle
      /\ IF RestoreWaits THEN session' = NoSession /\ status' = "unavailable"
         ELSE UNCHANGED <<session, status>>
      /\ requests' = (requests \ Waiting) \cup Resume(Waiting, [r \in Waiting |-> Unexpired(r)])
  BY DEF RefreshFailed, RefreshEnds, device, counts
<1>2. \A r \in Waiting : Unexpired(r) \in Tokens /\ Unexpired(r) \in OurTokens
  BY DEF Unexpired, idToken, NoToken, Tokens, OurTokens, SessionInv, SessionTyped
<1> DEFINE token == [r \in Waiting |-> Unexpired(r)]
<1>t. token \in [Waiting -> Tokens] /\ \A r \in Waiting : token[r] \in OurTokens
  BY <1>2
<1>r. requests' = (requests \ Waiting) \cup Resume(Waiting, token)
  BY <1>1
<1> HIDE DEF token
<1>3. PICK f \in [requests -> Reqs] :
           /\ Follows(f)
           /\ \A r \in Waiting : f[r].phase = "sent" /\ f[r].token = token[r]
           /\ \A r \in requests \ Waiting : f[r] = r
  <2>1. requests \subseteq Reqs /\ Waiting \in SUBSET requests
    BY DEF ScreensInv, ScreensTyped, Waiting
  <2> QED
    BY <1>t, <1>r, <2>1, PartResumes
<1>4. NobodyForgotten'
  BY <1>1, <1>3 DEF Follows, Waiting, ScreensInv, NobodyForgotten
<1>5. TokensIssued'
  BY <1>1, EndedTokens DEF ScreensInv, TokensIssued
<1>6. "store" \notin overtaken /\ RestoreWaits => ~shown
  <2>1. "store" \notin overtaken /\ RestoreWaits => Starting
    BY DEF SessionInv, Course, SignedOut, SignedIn, SigningOut, RestoreWaits
  <2> QED
    BY <2>1 DEF ScreensInv, Gate, Starting
<1>7. "store" \notin overtaken => Gate'
  BY <1>1, <1>6, IdleTask DEF ScreensInv, Gate, screenVars
<1>8. "store" \notin overtaken' /\ shown /\ session' # NoSession => session # NoSession /\ session'.user = session.user
  BY <1>1
<1> QED
  BY <1>1, <1>t, <1>3, <1>4, <1>5, <1>7, <1>8, StepKeeps

LEMMA StoredScreens ==
  ASSUME SessionInv, ScreensInv, RefreshStored, UNCHANGED <<screenVars, stack>>
  PROVE  ScreensInv'
<1> DEFINE t == [user |-> refreshing.user, n |-> refreshing.token]
<1>1. /\ UNCHANGED <<app, load, issued, signing, generation, deletes, overtaken>>
      /\ refreshing.at = "storage" /\ refreshing' = Idle /\ Store(refreshing.user)
      /\ session' = [user |-> refreshing.user, token |-> refreshing.token, age |-> "fresh"]
      /\ status' = "authenticated"
      /\ requests' = (requests \ Waiting) \cup Resume(Waiting, [r \in Waiting |-> t])
  BY DEF RefreshStored, RefreshEnds, counts
<1>2. /\ t \in Tokens /\ refreshing.user \in Users \cup {Nobody} /\ refreshing.token \in Nat
      /\ issued \in Nat
  BY DEF SessionInv, SessionTyped, Tasks, Tokens
<1>3. PICK f \in [requests -> Reqs] :
           /\ Follows(f)
           /\ \A r \in Waiting : f[r].phase = "sent" /\ f[r].token = t
           /\ \A r \in requests \ Waiting : f[r] = r
  <2>1. [r \in Waiting |-> t] \in [Waiting -> Tokens] /\ Waiting \in SUBSET requests
    BY <1>2 DEF Waiting
  <2>2. requests \subseteq Reqs
    BY DEF ScreensInv, ScreensTyped
  <2> HIDE DEF t
  <2>3. PICK f \in [requests -> Reqs] :
           /\ Follows(f)
           /\ \A r \in Waiting : f[r].phase = "sent" /\ f[r].token = [q \in Waiting |-> t][r]
           /\ \A r \in requests \ Waiting : f[r] = r
    BY <1>1, <2>1, <2>2, PartResumes
  <2> QED
    BY <2>3
<1>4. NobodyForgotten'
  BY <1>1, <1>3 DEF Follows, Waiting, ScreensInv, NobodyForgotten
<1>5. TokensIssued'
  <2>1. Idle.token = 0 /\ session'.token = refreshing.token
    BY <1>1 DEF Idle
  <2> QED
    BY <1>1, <1>2, <2>1 DEF ScreensInv, TokensIssued, Store
<1>6. "store" \notin overtaken => Gate'
  BY <1>1, IdleTask DEF ScreensInv, Gate, screenVars
<1>7. ASSUME "store" \notin overtaken, shown
      PROVE  session # NoSession /\ session'.user = session.user /\ t \in OurTokens
  <2>1. Gate
    BY <1>7 DEF ScreensInv
  <2>2. SignedIn
    BY <1>1, <1>7, <2>1, IdleTask
    DEF SessionInv, Course, Starting, SignedOut, SigningOut, NothingCurrent, Gate
  <2>3. refreshing.user = session.user /\ session # NoSession
    BY <1>1, <2>1, <2>2, IdleTask DEF Gate, SignedIn
  <2> QED
    BY <1>1, <1>2, <2>3 DEF OurTokens
<1> HIDE DEF t
<1> QED
  BY <1>1, <1>3, <1>4, <1>5, <1>6, <1>7, StepKeeps

\* A refresh that is refused: its callers go on without a token, but for one that may
\* have to clear the session first.
LEMMA RefusedFollows ==
  ASSUME SessionInv, requests \subseteq Reqs, RefreshRefused
  PROVE  \E f \in [requests -> Reqs] :
           /\ Follows(f)
           /\ \A r \in Waiting : \/ f[r].phase = "sent" /\ f[r].token = NoToken
                                 \/ clearSession /\ f[r].phase = "clearing" /\ f[r].token = r.token
           /\ \A r \in requests \ Waiting : f[r] = r
<1> DEFINE none == [r \in Waiting |-> NoToken]
<1>1. none \in [Waiting -> Tokens] /\ \A r \in Waiting : none[r] = NoToken
  BY DEF NoToken, Tokens
<1>2. WithoutToken(Waiting) = Resume(Waiting, none)
  BY DEF WithoutToken
<1> HIDE DEF none
<1>3. \A x : \A rs \in SUBSET requests :
        x \in WithoutToken(rs) <=> \E r \in rs : Wanted(r) /\ x = Now(r, "sent", 0, NoToken)
  <2> SUFFICES ASSUME NEW x, NEW rs \in SUBSET requests
               PROVE  x \in WithoutToken(rs) <=>
                        \E r \in rs : Wanted(r) /\ x = Now(r, "sent", 0, NoToken)
    OBVIOUS
  <2> DEFINE t == [r \in rs |-> NoToken]
  <2>1. WithoutToken(rs) = Resume(rs, t) /\ \A r \in rs : t[r] = NoToken
    BY DEF WithoutToken
  <2> HIDE DEF t
  <2> QED
    BY <2>1, ResumedAre
<1>4. Waiting \in SUBSET requests /\ Waiting \ {} = Waiting
  BY DEF Waiting
<1>5. CASE requests' = (requests \ Waiting) \cup WithoutToken(Waiting \ {})
  <2>1. requests' = (requests \ Waiting) \cup Resume(Waiting, none)
    BY <1>2, <1>4, <1>5
  <2> QED
    BY <1>1, <1>4, <2>1, PartResumes
<1>6. ASSUME NEW q \in Waiting, clearSession,
             requests' = (requests \ Waiting) \cup WithoutToken(Waiting \ {q})
                           \cup {[q EXCEPT !.phase = "clearing"]}
      PROVE  \E f \in [requests -> Reqs] :
               /\ Follows(f)
               /\ \A r \in Waiting : \/ f[r].phase = "sent" /\ f[r].token = NoToken
                                     \/ f[r].phase = "clearing" /\ f[r].token = r.token
               /\ \A r \in requests \ Waiting : f[r] = r
  <2> DEFINE f == [r \in requests |-> IF r = q THEN Now(q, "clearing", q.gen, q.token)
                                      ELSE IF r \in Waiting THEN Now(r, "sent", 0, NoToken) ELSE r]
  <2>1. q \in Reqs /\ q.gen \in Nat /\ q.token \in Tokens /\ NoToken \in Tokens
    BY <1>4 DEF Reqs, NoToken, Tokens
  <2>2. [q EXCEPT !.phase = "clearing"] = Now(q, "clearing", q.gen, q.token)
    BY <2>1, PhasedRequest
  <2>3. f \in [requests -> Reqs]
    BY <1>4, <2>1, NowIsRequest
  <2>4. \A r \in requests :
          /\ f[r].of = r.of /\ f[r].part = r.part /\ f[r].page = r.page
          /\ r = q => f[r].phase = "clearing" /\ f[r].token = q.token
          /\ r \in Waiting \ {q} => f[r].phase = "sent" /\ f[r].token = NoToken
          /\ r \notin Waiting => f[r] = r
    <3> SUFFICES ASSUME NEW r \in requests
                 PROVE  /\ f[r].of = r.of /\ f[r].part = r.part /\ f[r].page = r.page
                        /\ r = q => f[r].phase = "clearing" /\ f[r].token = q.token
                        /\ r \in Waiting \ {q} => f[r].phase = "sent" /\ f[r].token = NoToken
                        /\ r \notin Waiting => f[r] = r
      OBVIOUS
    <3>1. /\ r = q => f[r] = Now(q, "clearing", q.gen, q.token)
          /\ r # q /\ r \in Waiting => f[r] = Now(r, "sent", 0, NoToken)
          /\ r # q /\ r \notin Waiting => f[r] = r
      BY <1>4
    <3> QED
      BY <2>1, <3>1 DEF Now
  <2>5. Waiting \ {q} \in SUBSET requests
    BY <1>4
  <2>6. /\ requests' \subseteq {f[r] : r \in requests}
        /\ \A r \in requests : Wanted(r) => f[r] \in requests'
    BY <1>3, <1>4, <1>6, <2>2, <2>5
  <2> HIDE DEF f
  <2> QED
    BY <1>4, <2>3, <2>4, <2>6 DEF Follows
<1> QED
  BY <1>5, <1>6 DEF RefreshRefused

LEMMA RefusedScreens ==
  ASSUME SessionInv, ScreensInv, RefreshRefused, UNCHANGED <<screenVars, stack>>
  PROVE  ScreensInv'
<1>1. /\ UNCHANGED <<app, load, issued, stored, signing, status>>
      /\ refreshing' = Idle
      /\ KeepSession \/ clearSession
  BY DEF RefreshRefused, device, counts
<1>2. PICK f \in [requests -> Reqs] :
           /\ Follows(f)
           /\ \A r \in Waiting : \/ f[r].phase = "sent" /\ f[r].token = NoToken
                                 \/ clearSession /\ f[r].phase = "clearing" /\ f[r].token = r.token
           /\ \A r \in requests \ Waiting : f[r] = r
  BY RefusedFollows DEF ScreensInv, ScreensTyped
<1>3. /\ "store" \in overtaken => "store" \in overtaken'
      /\ session' = session \/ session' = NoSession
  <2>1. CASE clearSession
    BY <2>1 DEF clearSession, Storing
  <2>2. CASE ~clearSession /\ KeepSession
    BY <2>2 DEF KeepSession
  <2> QED
    BY <1>1, <2>1, <2>2
<1>4. NobodyForgotten'
  BY <1>2 DEF Follows, Waiting, ScreensInv, NobodyForgotten
<1>5. TokensIssued'
  BY <1>1, <1>3, EndedTokens DEF ScreensInv, TokensIssued
<1>6. ASSUME "store" \notin overtaken' PROVE Gate'
  <2>1. CASE clearSession
    BY <1>1, <1>6, <2>1, ClosingGate DEF screenVars
  <2>2. CASE KeepSession
    BY <1>1, <1>6, <2>2, IdleTask DEF KeepSession, ScreensInv, Gate, screenVars
  <2> QED
    BY <1>1, <2>1, <2>2
<1>7. \A r \in requests : f[r].token \in {r.token} \cup OurTokens
  BY <1>2 DEF OurTokens
<1> QED
  BY <1>1, <1>2, <1>3, <1>4, <1>5, <1>6, <1>7, StepKeeps

LEMMA DeletedScreens ==
  ASSUME SessionInv, ScreensInv, Deleted, UNCHANGED <<screenVars, stack>>
  PROVE  ScreensInv'
<1>1. /\ UNCHANGED <<app, load, issued, session, generation, refreshing, signing, overtaken>>
      /\ Store(Nobody) /\ status' = "anonymous"
      /\ \/ UNCHANGED requests
         \/ \E r \in requests : requests' = (requests \ {r}) \cup WithoutToken({r})
  BY DEF Deleted, DeletionEnds, counts
<1>2. \E f \in [requests -> Reqs] :
        /\ Follows(f)
        /\ \A r \in requests : f[r] = r \/ (f[r].phase = "sent" /\ f[r].token = NoToken)
  <2>1. requests \subseteq Reqs
    BY DEF ScreensInv, ScreensTyped
  <2>2. CASE UNCHANGED requests
    BY <2>1, <2>2, SameFollow
  <2>3. ASSUME NEW q \in requests, requests' = (requests \ {q}) \cup WithoutToken({q})
        PROVE  \E f \in [requests -> Reqs] :
                 /\ Follows(f)
                 /\ \A r \in requests : f[r] = r \/ (f[r].phase = "sent" /\ f[r].token = NoToken)
    <3> DEFINE none == [r \in {q} |-> NoToken]
    <3>1. /\ none \in [{q} -> Tokens] /\ \A r \in {q} : none[r] = NoToken
          /\ WithoutToken({q}) = Resume({q}, none)
      BY DEF NoToken, Tokens, WithoutToken
    <3> HIDE DEF none
    <3>2. PICK f \in [requests -> Reqs] :
            /\ Follows(f)
            /\ \A r \in {q} : f[r].phase = "sent" /\ f[r].token = none[r]
            /\ \A r \in requests \ {q} : f[r] = r
      BY <2>1, <2>3, <3>1, PartResumes
    <3> QED
      BY <3>1, <3>2
  <2> QED
    BY <1>1, <2>2, <2>3
<1>3. PICK f \in [requests -> Reqs] :
        /\ Follows(f)
        /\ \A r \in requests : f[r] = r \/ (f[r].phase = "sent" /\ f[r].token = NoToken)
  BY <1>2
<1>4. NobodyForgotten'
  BY <1>1, <1>3 DEF Follows, ScreensInv, NobodyForgotten
<1>5. TokensIssued'
  BY <1>1 DEF ScreensInv, TokensIssued, Store
<1>6. "store" \notin overtaken => Gate'
  BY <1>1 DEF ScreensInv, Gate, screenVars
<1>7. \A r \in requests : f[r].token \in {r.token} \cup OurTokens
  BY <1>3 DEF OurTokens
<1> QED
  BY <1>1, <1>3, <1>4, <1>5, <1>6, <1>7, StepKeeps
-----------------------------------------------------------------------------
(* Answers.                                                                *)

\* The fields of a list that matter beside the button's.
Has(l, status_, pages, cursor, missing, got) ==
  /\ l \in Lists
  /\ l.status = status_ /\ l.pages = pages /\ l.cursor = cursor /\ l.missing = missing /\ l.got = got

LEMMA NoListIs == Has(NoList, "idle", {}, 0, {}, {})
  BY DEF NoList, Lists, Has

LEMMA ErrorListIs == Has([NoList EXCEPT !.status = "error"], "error", {}, 0, {}, {})
  BY DEF NoList, Lists, Has

LEMMA SuccessListIs ==
  ASSUME NEW pages \in SUBSET Pages, NEW cursor \in {0} \cup 2..LastPage
  PROVE  Has([NoList EXCEPT !.status = "success", !.pages = pages, !.cursor = cursor],
             "success", pages, cursor, {}, {})
<1> DEFINE a == [NoList EXCEPT !.status = "success"]
           b == [a EXCEPT !.pages = pages]
<1>1. Has(a, "success", {}, 0, {}, {})
  BY DEF NoList, Lists, Has
<1>2. Has(b, "success", pages, 0, {}, {})
  <2> HIDE DEF a
  <2> QED
    BY <1>1 DEF Has, Lists
<1>3. [NoList EXCEPT !.status = "success", !.pages = pages, !.cursor = cursor] =
        [b EXCEPT !.cursor = cursor]
  OBVIOUS
<1> HIDE DEF a, b
<1> QED
  BY <1>2, <1>3 DEF Has, Lists

LEMMA PartListIs ==
  ASSUME list \in Lists, NEW got \in SUBSET Pages, NEW missing \in SUBSET {"page", "balance"}
  PROVE  Has([list EXCEPT !.got = got, !.missing = missing],
             list.status, list.pages, list.cursor, missing, got)
<1> DEFINE a == [list EXCEPT !.got = got]
<1>1. Has(a, list.status, list.pages, list.cursor, list.missing, got)
  BY DEF Lists, Has
<1>2. [list EXCEPT !.got = got, !.missing = missing] = [a EXCEPT !.missing = missing]
  OBVIOUS
<1> HIDE DEF a
<1> QED
  BY <1>1, <1>2 DEF Has, Lists

LEMMA UnmoreListIs ==
  ASSUME list \in Lists
  PROVE  Has([list EXCEPT !.more = FALSE],
             list.status, list.pages, list.cursor, list.missing, list.got)
  BY DEF Lists, Has

LEMMA MoreListIs ==
  ASSUME list \in Lists, NEW pages \in SUBSET Pages, NEW cursor \in {0} \cup 2..LastPage
  PROVE  Has([list EXCEPT !.more = FALSE, !.pages = pages, !.cursor = cursor],
             list.status, pages, cursor, list.missing, list.got)
<1> DEFINE a == [list EXCEPT !.more = FALSE]
           b == [a EXCEPT !.pages = pages]
<1>1. Has(a, list.status, list.pages, list.cursor, list.missing, list.got)
  BY UnmoreListIs
<1>2. Has(b, list.status, pages, list.cursor, list.missing, list.got)
  <2> HIDE DEF a
  <2> QED
    BY <1>1 DEF Has, Lists
<1>3. [list EXCEPT !.more = FALSE, !.pages = pages, !.cursor = cursor] = [b EXCEPT !.cursor = cursor]
  OBVIOUS
<1> HIDE DEF a, b
<1> QED
  BY <1>2, <1>3 DEF Has, Lists

Got(r) == list.got \cup (IF r.part = "page" THEN {Page(r)} ELSE {})
Missing(r) == list.missing \ {r.part}

LEMMA PageIs ==
  ASSUME NEW r \in Reqs
  PROVE  /\ Page(r) \in Pages /\ Page(r).load = r.of /\ Page(r).page = r.page
         /\ Page(r).by = r.token.user
  BY DEF Page, Pages, Reqs, Tokens

LEMMA LoadAppliedIs ==
  ASSUME list \in Lists, NEW r \in Reqs, NEW e
  PROVE  LET l == LoadApplied(r, e)
         IN  /\ e # "ok" => Has(l, "error", {}, 0, {}, {})
             /\ e = "ok" /\ Missing(r) # {} =>
                  Has(l, list.status, list.pages, list.cursor, Missing(r), Got(r))
             /\ e = "ok" /\ Missing(r) = {} =>
                  Has(l, "success", Got(r), IF LastPage > 1 THEN 2 ELSE 0, {}, {})
<1>1. Got(r) \in SUBSET Pages /\ Missing(r) \in SUBSET {"page", "balance"}
  BY PageIs DEF Got, Missing, Lists
<1>2. (IF LastPage > 1 THEN 2 ELSE 0) \in {0} \cup 2..LastPage
  BY LastPageAssumption
<1>3. LoadApplied(r, e) =
        IF e # "ok" THEN [NoList EXCEPT !.status = "error"]
        ELSE IF Missing(r) # {} THEN [list EXCEPT !.got = Got(r), !.missing = Missing(r)]
        ELSE [NoList EXCEPT !.status = "success", !.pages = Got(r),
                            !.cursor = IF LastPage > 1 THEN 2 ELSE 0]
  BY DEF LoadApplied, Got, Missing
<1>4. Has([NoList EXCEPT !.status = "success", !.pages = Got(r),
                         !.cursor = IF LastPage > 1 THEN 2 ELSE 0],
          "success", Got(r), IF LastPage > 1 THEN 2 ELSE 0, {}, {})
  BY <1>1, <1>2, SuccessListIs
<1>5. Has([list EXCEPT !.got = Got(r), !.missing = Missing(r)],
          list.status, list.pages, list.cursor, Missing(r), Got(r))
  BY <1>1, PartListIs
<1> QED
  BY <1>3, <1>4, <1>5, ErrorListIs

LEMMA MoreAppliedIs ==
  ASSUME list \in Lists, NEW r \in Reqs, NEW e, r.page \in 1..LastPage
  PROVE  LET l == MoreApplied(r, e)
         IN  /\ e # "ok" => Has(l, list.status, list.pages, list.cursor, list.missing, list.got)
             /\ e = "ok" =>
                  Has(l, list.status, list.pages \cup {Page(r)}, Cursor(r), list.missing, list.got)
<1>1. list.pages \cup {Page(r)} \in SUBSET Pages
  BY PageIs DEF Lists
<1>2. Cursor(r) \in {0} \cup 2..LastPage
  BY LastPageAssumption DEF Cursor
<1>3. MoreApplied(r, e) =
        IF e # "ok" THEN [list EXCEPT !.more = FALSE]
        ELSE [list EXCEPT !.more = FALSE, !.pages = list.pages \cup {Page(r)}, !.cursor = Cursor(r)]
  BY DEF MoreApplied
<1> QED
  BY <1>1, <1>2, <1>3, UnmoreListIs, MoreListIs

\* The answer of request r to the list.
Answers(r, e) ==
  /\ r.part # "write" /\ requests' = requests \ {r} /\ UNCHANGED load
  /\ list' = IF r.of # load \/ (r.part # "more" /\ list.status # "loading") THEN list
             ELSE IF r.part = "more" THEN MoreApplied(r, e) ELSE LoadApplied(r, e)

\* What an answer brings to the screen.
Brings(r, e) ==
  /\ list' \in Lists /\ Progress' /\ Asked'
  /\ \A p \in list'.pages \cup list'.got :
       p \in list.pages \cup list.got \/ (e = "ok" /\ Current(r) /\ p = Page(r))

LEMMA LateAnswer ==
  ASSUME ScreensInv, NEW r \in requests, NEW e, Answers(r, e), list' = list,
         r.of # load \/ (r.part # "more" /\ list.status # "loading")
  PROVE  Brings(r, e)
<1>1. requests' = requests \ {r} /\ load' = load /\ list' = list
  BY DEF Answers
<1>2. Progress'
  BY <1>1 DEF ScreensInv, Progress
<1>3. Asked'
  BY <1>1 DEF ScreensInv, Asked, Current
<1> QED
  BY <1>1, <1>2, <1>3 DEF ScreensInv, ScreensTyped, Brings

LEMMA MoreAnswer ==
  ASSUME ScreensInv, NEW r \in requests, NEW e, Answers(r, e), r.of = load, r.part = "more"
  PROVE  Brings(r, e)
<1>1. /\ requests' = requests \ {r} /\ load' = load /\ list' = MoreApplied(r, e)
      /\ r \in Reqs /\ list \in Lists
  BY DEF Answers, ScreensInv, ScreensTyped
<1>2. list.status = "success" /\ r.page = list.cursor /\ list.cursor \in 2..LastPage
  BY <1>1 DEF ScreensInv, Asked, Current, Lists
<1>3. \A s \in requests' : Current(s)' => Current(s) /\ s.part # "more"
  BY <1>1 DEF ScreensInv, Asked, Current
<1>4. /\ e # "ok" => Has(list', list.status, list.pages, list.cursor, list.missing, list.got)
      /\ e = "ok" =>
           Has(list', list.status, list.pages \cup {Page(r)}, Cursor(r), list.missing, list.got)
  <2>1. r.page \in 1..LastPage
    BY <1>2, LastPageAssumption
  <2> QED
    BY <1>1, <2>1, MoreAppliedIs
<1>5. /\ list' \in Lists /\ list'.status = "success" /\ list'.got = list.got
      /\ IF e = "ok" THEN list'.pages = list.pages \cup {Page(r)} /\ list'.cursor = Cursor(r)
         ELSE list'.pages = list.pages /\ list'.cursor = list.cursor
  BY <1>2, <1>4 DEF Has
<1>6. Asked'
  BY <1>1, <1>3 DEF ScreensInv, Asked
<1>7. /\ \A p, q \in list'.pages : p.load = q.load
      /\ \A p \in list'.pages : p.load = load
  BY <1>1, <1>2, <1>5, PageIs DEF ScreensInv, Progress
<1>8. {p.page : p \in list'.pages} =
        1..(IF list'.cursor = 0 THEN LastPage ELSE list'.cursor - 1)
  <2>1. {p.page : p \in list.pages} = 1..(list.cursor - 1)
    BY <1>2 DEF ScreensInv, Progress
  <2>2. CASE e = "ok"
    <3>1. {p.page : p \in list'.pages} = {p.page : p \in list.pages} \cup {list.cursor}
      BY <1>1, <1>2, <1>5, <2>2, PageIs
    <3>2. 1..(IF list'.cursor = 0 THEN LastPage ELSE list'.cursor - 1) = 1..list.cursor
      BY <1>2, <1>5, <2>2, LastPageAssumption DEF Cursor
    <3>3. 1..(list.cursor - 1) \cup {list.cursor} = 1..list.cursor
      BY <1>2, LastPageAssumption
    <3> QED
      BY <2>1, <3>1, <3>2, <3>3
  <2>3. CASE e # "ok"
    BY <1>2, <1>5, <2>1, <2>3, LastPageAssumption
  <2> QED
    BY <2>2, <2>3
<1>9. Progress'
  BY <1>1, <1>5, <1>7, <1>8 DEF Progress
<1> QED
  BY <1>1, <1>5, <1>6, <1>9 DEF Brings, Current

LEMMA LoadAnswer ==
  ASSUME ScreensInv, NEW r \in requests, NEW e, Answers(r, e), r.of = load, r.part # "more",
         list.status = "loading"
  PROVE  Brings(r, e)
<1>1. /\ requests' = requests \ {r} /\ load' = load /\ list' = LoadApplied(r, e)
      /\ r \in Reqs /\ list \in Lists
  BY DEF Answers, ScreensInv, ScreensTyped
<1>2. r.page = 1 /\ Current(r) /\ r.part \in {"page", "balance"}
  BY <1>1 DEF Answers, ScreensInv, Asked, Current, Reqs
<1>3. \A s \in requests' : Current(s)' => Current(s) /\ s.part # "more" /\ s.page = 1
  BY <1>1 DEF ScreensInv, Asked, Current
<1>4. Asked'
  BY <1>1, <1>3 DEF ScreensInv, Asked
<1>5. /\ \A p \in Got(r) : p.load = load /\ p.page = 1
      /\ \A p \in Got(r) : p \in list.got \/ p = Page(r)
      /\ "page" \in Missing(r) \/ Got(r) # {}
  BY <1>1, <1>2, PageIs DEF Got, Missing, ScreensInv, Progress
<1>6. CASE e # "ok"
  <2>1. list' \in Lists /\ list'.status = "error" /\ list'.pages = {} /\ list'.got = {}
    BY <1>1, <1>6, LoadAppliedIs DEF Has
  <2>2. Progress'
    BY <2>1 DEF Progress
  <2> QED
    BY <1>4, <2>1, <2>2 DEF Brings
<1>7. CASE e = "ok" /\ Missing(r) # {}
  <2>1. /\ list' \in Lists /\ list'.status = "loading" /\ list'.pages = list.pages
        /\ list'.got = Got(r) /\ list'.missing = Missing(r)
    BY <1>1, <1>7, LoadAppliedIs DEF Has
  <2>2. \A part \in Missing(r) : \E s \in requests \ {r} : s.part = part /\ s.of = load
    BY DEF Missing, ScreensInv, Progress
  <2>3. Progress'
    BY <1>1, <1>5, <2>1, <2>2 DEF ScreensInv, Progress
  <2> QED
    BY <1>2, <1>4, <1>5, <1>7, <2>1, <2>3 DEF Brings
<1>8. CASE e = "ok" /\ Missing(r) = {}
  <2>1. /\ list' \in Lists /\ list'.status = "success" /\ list'.pages = Got(r) /\ list'.got = {}
        /\ list'.cursor = IF LastPage > 1 THEN 2 ELSE 0
    BY <1>1, <1>8, LoadAppliedIs DEF Has
  <2>2. {p.page : p \in list'.pages} = {1}
    BY <1>5, <1>8, <2>1
  <2>3. 1..(IF list'.cursor = 0 THEN LastPage ELSE list'.cursor - 1) = {1}
    BY <2>1, LastPageAssumption
  <2>4. Progress'
    BY <1>1, <1>5, <2>1, <2>2, <2>3 DEF Progress
  <2> QED
    BY <1>2, <1>4, <1>5, <1>8, <2>1, <2>4 DEF Brings
<1> QED
  BY <1>6, <1>7, <1>8

LEMMA AnswerScreens ==
  ASSUME SessionInv, ScreensInv, Answered, UNCHANGED stack
  PROVE  ScreensInv'
<1>1. PICK r \in requests : \E e \in Ends(r) :
        /\ execute(r, e) /\ UNCHANGED shown
        /\ \/ Answers(r, e) /\ UNCHANGED form
           \/ r.part = "write" /\ UNCHANGED list /\ form' \in {form, "done", "error"}
  BY DEF Answered, ListAnswered, WriteAnswered, execute, Answers
<1>2. PICK e \in Ends(r) :
        /\ execute(r, e) /\ UNCHANGED shown
        /\ \/ Answers(r, e) /\ UNCHANGED form
           \/ r.part = "write" /\ UNCHANGED list /\ form' \in {form, "done", "error"}
  BY <1>1
<1>3. /\ UNCHANGED <<app, load, issued, stored, refreshing, signing, status>>
      /\ requests' = requests \ {r} /\ r \in Reqs
      /\ KeepSession \/ clearSession
  BY <1>2 DEF execute, handleUnauthorized, tasks, device, counts, ScreensInv, ScreensTyped
<1>4. /\ "store" \in overtaken => "store" \in overtaken'
      /\ session' = session \/ session' = NoSession
  <2>1. CASE clearSession
    BY <2>1 DEF clearSession, Storing
  <2>2. CASE KeepSession
    BY <2>2 DEF KeepSession
  <2> QED
    BY <1>3, <2>1, <2>2
<1>5. Brings(r, e)
  <2>1. CASE Answers(r, e)
    BY <2>1, LateAnswer, MoreAnswer, LoadAnswer DEF Answers
  <2>2. CASE r.part = "write" /\ UNCHANGED list
    <3>1. list' \in Lists
      BY <2>2 DEF ScreensInv, ScreensTyped
    <3>2. ASSUME list.status = "loading", NEW part \in list.missing
          PROVE  \E s \in requests \ {r} : s.part = part /\ s.of = load
      <4>1. PICK s \in requests : s.part = part /\ s.of = load
        BY <3>2 DEF ScreensInv, Progress
      <4>2. s # r
        BY <2>2, <3>1, <4>1 DEF Lists
      <4> QED
        BY <4>1, <4>2
    <3>3. Progress'
      BY <1>3, <2>2, <3>2 DEF ScreensInv, Progress
    <3>4. Asked'
      BY <1>3, <2>2 DEF ScreensInv, Asked, Current
    <3> QED
      BY <2>2, <3>1, <3>3, <3>4 DEF Brings
  <2> QED
    BY <1>2, <2>1, <2>2
<1>6. ScreensTyped'
  <2>1. IsFiniteSet(requests') /\ Cardinality(requests') <= MaxOpen[app]
    <3>1. IsFiniteSet(requests') /\ Cardinality(requests') <= Cardinality(requests)
      BY <1>3, FS_Subset DEF ScreensInv, ScreensTyped
    <3>2. Cardinality(requests) \in Nat /\ Cardinality(requests') \in Nat /\ MaxOpen[app] \in Nat
      BY <3>1, FS_CardinalityType, BoundsAssumption DEF ScreensInv, ScreensTyped
    <3> QED
      BY <3>1, <3>2 DEF ScreensInv, ScreensTyped
  <2>2. list' \in Lists /\ form' \in {"idle", "sending", "done", "error"}
    BY <1>2, <1>5 DEF Brings, ScreensInv, ScreensTyped
  <2> QED
    BY <1>2, <1>3, <2>1, <2>2 DEF ScreensInv, ScreensTyped, Backoffice
<1>7. Hidden'
  <2> SUFFICES ASSUME ~shown PROVE list' = NoList
    BY <1>2, <1>3 DEF ScreensInv, Hidden
  <2>1. r.of # load /\ list = NoList
    BY DEF ScreensInv, Hidden
  <2> QED
    BY <1>2, <2>1 DEF Answers
<1>8. TokensIssued'
  BY <1>3, <1>4 DEF ScreensInv, TokensIssued, SessionInv, SessionTyped, NoSession
<1>9. NobodyForgotten'
  BY <1>3, <1>4 DEF ScreensInv, NobodyForgotten, SessionInv, SessionTyped
<1>10. ASSUME "store" \notin overtaken' PROVE Gate'
  <2>1. CASE clearSession
    BY <1>2, <1>3, <1>10, <2>1, ClosingGate
  <2>2. CASE KeepSession
    BY <1>2, <1>3, <1>10, <2>2 DEF KeepSession, ScreensInv, Gate
  <2> QED
    BY <1>3, <2>1, <2>2
<1>11. ASSUME "store" \notin overtaken' PROVE Ours'
  <2> SUFFICES ASSUME session' # NoSession, shown PROVE Ours'
    BY <1>2 DEF Ours
  <2>1. session' = session /\ session # NoSession /\ Ours
    BY <1>4, <1>11 DEF ScreensInv
  <2>2. e = "ok" => r.token # NoToken
    BY <1>2 DEF Ends
  <2>3. e = "ok" /\ Current(r) => Page(r).by = session.user
    BY <1>3, <2>1, <2>2, PageIs DEF Ours, OurTokens
  <2>4. \A p \in list'.pages \cup list'.got : p.by = session'.user
    BY <1>5, <2>1, <2>3 DEF Brings, Ours
  <2>5. \A s \in requests' : Current(s)' => s.token \in OurTokens'
    BY <1>3, <2>1 DEF Ours, OurTokens, Current
  <2> QED
    BY <1>2, <2>1, <2>4, <2>5 DEF Ours
<1> QED
  BY <1>5, <1>6, <1>7, <1>8, <1>9, <1>10, <1>11 DEF Brings, ScreensInv

-----------------------------------------------------------------------------
(* New loads, and requests.                                                *)

Fresh(n) == n # load /\ (\A r \in requests : r.of # n) /\ (\A p \in list.pages : p.load # n)

LEMMA NewLoadIsFresh ==
  ASSUME ScreensTyped, Progress
  PROVE  NewLoad \in LoadNumbers /\ Fresh(NewLoad)
<1> DEFINE ofs == {r.of : r \in requests}
           pageLoads == {p.load : p \in list.pages}
           used == {load} \cup ofs \cup pageLoads
<1>1. IsFiniteSet(ofs) /\ Cardinality(ofs) <= Cardinality(requests)
  <2> DEFINE f == [r \in requests |-> r.of]
  <2>1. f \in [requests -> Loads]
    BY DEF ScreensTyped, Reqs
  <2>2. ofs \subseteq {f[x] : x \in requests}
    OBVIOUS
  <2> HIDE DEF f, ofs
  <2> QED
    BY <2>1, <2>2, ImageIsNoLarger DEF ScreensTyped
<1>2. IsFiniteSet(pageLoads) /\ Cardinality(pageLoads) <= 1
  <2>1. PICK n : pageLoads \subseteq {n}
    BY DEF Progress
  <2>2. IsFiniteSet({n}) /\ Cardinality({n}) = 1
    BY FS_Singleton
  <2> HIDE DEF pageLoads
  <2> QED
    BY <2>1, <2>2, FS_Subset
<1>3. IsFiniteSet({load}) /\ Cardinality({load}) = 1
  BY FS_Singleton
<1>4. /\ IsFiniteSet(used) /\ Cardinality(used) \in Nat
      /\ Cardinality(used) <= MaxOpen[app] + 2
  <2> HIDE DEF ofs, pageLoads
  <2>1. /\ IsFiniteSet({load} \cup ofs)
        /\ Cardinality({load} \cup ofs) = 1 + Cardinality(ofs) - Cardinality({load} \cap ofs)
    BY <1>1, <1>3, FS_Union
  <2>2. /\ IsFiniteSet(used)
        /\ Cardinality(used) = Cardinality({load} \cup ofs) + Cardinality(pageLoads)
                                 - Cardinality(({load} \cup ofs) \cap pageLoads)
    BY <1>2, <2>1, FS_Union
  <2>3. IsFiniteSet({load} \cap ofs) /\ IsFiniteSet(({load} \cup ofs) \cap pageLoads)
    BY <1>2, <1>3, FS_Subset
  <2>4. /\ Cardinality(used) \in Nat /\ Cardinality(ofs) \in Nat /\ Cardinality(pageLoads) \in Nat
        /\ Cardinality(requests) \in Nat /\ MaxOpen[app] \in Nat
        /\ Cardinality({load} \cap ofs) \in Nat
        /\ Cardinality(({load} \cup ofs) \cap pageLoads) \in Nat
        /\ Cardinality({load} \cup ofs) \in Nat
    BY <1>1, <1>2, <2>1, <2>2, <2>3, FS_CardinalityType, BoundsAssumption DEF ScreensTyped
  <2> HIDE DEF used
  <2> QED
    BY <1>1, <1>2, <2>1, <2>2, <2>4 DEF ScreensTyped
<1>5. \E n \in LoadNumbers : n \notin used
  <2> SUFFICES ASSUME LoadNumbers \subseteq used PROVE FALSE
    OBVIOUS
  <2> HIDE DEF used
  <2>1. IsFiniteSet(LoadNumbers) /\ Cardinality(LoadNumbers) <= Cardinality(used)
    BY <1>4, FS_Subset
  <2>2. Cardinality(LoadNumbers) > MaxOpen[app] + 2 /\ MaxOpen[app] \in Nat
    BY <2>1, BoundsAssumption DEF ScreensTyped
  <2>3. Cardinality(LoadNumbers) \in Nat
    BY <2>1, FS_CardinalityType
  <2> QED
    BY <1>4, <2>1, <2>2, <2>3
<1>6. \E n \in LoadNumbers : Fresh(n)
  BY <1>5 DEF Fresh
<1> QED
  BY <1>6 DEF NewLoad, Fresh

\* A new request, once getAccessToken has seen it.
Fired(n, part, page) ==
  [of |-> n, part |-> part, page |-> page, phase |-> IF NeedsRefresh THEN "refresh" ELSE "sent",
   gen |-> IF NeedsRefresh THEN generation ELSE 0, token |-> idToken]

LEMMA FiredRequest ==
  ASSUME NEW n, NEW part, NEW page, NEW r,
         r = [Request(n, part, page) EXCEPT !.phase = IF NeedsRefresh THEN "refresh" ELSE "sent",
                                            !.gen = IF NeedsRefresh THEN generation ELSE 0,
                                            !.token = idToken]
  PROVE  r = Fired(n, part, page)
<1>1. r = [of |-> n, part |-> part, page |-> page,
           phase |-> IF NeedsRefresh THEN "refresh" ELSE "sent",
           gen |-> IF NeedsRefresh THEN generation ELSE 0, token |-> idToken]
  BY DEF Request
<1> QED
  BY <1>1 DEF Fired

LEMMA FiredAre ==
  ASSUME NEW n, NEW parts, NEW page
  PROVE  getAccessToken({Request(n, part, page) : part \in parts}) =
           {Fired(n, part, page) : part \in parts}
<1> DEFINE WithToken(q) ==
             [q EXCEPT !.phase = IF NeedsRefresh THEN "refresh" ELSE "sent",
                       !.gen = IF NeedsRefresh THEN generation ELSE 0, !.token = idToken]
<1>1. \A rs : getAccessToken(rs) = {WithToken(q) : q \in rs}
  BY DEF getAccessToken
<1>2. \A part \in parts : WithToken(Request(n, part, page)) = Fired(n, part, page)
  <2> SUFFICES ASSUME NEW part \in parts
               PROVE  WithToken(Request(n, part, page)) = Fired(n, part, page)
    OBVIOUS
  <2> QED
    BY FiredRequest
<1> HIDE DEF WithToken
<1> QED
  BY <1>1, <1>2

LEMMA FiredAlone ==
  ASSUME NEW n, NEW part, NEW page
  PROVE  getAccessToken({Request(n, part, page)}) = {Fired(n, part, page)}
<1> DEFINE WithToken(q) ==
             [q EXCEPT !.phase = IF NeedsRefresh THEN "refresh" ELSE "sent",
                       !.gen = IF NeedsRefresh THEN generation ELSE 0, !.token = idToken]
<1>1. \A rs : getAccessToken(rs) = {WithToken(q) : q \in rs}
  BY DEF getAccessToken
<1>2. WithToken(Request(n, part, page)) = Fired(n, part, page)
  BY FiredRequest
<1> HIDE DEF WithToken
<1> QED
  BY <1>1, <1>2

LEMMA FiredIs ==
  ASSUME SessionTyped, NEW n \in Loads, NEW part \in {"page", "balance", "more", "write"},
         NEW page \in Nat
  PROVE  /\ Fired(n, part, page) \in Reqs
         /\ Fired(n, part, page).of = n /\ Fired(n, part, page).part = part
         /\ Fired(n, part, page).page = page
         /\ Fired(n, part, page).phase \in {"refresh", "sent"}
         /\ Fired(n, part, page).phase = "refresh" => NeedsRefresh
         /\ Fired(n, part, page).token \in OurTokens
<1>1. idToken \in Tokens /\ idToken \in OurTokens
  BY DEF idToken, Tokens, OurTokens, SessionTyped
<1> QED
  BY <1>1 DEF Fired, Reqs, SessionTyped

\* No more requests than there is room for.
LEMMA RoomForMore ==
  ASSUME ScreensTyped, NEW old \in SUBSET requests, NEW parts, NEW n, NEW page,
         IsFiniteSet(parts), Room(Cardinality(parts)), UNCHANGED app,
         requests' = old \cup {Fired(n, part, page) : part \in parts}
  PROVE  IsFiniteSet(requests') /\ Cardinality(requests') <= MaxOpen[app]
<1> DEFINE new == {Fired(n, part, page) : part \in parts}
<1>1. IsFiniteSet(new) /\ Cardinality(new) <= Cardinality(parts)
  <2> DEFINE f == [part \in parts |-> Fired(n, part, page)]
  <2>1. f \in [parts -> new] /\ new \subseteq {f[x] : x \in parts}
    OBVIOUS
  <2> HIDE DEF f, new
  <2> QED
    BY <2>1, ImageIsNoLarger
<1>2. IsFiniteSet(old) /\ Cardinality(old) <= Cardinality(requests)
  BY FS_Subset DEF ScreensTyped
<1> HIDE DEF new
<1>3. /\ IsFiniteSet(old \cup new)
      /\ Cardinality(old \cup new) = Cardinality(old) + Cardinality(new) - Cardinality(old \cap new)
  BY <1>1, <1>2, FS_Union
<1>4. IsFiniteSet(old \cap new)
  BY <1>1, FS_Subset
<1>5. /\ Cardinality(old) \in Nat /\ Cardinality(new) \in Nat /\ Cardinality(old \cap new) \in Nat
      /\ Cardinality(requests) \in Nat /\ Cardinality(parts) \in Nat
      /\ MaxOpen[app] \in Nat /\ Cardinality(old \cup new) \in Nat
  BY <1>1, <1>2, <1>3, <1>4, FS_CardinalityType, BoundsAssumption DEF ScreensTyped
<1>6. Cardinality(requests) + Cardinality(parts) <= MaxOpen[app]
  BY DEF Room
<1>7. requests' = old \cup new
  BY DEF new
<1>8. Cardinality(old \cup new) <= MaxOpen[app]
  BY <1>1, <1>2, <1>3, <1>5, <1>6
<1> QED
  BY <1>3, <1>7, <1>8

\* What a load asks for.
Parts == Hooks \cup {{"page"}}

LEMMA PartsAre ==
  ASSUME NEW parts \in Parts
  PROVE  parts \subseteq {"page", "balance"} /\ "page" \in parts /\ IsFiniteSet(parts)
<1>1. parts \subseteq {"page", "balance"} /\ "page" \in parts
  BY HooksAssumption DEF Parts
<1>2. IsFiniteSet({"page"} \cup {"balance"})
  BY FS_Singleton, FS_AddElement
<1>3. parts \in SUBSET ({"page"} \cup {"balance"})
  BY <1>1
<1>4. IsFiniteSet(parts)
  BY <1>2, <1>3, FS_Subset
<1> QED
  BY <1>1, <1>4

LEMMA LoadingListIs ==
  ASSUME NEW before \in Lists, NEW parts \in SUBSET {"page", "balance"}
  PROVE  Has([before EXCEPT !.status = "loading", !.more = FALSE, !.missing = parts, !.got = {}],
             "loading", before.pages, before.cursor, parts, {})
<1> DEFINE a == [before EXCEPT !.status = "loading"]
           b == [a EXCEPT !.more = FALSE]
           c == [b EXCEPT !.missing = parts]
<1>1. Has(a, "loading", before.pages, before.cursor, before.missing, before.got)
  BY DEF Lists, Has
<1>2. Has(b, "loading", before.pages, before.cursor, before.missing, before.got)
  <2> HIDE DEF a
  <2> QED
    BY <1>1 DEF Has, Lists
<1>3. Has(c, "loading", before.pages, before.cursor, parts, before.got)
  <2> HIDE DEF b
  <2> QED
    BY <1>2 DEF Has, Lists
<1>4. [before EXCEPT !.status = "loading", !.more = FALSE, !.missing = parts, !.got = {}] =
        [c EXCEPT !.got = {}]
  OBVIOUS
<1> HIDE DEF a, b, c
<1> QED
  BY <1>3, <1>4 DEF Has, Lists

\* A press of the button.
LEMMA PressedListIs ==
  ASSUME list \in Lists
  PROVE  /\ Has([list EXCEPT !.more = TRUE],
                list.status, list.pages, list.cursor, list.missing, list.got)
         /\ [list EXCEPT !.more = TRUE].more
  BY DEF Lists, Has

-----------------------------------------------------------------------------
(* The steps of the screens.                                               *)

\* What a screen asks for, it asks with a refresh if one is needed.
Calls ==
  \/ UNCHANGED refreshing /\ requests' \subseteq requests
  \/ /\ refreshing' = IF NeedsRefresh THEN refreshWith(session.user, generation) ELSE refreshing
     /\ \A r \in requests' : r \in requests \/ r.phase = "sent" \/ (r.phase = "refresh" /\ NeedsRefresh)

LEMMA CallsShare ==
  ASSUME SessionInv, ScreensInv, Calls
  PROVE  /\ refreshing' = refreshing \/ (refreshing = Idle /\ NeedsRefresh)
         /\ refreshing' # refreshing =>
              /\ refreshing' # Idle /\ refreshing'.at = "provider" /\ refreshing'.token = 0
              /\ refreshing'.gen = generation /\ refreshing'.user = session.user
         /\ refreshing # Idle \/ (\E r \in requests' \ requests : r.phase = "refresh") =>
              refreshing' # Idle
<1>1. session.user \in Users \cup {Nobody} /\ SessionTyped
  BY DEF SessionInv, SessionTyped
<1>2. refreshing = Idle =>
        refreshWith(session.user, generation) =
          [user |-> session.user, gen |-> generation, token |-> 0, at |-> "provider"]
  BY DEF refreshWith, Idle
<1>3. /\ refreshing # Idle => refreshWith(session.user, generation) = refreshing
      /\ refreshWith(session.user, generation) # Idle
  BY <1>1, SharedRefresh
<1>4. \A r \in requests' \ requests : r.phase = "refresh" =>
        NeedsRefresh /\ refreshing' = refreshWith(session.user, generation)
  BY DEF Calls
<1> QED
  BY <1>2, <1>3, <1>4 DEF Calls

LEMMA CallsKeep ==
  ASSUME SessionInv, ScreensInv, Quiet, Calls
  PROVE  TokensIssued' /\ NobodyForgotten'
<1>1. UNCHANGED <<session, signing, deletes, stored, issued, app>>
  BY DEF Quiet, device, counts
<1>2. TokensIssued'
  BY <1>1, CallsShare DEF ScreensInv, TokensIssued, SessionInv, SessionTyped
<1>3. NobodyForgotten'
  <2> SUFFICES ASSUME NEW r \in requests'
               PROVE  r.phase = "refresh" => refreshing' # Idle
    BY <1>1 DEF NobodyForgotten
  <2>1. CASE r \in requests
    BY <2>1, CallsShare DEF ScreensInv, NobodyForgotten
  <2>2. CASE r \notin requests
    BY <2>2, CallsShare DEF Calls
  <2> QED
    BY <2>1, <2>2
<1> QED
  BY <1>2, <1>3

\* The ways the gate and the stack of routes may go.
Opened(name) == [name |-> name, by |-> viewer]
Rendered == <<[Home EXCEPT !.by = session.user]>> \o Tail(stack)

Moves ==
  \/ stack' = stack
  \/ /\ Backoffice
     /\ \/ Len(stack) > 1 /\ stack' = <<Head(stack)>>
        \/ Len(stack) > 1 /\ stack' = Front(stack)
        \/ Len(stack) < MaxDepth /\ \E name \in Names : stack' = Append(stack, Opened(name))
        \/ \E name \in Names : stack' = Append(Front(stack), Opened(name))

Turns ==
  \/ shown /\ shown' /\ Moves
  \/ /\ shown' = ~shown /\ (shown' <=> status = "authenticated")
     /\ \/ stack' = stack
        \/ Backoffice /\ shown' /\ stack' = Rendered
        \/ Backoffice /\ ~shown' /\ stack' = <<Home>>
     /\ Backoffice /\ ~shown' /\ status = "anonymous" => stack' = <<Home>>

LEMMA TurnsKeepGate ==
  ASSUME SessionInv, ScreensInv, Quiet, Calls, Turns, "store" \notin overtaken
  PROVE  Gate'
<1>1. UNCHANGED <<session, status, generation, signing, overtaken, app>>
  BY DEF Quiet, counts
<1>2. Gate /\ Course
  BY DEF ScreensInv, SessionInv
<1>3. status \in {"initializing", "unavailable"} => ~shown'
  BY <1>2 DEF Turns, Gate
<1>4. signing # Idle => ~shown'
  BY <1>2 DEF Turns, Gate, Course, Starting, SignedOut, SignedIn, SigningOut
<1>5. ~shown' => stack' = <<Home>>
  <2> SUFFICES ASSUME ~shown' PROVE stack' = <<Home>>
    OBVIOUS
  <2>1. shown /\ status # "authenticated" /\ status \in Statuses
    BY DEF Turns, SessionInv, SessionTyped, ScreensInv, ScreensTyped
  <2>2. status = "anonymous"
    BY <1>2, <2>1 DEF Gate, Statuses
  <2>3. ~Backoffice => stack = <<Home>>
    BY DEF ScreensInv, ScreensTyped
  <2> QED
    BY <2>2, <2>3 DEF Turns
<1>6. /\ refreshing'.at = "storage" => refreshing'.gen = generation
      /\ session # NoSession /\ refreshing' # Idle /\ refreshing'.gen = generation =>
           refreshing'.user = session.user
  BY <1>2, CallsShare DEF Gate
<1> QED
  BY <1>1, <1>3, <1>4, <1>5, <1>6 DEF Gate

LEMMA FrontIs ==
  ASSUME stack \in Seq(Routes), Len(stack) \in 1..MaxDepth
  PROVE  /\ Front(stack) \in Seq(Routes) /\ Len(Front(stack)) = Len(stack) - 1
         /\ \A i \in 1..(Len(stack) - 1) : Front(stack)[i] = stack[i]
  BY DEF Front

LEMMA RenderedIs ==
  ASSUME SessionInv, stack \in Seq(Routes), Len(stack) \in 1..MaxDepth
  PROVE  /\ Rendered \in Seq(Routes) /\ Len(Rendered) = Len(stack)
         /\ \A i \in 2..Len(stack) : Rendered[i] = stack[i]
<1> DEFINE h == [Home EXCEPT !.by = session.user]
<1>1. h \in Routes
  BY DEF Home, Routes, Names, SessionInv, SessionTyped
<1>2. /\ Tail(stack) \in Seq(Routes) /\ Len(Tail(stack)) = Len(stack) - 1
      /\ \A i \in 1..(Len(stack) - 1) : Tail(stack)[i] = stack[i + 1]
  OBVIOUS
<1> HIDE DEF h
<1>3. /\ <<h>> \in Seq(Routes) /\ Len(<<h>>) = 1 /\ Len(stack) \in Nat
  BY <1>1
<1>4. /\ <<h>> \o Tail(stack) \in Seq(Routes)
      /\ Len(<<h>> \o Tail(stack)) = Len(stack)
  BY <1>2, <1>3
<1>5. ASSUME NEW i \in 2..Len(stack) PROVE (<<h>> \o Tail(stack))[i] = stack[i]
  <2>1. i \in Nat /\ i - 1 \in 1..(Len(stack) - 1) /\ i > Len(<<h>>) /\ (i - 1) + 1 = i
    BY <1>3
  <2>2. (<<h>> \o Tail(stack))[i] = Tail(stack)[i - 1]
    BY <1>2, <1>3, <2>1
  <2> QED
    BY <1>2, <2>1, <2>2
<1> QED
  BY <1>4, <1>5 DEF Rendered, h

LEMMA ViewerIs ==
  ASSUME SessionInv, stack \in Seq(Routes), Len(stack) \in 1..MaxDepth
  PROVE  viewer \in Users \cup {Nobody} /\ (session # NoSession => viewer = session.user)
<1>1. Head(stack) \in Routes
  OBVIOUS
<1> QED
  BY <1>1 DEF viewer, Routes, SessionInv, SessionTyped

LEMMA PushedIs ==
  ASSUME NEW old \in Seq(Routes), NEW o \in Routes
  PROVE  /\ Append(old, o) \in Seq(Routes) /\ Len(Append(old, o)) = Len(old) + 1
         /\ \A i \in 1..Len(old) : Append(old, o)[i] = old[i]
         /\ Append(old, o)[Len(old) + 1] = o
  OBVIOUS

LEMMA TurnsKeepStack ==
  ASSUME SessionInv, ScreensInv, Quiet, Turns
  PROVE  /\ stack' \in Seq(Routes) /\ Len(stack') \in 1..MaxDepth
         /\ ~Backoffice => stack' = <<Home>>
         /\ session # NoSession =>
              ((\A i \in 2..Len(stack) : stack[i].by = session.user) =>
                \A i \in 2..Len(stack') : stack'[i].by = session.user)
<1>1. /\ stack \in Seq(Routes) /\ Len(stack) \in 1..MaxDepth /\ MaxDepth \in Nat \ {0}
      /\ ~Backoffice => stack = <<Home>>
  BY MaxDepthAssumption DEF ScreensInv, ScreensTyped
<1>2. <<Home>> \in Seq(Routes) /\ Len(<<Home>>) = 1
  <2>1. Home \in Routes
    BY DEF Home, Routes, Names
  <2> QED
    BY <2>1
<1>3. \A name \in Names : /\ Opened(name) \in Routes
                          /\ session # NoSession => Opened(name).by = session.user
  BY <1>1, ViewerIs DEF Opened, Routes
<1>4. CASE stack' = stack
  BY <1>1, <1>4
<1>5. CASE Backoffice /\ stack' = <<Home>>
  BY <1>1, <1>2, <1>5
<1>6. CASE Backoffice /\ Len(stack) > 1 /\ stack' = Front(stack)
  BY <1>1, <1>6, FrontIs
<1>7. ASSUME Backoffice, Len(stack) < MaxDepth, NEW name \in Names, stack' = Append(stack, Opened(name))
      PROVE  /\ stack' \in Seq(Routes) /\ Len(stack') \in 1..MaxDepth
             /\ session # NoSession /\ (\A i \in 2..Len(stack) : stack[i].by = session.user) =>
                  \A i \in 2..Len(stack') : stack'[i].by = session.user
  <2>1. PICK o \in Routes : o = Opened(name) /\ (session # NoSession => o.by = session.user)
    BY <1>3
  <2>2. /\ stack' \in Seq(Routes) /\ Len(stack') = Len(stack) + 1
        /\ \A i \in 1..Len(stack) : stack'[i] = stack[i]
        /\ stack'[Len(stack) + 1] = o
    BY <1>1, <1>7, <2>1, PushedIs
  <2>4. ASSUME session # NoSession, \A i \in 2..Len(stack) : stack[i].by = session.user,
               NEW i \in 2..Len(stack')
        PROVE  stack'[i].by = session.user
    <3>1. CASE i = Len(stack) + 1
      BY <2>1, <2>2, <2>4, <3>1
    <3>2. CASE i # Len(stack) + 1
      <4>1. i \in 2..Len(stack) /\ stack'[i] = stack[i]
        BY <1>1, <2>2, <3>2
      <4> QED
        BY <2>4, <4>1
    <3> QED
      BY <3>1, <3>2
  <2>5. Len(stack') \in 1..MaxDepth
    BY <1>1, <1>7, <2>2
  <2> QED
    BY <2>2, <2>4, <2>5
<1>8. ASSUME Backoffice, NEW name \in Names, stack' = Append(Front(stack), Opened(name))
      PROVE  /\ stack' \in Seq(Routes) /\ Len(stack') \in 1..MaxDepth
             /\ session # NoSession /\ (\A i \in 2..Len(stack) : stack[i].by = session.user) =>
                  \A i \in 2..Len(stack') : stack'[i].by = session.user
  <2>1. PICK o \in Routes : o = Opened(name) /\ (session # NoSession => o.by = session.user)
    BY <1>3
  <2>2. /\ Front(stack) \in Seq(Routes) /\ Len(Front(stack)) = Len(stack) - 1
        /\ \A i \in 1..(Len(stack) - 1) : Front(stack)[i] = stack[i]
    BY <1>1, FrontIs
  <2>3. /\ stack' \in Seq(Routes) /\ Len(stack') = Len(stack)
        /\ \A i \in 1..(Len(stack) - 1) : stack'[i] = stack[i]
        /\ stack'[Len(stack)] = o
    BY <1>1, <1>8, <2>1, <2>2, PushedIs
  <2>4. ASSUME session # NoSession, \A i \in 2..Len(stack) : stack[i].by = session.user,
               NEW i \in 2..Len(stack')
        PROVE  stack'[i].by = session.user
    <3>1. CASE i = Len(stack)
      BY <2>1, <2>3, <2>4, <3>1
    <3>2. CASE i # Len(stack)
      <4>1. i \in 2..Len(stack) /\ stack'[i] = stack[i]
        BY <1>1, <2>3, <3>2
      <4> QED
        BY <2>4, <4>1
    <3> QED
      BY <3>1, <3>2
  <2>5. Len(stack') \in 1..MaxDepth
    BY <1>1, <2>3
  <2> QED
    BY <2>3, <2>4, <2>5
<1>9. CASE Backoffice /\ stack' = Rendered
  BY <1>1, <1>9, RenderedIs
<1>10. CASE Backoffice /\ Len(stack) > 1 /\ stack' = <<Head(stack)>>
  <2>1. Head(stack) \in Routes
    BY <1>1
  <2> DEFINE h == Head(stack)
  <2> HIDE DEF h
  <2>2. <<h>> \in Seq(Routes) /\ Len(<<h>>) = 1
    BY <2>1 DEF h
  <2> QED
    BY <1>1, <1>10, <2>2 DEF h
<1> QED
  BY <1>1, <1>4, <1>5, <1>6, <1>7, <1>8, <1>9, <1>10 DEF Turns, Moves

\* What a step of the screens does to the list and its requests.
Works ==
  /\ Calls
  /\ load' \in Loads /\ list' \in Lists
  /\ requests' \subseteq Reqs /\ IsFiniteSet(requests') /\ Cardinality(requests') <= MaxOpen[app]
  /\ Progress' /\ Asked' /\ Hidden'
  /\ \A p \in list'.pages \cup list'.got : p \in list.pages \cup list.got
  /\ \A r \in requests' : Current(r)' => r.token \in OurTokens \/ (r \in requests /\ Current(r))

LEMMA StartLoadWorks ==
  ASSUME SessionInv, ScreensInv, Quiet, shown', NEW before \in {list, NoList}, NEW parts \in Parts,
         StartLoad(before, parts)
  PROVE  Works
<1>1. /\ load' = NewLoad /\ UNCHANGED app
      /\ requests' = Kept \cup {Fired(load', part, 1) : part \in parts}
      /\ refreshing' = IF NeedsRefresh THEN refreshWith(session.user, generation) ELSE refreshing
      /\ Room(Cardinality(parts))
      /\ list' = [before EXCEPT !.status = "loading", !.more = FALSE, !.missing = parts, !.got = {}]
  BY FiredAre DEF StartLoad, Ask, Quiet, counts
<1>2. /\ parts \subseteq {"page", "balance"} /\ "page" \in parts /\ IsFiniteSet(parts)
  BY PartsAre
<1>3. load' \in Loads /\ Fresh(load')
  BY <1>1, NewLoadIsFresh DEF ScreensInv, Loads
<1>4. \A part \in parts :
        /\ Fired(load', part, 1) \in Reqs
        /\ Fired(load', part, 1).of = load' /\ Fired(load', part, 1).part = part
        /\ Fired(load', part, 1).page = 1
        /\ Fired(load', part, 1).phase \in {"refresh", "sent"}
        /\ Fired(load', part, 1).phase = "refresh" => NeedsRefresh
        /\ Fired(load', part, 1).token \in OurTokens
  BY <1>2, <1>3, FiredIs DEF SessionInv
<1>5. /\ before \in Lists /\ before.pages \subseteq list.pages
      /\ \A p, q \in before.pages : p.load = q.load
  BY NoListIs DEF Has, ScreensInv, ScreensTyped, Progress
<1>6. /\ list' \in Lists /\ list'.status = "loading" /\ list'.pages = before.pages
      /\ list'.missing = parts /\ list'.got = {}
  <2>1. Has([before EXCEPT !.status = "loading", !.more = FALSE, !.missing = parts, !.got = {}],
            "loading", before.pages, before.cursor, parts, {})
    BY <1>2, <1>5, LoadingListIs
  <2>2. Has(list', "loading", before.pages, before.cursor, parts, {})
    BY <1>1, <2>1
  <2> QED
    BY <2>2 DEF Has
<1>7. \A r \in requests' : r \in Kept \/ \E part \in parts : r = Fired(load', part, 1)
  BY <1>1
<1>8. \A r \in Kept : r \in requests /\ r.of # load'
  BY <1>3 DEF Kept, Fresh
<1>9. requests' \subseteq Reqs
  BY <1>4, <1>7, <1>8 DEF ScreensInv, ScreensTyped
<1>10. IsFiniteSet(requests') /\ Cardinality(requests') <= MaxOpen[app]
  <2>1. Kept \in SUBSET requests /\ ScreensTyped
    BY <1>8 DEF ScreensInv
  <2>2. /\ requests' = Kept \cup {Fired(load', part, 1) : part \in parts}
        /\ IsFiniteSet(parts) /\ Room(Cardinality(parts)) /\ UNCHANGED app
    BY <1>1, <1>2
  <2> QED
    BY <2>1, <2>2, RoomForMore
<1>11. Calls
  BY <1>1, <1>4, <1>7, <1>8 DEF Calls
<1>12. Progress'
  <2>1. \A part \in parts : \E r \in requests' : r.part = part /\ r.of = load'
    BY <1>1, <1>4
  <2> QED
    BY <1>2, <1>5, <1>6, <2>1 DEF Progress
<1>13. \A r \in requests' : Current(r)' =>
         r.part \in {"page", "balance"} /\ r.page = 1 /\ r.token \in OurTokens
  BY <1>2, <1>4, <1>7, <1>8 DEF Current
<1>14. Asked'
  BY <1>13 DEF Asked
<1>15. Hidden'
  BY DEF Hidden
<1> QED
  BY <1>3, <1>5, <1>6, <1>9, <1>10, <1>11, <1>12, <1>13, <1>14, <1>15 DEF Works

LEMMA StopLoadWorks ==
  ASSUME SessionInv, ScreensInv, Quiet, StopLoad
  PROVE  Works
<1>1. /\ load' = NewLoad /\ requests' = Kept /\ list' = NoList
      /\ UNCHANGED <<refreshing, app>>
  BY DEF StopLoad, Quiet, counts
<1>2. load' \in Loads /\ Fresh(load')
  BY <1>1, NewLoadIsFresh DEF ScreensInv, Loads
<1>3. \A r \in requests' : r \in requests /\ r.of # load'
  BY <1>1, <1>2 DEF Kept, Fresh
<1>4. requests' \subseteq Reqs /\ IsFiniteSet(requests') /\ Cardinality(requests') <= MaxOpen[app]
  <2>1. IsFiniteSet(requests') /\ Cardinality(requests') <= Cardinality(requests)
    BY <1>3, FS_Subset DEF ScreensInv, ScreensTyped
  <2>2. Cardinality(requests) \in Nat /\ Cardinality(requests') \in Nat /\ MaxOpen[app] \in Nat
    BY <2>1, FS_CardinalityType, BoundsAssumption DEF ScreensInv, ScreensTyped
  <2> QED
    BY <1>3, <2>1, <2>2 DEF ScreensInv, ScreensTyped
<1>5. Progress' /\ Asked' /\ Hidden'
  BY <1>1, <1>3, NoListIs DEF Has, Progress, Asked, Hidden, Current
<1> QED
  BY <1>1, <1>2, <1>3, <1>4, <1>5, NoListIs DEF Has, Works, Calls, Current

\* One more request of the present load.
LEMMA OneMore ==
  ASSUME SessionInv, ScreensInv, Quiet, NEW part \in {"more", "write"}, NEW page \in Nat, Room(1),
         requests' = requests \cup getAccessToken({Request(load, part, page)}),
         refreshing' = IF NeedsRefresh THEN refreshWith(session.user, generation) ELSE refreshing
  PROVE  \E r \in Reqs :
           /\ requests' = requests \cup {r} /\ r.of = load /\ r.part = part /\ r.page = page
           /\ r.token \in OurTokens
           /\ Calls /\ requests' \subseteq Reqs
           /\ IsFiniteSet(requests') /\ Cardinality(requests') <= MaxOpen[app]
<1>1. getAccessToken({Request(load, part, page)}) = {Fired(load, part, page)}
  BY FiredAlone
<1>2. requests' = requests \cup {Fired(load, x, page) : x \in {part}}
  BY <1>1
<1> DEFINE r == Fired(load, part, page)
<1>3. /\ r \in Reqs /\ r.of = load /\ r.part = part /\ r.page = page
      /\ r.phase \in {"refresh", "sent"} /\ (r.phase = "refresh" => NeedsRefresh)
      /\ r.token \in OurTokens
  BY FiredIs DEF SessionInv, ScreensInv, ScreensTyped
<1>4. requests' = requests \cup {r}
  BY <1>2
<1>5. IsFiniteSet({part}) /\ Room(Cardinality({part}))
  BY FS_Singleton
<1>6. IsFiniteSet(requests') /\ Cardinality(requests') <= MaxOpen[app]
  <2>1. UNCHANGED app /\ requests \in SUBSET requests
    BY DEF Quiet, counts
  <2> QED
    BY <1>2, <1>5, <2>1, RoomForMore DEF ScreensInv
<1> HIDE DEF r
<1>7. Calls
  BY <1>3, <1>4 DEF Calls
<1> QED
  BY <1>3, <1>4, <1>6, <1>7 DEF ScreensInv, ScreensTyped

LEMMA LoadMoreWorks ==
  ASSUME SessionInv, ScreensInv, Quiet, shown', loadMore
  PROVE  Works
<1>1. /\ list.status = "success" /\ list.cursor # 0 /\ ~list.more /\ Room(1) /\ UNCHANGED load
      /\ list' = [list EXCEPT !.more = TRUE]
      /\ requests' = requests \cup getAccessToken({Request(load, "more", list.cursor)})
      /\ refreshing' = IF NeedsRefresh THEN refreshWith(session.user, generation) ELSE refreshing
  BY DEF loadMore
<1>2. /\ list \in Lists /\ load \in Loads /\ list.cursor \in Nat
      /\ list' \in Lists /\ list'.status = "success" /\ list'.more
      /\ list'.pages = list.pages /\ list'.cursor = list.cursor
      /\ list'.missing = list.missing /\ list'.got = list.got
  <2>1. list \in Lists /\ load \in Loads
    BY DEF ScreensInv, ScreensTyped
  <2>2. list.cursor \in Nat
    BY <2>1, LastPageAssumption DEF Lists
  <2>3. Has(list', list.status, list.pages, list.cursor, list.missing, list.got) /\ list'.more
    BY <1>1, <2>1, PressedListIs
  <2> QED
    BY <1>1, <2>1, <2>2, <2>3 DEF Has
<1>3. PICK r \in Reqs :
           /\ requests' = requests \cup {r} /\ r.of = load /\ r.part = "more" /\ r.page = list.cursor
           /\ r.token \in OurTokens
           /\ Calls /\ requests' \subseteq Reqs
           /\ IsFiniteSet(requests') /\ Cardinality(requests') <= MaxOpen[app]
  BY <1>1, <1>2, OneMore
<1>4. Progress'
  BY <1>1, <1>2 DEF ScreensInv, Progress
<1>5. \A s \in requests : Current(s) => s.part # "more" /\ s.page = 1
  BY <1>1 DEF ScreensInv, Asked
<1>6. Asked'
  BY <1>1, <1>2, <1>3, <1>5 DEF Asked, Current
<1>7. Hidden'
  BY DEF Hidden
<1> QED
  BY <1>1, <1>2, <1>3, <1>4, <1>6, <1>7 DEF Works, Current

LEMMA ExecuteWorks ==
  ASSUME SessionInv, ScreensInv, Quiet, shown', Execute
  PROVE  Works
<1>1. /\ Room(1) /\ UNCHANGED <<load, list>>
      /\ requests' = requests \cup getAccessToken({Request(load, "write", 0)})
      /\ refreshing' = IF NeedsRefresh THEN refreshWith(session.user, generation) ELSE refreshing
  BY DEF Execute
<1>2. PICK r \in Reqs :
           /\ requests' = requests \cup {r} /\ r.of = load /\ r.part = "write" /\ r.page = 0
           /\ r.token \in OurTokens
           /\ Calls /\ requests' \subseteq Reqs
           /\ IsFiniteSet(requests') /\ Cardinality(requests') <= MaxOpen[app]
  BY <1>1, OneMore
<1>3. Progress'
  BY <1>1, <1>2 DEF ScreensInv, Progress
<1>4. Asked'
  BY <1>1, <1>2 DEF ScreensInv, Asked, Current
<1>5. Hidden'
  BY DEF Hidden
<1> QED
  BY <1>1, <1>2, <1>3, <1>4, <1>5 DEF ScreensInv, ScreensTyped, Works, Current

LEMMA WorksKeep ==
  ASSUME SessionInv, ScreensInv, Quiet, Works, Turns,
         shown' \in BOOLEAN, form' \in {form, "idle", "sending"}
  PROVE  ScreensInv'
<1>1. UNCHANGED <<session, status, generation, overtaken, app>>
  BY DEF Quiet, counts
<1>2. /\ stack' \in Seq(Routes) /\ Len(stack') \in 1..MaxDepth
      /\ ~Backoffice => stack' = <<Home>>
  BY TurnsKeepStack
<1>3. ScreensTyped'
  BY <1>1, <1>2 DEF Works, ScreensInv, ScreensTyped, Backoffice
<1>4. TokensIssued' /\ NobodyForgotten'
  BY CallsKeep DEF Works
<1>5. "store" \notin overtaken => Gate'
  BY TurnsKeepGate DEF Works
<1>6. ASSUME "store" \notin overtaken PROVE Ours'
  <2> SUFFICES ASSUME session # NoSession, shown' PROVE Ours'
    BY <1>1 DEF Ours
  <2>1. Gate /\ Ours
    BY <1>6 DEF ScreensInv
  <2>2. shown \/ (stack = <<Home>> /\ list = NoList)
    BY <2>1 DEF Gate, ScreensInv, Hidden
  <2>3. \A p \in list.pages \cup list.got : p.by = session.user
    BY <2>1, <2>2, NoListIs DEF Ours, Has
  <2>4. \A r \in requests : Current(r) => r.token \in OurTokens
    BY <2>1, <2>2 DEF Ours, ScreensInv, Hidden, Current, Gate
  <2>5. \A i \in 2..Len(stack) : stack[i].by = session.user
    <3>1. Len(<<Home>>) = 1
      OBVIOUS
    <3> QED
      BY <2>1, <2>2, <3>1 DEF Ours
  <2>6. \A i \in 2..Len(stack') : stack'[i].by = session.user
    BY <2>2, <2>5, TurnsKeepStack
  <2>7. OurTokens' = OurTokens
    BY <1>1 DEF OurTokens
  <2> QED
    BY <1>1, <2>3, <2>4, <2>6, <2>7 DEF Works, Ours
<1> QED
  BY <1>1, <1>3, <1>4, <1>5, <1>6 DEF Works, ScreensInv

\* A step of the screens does one of these.
Asking ==
  \/ shown' /\ \E before \in {list, NoList}, parts \in Parts : StartLoad(before, parts)
  \/ StopLoad
  \/ shown' /\ (loadMore \/ Execute)

LEMMA AskingWorks ==
  ASSUME SessionInv, ScreensInv, Quiet, Asking
  PROVE  Works
  BY StartLoadWorks, StopLoadWorks, LoadMoreWorks, ExecuteWorks DEF Asking

LEMMA MountAsking ==
  ASSUME NEW routes, Mount(routes), shown'
  PROVE  Asking /\ form' = "idle" /\ stack' = routes
<1>1. {"page"} \in Parts /\ NoList \in {list, NoList}
  BY DEF Parts
<1> QED
  BY <1>1 DEF Mount, Asking

LEMMA ClientAsks ==
  ASSUME ScreensInv, ClientReloads \/ ClientLoadsMore \/ ClientRenders
  PROVE  Turns /\ Asking /\ shown' \in BOOLEAN /\ form' \in {form, "idle", "sending"}
<1>1. /\ ~Backoffice /\ app \in Parts /\ list \in {list, NoList} /\ shown \in BOOLEAN
      /\ UNCHANGED <<stack, form>>
  <2>1. ~Backoffice /\ UNCHANGED <<stack, form>>
    BY DEF ClientReloads, ClientLoadsMore, ClientRenders, Backoffice
  <2> QED
    BY <2>1 DEF Parts, ScreensInv, ScreensTyped, Apps, Backoffice
<1>2. CASE ClientReloads
  BY <1>1, <1>2 DEF ClientReloads, Turns, Moves, Asking
<1>3. CASE ClientLoadsMore
  BY <1>1, <1>3 DEF ClientLoadsMore, Turns, Moves, Asking
<1>4. CASE ClientRenders
  BY <1>1, <1>4 DEF ClientRenders, Turns, Asking
<1> QED
  BY <1>2, <1>3, <1>4

LEMMA StaffRendersAsks ==
  ASSUME ScreensInv, Backoffice, BackofficeRenders
  PROVE  Turns /\ Asking /\ shown' \in BOOLEAN /\ form' \in {form, "idle", "sending"}
<1>1. /\ shown \in BOOLEAN /\ shown # (status = "authenticated") /\ shown' = ~shown
  BY DEF BackofficeRenders, ScreensInv, ScreensTyped
<1>2. CASE shown'
  <2>1. Mount(Rendered)
    BY <1>2 DEF BackofficeRenders, Rendered
  <2> QED
    BY <1>1, <1>2, <2>1, MountAsking DEF Turns
<1>3. CASE ~shown'
  <2>1. StopLoad /\ form' = "idle" /\ stack' = IF status = "anonymous" THEN <<Home>> ELSE stack
    BY <1>3 DEF BackofficeRenders
  <2> QED
    BY <1>1, <1>3, <2>1 DEF Turns, Asking
<1> QED
  BY <1>1, <1>2, <1>3

\* The screens of the staff app, by what they do.
Navigates == back \/ home \/ \E name \in Names : push(name) \/ replace(name)

LEMMA StaffScreensDo ==
  ASSUME Screens
  PROVE  /\ shown /\ UNCHANGED shown
         /\ \/ Navigates
            \/ Execute /\ UNCHANGED stack
            \/ StartLoad(list, {"page"}) /\ UNCHANGED stack /\ form' \in {form, "idle"}
<1> USE DEF At, Loaded, Done, Apply, Navigates, Names, Loading
<1>1. CASE Header \/ Retry
  BY <1>1 DEF Header, Retry
<1>2. CASE HomeScreen
  <2>1. shown /\ UNCHANGED shown /\ \E name \in modulesFor : push(name)
    BY <1>2 DEF HomeScreen
  <2>2. modulesFor \subseteq Names
    BY DEF modulesFor
  <2> QED
    BY <2>1, <2>2
<1>3. CASE UsersListScreen \/ UserDetailScreen \/ UserStatusScreen \/ UserRolesScreen
  BY <1>3 DEF UsersListScreen, UserDetailScreen, UserStatusScreen, UserRolesScreen
<1>4. CASE CasesListScreen \/ CaseDetailScreen
  BY <1>4 DEF CasesListScreen, CaseDetailScreen
<1>5. CASE CaseStatusScreen \/ CaseAssignScreen \/ CaseEscalateScreen
  BY <1>5 DEF CaseStatusScreen, CaseAssignScreen, CaseEscalateScreen
<1>6. CASE CustomerSearchScreen \/ CustomerProfileScreen \/ CustomerOperationsScreen
  BY <1>6 DEF CustomerSearchScreen, CustomerProfileScreen, CustomerOperationsScreen
<1>7. CASE OperationSearchScreen \/ OperationScreen
  BY <1>7 DEF OperationSearchScreen, OperationScreen
<1>8. CASE ReversalCreateScreen \/ ReversalDetailScreen
  BY <1>8 DEF ReversalCreateScreen, ReversalDetailScreen
<1> QED
  BY <1>1, <1>2, <1>3, <1>4, <1>5, <1>6, <1>7, <1>8 DEF Screens

LEMMA StaffAsks ==
  ASSUME ScreensInv, Backoffice, Screens
  PROVE  Turns /\ Asking /\ shown' \in BOOLEAN /\ form' \in {form, "idle", "sending"}
<1>1. /\ shown /\ UNCHANGED shown /\ shown \in BOOLEAN
      /\ \/ Navigates
         \/ Execute /\ UNCHANGED stack
         \/ StartLoad(list, {"page"}) /\ UNCHANGED stack /\ form' \in {form, "idle"}
  BY StaffScreensDo DEF ScreensInv, ScreensTyped
<1>2. CASE Navigates
  <2>1. \/ Len(stack) > 1 /\ Mount(<<Head(stack)>>)
        \/ Len(stack) > 1 /\ Mount(Front(stack))
        \/ \E name \in Names : Len(stack) < MaxDepth /\ Mount(Append(stack, Opened(name)))
        \/ \E name \in Names : Mount(Append(Front(stack), Opened(name)))
    BY <1>2 DEF Navigates, back, home, push, replace, Opened
  <2>2. PICK routes :
          /\ Mount(routes)
          /\ \/ Len(stack) > 1 /\ routes = <<Head(stack)>>
             \/ Len(stack) > 1 /\ routes = Front(stack)
             \/ Len(stack) < MaxDepth /\ \E name \in Names : routes = Append(stack, Opened(name))
             \/ \E name \in Names : routes = Append(Front(stack), Opened(name))
    BY <2>1
  <2>3. Asking /\ form' = "idle" /\ stack' = routes
    BY <1>1, <2>2, MountAsking
  <2>4. Moves
    BY <2>2, <2>3 DEF Moves
  <2> QED
    BY <1>1, <2>3, <2>4 DEF Turns
<1>3. CASE Execute /\ UNCHANGED stack
  BY <1>1, <1>3 DEF Execute, Turns, Moves, Asking
<1>4. CASE StartLoad(list, {"page"}) /\ UNCHANGED stack /\ form' \in {form, "idle"}
  <2>1. {"page"} \in Parts /\ list \in {list, NoList}
    BY DEF Parts
  <2> QED
    BY <1>1, <1>4, <2>1 DEF Turns, Moves, Asking
<1> QED
  BY <1>1, <1>2, <1>3, <1>4

-----------------------------------------------------------------------------
(* Every step.                                                             *)

LEMMA ScreenStepInv ==
  ASSUME SessionInv, ScreensInv,
         ClientReloads \/ ClientLoadsMore \/ Renders \/ (Backoffice /\ Screens)
  PROVE  ScreensInv'
<1>1. Quiet
  BY ScreensAreQuiet
<1>2. Turns /\ Asking /\ shown' \in BOOLEAN /\ form' \in {form, "idle", "sending"}
  BY ClientAsks, StaffRendersAsks, StaffAsks DEF Renders
<1> QED
  BY <1>1, <1>2, AskingWorks, WorksKeep

LEMMA ScreensInitInv == Init => ScreensInv
<1> SUFFICES ASSUME Init PROVE ScreensInv
  OBVIOUS
<1>1. /\ app \in Apps /\ shown = FALSE /\ list = NoList /\ form = "idle" /\ stack = <<Home>>
      /\ session = NoSession /\ refreshing = Idle /\ signing = Idle /\ generation = 0
      /\ requests = {} /\ load = 0 /\ issued = 0 /\ deletes = 0 /\ stored \in FirstStored
  BY DEF Init, SessionInit, ScreensInit, BackofficeInit
<1>2. ScreensTyped
  <2>1. Home \in Routes
    BY DEF Home, Routes, Names
  <2>2. <<Home>> \in Seq(Routes) /\ Len(<<Home>>) = 1
    BY <2>1
  <2>3. MaxOpen[app] \in Nat /\ MaxDepth \in Nat \ {0}
    BY <1>1, BoundsAssumption, MaxDepthAssumption
  <2>4. IsFiniteSet({}) /\ Cardinality({}) = 0
    BY FS_EmptySet
  <2>5. stack \in Seq(Routes) /\ Len(stack) \in 1..MaxDepth
    BY <1>1, <2>2, <2>3
  <2>6. requests \subseteq Reqs /\ IsFiniteSet(requests) /\ Cardinality(requests) <= MaxOpen[app]
    BY <1>1, <2>3, <2>4
  <2> QED
    BY <1>1, <2>3, <2>5, <2>6, NoListIs DEF Has, ScreensTyped, Loads
<1>3. TokensIssued
  <2>1. NoSession.token = 0 /\ Idle.token = 0
    BY DEF NoSession, Idle
  <2> QED
    BY <1>1, <2>1, BoundsAssumption, FirstStoredAssumption DEF TokensIssued
<1>4. NobodyForgotten /\ Asked /\ Hidden
  BY <1>1 DEF NobodyForgotten, Asked, Hidden
<1>5. Progress
  BY <1>1, NoListIs DEF Has, Progress
<1>6. Gate /\ Ours
  BY <1>1, IdleTask DEF Gate, Ours
<1> QED
  BY <1>2, <1>3, <1>4, <1>5, <1>6 DEF ScreensInv

LEMMA RestartScreens ==
  ASSUME SessionInv, ScreensInv, Restart
  PROVE  ScreensInv'
<1>1. /\ shown' = FALSE /\ list' = NoList /\ form' = "idle" /\ stack' = <<Home>>
      /\ session' = NoSession /\ refreshing' = Idle /\ signing' = Idle
      /\ requests' = {} /\ load' = 0 /\ UNCHANGED <<app, stored, issued>>
  BY DEF Restart, device
<1>2. ScreensTyped'
  <2>1. Home \in Routes
    BY DEF Home, Routes, Names
  <2>2. <<Home>> \in Seq(Routes) /\ Len(<<Home>>) = 1
    BY <2>1
  <2>3. app \in Apps /\ MaxOpen[app] \in Nat /\ MaxDepth \in Nat \ {0}
    BY BoundsAssumption, MaxDepthAssumption DEF ScreensInv, ScreensTyped
  <2>4. IsFiniteSet({}) /\ Cardinality({}) = 0
    BY FS_EmptySet
  <2>5. stack' \in Seq(Routes) /\ Len(stack') \in 1..MaxDepth
    BY <1>1, <2>2, <2>3
  <2>6. requests' \subseteq Reqs /\ IsFiniteSet(requests') /\ Cardinality(requests') <= MaxOpen[app]
    BY <1>1, <2>3, <2>4
  <2> QED
    BY <1>1, <2>3, <2>5, <2>6, NoListIs DEF Has, ScreensTyped, Loads
<1>3. TokensIssued'
  <2>1. NoSession.token = 0 /\ Idle.token = 0
    BY DEF NoSession, Idle
  <2> QED
    BY <1>1, <2>1 DEF TokensIssued, ScreensInv, SessionInv, SessionTyped
<1>4. NobodyForgotten' /\ Asked' /\ Hidden'
  BY <1>1 DEF NobodyForgotten, Asked, Hidden
<1>5. Progress'
  BY <1>1, NoListIs DEF Has, Progress
<1>6. Gate' /\ Ours'
  BY <1>1, IdleTask DEF Gate, Ours
<1> QED
  BY <1>2, <1>3, <1>4, <1>5, <1>6 DEF ScreensInv

LEMMA ScreensNextInv == SessionInv /\ ScreensInv /\ [Next]_vars => ScreensInv'
<1> SUFFICES ASSUME SessionInv, ScreensInv, [Next]_vars PROVE ScreensInv'
  OBVIOUS
<1>1. CASE SessionNext /\ UNCHANGED <<screenVars, stack>>
  BY <1>1, RestoreScreens, GrantedScreens, StoredScreens, RefusedScreens, FailedScreens,
     SignInScreens, DeletedScreens, HeadScreens, ProviderScreens DEF SessionNext
<1>2. CASE (TokenAges \/ SignsIn \/ SignsOut) /\ UNCHANGED <<screenVars, stack>>
  BY <1>2, SignInScreens, SignOutScreens DEF TokenAges, SignsIn, SignsOut
<1>3. CASE ClientReloads \/ ClientLoadsMore \/ Renders \/ (Backoffice /\ Screens)
  BY <1>3, ScreenStepInv
<1>4. CASE Answered /\ UNCHANGED stack
  BY <1>4, AnswerScreens
<1>5. CASE Restart
  BY <1>5, RestartScreens
<1>6. CASE UNCHANGED vars
  <2>1. UNCHANGED <<app, session, status, generation, refreshing, signing, deletes, stored, requests,
                    load, issued, overtaken, shown, list, form, stack>>
    BY <1>6 DEF vars, sessionVars, tasks, device, counts, screenVars
  <2>2. ScreensTyped'
    BY <2>1 DEF ScreensInv, ScreensTyped, Backoffice
  <2>3. TokensIssued' /\ NobodyForgotten' /\ Progress' /\ Asked' /\ Hidden'
    BY <2>1 DEF ScreensInv, TokensIssued, NobodyForgotten, Progress, Asked, Hidden, Current
  <2>4. "store" \notin overtaken' => Gate' /\ Ours'
    BY <2>1 DEF ScreensInv, Gate, Ours, Current, OurTokens
  <2> QED
    BY <2>2, <2>3, <2>4 DEF ScreensInv
<1> QED
  BY <1>1, <1>2, <1>3, <1>4, <1>5, <1>6 DEF Next

\* Nothing is asked for where the gate is shown and nobody is signed in.
LEMMA ScreensAreShown ==
  ASSUME shown \in BOOLEAN, ClientReloads \/ ClientLoadsMore \/ Renders \/ Screens
  PROVE  shown \/ status = "authenticated"
<1>1. ASSUME ClientReloads \/ ClientLoadsMore \/ Renders
      PROVE  shown \/ status = "authenticated"
  BY <1>1 DEF ClientReloads, ClientLoadsMore, Renders, ClientRenders, BackofficeRenders
<1>2. ASSUME Screens
      PROVE  shown
  BY <1>2 DEF Screens, Header, Retry, HomeScreen, UsersListScreen, UserDetailScreen,
    UserStatusScreen, UserRolesScreen, CasesListScreen, CaseDetailScreen, CaseStatusScreen,
    CaseAssignScreen, CaseEscalateScreen, CustomerSearchScreen, CustomerProfileScreen,
    CustomerOperationsScreen, OperationSearchScreen, OperationScreen, ReversalCreateScreen,
    ReversalDetailScreen, At, Loaded, Apply, Done
<1> QED
  BY <1>1, <1>2

\* While the screens are shown, the app has started and nobody signs in.
LEMMA ShownMeans ==
  ASSUME SessionInv, ScreensInv, "store" \notin overtaken
  PROVE  /\ shown => status \in {"authenticated", "anonymous"} /\ signing = Idle
         /\ signing # Idle => status = "anonymous"
  BY DEF SessionInv, SessionTyped, Statuses, ScreensInv, Gate, Course, Starting, SignedOut,
         SignedIn, SigningOut

LEMMA SessionNextInv == SessionInv /\ ScreensInv /\ [Next]_vars => SessionInv'
<1> SUFFICES ASSUME SessionInv, ScreensInv, [Next]_vars PROVE SessionInv'
  OBVIOUS
<1>1. CASE ClientReloads \/ ClientLoadsMore \/ Renders \/ Screens
  <2>1. generation \in Nat
    BY DEF SessionInv, SessionTyped
  <2>2. "store" \notin overtaken => signing = Idle
    <3>1. shown \in BOOLEAN
      BY DEF ScreensInv, ScreensTyped
    <3> QED
      BY <1>1, <3>1, ScreensAreShown, ShownMeans
  <2> QED
    BY <1>1, <2>1, <2>2, ScreensAreQuiet, ScreensAsk, AskingInv
<1>2. CASE Answered
  BY <1>2, AnsweredInv
<1>3. CASE TokenAges \/ SignsIn
  BY <1>3, AgesInv, SignInInv DEF TokenAges, SignsIn
<1>4. CASE SignsOut
  <2>1. /\ clearSession /\ deletes' = deletes + 1 /\ shown
        /\ UNCHANGED <<status, tasks, device, requests, issued>>
    BY <1>4 DEF SignsOut, signOut, counts
  <2> QED
    BY <2>1, ShownMeans, ClosingInv
<1>5. CASE SessionNext
  BY <1>5, RestoreInv, ProviderInv, GrantedInv, StoredInv, RefusedInv, FailedInv, SigningTaskInv,
     DeletedInv, HeadInv DEF SessionNext
<1>6. CASE Restart
  BY <1>6, RestartInv
<1>7. CASE UNCHANGED vars
  BY <1>7, StillInv DEF vars, sessionVars, counts, SessionInv, SessionTyped
<1> QED
  BY <1>1, <1>2, <1>3, <1>4, <1>5, <1>6, <1>7 DEF Next

\* What the tasks of the session manager may be doing.
TasksAt ==
  /\ restoring.at \in {"none", "storage", "refresh", "clearing"}
  /\ refreshing.at \in {"none", "provider", "body", "storage"}
  /\ signing.at \in {"none", "provider", "body", "storage"}

LEMMA TasksAtInit == Init => TasksAt
  BY RestoringTask, IdleTask DEF Init, SessionInit, TasksAt

LEMMA TasksAtNext == SessionInv /\ ScreensInv /\ TasksAt /\ [Next]_vars => TasksAt'
<1> SUFFICES ASSUME SessionInv, ScreensInv, TasksAt, [Next]_vars PROVE TasksAt'
  OBVIOUS
<1>1. restoring \in Tasks /\ generation \in Nat /\ Idle.at = "none"
  BY IdleTask DEF SessionInv, SessionTyped
<1>2. \A at \in {"refresh", "clearing"} : [restoring EXCEPT !.at = at].at = at
  BY <1>1 DEF Tasks
<1>3. CASE RestoreLoaded \/ Restore
  <2>1. /\ restoring' \in {restoring, Idle, [restoring EXCEPT !.at = "refresh"], Restoring(generation)}
        /\ refreshing' = refreshing \/ (stored \in Users /\ refreshing' = refreshWith(stored, generation))
        /\ signing' = signing
    BY <1>3 DEF RestoreLoaded, Restore
  <2>2. Restoring(generation).at = "storage"
    BY <1>1, RestoringTask
  <2>3. refreshing' = refreshing \/ refreshing'.at = "provider"
    BY <2>1, SharedRefresh DEF SessionInv, refreshWith
  <2> QED
    BY <1>1, <1>2, <2>1, <2>2, <2>3 DEF TasksAt
<1>p. CASE ProviderAnswers
  <2>1. \A task \in Tasks : [task EXCEPT !.at = "body"].at = "body"
    BY HeadedTask
  <2>2. /\ refreshing \in Tasks /\ signing \in Tasks /\ restoring' = restoring
        /\ refreshing' \in {refreshing, [refreshing EXCEPT !.at = "body"]}
        /\ signing' \in {signing, [signing EXCEPT !.at = "body"]}
    BY <1>p DEF ProviderAnswers, SessionInv, SessionTyped
  <2>3. refreshing' = refreshing \/ refreshing'.at = "body"
    BY <2>1, <2>2
  <2>4. signing' = signing \/ signing'.at = "body"
    BY <2>1, <2>2
  <2> QED
    BY <2>2, <2>3, <2>4 DEF TasksAt
<1>4. CASE RefreshGranted \/ SignInAnswered
  <2>1. issued' \in Nat
    BY <1>4 DEF RefreshGranted, SignInAnswered, SessionInv, SessionTyped
  <2>2. \A task \in Tasks : [task EXCEPT !.at = "storage", !.token = issued'].at = "storage"
    BY <2>1, GrantedTask
  <2>3. refreshing \in Tasks /\ signing \in Tasks
    BY DEF SessionInv, SessionTyped
  <2>4. /\ restoring' = restoring
        /\ refreshing' \in {refreshing, [refreshing EXCEPT !.at = "storage", !.token = issued']}
        /\ signing' \in {signing, Idle, [signing EXCEPT !.at = "storage", !.token = issued']}
    BY <1>4 DEF RefreshGranted, SignInAnswered
  <2>5. refreshing' = refreshing \/ refreshing'.at = "storage"
    BY <2>2, <2>3, <2>4
  <2>6. signing' = signing \/ signing' = Idle \/ signing'.at = "storage"
    BY <2>2, <2>3, <2>4
  <2> QED
    BY <1>1, <2>4, <2>5, <2>6 DEF TasksAt
<1>5. CASE RefreshStored \/ RefreshRefused \/ RefreshFailed
  <2>1. /\ restoring' \in {restoring, Idle, [restoring EXCEPT !.at = "clearing"]}
        /\ refreshing' = Idle /\ signing' = signing
    BY <1>5 DEF RefreshStored, RefreshRefused, RefreshFailed, RefreshEnds
  <2> QED
    BY <1>1, <1>2, <2>1 DEF TasksAt
<1>6. CASE SignInStored \/ Deleted \/ HeadArrives
  <2>1. /\ restoring' \in {restoring, Idle} /\ refreshing' = refreshing /\ signing' \in {signing, Idle}
    BY <1>6 DEF SignInStored, Deleted, DeletionEnds, HeadArrives, tasks
  <2> QED
    BY <1>1, <2>1 DEF TasksAt
<1>7. CASE TokenAges \/ SignsOut
  BY <1>7 DEF TokenAges, Ages, SignsOut, signOut, tasks, TasksAt
<1>8. CASE SignsIn
  <2>1. PICK u \in Users :
          /\ signing' = [Idle EXCEPT !.user = u, !.gen = generation', !.at = "provider"]
          /\ UNCHANGED <<restoring, refreshing>>
    BY <1>8 DEF SignsIn, signIn
  <2>2. signing' = [user |-> u, gen |-> generation', token |-> 0, at |-> "provider"]
    BY <2>1 DEF Idle
  <2> QED
    BY <2>1, <2>2 DEF TasksAt
<1>9. CASE ClientReloads \/ ClientLoadsMore \/ Renders \/ (Backoffice /\ Screens)
  <2>1. Quiet /\ Asking
    BY <1>9, ScreensAreQuiet, ClientAsks, StaffRendersAsks, StaffAsks DEF Renders
  <2>2. Calls
    BY <2>1, AskingWorks DEF Works
  <2> QED
    BY <2>1, <2>2, CallsShare DEF Quiet, TasksAt
<1>10. CASE Answered
  BY <1>10 DEF Answered, ListAnswered, WriteAnswered, execute, tasks, TasksAt
<1>11. CASE Restart
  BY <1>1, <1>11, RestoringTask DEF Restart, TasksAt
<1>12. CASE UNCHANGED vars
  BY <1>12 DEF vars, sessionVars, tasks, TasksAt
<1> QED
  BY <1>3, <1>p, <1>4, <1>5, <1>6, <1>7, <1>8, <1>9, <1>10, <1>11, <1>12 DEF Next, SessionNext

\* The session, the screens and the tasks: the invariant of every step.
FrontendInv == SessionInv /\ ScreensInv /\ TasksAt

LEMMA FrontendIsInvariant == Spec => []FrontendInv
<1>1. Init => FrontendInv
  BY SessionInitInv, ScreensInitInv, TasksAtInit DEF FrontendInv
<1>2. FrontendInv /\ [Next]_vars => FrontendInv'
  BY SessionNextInv, ScreensNextInv, TasksAtNext DEF FrontendInv
<1> QED
  BY <1>1, <1>2, PTL DEF Spec

\* Whatever order the device, the provider and the user act in, and however often the
\* app is restarted, the device keeps the refresh token of the session in memory and
\* none of a session that was signed out, unless the session changed while the device was
\* storing a token or deleting one (SessionManager, tokenStorage).
THEOREM DeviceKeepsTheSession == Spec => []DeviceAgrees
<1>1. FrontendInv => DeviceAgrees
  BY DEF FrontendInv, SessionInv
<1> QED
  BY <1>1, FrontendIsInvariant, PTL

-----------------------------------------------------------------------------
(* What a user sees.                                                       *)

\* Whatever order answers arrive in, a list on screen is of one load and has no hole:
\* late answers are told by the generation of the hook (useApiResource, useMovements).
THEOREM ListsAreWhole == Spec => []NoGaps
<1>1. FrontendInv => NoGaps
  BY DEF FrontendInv, ScreensInv, Progress, NoGaps
<1> QED
  BY <1>1, FrontendIsInvariant, PTL

\* A screen that loads waits for requests that are under way, and those wait for a
\* refresh that is under way (getAccessToken).
THEOREM LoadsAreNotForgotten == Spec => []NothingLost
<1>1. FrontendInv => NothingLost
  BY DEF FrontendInv, ScreensInv, Progress, NobodyForgotten, NothingLost
<1> QED
  BY <1>1, FrontendIsInvariant, PTL

\* Whoever signs in sees nothing of who was there before, neither on screen nor behind
\* Back, unless the session changed while a token was being stored (SessionGate,
\* SessionManager's generation, BackofficeApp's stack).
THEOREM ScreensAreOwn == Spec => []OwnScreens
<1>1. FrontendInv => OwnScreens
  BY DEF FrontendInv, ScreensInv, Ours, OwnScreens
<1> QED
  BY <1>1, FrontendIsInvariant, PTL

\* The variables have their types, and the tokens in use were issued.
THEOREM TypeCorrect == Spec => []TypeOK
<1>1. FrontendInv => TypeOK
  <2> SUFFICES ASSUME FrontendInv PROVE TypeOK
    OBVIOUS
  <2>1. session.user \in Users \cup {Nobody} /\ session.token \in Nat /\ issued \in Nat
        /\ status \in Statuses /\ deletes \in Nat
    BY DEF FrontendInv, SessionInv, SessionTyped
  <2>2. session.token \in 0..MaxTokens[app]
    <3>1. MaxTokens[app] \in Nat
      BY BoundsAssumption DEF FrontendInv, ScreensInv, ScreensTyped
    <3> QED
      BY <2>1, <3>1 DEF FrontendInv, ScreensInv, TokensIssued
  <2>3. /\ Cardinality(requests) <= MaxOpen[app] /\ Len(stack) <= MaxDepth
        /\ \A r \in requests : r.phase \in {"refresh", "clearing", "sent", "body"}
        /\ list.status \in {"idle", "loading", "success", "error"}
        /\ list.cursor \in {0} \cup 2..LastPage
        /\ form \in {"idle", "sending", "done", "error"} /\ stored \in Users \cup {Nobody}
    <3>1. Len(stack) <= MaxDepth
      BY MaxDepthAssumption DEF FrontendInv, ScreensInv, ScreensTyped
    <3> QED
      BY <3>1 DEF FrontendInv, ScreensInv, ScreensTyped, TokensIssued, Reqs, Lists
  <2> QED
    BY <2>1, <2>2, <2>3 DEF TypeOK, FrontendInv, TasksAt, Statuses
<1> QED
  BY <1>1, FrontendIsInvariant, PTL
===========================================================================
