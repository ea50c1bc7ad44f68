--------------------------- MODULE ClientSession ---------------------------
(***************************************************************************)
(* SessionManager and the HTTP client of the frontend: the session in      *)
(* memory, its refresh token on the device, the one refresh every caller   *)
(* shares, and the requests that need a token.  The modules that extend    *)
(* this one say who asks for data and what an answer does.                 *)
(***************************************************************************)
EXTENDS Integers, FiniteSets

CONSTANTS
  Users,          \* who may sign in on the device
  Nobody,         \* no user
  FirstStored,    \* bound: whose refresh token the device may keep at first
  MaxTokens,      \* bound: ID tokens the provider issues, by app
  MaxGeneration,  \* bound: sign-ins and sign-outs the user starts, by app
  MaxRestarts     \* bound: restarts, by app

ASSUME FirstStoredAssumption == FirstStored \subseteq Users \cup {Nobody}

VARIABLES
  app,         \* EXPO_PUBLIC_APP_MODE: what a client's list loads, or the staff app
  session,     \* the session in memory
  status,
  generation,
  restoring,   \* restorePromise
  refreshing,  \* refreshPromise
  signing,     \* the sign-in under way
  deletes,     \* clearSession calls that await the device, and nobody awaits them
  stored,      \* whose refresh token the device keeps
  requests,    \* HTTP requests without an answer
  load,        \* the load whose answer the screen waits for
  issued,      \* ID tokens issued
  restarts,
  overtaken,   \* history: what the device was about, "store" or "delete", when the session
               \* changed
  diskFailed   \* history: the device failed to store or delete a token

tasks == <<restoring, refreshing, signing>>
device == <<stored, diskFailed>>
counts == <<app, issued, restarts>>
sessionVars == <<session, status, generation, tasks, deletes, device, requests, load, counts,
                 overtaken>>

NoSession == [user |-> Nobody, token |-> 0, age |-> "none"]
Idle == [user |-> Nobody, gen |-> 0, token |-> 0, at |-> "none"]

\* What a request carries.
NoToken == [user |-> Nobody, n |-> 0]
idToken == [user |-> session.user, n |-> session.token]

\* The gate's effect restores the session when the app starts.
Restoring(gen) == [Idle EXCEPT !.gen = gen, !.at = "storage"]

SessionInit ==
  /\ session = NoSession /\ status = "initializing" /\ generation = 0
  /\ restoring = Restoring(0) /\ refreshing = Idle /\ signing = Idle
  /\ deletes = 0 /\ stored \in FirstStored /\ requests = {} /\ load = 0
  /\ issued = 0 /\ restarts = 0 /\ overtaken = {} /\ diskFailed = FALSE

-----------------------------------------------------------------------------
(* Tokens for requests.                                                    *)

\* refreshWith joins the refresh under way, whatever session it is of.
refreshWith(user, gen) ==
  IF refreshing # Idle THEN refreshing
  ELSE [Idle EXCEPT !.user = user, !.gen = gen, !.at = "provider"]

\* getAccessToken up to its first await, for new requests rs.  (Nothing is asked
\* for while the session initializes.)
NeedsRefresh == session # NoSession /\ session.age # "fresh"
getAccessToken(rs) ==
  {[r EXCEPT !.phase = IF NeedsRefresh THEN "refresh" ELSE "sent",
             !.gen = IF NeedsRefresh THEN generation ELSE 0, !.token = idToken] : r \in rs}

\* A load that is no longer waited for is aborted; a write never is.
Wanted(r) == r.part = "write" \/ r.of = load

\* The token of requests rs is resolved, and those still wanted are sent.
Waiting == {r \in requests : r.phase = "refresh"}
Resume(rs, token) ==
  {[r EXCEPT !.phase = "sent", !.gen = 0, !.token = token[r]] : r \in {q \in rs : Wanted(q)}}
WithoutToken(rs) == Resume(rs, [r \in rs |-> NoToken])

-----------------------------------------------------------------------------
(* SessionManager.                                                         *)

\* A token that is being stored is stored, whatever becomes of the session.
Storing == IF "storage" \in {refreshing.at, signing.at} THEN {"store"} ELSE {}

\* clearSession, up to its await.
clearSession ==
  /\ session' = NoSession /\ generation' = generation + 1 /\ overtaken' = overtaken \cup Storing

KeepSession == UNCHANGED <<session, generation, overtaken>>

\* A deletion under way is carried out, whoever has signed in meanwhile.
Deleting == deletes > 0 \/ restoring.at = "clearing" \/ \E r \in requests : r.phase = "clearing"

\* The device stores a token or deletes it, or fails to, and nobody is told.
Store(user) == \/ stored' = user /\ UNCHANGED diskFailed
               \/ diskFailed' = TRUE /\ UNCHANGED stored

\* Mutation: a device that fails leaves the status as it is.
RestoreSwallowed ==
  /\ restoring.at = "storage"
  /\ \/ /\ stored \in Users
        /\ restoring' = [restoring EXCEPT !.at = "refresh"]
        /\ refreshing' = refreshWith(stored, generation)
        /\ UNCHANGED <<session, status>>
     \/ /\ status' \in {status} \cup (IF stored = Nobody THEN {"anonymous"} ELSE {})
        /\ restoring' = Idle /\ session' = NoSession /\ UNCHANGED refreshing
  /\ UNCHANGED <<generation, signing, deletes, device, requests, load, counts, overtaken>>

\* doRestore has read the device.  (The gate restores only where there is no session,
\* nor a way to change it: the tests for a live one or a change are never true.)
RestoreLoaded ==
  /\ restoring.at = "storage"
  /\ \/ /\ stored \in Users
        /\ restoring' = [restoring EXCEPT !.at = "refresh"]
        /\ refreshing' = refreshWith(stored, generation)
        /\ UNCHANGED <<session, status>>
     \/ /\ status' \in {"unavailable"} \cup (IF stored = Nobody THEN {"anonymous"} ELSE {})
        /\ restoring' = Idle /\ session' = NoSession /\ UNCHANGED refreshing
  /\ UNCHANGED <<generation, signing, deletes, device, requests, load, counts, overtaken>>

\* restore, from the gate's retry.
Restore ==
  /\ status = "unavailable" /\ restoring = Idle /\ restoring' = Restoring(generation)
  /\ UNCHANGED <<session, status, generation, refreshing, signing, deletes, device, requests, load,
                 counts, overtaken>>

\* The provider's head stops the timer of post: nothing bounds the body.
AtProvider(task) == task.at \in {"provider", "body"}
ProviderAnswers ==
  /\ \/ /\ refreshing.at = "provider" /\ refreshing' = [refreshing EXCEPT !.at = "body"]
        /\ UNCHANGED signing
     \/ /\ signing.at = "provider" /\ signing' = [signing EXCEPT !.at = "body"]
        /\ UNCHANGED refreshing
  /\ UNCHANGED <<session, status, generation, restoring, deletes, device, requests, load, counts,
                 overtaken>>

\* The provider renews a session that has not changed meanwhile.
RefreshGranted ==
  /\ refreshing.at = "body" /\ refreshing.gen = generation /\ issued < MaxTokens[app]
  /\ issued' = issued + 1
  /\ refreshing' = [refreshing EXCEPT !.at = "storage", !.token = issued']
  /\ UNCHANGED <<session, status, generation, restoring, signing, deletes, device, requests,
                 load, app, restarts, overtaken>>

\* The refresh is over, for its callers too.
RefreshEnds ==
  /\ refreshing' = Idle
  /\ restoring' = IF restoring.at = "refresh" THEN Idle ELSE restoring

RefreshStored ==
  /\ refreshing.at = "storage" /\ RefreshEnds
  /\ Store(refreshing.user)
  /\ session' = [user |-> refreshing.user, token |-> refreshing.token, age |-> "fresh"]
  /\ status' = "authenticated"
  /\ requests' = (requests \ Waiting) \cup
                 Resume(Waiting, [r \in Waiting |-> [user |-> refreshing.user, n |-> refreshing.token]])
  /\ UNCHANGED <<generation, signing, deletes, load, counts, overtaken>>

RestoreWaits == restoring.at = "refresh" /\ restoring.gen = generation

\* It is rejected as invalid_session, by the provider or because the session has
\* changed.  The first caller of the present generation clears the session, and
\* awaits the device; the others go on without a token.
RefreshRefused ==
  /\ refreshing.at = "body" /\ refreshing' = Idle
  /\ restoring' = IF RestoreWaits THEN [restoring EXCEPT !.at = "clearing"]
                  ELSE IF restoring.at = "refresh" THEN Idle ELSE restoring
  /\ LET current == {r \in Waiting : r.gen = generation}
         Rest(rs) == (requests \ Waiting) \cup WithoutToken(Waiting \ rs)
     IN \/ current = {} /\ ~RestoreWaits /\ KeepSession /\ requests' = Rest({})
        \/ RestoreWaits /\ clearSession /\ requests' = Rest({})
        \/ \E r \in current :
             clearSession /\ requests' = Rest({r}) \cup {[r EXCEPT !.phase = "clearing"]}
  /\ UNCHANGED <<status, signing, deletes, device, load, counts>>

\* It fails: the network or the timer before the head; then a body that cannot be read,
\* or says so: the configuration, a disabled user.  A token that has not expired is
\* still used.
Unexpired(r) ==
  IF r.gen = generation /\ r.token = idToken /\ session.age = "near" THEN r.token ELSE NoToken

\* Mutation: the callers of a refresh that fails are forgotten.
RefreshForgotten ==
  /\ AtProvider(refreshing) /\ RefreshEnds
  /\ IF RestoreWaits THEN session' = NoSession /\ status' = "unavailable"
     ELSE UNCHANGED <<session, status>>
  /\ UNCHANGED <<generation, signing, deletes, device, requests, load, counts, overtaken>>

RefreshFailed ==
  /\ AtProvider(refreshing) /\ RefreshEnds
  /\ IF RestoreWaits THEN session' = NoSession /\ status' = "unavailable"
     ELSE UNCHANGED <<session, status>>
  /\ requests' = (requests \ Waiting) \cup Resume(Waiting, [r \in Waiting |-> Unexpired(r)])
  /\ UNCHANGED <<generation, signing, deletes, device, load, counts, overtaken>>

\* signIn, from a form that is disabled meanwhile.
signIn ==
  /\ status = "anonymous" /\ signing = Idle /\ generation < MaxGeneration[app]
  /\ generation' = generation + 1
  /\ overtaken' = overtaken \cup Storing \cup (IF Deleting THEN {"delete"} ELSE {})
  /\ \E u \in Users : signing' = [Idle EXCEPT !.user = u, !.gen = generation', !.at = "provider"]
  /\ UNCHANGED <<session, status, restoring, refreshing, deletes, device, requests, load, counts>>

\* The provider accepts the user; or it refuses, or the session has changed, or there is
\* no answer to read.
SignInAnswered ==
  /\ AtProvider(signing)
  /\ \/ /\ signing.at = "body" /\ signing.gen = generation /\ issued < MaxTokens[app] /\ issued' = issued + 1
        /\ signing' = [signing EXCEPT !.at = "storage", !.token = issued']
     \/ signing' = Idle /\ UNCHANGED issued
  /\ UNCHANGED <<session, status, generation, restoring, refreshing, deletes, device, requests,
                 load, app, restarts, overtaken>>

SignInStored ==
  /\ signing.at = "storage" /\ signing' = Idle
  /\ Store(signing.user)
  /\ session' = [user |-> signing.user, token |-> signing.token, age |-> "fresh"]
  /\ status' = "authenticated"
  /\ UNCHANGED <<generation, restoring, refreshing, deletes, requests, load, counts, overtaken>>

\* signOut, from a button that stays until the status is rendered: it may be pressed again.
signOut ==
  /\ generation < MaxGeneration[app] /\ clearSession /\ deletes' = deletes + 1
  /\ UNCHANGED <<status, tasks, device, requests, load, counts>>

\* One of the deletions is over, for the caller who awaits it.
DeletionEnds ==
  \/ deletes > 0 /\ deletes' = deletes - 1 /\ UNCHANGED <<restoring, requests>>
  \/ restoring.at = "clearing" /\ restoring' = Idle /\ UNCHANGED <<deletes, requests>>
  \/ /\ \E r \in requests :
          r.phase = "clearing" /\ requests' = (requests \ {r}) \cup WithoutToken({r})
     /\ UNCHANGED <<deletes, restoring>>

\* Mutation: the token stays on the device.
Undeleted ==
  /\ DeletionEnds /\ status' = "anonymous"
  /\ UNCHANGED <<session, generation, refreshing, signing, device, load, counts, overtaken>>

\* The device has deleted the token: the end of clearSession.
Deleted ==
  /\ DeletionEnds /\ Store(Nobody) /\ status' = "anonymous"
  /\ UNCHANGED <<session, generation, refreshing, signing, load, counts, overtaken>>

\* Mutation: the token is not compared.
UnauthorizedByAny(token) ==
  IF session = NoSession THEN KeepSession /\ UNCHANGED deletes
  ELSE clearSession /\ deletes' = deletes + 1

\* handleUnauthorized: a 401 closes the session whose token it answers.
handleUnauthorized(token) ==
  IF session = NoSession \/ idToken # token THEN KeepSession /\ UNCHANGED deletes
  ELSE clearSession /\ deletes' = deletes + 1

\* isSessionExpired: time passes, and the token is first within the skew.
Ages ==
  /\ session.age \in {"fresh", "near"}
  /\ session' = [session EXCEPT !.age = IF @ = "fresh" THEN "near" ELSE "expired"]
  /\ UNCHANGED <<status, generation, tasks, deletes, device, requests, load, counts, overtaken>>

-----------------------------------------------------------------------------
(* The HTTP client.                                                        *)

\* The head of an answer stops the timer, and the abort listener is removed.
HeadArrives ==
  /\ \E r \in requests : /\ r.phase = "sent"
                         /\ requests' = (requests \ {r}) \cup {[r EXCEPT !.phase = "body"]}
  /\ UNCHANGED <<session, status, generation, tasks, deletes, device, load, counts, overtaken>>

\* Mutation: no timer.
EndsUntimed(r) ==
  IF r.phase # "body" THEN {} ELSE IF r.token = NoToken THEN {"401"} ELSE {"ok", "401", "500"}

\* How a request may end: before its head, by the network or the timer; or once the
\* body is read.  Without a token the answer is a 401.
Ends(r) == CASE r.phase = "sent" -> {"network"}
             [] r.phase = "body" -> IF r.token = NoToken THEN {"401"} ELSE {"ok", "401", "500"}
             [] OTHER -> {}

\* execute gives back answer e, after onUnauthorized.
execute(r, e) ==
  /\ e \in Ends(r) /\ requests' = requests \ {r}
  /\ IF e = "401" THEN handleUnauthorized(r.token) ELSE KeepSession /\ UNCHANGED deletes
  /\ UNCHANGED <<status, tasks, device, load, counts>>

SessionNext ==
  \/ RestoreLoaded \/ Restore \/ ProviderAnswers \/ RefreshGranted \/ RefreshStored \/ RefreshRefused
  \/ RefreshFailed \/ SignInAnswered \/ SignInStored \/ Deleted \/ HeadArrives
=============================================================================
