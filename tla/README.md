# NequiTrampa: formal models

TLA+ models of NequiTrampa, checked with TLC on small instances and, for the most important
properties, proved with TLAPS for every value of the constants: the money-moving core of the
services (ledger, idempotency, outbox, consumers), the names of categories and goals, and the app that clients and staff use (every
screen, the Back stack, the session, its requests and its lists).

- [Inventory](#inventory): the parts of the system, their state, their operations and what is hard about them
- [Modules](#modules): which module models which part, and how
- [Runs](#runs): what each TLC run checks, with its bounds
- [Fairness](#fairness)
- [Proofs](#proofs): what is proved, from what and how
- [More hazards](#more-hazards) met while modelling the app
- [Disagreements](#where-the-code-disagrees-with-its-own-words) between the code and its own words
- [Not modelled](#not-modelled-and-why)
- [Plan](#plan)

## Inventory

NequiTrampa is a demonstration wallet: a React Native app, ASP.NET services behind a gateway,
Cloud Spanner as the authoritative ledger, Firestore as the read model, Pub/Sub in between.

| Component | State | Operations | What is hard | What makes it correct |
|---|---|---|---|---|
| Ledger (`Nequi.Wallet`, `Nequi.Backoffice`) | `wallet_accounts`, `clients`, `daily_transfer_usage`, `ledger_operations`, `ledger_entries`, `outbox_events` in Spanner | transfer, recharge, reversal, adjustment, client status | the order in which money is moved, spent and taken back; limits over a day; suspended clients | double entry, no money made or lost, an unbroken chain of entries behind every balance, no overdraft, one reversal at most, every movement announced |
| HTTP idempotency (`Nequi.Shared/Idempotency`, `SpannerIdempotencyStore`) | `idempotency_records` | begin, run the handler, complete | three transactions with a crash possible between any two; slow owners that look dead; retention | a key is applied once, answers are true, orphans stay blocked |
| Mobile financial operation (`financialOperation.ts`, `utils/idempotency.ts`) | fingerprint, key store, submission in progress | run, confirm, reject, uncertain, logout, restart | a retry racing the answer of its first attempt | a confirmation is a new payment, one key has one body |
| Outbox (`SpannerOutboxStore`, `OutboxDispatcher`) | `outbox_events` | insert, drain, mark published, mark failed | overlapping drains without locks, failed marks, poison rows, exhausted attempts | no event lost, none marked published that was not sent, the queue drains |
| Consumers (`ProjectionService`, `NotificationService`) | `financial_movements`, `notifications` in Firestore | push delivery, read mark | duplicates, overlaps, dead letters | each event is applied once, a read notification stays read |
| Reconciliation (`ReconciliationService`, `ReconciliationController`) | `reconciliation_issues`, `reconciliation_resolutions` | detect, resolve, requeue | decisions taken on an issue read earlier | requeueing never republishes or loses an event |
| Financial intents and recovery (`Nequi.Shared/Financial`, `ConfirmedTransferRecoveryService`) | `financial_intents` | prepare, execute, confirm, recover | uncertain commits | one effect per intent, replay of the confirmed result |
| Academic wallet (`AcademicWalletStore`) | balances, transfers, reservations in one file | transfer, recharge, begin, complete | crash around the file replacement | memory equals disk, the result is stored with the balance |
| Categories and goals (`CategoryService`, `GoalService`) | documents and one key document per name, in Firestore | create, update, deactivate | no transaction covers a request; keys are deleted by name; failed writes are compensated | names are unique, none is blocked for ever |
| Other personal finance (`Nequi.Finance`) | cash, budgets in Firestore | append, create, contribute | duplicates, concurrent edits, status transitions | non-negative cash, budget invariants |
| Reports (`Nequi.Workers/Reports`) | queue in memory, `reports` | request, generate | a restart between the two | a report ends ready or failed |
| Realtime, gateway, profile, assistant, support, administration | connections, documents, cases, audit | - | audit written apart from what it audits | - |
| App session, HTTP client (`sessionManager.ts`, `client.ts`) | session in memory, refresh token on the device, the refresh every caller shares, requests under way | restore, sign in, sign out, refresh, 401, request | everything awaits: the device, the provider, a refresh of another generation; no timer covers a body, of the backend or of the provider | the device agrees with the memory, an old 401 closes nothing, nobody waits for ever but for a body |
| App lists and writes (`useApiData.ts`, `useAsyncAction.ts`) | pages, cursor, generation, form | load, reload, load more, execute | answers of older loads, other users and screens that are gone | a list is the pages of one load, of the user who is signed in |
| Clients' app (`App.tsx`, `screens/`) | one screen of 145, the Back stack, the gate, drafts and results, writes in flight | taps, Back, effects that follow the lists, answers | answers that land elsewhere, effects that read old state, flags that outlive screens and sessions | late answers move nobody, success is earned, refusals are true |
| Staff app (`BackofficeApp.tsx`) | a stack of routes | push, replace, back, home, loads, writes | the stack outlives a session | what is shown is of who is signed in |

How they interact: the app sends a POST with an `Idempotency-Key`; the filter reserves the key
(one Spanner transaction), runs the controller, whose service commits one ledger transaction that
also inserts the outbox rows, and completes the reservation (a third transaction). The workers
drain the outbox to Pub/Sub, which pushes to the projection and notification endpoints of the same
workers. Operators see what got stuck through reconciliation, which reads the ledger, the outbox
and the read model, and writes corrections back as ledger transactions or requeued rows.

Inside the app, `App.tsx` chooses the clients' or the staff app over one `SessionManager`. Screens
call hooks; hooks call services; a service asks the HTTP client, which asks the session for a token,
possibly waits for a refresh, and reports a 401 back to the session; the session tells its
subscribers, the gate closes, and the hooks are deactivated while their requests go on.

`PROJECT.json` lists the hazards of this code at their lines, with the properties that would catch them; those that did not
find a place there are under [More hazards](#more-hazards).

## Modules

| Module | Models | Role |
|---|---|---|
| `Ledger` | the Spanner tables and every transaction that writes money | base specification, implements `MoneyMovement` |
| `MoneyMovement` | what the ledger promises about money | abstract specification |
| `LedgerProofs` | - | theorems about `Ledger` |
| `IdempotentEndpoint` | what a guarded POST promises | abstract specification |
| `Idempotency` | filter + handler + `SpannerIdempotencyStore` | implements `IdempotentEndpoint` |
| `IdempotencyProofs` | - | theorems about `Idempotency` |
| `FinancialClient` | the app's `FinancialOperation` composed with `Idempotency` | composition |
| `FinancialClientProofs` | - | theorems about `FinancialClient` |
| `Outbox` | `outbox_events`, `OutboxDispatcher` | base specification |
| `OutboxProofs` | - | theorems about `Outbox` and `OutboxReconciliation` |
| `OutboxDelivery` | Pub/Sub push and the two consumers, composed with `Outbox` | composition |
| `OutboxDeliveryProofs` | - | theorems about `OutboxDelivery` |
| `OutboxReconciliation` | `ResolveIssue` on OUTBOX_STUCK issues, composed with `Outbox` | composition |
| `NamedDocuments` | `CategoryService` and `GoalService`: documents and reservations of names | base specification |
| `NamedDocumentsProofs` | - | theorems about `NamedDocuments` |
| `AppAnswers` | what the server may answer to a write, and what the app makes of it | operators |
| `AppShell` | `MainApp`: screen, Back stack, gate, effects, writes in flight | base of the app's screens |
| `MovementsScreens`, `TransfersScreens`, `RechargesScreens`, `BeneficiariesScreens`, `CategoriesScreens`, `CashScreens`, `BudgetsScreens`, `GoalsScreens`, `AnalyticsScreens`, `Module1Screens` | the screens of one module, their handlers and the answers to their writes | components of `App` |
| `App` | all of them together | composition |
| `AppProofs` | - | theorems about `App` |
| `ClientSession` | `SessionManager` and the HTTP client | base specification |
| `SessionScreens` | the list hooks and `useAsyncAction` over it | composition |
| `BackofficeApp` | the staff app's routes and screens over both | composition |
| `Frontend` | either app over one session; restarts | composition |
| `FrontendProofs` | - | theorems about `Frontend` |
| `MC*` | - | instances for TLC |

Definitions marked `\* Mutation` next to an operator are deliberate bugs: no action uses them.
Putting one in the place of the operator that follows it makes the property that `PROJECT.json`
pairs with it fail in its run, which shows that the property depends on that code.

### Ledger

One action is one `RunWithRetriableTransactionAsync` callback. Spanner serialises callbacks and
re-runs an aborted one from its first read, so the reads, the checks and the writes of a transaction
are one step; a rejected request rolls back and is not a step. The `version` checks are therefore
never the reason for a rejection here; what they protect, one entry per version and a chain without
gaps, is stated as `OneEntryPerVersion` and `LedgerChain`.

| Model | Code |
|---|---|
| `balance`, `version`, `walletStatus` | `wallet_accounts` |
| `clientStatus` | `clients.status` |
| `usage`, `today` | `daily_transfer_usage`, `GetClientLocalDate` |
| `ops`, `entries`, `outbox` | `ledger_operations`, `ledger_entries`, `outbox_events` |
| `Transfer`, `Recharge` | `CreateTransferAsync`, `CreateRechargeAsync` |
| `Reverse`, `Adjust`, `SetClientStatus` | `ReverseAsync`, `AdjustAsync`, `SetClientStatusAsync` |
| `NextDay` | midnight in a client's time zone |

Data: amounts are integers in minor units; ids, references, reasons and currencies are left out,
the event's payload is what the read model uses of it. The order of entries, `created_at` in the
table, is the version each entry wrote. Every client has its wallet and the funding account is
active, as seeded; the code has no operation that changes either.

`Ledger` implements `MoneyMovement` (`MovesMoney`), which knows no types of operation, statuses,
versions or events: money moves from one account to another, once for each operation, a client pays
with what it has, and a movement is undone at most once, by one that is never undone. The mapping
reads a movement off the two entries of an operation (`Movement`) and what is settled off the
statuses and the reversals (`Settled`).

### Idempotency and FinancialClient

A request is `arrived`, `executing` (the reservation is its own), `committed` (its ledger
transaction is in), `returned` (the handler gave a result below 500), then `answered` or `dead`.
`BreakOff` may happen at each of these: it stands for unhandled exceptions, 5xx results,
cancelled calls, a failed `CompleteAsync` and a crash. The two outcomes of the handler are `Commit`
and `Reject`; what it commits is opaque (`effects`) because `Ledger` models it. `late` is the age
over `InProgressTimeout`; `life` counts how often the retention policy deleted a key. The recovery
hook of the filter is registered only outside production and is not part of this model. An orphaned
reservation turns every retry away (`OrphansStayBlocked`) until the retention policy deletes it; that
it ever is deleted is no property here, since the code says the opposite (see
[Disagreements](#where-the-code-disagrees-with-its-own-words)).

`Idempotency` implements `IdempotentEndpoint` (`DecidesOnce`): the refinement mapping derives from
the effects and the records whether a key is open, applied or refused, and by whom.

`FinancialClient` adds the state of one `FinancialOperation` and its scope in `IdempotencyKeyStore`.
The fingerprint of an intention is the body it sends, as in the screens that use it. `Uncertain` may
come at any time while a request is under way: the server goes on without the app. `ClearSession` is
the logout callback that empties the key store, `Restart` a killed app.

### Outbox, OutboxDelivery, OutboxReconciliation

`drain[d]` is one call of `DrainOnceAsync` with the batch it read; batches of different drains
overlap and grow stale, as in the code, where neither the fetch nor the marks lock or check
anything. Each publish and each mark is a step of its own, and either may fail after it took
effect. `since` holds the insertion order that `pending_since` orders by, 0 for NULL. Poison rows
are marked before the batch is published, as `FetchPendingAsync` does.

`OutboxDelivery` adds two subscriptions. Delivery is at least once: any published event may be
received at any time by any free handler, also after it was acknowledged. The Pub/Sub actions are
an environment model; the handlers are the code of the workers.

`OutboxReconciliation` adds the calls of `ResolveIssue`, in the three steps the code makes:
find the issue, requeue the row, store the resolution. A resolution that requeues nothing goes from the
first to the third. `Offered` bounds the resolutions operators choose from: two of the four do alike.

### NamedDocuments

Categories and goals follow one pattern: reserve the key of the name with a create-if-absent, write the
document, delete the key that is not needed any more; `kind` says which of the two a behaviour is about
(goals are never deactivated). Each Firestore call is an action and requests interleave between them.

| Model | Code |
|---|---|
| `doc` | `categories` or `goals`, by name and whether active |
| `key` | `category_keys` or `goal_keys`, by name; its value is the id in the payload |
| `req[r]` | the local variables of a request and the call it is at |
| `Read`, `ReserveNew`, `Write`, `ReleaseOld` | the four calls of an update, of which the others use some |
| `WriteThrows`, `Compensate` | the `catch` blocks, whose delete no cancellation stops |
| `Stop` | the instance stops, or a call outside the `try` throws |

One client and one type: keys of others never meet. `Faults` says what may go wrong: a request stops, a
write throws although it was done (`blur`), two requests change one document at the same time
(`overlap`). `marks` remembers what happened, because three courses do break the names (see
[More hazards](#more-hazards)).

### AppShell, the screens and App

A screen is `<<module, number>>`, as in the code's `Transfers_03`. Each `XxxNNScreen` operator is the
component of that name with the handlers `App.tsx` gives it: its disjuncts are the buttons that
change something, its conjuncts what hides or disables them. A handler is one action up to its first
`await`; the answer is another action, `XxxAnswered`, in whatever state the app is by then.

| Model | Code |
|---|---|
| `screen`, `history` | `currentState`, `stateHistoryRef` |
| `gate`, `actor` | `sessionGate`, the uid of the session |
| `res` | the status of the list the module's effect follows |
| `form` | drafts, selections, results and flags of the module, as far as control depends on them |
| `flight` | writes without an answer, with the screen and the user that sent them |
| `Redirect` and the `XxxEffect` operators | the effects that follow a list to its skeleton, empty or error screen |
| `Applies` | `actorGuard` and the comparison with `currentStateRef` |
| `Truth`, `Failure` | what the server did, and `classifyOperationFailure`; a 409 to a write with a key (`Keyed`) may come from the idempotency filter, while the first request runs or after it committed |

React's order matters in three places and is kept. Effects of a render run before the next event, so
a handler's `setCurrentState` and the redirection it meets are one step. A handler that reloads and
navigates is judged by the status of *before* the reload (`NavReloading`). The effect that sends a
transfer depends on a list of values, and `TransferDeps` with `form.seen` says when it runs again.

A behaviour has one `mode` (the build) and one `focus`, the module whose list may fail and whose
forms are sent. The lists of other modules load at once and their forms are looked at, not sent: no
code relates two modules' lists or forms except through the screen, so nothing is lost but the size.
`form.asked` and `truth` are history variables: no action reads them.

### ClientSession, SessionScreens, BackofficeApp and Frontend

| Model | Code |
|---|---|
| `session`, `status`, `generation` | the fields of `SessionManager` |
| `restoring`, `refreshing`, `signing` | `restorePromise`, `refreshPromise`, the `signIn` call under way, each with the place where it awaits: `provider` until the head, `body` after it, `storage` |
| `deletes` | `clearSession` calls that await the device, one for each `signOut`, which has no guard, and each 401 |
| `stored` | the refresh token in secure storage, by its user |
| `requests` | one HTTP request each: `refresh` (awaits a token), `clearing` (awaits the deletion its refused refresh began), `sent`, `body` (the head came, the timer is off) |
| `load`, `list`, `form` | the generation a hook compares, its state, `useAsyncAction` |
| `stack` | the routes of the staff app, each with the user it was opened by |
| `viewer`, `roles` | the snapshot that was rendered last: it stays on screen, with its roles, until a deletion is over |

Every `await` is a boundary between two actions, and the code after it is guarded by what the code
compares (`generation`, the token, `refreshPromise`). The device may fail to store or delete, which
the code swallows; `diskFailed` and `overtaken` are history variables that say it has happened, or
that a session changed while a token was being stored (`"store"`), or a sign-in began while one was being
deleted (`"delete"`). A restart forgets both: what it reads from the device is the new truth. The provider and the server are the
environment: the provider grants, refuses or fails, the server answers, is late, or loses the
connection. A request without a token is answered 401.

`NewLoad` stands for a counter that only grows: a number is free when nothing refers to it any more.

## Runs

| Run | Shows | Instance |
|---|---|---|
| `ledger` | balanced books, unbroken chain, no overdraft, daily totals and limits, single reversal, announcements, append-only, refinement of `MoneyMovement` | 2 clients, 3 operations, amounts -1..3, 2 days |
| `idempotency` | applied once, true answers, orphans blocked, answers kept, refinement of `IdempotentEndpoint`; requests end | 1 key, 2 bodies, 3 requests, 1 deletion |
| `financial_client` | confirmations are new, one body per key | 2 keys, 2 bodies, 3 requests |
| `financial_client_reject` | violation: "rejected" although it was applied | 2 keys, 1 body, 2 requests |
| `outbox` | events are safe, also while operators requeue from issues read earlier: none is lost, published was sent and leaves the queue; the queue drains | 1 event + 1 poison, 2 drains, batch 1, 2 attempts, 2 operators, 1 requeue, 2 of the 4 resolutions |
| `outbox_delivery` | one push, acknowledged means applied, read stays read; published reaches the movements or the dead letters | 1 event, 1 drain, 2 publish attempts, 2 handlers, 2 deliveries |
| `outbox_reported` | violation: an event given up after it was requeued is not reported | 1 event, 1 drain, 1 attempt, 1 operator |
| `named_documents` | reservations keep names unique, failures block no name | 2 names, 4 requests, every fault |
| `app` | late answers move nobody, success is earned, refusals are true, no demo screen in a real build | 2 users; demo and real builds of 10 modules, the academic one of transfers; 2 sends, 1 upset, 1 Back remembered (academic 1, 2, 2) |
| `app_denied` | violation: "no money was taken", of a transfer that was done | the real transfers |
| `app_resend` | violation: a transfer is sent again without a tap | the real transfers |
| `client_session` | whole lists of the right user, device agrees, no foreign 401, nothing lost; a load or a start that does not end waits for a body | 2 users, 2 tokens, sign-ins and sign-outs: movements 2, staff 3, cash 1 and 1 restart; 2 pages, routes 4 deep |

The bounds. Three operations are the least in which money is received, spent and taken back, and in
which a reversal meets a second reversal; amounts include refused ones and one above each limit,
the daily limit is met by two transfers, the first client starts with more than it may send in a
day and the second with nothing. Three requests are an owner, a retry and a retry of the retry;
one key is enough for `idempotency`, where no step looks at two, and the app rotates between two. Two
drains with a batch smaller than the queue give overlapping and stale batches and a poison row that
holds the head of the queue; two attempts distinguish the last from the others. One event is enough
for deliveries, whose handlers never look at two events together; two attempts
let it be sent twice. Two operators share the one requeue of `outbox`: the issue of one is stale once the
other, or a drain, has acted. In `outbox_reported` one attempt gives an event up and the one requeue the
trace needs may come before that. Four requests are two owners of names, a competitor for both and
one that comes later. Bounds in guards: `LastDay`, `MaxLives`, `MaxRequeues`, `MaxBack`, `MaxSends`,
`MaxUpsets`, `MaxTokens`, `MaxGeneration`, `MaxRestarts`, `MaxOpen`, `MaxDepth`, `Offered`;
`failures` stops counting at `MaxDeliveries`, which is the code's own limit.

In `app` an upset is a Back, a failed load, a lost session or a demo jump; one of them between any two
steps is what separates a write from its answer, two sends are a retry, and the academic build needs
two Backs to reach a transfer without its amount. The stack remembers its last `MaxBack` screens: Back
looks only at the last one. In `client_session` two tokens are a session and its renewal or
successor, two changes of generation a sign-out and another user's sign-in, three a sign-out pressed
twice before that (in the staff app); the two users are a
client and an employee with every role, so the staff app meets both its guards. Movements has pages,
the cash register a load of two requests. The cash register has the restart, with one sign-out or
sign-in before it and one after it: a kill between the sign-out and the deletion of the token, and a sign-in, as
anybody, after the restart. The device keeps the client's token at first: the employee, whose token
deletion a late one may erase, signs in after it, and the client again after the employee. `LoadNumbers` has a free number in every state
(`CHOOSE` would fail otherwise). Tokens age only in the clients' app: what an old token leads to is in
`ClientSession`, the same for both.

Symmetry is declared only over identifiers that no definition tells apart, and never in the runs
with liveness properties. `CHECK_DEADLOCK FALSE` is set where the instance runs out of requests,
events or requeues; `ledger` never stops because statuses can always be set.

## Fairness

- `idempotency`: weak fairness of each step of the server. ASP.NET runs an accepted request to
  its end or kills it, both of which the model has. Nothing is assumed of ageing or of the retention
  policy.
- `outbox`: `OutboxWorker` polls for ever and is restarted by Cloud Run (`min-instances 1`), so
  some drain fetches or finishes (weak). Drains may be stopped again and again, but not all of them each
  time before the same call: publishing and marking are strongly fair, over the drains together. No
  fairness says that a publish succeeds, or that an operator does anything.
- `outbox_delivery`: a push request ends (weak), and Pub/Sub delivers again what is neither
  acknowledged nor dead-lettered (strong, since handlers may be busy). No fairness says that a
  handler succeeds, which is why the property has the dead letters.

- `client_session`: the device answers (loading, storing and deleting a token), React renders a changed
  status, and a timer ends a request whose head does not come: that of the HTTP client
  (`client.ts:191`), and that of the provider's client, 15 s (`identityPlatform.ts:161`). Each of these
  stays enabled until it happens, so weak fairness is enough. Both timers are cleared when the head
  arrives (`client.ts:234`, `identityPlatform.ts:184`), so nothing bounds a body. `StartEnds` and
  `LoadsEnd` therefore say that a start, or a load, that never ends is waiting for a body from some time
  on: its own, or that of the refresh it needs. No other wait is excused.

## Proofs

All theorems hold for every value of the constants that satisfies the named assumptions next to
them: ids do not collide, clients are finitely many, amounts are integers, seeded balances of clients are not negative, limits
are natural numbers (`MinRecharge` at least 1), batches and attempts are positive, what the device has
stored is the session of a user, a list loads a page and perhaps the balance, a build of the app is a
mode with a module, and the bounds of the models are natural numbers. `BoundsAssumption` says that the
numbers of loads do not run out: the code counts (`useApiData.ts`), the model takes again a number that
nobody uses, and there must be one.

- `LedgerProofs`. The four transactions are reduced to one shape, `Posting`: a fresh operation with
  two entries on different accounts. `TypeAndDoubleEntry` is an induction over
  `TypeOK /\ DoubleEntry`, which needs each other: a reversal reads two entries of the original, and
  only double entry says they are there and on different accounts. `LedgerAccountsForBalances` adds
  `LedgerChain` and `OneEntryPerVersion`; they are inductive only together, since a new entry is
  linked to the last one of its account, which exists because every version has its entry.
  `NeverOverdrawn` follows because every negative delta on a client is checked.
  `NothingReversedTwice` and `OutboxIsTheLedger` say how `Posting` changes the sets they compare, over
  the type invariant; `LedgerOnlyGrows` and `FrozenUntilReversed` are properties of a step, shown per
  transaction.
  `DailyLimitHolds` and `NoMoneyIsMade` are about sums over sets of any finite size. The library's
  induction theorems take a predicate as parameter, which no prover here can instantiate; that
  the strict subsets of a finite set are well-founded takes none. `SmallestOf` draws from it that of all the
  bad subsets one is smallest, and with it the section on sums proves what
  `SumFunctionOnSet` is: its recursion has one solution (`SumsUpOnce`, `SumsUpExists`), so the order
  of the summands does not matter (`SumWithout`). `UsageInv` adds to `DailyUsage` that the transfers of a
  day are finitely many; a transfer adds itself to the sum, and the others keep their amounts
  (`TransfersStay`). `NoMoneyIsMade` is `SumOfMoved`: a `Posting` takes from one summand what it
  gives to another. `LedgerMovesMoney` is the refinement of `MoneyMovement`: `PostingMoves` turns the two
  entries into one movement, whichever of the accounts pays, and each transaction shows that its
  payer has the money; `ReverseUndoes` needs double entry to know that the reversal is the
  original the other way round.
- `IdempotencyProofs`. `AppliedOnce` is not inductive. `IInv` adds that the holder of a reservation
  is alone and owns it (`HolderOK`), that an effect was made by its own request in the past
  (`EffectOK`), that nothing is committed under a key that is free or whose holder still executes
  (`CommitsAhead`) and that what a reply or a stored response claims is true (`AnswersOK`). There is
  one lemma per action. The same invariant gives `AnswersTellTheTruth`, and the action properties
  `OrphansBlock` and `StoredAnswerStays`. `LayerDecidesOnce` is the refinement of
  `IdempotentEndpoint`: with `ResultsOK` (a result is its request's own, and a stored answer names one)
  every step decides one open key, forgets one, or changes no outcome (`StepOutcome`).
- `FinancialClientProofs` keeps `IInv` and adds that a key was sent with one body only, whether in a
  request, in a reservation or in the operation that may send it (`OneBody`), and that the key of a
  confirmed request is neither stored nor awaited (`ConfirmedOK`): this is what a logout, a restart or
  an edit between two attempts could break. `ClientInv` is inductive and gives `KeysNeverConflict` and
  `ConfirmedIsNew`. Every step of `FinancialClient` is a step of `Idempotency` or leaves the server alone,
  so the theorems about the server hold with the app in front of it (`AppKeepsToTheProtocol`).
- `OutboxProofs`. `Inv` adds to the four safety properties that a drain works on committed rows and
  marks as published only what was accepted (`DrainOK`), and that queued rows are committed. Every step
  of `OutboxReconciliation` is a step of `Outbox` or of an operator; the only one of these that touches
  rows, `Requeue`, is shown to keep `Inv`.
- `OutboxDeliveryProofs`. `DeliveryInv` adds to `Inv` what each handler knows at its place
  (`HandlerOK`): a handler that is done has its document, and of all the handlers of one event only
  the one that created the notification may push. `AtMostOnePush` needs it, because the push counter
  says nothing about who is about to push.
- `NamedDocumentsProofs`. `NamesStayUnique` rests on `Orderly`: an active document holds its name
  (`Held`), live requests are about different documents (`Apart`), and each knows that its document is
  as it read it and that the keys it may still delete are of its document (`Creating`, `Changing`).
  Without the last a key deleted by name could be anybody's. One frame lemma (`StepOrderly`) says that
  a step on one document disturbs no other request; a lemma per call gives it what it needs.
  `NoReservationIsLost` rests on `AccountInv`, which follows each key from the call that writes it to
  the one that deletes it: unless the names have been marked, it is free, or of a document in use, or of a
  request that is to save, rename or give it back.
- `FrontendProofs`. `NoForeign401` needs no strengthening: a request is answered with the token it
  carries. `DeviceKeepsTheSession` is about a session that is always in one of four courses
  (`Starting`, `SignedOut`, `SignedIn`, `SigningOut`), each with what may be under way in it, and any number
  of deletions in the last. It leaves them only where the session changed while a token was being stored
  (`"store"` in `overtaken`), which is where the code itself leaves the device behind; and unless it
  changed during a deletion too (`"delete"`), no deletion is under way beside a sign-in or a session, and a
  session is `authenticated` (`Settled`). With these `SessionInv` is inductive. A sign-out needs a screen with its button:
  that it is the screen of a session, or of one being deleted, is part of `ScreensInv`, so the two are
  inductive together (`ScreensAreShown`). `NoGaps`, `OwnScreens` and `NothingLost` are about
  several requests of several sessions at a time and none is inductive alone. `ScreensInv` adds what the
  present requests of a list ask for (`Asked`, `Progress`), that the number of a new load is carried by no
  request under way (`NewLoadIsFresh`, a pigeonhole over the requests and the numbers), that everybody who
  waits is waited for (`NobodyForgotten`), and that the gate is closed before the session changes
  (`Gate`, `Ours`, while nothing was overtaken). `TasksAt` says at which place each task of the
  session is.
- `AppProofs`. Every theorem follows from `AppInv /\ [Next]_vars => Keeps`, where `Keeps` is the
  invariant in the next state and what the three action properties say of the step. `AppInv` is the type
  invariant with: outside DEMO no screen of DEMO is shown or kept (`Kept`); the effects of the list's
  status have nothing more to do on the screen shown (`AtRest`: an answer that reloads the list runs them
  again, and must not move the user by that); an attempt of a transfer has a listener only while its
  effect last saw the screen it was sent from (`Draft`); and a transfer in flight was sent from
  there (`InFlight`). There is one lemma per kind of button, by which each of the screens is gone
  through, and one per answer; `RefusedIsNotDone` compares what the app makes of every error of every
  operation with what the server did: but for a conflict of a write sent with a key, what the app takes
  for a refusal was refused.

The type invariants of `Ledger` and of the server's other modules, and `OneEntryPerVersion`, are proved
along with these invariants or as parts of them.

Only model-checked: the liveness properties `RequestsFinish`, `QueueDrains`,
`PublishedIsProjected`, `LoadsEnd` and `StartEnds`, whose fairness is out of the prover's reach. Every
safety and action property that a passing run checks is the consequence of a theorem.

## More hazards

What modelling the services showed:

- A category can lose its name to a second one. `DeactivateAsync` and `UpdateAsync` accept an inactive
  category and delete the key of its name, whoever holds it (`CategoryService.cs:155`, `:136`): create a
  name, delete it, create it again, delete the *first* again (a repeated DELETE is enough), create it
  once more, and two active categories have it, although `CategoriesController.cs:34` promises "Nombre
  único por propietario y tipo". Mark `revived`.
- Two requests that change one category or goal at the same time save what each has read: a rename
  reactivates a category that was just deactivated, and the keys follow the last delete. Mark `overlap`.
- A write that is cancelled or whose answer is lost may be done; the `catch` then deletes the key of a
  name that is in use (`CategoryService.cs:88`, `:131`, `GoalService.cs:75`). Mark `blurred`.
- A request that stops between its calls leaves a key nobody holds, as `CategoryService.cs:215` says.
  Mark `stopped`: `NoNameIsLost` does not speak of these, names stay unique in them.
- `outbox_events` are deleted after 30 days, published or not (`00_live_schema.sql:135`).
- An instance that stops between creating a notification and sending its push never sends it: the
  redelivery finds the document (`NotificationService.cs:55`). Nothing promises otherwise.

What modelling the app showed, with the place in the model where it can be seen:

- Transfers_13 says "No se descontó dinero" after a 500 and after a body that cannot be read
  (`FailureScreen`), and after a confirmed transfer the mapper refuses, committed or not: `app_denied`
  shows it. `Refusals` has the screens whose text refuses the write; this one is judged by
  `DenialsAreTrue`, with its `uncertain` text apart.
- Transfers_08 and Cash_10 say that the operation was processed already (`Transfers08Screen.tsx:32`,
  `Cash10Screen.tsx:42`) after any 409: also one the filter gives while the first request still runs, which
  may fail. Cash_11 says "No pudimos guardar el registro" after a timeout too, when it may be saved.
- Confirming again while an earlier attempt is still under way leaves the user at Transfers_03 with
  nothing to answer it (`Due`).
- Reload and navigate: from seven error screens the retry bounces once (`NavReloading`). Transfers_18
  cannot be left towards the list at all when it was the balance that failed.
- Back from Movements_03 to Movements_01 and the effect back again: while the list loads Back goes
  nowhere (`Back`).
- Screens, drafts and results of `MainApp` survive a sign-out and another user's sign-in: it is
  mounted under the gate, not by it. Cash stores its draft and result before comparing the user
  (`App.tsx:1672`, `submitCash`).
- Recharges_02, Cash_04 and Cash_05 have default demo receipts, which a real build shows when Back
  returns to them after the result was forgotten; `App.tsx:747` says none is fabricated.
- `retryCreateGoal` (`App.tsx:2102`) creates a goal from the draft of an update; Budgets_05 starts with
  the limit of the budget edited before.
- Creating goals, budgets and beneficiaries and every write of the staff app's cases carries no
  `Idempotency-Key`; `startNewRecharge` takes a new key after an uncertain recharge.
- `signOut` pressed twice, or pressed after a 401, deletes the token twice: nothing in
  `sessionManager.ts:175` or in its button (`HomeScreen.tsx:72`) holds the second one back, and the button
  stays until the first deletion is over. If the second is over only when another user has signed in, it
  erases that user's token and sets the status to `anonymous` over a live session (`Deleted`). The
  properties of `client_session` set these states apart as `"delete"` in `overtaken`, and
  `OwnScreens` holds in them.
- `signOut` while a token is being stored is undone when the device answers: the code after that
  `await` does not look at the generation again. The comment at `sessionManager.ts:56` says otherwise;
  the properties of `client_session` set such states apart as `"store"` in `overtaken`.
- A refresh of an earlier generation that is refused clears the session of the first waiter of the
  present one (`RefreshRefused`).
- A reply typed in a case while another is being sent is erased when it arrives; the form is
  abstracted, so the model does not show it.

## Where the code disagrees with its own words

| Run | Disagreement |
|---|---|
| `financial_client_reject` | every 409 counts as a definitive rejection (`financialOperation.ts:37-46`), those for a request still in progress included; the key is released although the first attempt may commit |
| `outbox_reported` | events "with retries exhausted" are detected (`ReconciliationService.cs:14`): not when an earlier resolution is stored (`ReconciliationService.cs:72-75`) |
| `app_denied` | a 5xx is never presented as rejected (`financialOperation.ts:8`): Transfers_13 says "No se descontó dinero" (`Transfers13Screen.tsx:39`) after a 500 that followed the commit (`App.tsx:1151`) |
| `app_resend` | "una sola vez por intención" (`App.tsx:1021`), "No hay reintentos automáticos" (`financialOperation.ts:11`): the request to send outlives the session, and the next sign-in sends the transfer again without a tap |

Without a run of their own: the names of categories (above); "no double effects" (`SpannerStores.cs:14`)
and "a permanent 409" that is never resolved automatically (`IdempotencyStore.cs:87-90`), while reservations are deleted after 30 days
(`00_live_schema.sql:71`) and the key starts over, which `life` in `Idempotency` counts and `AppliedOnce`
allows for; and `Nequi.Wallet/README.md:163` says that an event stays in the outbox so that
the worker retries it "hasta su publicación", while after ten failed attempts it leaves the queue
(`SpannerStores.cs:216-226`, and `NoEventLost` says as much).

## Not modelled, and why

- Pub/Sub, Spanner and Firestore themselves: their guarantees are assumed as the code uses them
  (serialisable transactions, at-least-once delivery, create-if-absent).
- The development profile (`InMemory*` stores, `Mock*` services): single-process stand-ins.
- `AbandonAsync` and the `FAILED` branch of `BeginAsync`: no code writes `FAILED` and nothing calls
  `AbandonAsync` in the deployed profile.
- Authentication and authorisation on the server, routing, formatting, mappers, styles: no state that
  several actors change.
- Of the app: texts typed into forms, filters, alerts, layouts and the data shown; the cards of the
  wallet and the profile, whose loads move nobody; screens no build can reach, except as demo screens.
- Durable intents, the academic store, balance mismatches, cash and budgets on the server, reports,
  support cases: see the plan. Of goals, amounts and dates.
- The retention of `outbox_events`, and the 64-character cut of idempotency scopes (listed as a hazard).
- Overflow: amounts are bounded by the limits and summed in `checked` arithmetic.

## Plan

What is left, in order; each with its own `MC` module and runs.

1. `FinancialIntent`: the intent's state machine and the coordinator's transaction over `Ledger`'s
   effects; abstract specification: one effect per intent. Then confirmed transfer recovery on top.
2. `AcademicWallet`: memory and file, crash between them; refinement of `IdempotentEndpoint`.
3. `BalanceReconciliation`: BALANCE_MISMATCH and PROJECTION_MISSING issues.
4. Personal finance on the server: `CashAccount`, `Budgets`, and the amounts of goals.
5. `Reports`, `Realtime`, `SupportCases` with the audit trail; keyset pagination as a pure operator.
6. The composition of `App` with `FinancialClient`, so that a screen of refusal is compared with what
   the ledger did rather than with the answer.
