------------------------------- MODULE Ledger -------------------------------
(***************************************************************************)
(* The authoritative Spanner ledger of NequiTrampa: the tables             *)
(* wallet_accounts, clients, daily_transfer_usage, ledger_operations,      *)
(* ledger_entries and outbox_events, and the transactions that write them: *)
(* transfers and recharges (Nequi.Wallet), reversals, adjustments and      *)
(* client status changes (Nequi.Backoffice).                               *)
(*                                                                         *)
(* Each transaction is one action: every statement of it runs inside one   *)
(* RunWithRetriableTransactionAsync callback and Spanner serialises        *)
(* callbacks.  A request the code rejects rolls back, so it is a step that *)
(* changes nothing.                                                        *)
(***************************************************************************)
EXTENDS Integers, Sequences, FiniteSetsExt

CONSTANTS
  Clients,         \* rows of clients; each owns exactly one CLIENT_WALLET
  SystemFunding,   \* the one SYSTEM_FUNDING account
  OpIds,           \* operation ids the services may generate
  NoOp,            \* NULL in original_operation_id
  Amounts,         \* amounts a request may carry, in minor units
  InitialBalance,  \* balances the database is seeded with
  MaxTransfer,     \* largest single transfer
  MaxDaily,        \* largest outgoing total of a client in one local day
  MinRecharge,
  MaxRecharge,
  MaxAdjustment,
  LastDay          \* last local day reached

Accounts == Clients \cup {SystemFunding}
Days     == 0..LastDay
NoDay    == -1      \* operations that charge no daily usage

ASSUME IdsAssumption ==
  /\ SystemFunding \notin Clients
  /\ NoOp \notin OpIds
ASSUME ClientsAssumption == IsFiniteSet(Clients)
ASSUME AmountsAssumption == Amounts \subseteq Int
ASSUME SeedAssumption ==
  /\ InitialBalance \in [Accounts -> Int]
  /\ \A c \in Clients : InitialBalance[c] >= 0
ASSUME LimitsAssumption ==
  /\ MaxTransfer \in Nat
  /\ MaxDaily \in Nat
  /\ MinRecharge \in Nat \ {0}
  /\ MaxRecharge \in Nat
  /\ MaxAdjustment \in Nat
  /\ LastDay \in Nat

OpTypes    == {"INTERNAL_TRANSFER", "SIMULATED_RECHARGE", "REVERSAL", "ADMIN_ADJUSTMENT"}

\* Mutation: everything but an adjustment can be reversed.
AllButAdjustments == OpTypes \ {"ADMIN_ADJUSTMENT"}

Reversible == {"INTERNAL_TRANSFER", "SIMULATED_RECHARGE"}

ClientStatuses == {"ACTIVE", "SUSPENDED", "CLOSED"}
WalletStatuses == {"ACTIVE", "FROZEN", "CLOSED"}

VARIABLES
  clientStatus,  \* clients.status
  walletStatus,  \* wallet_accounts.status of each client's wallet
  balance,       \* wallet_accounts.current_balance_minor
  version,       \* wallet_accounts.version, counted from the seeded one
  today,         \* the local day GetClientLocalDate computes for each client
  usage,         \* daily_transfer_usage.outgoing_total_minor (0: no row yet)
  ops,           \* ledger_operations (status "ABSENT": no row)
  entries,       \* ledger_entries of each operation, in entry_no order
  outbox         \* payloads of the rows inserted in outbox_events

vars == <<clientStatus, walletStatus, balance, version, today, usage, ops, entries, outbox>>

-----------------------------------------------------------------------------
(* Rows.                                                                   *)

Operations ==
  [type : OpTypes, status : {"ABSENT", "COMPLETED", "REVERSED"},
   amount : Nat, original : OpIds \cup {NoOp}, day : Days \cup {NoDay}]

\* seq is the wallet version the entry's transaction wrote; the table keeps the
\* same order in created_at.
Entries == [account : Accounts, delta : Int, before : Int, after : Int, seq : Nat]

Events == [op : OpIds, type : OpTypes, client : Clients, amount : Int, balanceAfter : Int]

NoOperation ==
  [type |-> "INTERNAL_TRANSFER", status |-> "ABSENT", amount |-> 0,
   original |-> NoOp, day |-> NoDay]

Operation(type, amount, original, day) ==
  [type |-> type, status |-> "COMPLETED", amount |-> amount,
   original |-> original, day |-> day]

\* Mutations of EntryOn: unsigned amounts, the two balances swapped.
UnsignedEntryOn(a, delta) ==
  [account |-> a, delta |-> IF delta < 0 THEN -delta ELSE delta, before |-> balance[a],
   after |-> balance[a] + delta, seq |-> version[a] + 1]

SwappedEntryOn(a, delta) ==
  [account |-> a, delta |-> delta, before |-> balance[a] + delta, after |-> balance[a],
   seq |-> version[a] + 1]

\* Mutation: the balance that is stored stops at zero.
ClampedEntryOn(a, delta) ==
  [account |-> a, delta |-> delta, before |-> balance[a],
   after |-> IF balance[a] + delta < 0 THEN 0 ELSE balance[a] + delta, seq |-> version[a] + 1]

EntryOn(a, delta) ==
  [account |-> a, delta |-> delta, before |-> balance[a],
   after |-> balance[a] + delta, seq |-> version[a] + 1]

EventFor(op, type, e) ==
  [op |-> op, type |-> type, client |-> e.account, amount |-> e.delta,
   balanceAfter |-> e.after]

\* Mutation: INSERT OR UPDATE.
UpsertFresh(op) == TRUE

Fresh(op)  == ops[op].status = "ABSENT"
Exists(op) == ops[op].status # "ABSENT"

-----------------------------------------------------------------------------
(* The writes every financial transaction makes after its own checks: two  *)
(* entries, two balances with their versions, one outbox event for each    *)
(* entry on a client's wallet.                                             *)

\* Mutation: only the receiver is told.
AnnouncedCredit(e1, e2) == {e \in {e2} : e.account \in Clients}

Announced(e1, e2) == {e \in {e1, e2} : e.account \in Clients}

Post(op, type, debited, credited, amount) ==
  LET e1 == EntryOn(debited, -amount)
      e2 == EntryOn(credited, amount)
  IN  /\ entries' = [entries EXCEPT ![op] = <<e1, e2>>]
      /\ balance' = [balance EXCEPT ![debited] = e1.after, ![credited] = e2.after]
      /\ version' = [version EXCEPT ![debited] = e1.seq, ![credited] = e2.seq]
      /\ outbox' = outbox \cup {EventFor(op, type, e) : e \in Announced(e1, e2)}

ActiveClient(c) == clientStatus[c] = "ACTIVE" /\ walletStatus[c] = "ACTIVE"

\* Mutation: the statuses are not read.
SolventWallet(c) == balance[c] >= 0

\* ReadWalletInTxAsync and ReadClientWalletInTxAsync also refuse a stored
\* negative balance.
UsableWallet(c) == ActiveClient(c) /\ balance[c] >= 0

\* Mutation: the total is overwritten.
OverwriteDailyUsage(c, amount) ==
  /\ usage[c][today[c]] + amount <= MaxDaily
  /\ usage' = [usage EXCEPT ![c][today[c]] = amount]

ChargeDailyUsage(c, amount) ==
  /\ usage[c][today[c]] + amount <= MaxDaily
  /\ usage' = [usage EXCEPT ![c][today[c]] = @ + amount]

-----------------------------------------------------------------------------
(* Transactions of Nequi.Wallet.                                           *)

Transfer(op, c, d, amount) ==
  /\ Fresh(op)
  /\ amount > 0 /\ amount <= MaxTransfer
  /\ c # d
  /\ UsableWallet(c) /\ UsableWallet(d)
  /\ amount <= balance[c]
  /\ ChargeDailyUsage(c, amount)
  /\ ops' = [ops EXCEPT ![op] = Operation("INTERNAL_TRANSFER", amount, NoOp, today[c])]
  /\ Post(op, "INTERNAL_TRANSFER", c, d, amount)
  /\ UNCHANGED <<clientStatus, walletStatus, today>>

Recharge(op, c, amount) ==
  /\ Fresh(op)
  /\ amount >= MinRecharge /\ amount <= MaxRecharge
  /\ UsableWallet(c)
  /\ ops' = [ops EXCEPT ![op] = Operation("SIMULATED_RECHARGE", amount, NoOp, NoDay)]
  /\ Post(op, "SIMULATED_RECHARGE", SystemFunding, c, amount)
  /\ UNCHANGED <<clientStatus, walletStatus, today, usage>>

-----------------------------------------------------------------------------
(* Transactions of Nequi.Backoffice.                                       *)

AlreadyReversed(o) ==
  \E r \in OpIds : Exists(r) /\ ops[r].type = "REVERSAL" /\ ops[r].original = o

\* Mutation: corrections may overdraw.
NeverOverdraws(a, delta) == FALSE

Overdraws(a, delta) == a \in Clients /\ balance[a] + delta < 0

\* Entry i of the reversal compensates entry i of the original.  No status is
\* read: a suspended or closed client can be reversed.
Reverse(op, o) ==
  LET debited  == entries[o][1].account
      credited == entries[o][2].account
      back     == entries[o][1].delta
  IN  /\ Fresh(op) /\ Exists(o)
      /\ ops[o].type \in Reversible
      /\ ~AlreadyReversed(o)
      /\ ops[o].status = "COMPLETED"
      /\ entries[o] # <<>>
      /\ ~Overdraws(debited, -back) /\ ~Overdraws(credited, back)
      /\ ops' = [ops EXCEPT ![op] = Operation("REVERSAL", ops[o].amount, o, NoDay),
                            ![o].status = "REVERSED"]
      /\ Post(op, "REVERSAL", debited, credited, back)
      /\ UNCHANGED <<clientStatus, walletStatus, today, usage>>

\* clientDelta is +amount for a CREDIT, -amount for a DEBIT.
Adjust(op, c, credit, amount) ==
  LET clientDelta == IF credit THEN amount ELSE -amount
  IN  /\ Fresh(op)
      /\ amount > 0 /\ amount <= MaxAdjustment
      /\ ActiveClient(c)
      /\ ~Overdraws(c, clientDelta)
      /\ ops' = [ops EXCEPT ![op] = Operation("ADMIN_ADJUSTMENT", amount, NoOp, NoDay)]
      /\ Post(op, "ADMIN_ADJUSTMENT", SystemFunding, c, clientDelta)
      /\ UNCHANGED <<clientStatus, walletStatus, today, usage>>

WalletStatusFor(s) ==
  CASE s = "ACTIVE" -> "ACTIVE" [] s = "SUSPENDED" -> "FROZEN" [] OTHER -> "CLOSED"

SetClientStatus(c, s) ==
  /\ clientStatus' = [clientStatus EXCEPT ![c] = s]
  /\ walletStatus' = [walletStatus EXCEPT ![c] = WalletStatusFor(s)]
  /\ UNCHANGED <<balance, version, today, usage, ops, entries, outbox>>

\* The clock, seen through the client's time zone.
NextDay(c) ==
  /\ today[c] < LastDay
  /\ today' = [today EXCEPT ![c] = @ + 1]
  /\ UNCHANGED <<clientStatus, walletStatus, balance, version, usage, ops, entries, outbox>>

-----------------------------------------------------------------------------
Init ==
  /\ clientStatus = [c \in Clients |-> "ACTIVE"]
  /\ walletStatus = [c \in Clients |-> "ACTIVE"]
  /\ balance = InitialBalance
  /\ version = [a \in Accounts |-> 0]
  /\ today = [c \in Clients |-> 0]
  /\ usage = [c \in Clients |-> [d \in Days |-> 0]]
  /\ ops = [o \in OpIds |-> NoOperation]
  /\ entries = [o \in OpIds |-> <<>>]
  /\ outbox = {}

Next ==
  \/ \E op \in OpIds, c, d \in Clients, amount \in Amounts : Transfer(op, c, d, amount)
  \/ \E op \in OpIds, c \in Clients, amount \in Amounts : Recharge(op, c, amount)
  \/ \E op, o \in OpIds : Reverse(op, o)
  \/ \E op \in OpIds, c \in Clients, credit \in BOOLEAN, amount \in Amounts :
       Adjust(op, c, credit, amount)
  \/ \E c \in Clients, s \in ClientStatuses : SetClientStatus(c, s)
  \/ \E c \in Clients : NextDay(c)

Spec == Init /\ [][Next]_vars

-----------------------------------------------------------------------------
(* Properties.                                                             *)

\* Every variable stays within its columns' types.
TypeOK ==
  /\ clientStatus \in [Clients -> ClientStatuses]
  /\ walletStatus \in [Clients -> WalletStatuses]
  /\ balance \in [Accounts -> Int]
  /\ version \in [Accounts -> Nat]
  /\ today \in [Clients -> Days]
  /\ usage \in [Clients -> [Days -> Nat]]
  /\ ops \in [OpIds -> Operations]
  /\ entries \in [OpIds -> Seq(Entries)]
  /\ outbox \subseteq Events

\* An operation row and its entries exist together, and there are
\* exactly two, on different accounts, that cancel out and carry the amount of
\* the operation.  Reversals obtain this by copying the original's rows.
DoubleEntry ==
  \A op \in OpIds :
    IF Exists(op)
    THEN /\ Len(entries[op]) = 2
         /\ entries[op][1].account # entries[op][2].account
         /\ entries[op][1].delta = -entries[op][2].delta
         /\ entries[op][2].delta \in {ops[op].amount, -ops[op].amount}
         /\ ops[op].amount > 0
    ELSE entries[op] = <<>>

\* No money is made or lost: all accounts together hold what was seeded.
MoneyConserved ==
  SumFunctionOnSet(balance, Accounts) = SumFunctionOnSet(InitialBalance, Accounts)

\* The books balance: the entries of each operation cancel out, and what all accounts
\* hold together never changes, whatever is sent, topped up, adjusted and reversed.
BooksBalance == DoubleEntry /\ MoneyConserved

\* The entries of an account form one unbroken chain from its seeded balance to
\* its stored balance, one link per version: what SyncBalanceIssuesAsync opens a
\* reconciliation issue for can never arise from these transactions.
EntryCoherent(e) ==
  /\ e.seq \in 1..version[e.account]
  /\ e.after = e.before + e.delta
  /\ e.seq = 1 => e.before = InitialBalance[e.account]
  /\ e.seq = version[e.account] => e.after = balance[e.account]

EntriesLinked(e, f) ==
  e.account = f.account /\ f.seq = e.seq + 1 => f.before = e.after

UntouchedBalance(a) == version[a] = 0 => balance[a] = InitialBalance[a]

LedgerChain ==
  /\ \A a \in Accounts : UntouchedBalance(a)
  /\ \A op \in OpIds : \A i \in DOMAIN entries[op] : EntryCoherent(entries[op][i])
  /\ \A o, p \in OpIds : \A i \in DOMAIN entries[o], j \in DOMAIN entries[p] :
       EntriesLinked(entries[o][i], entries[p][j])

\* No two entries claim the same version of an account, and no version is
\* without its entry: a balance never moves outside the ledger.
SameLink(e, f) == e.account = f.account /\ e.seq = f.seq

OneEntryPerVersion ==
  /\ \A o, p \in OpIds : \A i \in DOMAIN entries[o], j \in DOMAIN entries[p] :
       SameLink(entries[o][i], entries[p][j]) => o = p /\ i = j
  /\ \A a \in Accounts : \A s \in 1..version[a] :
       \E op \in OpIds : \E i \in DOMAIN entries[op] :
         entries[op][i].account = a /\ entries[op][i].seq = s

\* A client's wallet never goes below zero, whatever order transfers, debits and
\* reversals of money already spent are committed in.
NoOverdraft == \A c \in Clients : balance[c] >= 0

\* daily_transfer_usage is exactly what the client sent that day, reversed
\* transfers included, and no sequence of transfers takes it past the daily limit.
TransfersOf(c, d) ==
  {op \in OpIds : /\ Exists(op)
                  /\ ops[op].type = "INTERNAL_TRANSFER"
                  /\ ops[op].day = d
                  /\ entries[op][1].account = c}

Moved == [op \in OpIds |-> ops[op].amount]

DailyUsage ==
  \A c \in Clients : \A d \in Days :
    /\ usage[c][d] = SumFunctionOnSet(Moved, TransfersOf(c, d))
    /\ usage[c][d] <= MaxDaily

\* An operation is REVERSED exactly when one reversal of it exists, that reversal
\* undoes it entry by entry, and it is itself never reversed.
Reverses(r, o) == Exists(r) /\ ops[r].type = "REVERSAL" /\ ops[r].original = o

ReversedOnce ==
  \A o \in OpIds :
    /\ (ops[o].status = "REVERSED") <=> (\E r \in OpIds : Reverses(r, o))
    /\ \A r, s \in OpIds : Reverses(r, o) /\ Reverses(s, o) => r = s
    /\ \A r \in OpIds : Reverses(r, o) =>
         /\ ops[o].type \in Reversible
         /\ ops[r].status = "COMPLETED"
         /\ \A i \in 1..2 : /\ entries[r][i].account = entries[o][i].account
                            /\ entries[r][i].delta = -entries[o][i].delta

\* The outbox announces exactly the entries on clients' wallets, each with the
\* balance it left: no movement goes unannounced and no event is about a movement
\* that was not made.
OutboxMatchesLedger ==
  /\ \A op \in OpIds : \A i \in DOMAIN entries[op] :
       entries[op][i].account \in Clients =>
         EventFor(op, ops[op].type, entries[op][i]) \in outbox
  /\ \A ev \in outbox : \E i \in DOMAIN entries[ev.op] :
       /\ entries[ev.op][i].account \in Clients
       /\ ev = EventFor(ev.op, ops[ev.op].type, entries[ev.op][i])

\* Nothing in the ledger is edited or deleted: once written, entries and events
\* stay, and an operation's row only ever changes from COMPLETED to REVERSED, in
\* the transaction that inserts its reversal.
LedgerAppendOnly ==
  [][/\ \A op \in OpIds : Exists(op) =>
          /\ entries'[op] = entries[op]
          /\ \/ ops'[op] = ops[op]
             \/ /\ ops'[op] = [ops[op] EXCEPT !.status = "REVERSED"]
                /\ \E r \in OpIds : Fresh(r) /\ Reverses(r, op)'
     /\ outbox \subseteq outbox'
     /\ \A c \in Clients, d \in Days : usage[c][d] <= usage'[c][d]]_vars

\* The balance of a client who is not active moves only because a reversal needs
\* the money back.
InactiveOnlyReversed ==
  [][\A c \in Clients :
       ~ActiveClient(c) /\ balance'[c] # balance[c] =>
         \E r \in OpIds : Fresh(r) /\ Exists(r)' /\ ops'[r].type = "REVERSAL"]_vars

-----------------------------------------------------------------------------
(* The ledger keeps the promise of MoneyMovement.                          *)

Movement(op) ==
  LET debit == entries[op][1]
      credit == entries[op][2]
  IN  IF credit.delta > 0
      THEN [op |-> op, from |-> debit.account, to |-> credit.account, amount |-> credit.delta]
      ELSE [op |-> op, from |-> credit.account, to |-> debit.account, amount |-> debit.delta]

Movements == {Movement(op) : op \in {o \in OpIds : Exists(o)}}

Settled ==
  {o \in OpIds : ops[o].status = "REVERSED" \/ (Exists(o) /\ ops[o].type = "REVERSAL")}

Money == INSTANCE MoneyMovement WITH funds <- balance, moves <- Movements, settled <- Settled

\* Every transaction moves money once from one account to another that the payer has,
\* or undoes one such movement that nothing has undone; nothing else moves money.
MovesMoney == Money!Spec
=============================================================================
