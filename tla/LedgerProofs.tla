---------------------------- MODULE LedgerProofs ----------------------------
(* Proofs about Ledger, for every set of clients, ids, amounts and limits.     *)
EXTENDS Ledger, FiniteSetTheorems, TLAPS

-----------------------------------------------------------------------------
(* Sums over a finite set, by induction over its subsets.  The theorems of     *)
(* the library on induction take a predicate as parameter; that one of the      *)
(* subsets without a property is smallest needs none.                           *)

\* What SumFunctionOnSet unfolds to: a function on the subsets that takes out one
\* chosen element after the other.
Chosen(T) == CHOOSE x \in T : TRUE
SumStep(f, sum, T) == IF T = {} THEN 0 ELSE f[Chosen(T)] + sum[T \ {Chosen(T)}]
SumsUp(f, sum, S) == sum = [T \in SUBSET S |-> SumStep(f, sum, T)]

\* Of the subsets of a finite set that lack a property one is smallest: induction
\* over finite sets, for a property that is a set.
LEMMA SmallestOf ==
  ASSUME NEW S, IsFiniteSet(S), NEW Bad \in SUBSET SUBSET S, Bad # {}
  PROVE  \E M \in Bad : \A U \in SUBSET M : U # M => U \notin Bad
<1>1. IsWellFoundedOn(StrictSubsetOrdering(S), SUBSET S)
  BY FS_StrictSubsetOrderingWellFounded, FS_FiniteSubsetsOfFinite
<1>2. PICK M \in Bad : \A U \in Bad : <<U, M>> \notin StrictSubsetOrdering(S)
  <2> HIDE DEF StrictSubsetOrdering
  <2>1. \E M \in Bad : \A U \in Bad : ~ (<<U, M>> \in StrictSubsetOrdering(S))
    BY <1>1, WFMin
  <2> QED
    BY <2>1
<1>3. \A U \in SUBSET M : U # M => U \notin Bad
  BY <1>2 DEF StrictSubsetOrdering
<1> QED
  BY <1>3

LEMMA ChosenIsElement == ASSUME NEW T, T # {} PROVE Chosen(T) \in T
BY DEF Chosen

LEMMA SumsUpAt ==
  ASSUME NEW f, NEW sum, NEW S, SumsUp(f, sum, S), NEW T \in SUBSET S
  PROVE  sum[T] = SumStep(f, sum, T)
BY DEF SumsUp

LEMMA SumsUpOnce ==
  ASSUME NEW f, NEW S, NEW R, IsFiniteSet(S), NEW g, NEW h, SumsUp(f, g, S), SumsUp(f, h, R)
  PROVE  \A T \in SUBSET S : T \subseteq R => g[T] = h[T]
<1> DEFINE Bad == {T \in SUBSET S : T \subseteq R /\ g[T] # h[T]}
<1> SUFFICES ASSUME Bad # {} PROVE FALSE
  OBVIOUS
<1>1. PICK M \in Bad : \A U \in SUBSET M : U # M => U \notin Bad
  <2> Bad \in SUBSET SUBSET S
    OBVIOUS
  <2> HIDE DEF Bad
  <2> QED
    BY SmallestOf
<1>2. M \in SUBSET S /\ M \in SUBSET R /\ g[M] # h[M]
  OBVIOUS
<1>3. g[M] = SumStep(f, g, M) /\ h[M] = SumStep(f, h, M)
  BY <1>2, SumsUpAt
<1>4. M # {}
  BY <1>2, <1>3 DEF SumStep
<1>5. Chosen(M) \in M
  BY <1>4, ChosenIsElement
<1>6. M \ {Chosen(M)} \notin Bad /\ M \ {Chosen(M)} \in SUBSET S /\ M \ {Chosen(M)} \subseteq R
  BY <1>1, <1>2, <1>5
<1>7. g[M \ {Chosen(M)}] = h[M \ {Chosen(M)}]
  BY <1>6
<1> QED
  BY <1>2, <1>3, <1>4, <1>7 DEF SumStep

LEMMA SumsUpExists ==
  ASSUME NEW f, NEW S, IsFiniteSet(S)
  PROVE  \E g : SumsUp(f, g, S)
<1> DEFINE Bad == {T \in SUBSET S : ~ \E g : SumsUp(f, g, T)}
<1> SUFFICES ASSUME Bad # {} PROVE FALSE
  OBVIOUS
<1>1. PICK M \in Bad : \A U \in SUBSET M : U # M => U \notin Bad
  <2> Bad \in SUBSET SUBSET S
    OBVIOUS
  <2> HIDE DEF Bad
  <2> QED
    BY SmallestOf
<1> DEFINE G(U) == CHOOSE g : SumsUp(f, g, U)
           c == Chosen(M)
           g0 == [T \in SUBSET M |-> IF T = {} THEN 0
                                     ELSE IF T = M THEN f[c] + G(M \ {c})[M \ {c}]
                                     ELSE G(T)[T]]
<1>2. \A U \in SUBSET M : U # M => SumsUp(f, G(U), U) /\ IsFiniteSet(U)
  BY <1>1, FS_Subset
<1> HIDE DEF G
<1>3. ASSUME NEW T \in SUBSET M PROVE g0[T] = SumStep(f, g0, T)
  <2> DEFINE d == Chosen(T)
  <2>1. CASE T = {}
    BY <2>1 DEF SumStep
  <2>2. CASE T # {} /\ T = M
    <3>1. c \in M /\ M \ {c} \in SUBSET M /\ M \ {c} # M
      BY <2>2, ChosenIsElement
    <3>2. g0[M \ {c}] = G(M \ {c})[M \ {c}]
      <4>1. CASE M \ {c} = {}
        <5>1. SumsUp(f, G({}), {})
          BY <4>1, <3>1, <1>2
        <5>2. G({})[{}] = 0
          BY <5>1, SumsUpAt DEF SumStep
        <5> QED
          BY <5>2, <4>1, <3>1
      <4>2. CASE M \ {c} # {}
        BY <4>2, <3>1
      <4> QED
        BY <4>1, <4>2
    <3>3. g0[M] = f[c] + G(M \ {c})[M \ {c}]
      BY <2>2
    <3> QED
      BY <2>2, <3>2, <3>3 DEF SumStep
  <2>3. CASE T # {} /\ T # M
    <3>1. d \in T /\ T \ {d} \in SUBSET M /\ T \ {d} # M /\ T \ {d} # T
      BY <2>3, ChosenIsElement
    <3>2. g0[T] = G(T)[T]
      BY <2>3
    <3>3. G(T)[T] = f[d] + G(T)[T \ {d}]
      <4>1. SumsUp(f, G(T), T)
        BY <1>2, <2>3
      <4> QED
        BY <4>1, SumsUpAt, <2>3 DEF SumStep
    <3>4. G(T)[T \ {d}] = G(T \ {d})[T \ {d}]
      <4>1. /\ SumsUp(f, G(T), T) /\ SumsUp(f, G(T \ {d}), T \ {d})
            /\ IsFiniteSet(T \ {d})
        BY <1>2, <2>3, <3>1
      <4>2. T \ {d} \in SUBSET T /\ T \ {d} \in SUBSET (T \ {d})
        OBVIOUS
      <4> QED
        BY <4>1, <4>2, SumsUpOnce
    <3>5. g0[T \ {d}] = G(T \ {d})[T \ {d}]
      <4>1. CASE T \ {d} = {}
        <5>1. SumsUp(f, G({}), {})
          BY <4>1, <3>1, <1>2
        <5>2. G({})[{}] = 0
          BY <5>1, SumsUpAt DEF SumStep
        <5> QED
          BY <5>2, <4>1, <3>1
      <4>2. CASE T \ {d} # {}
        BY <4>2, <3>1
      <4> QED
        BY <4>1, <4>2
    <3> HIDE DEF g0, d
    <3> QED
      BY <2>3, <3>2, <3>3, <3>4, <3>5 DEF SumStep, d
  <2> QED
    BY <2>1, <2>2, <2>3
<1>4. SumsUp(f, g0, M)
  <2>1. g0 = [T \in SUBSET M |-> g0[T]]
    OBVIOUS
  <2> HIDE DEF g0
  <2>2. [T \in SUBSET M |-> g0[T]] = [T \in SUBSET M |-> SumStep(f, g0, T)]
    BY <1>3
  <2> QED
    BY <2>1, <2>2 DEF SumsUp
<1> QED
  BY <1>1, <1>4

\* A sum is that of the chosen element and the others: the equation of its definition.
LEMMA SumEquation ==
  ASSUME NEW f, NEW S, IsFiniteSet(S)
  PROVE  /\ S = {} => SumFunctionOnSet(f, S) = 0
         /\ S # {} => SumFunctionOnSet(f, S)
                        = f[Chosen(S)] + SumFunctionOnSet(f, S \ {Chosen(S)})
<1> DEFINE G(U) == CHOOSE g : SumsUp(f, g, U)
<1>1. \A U : IsFiniteSet(U) => SumsUp(f, G(U), U)
  BY SumsUpExists
<1>2. \A U : SumFunctionOnSet(f, U) = G(U)[U]
  BY Zenon DEF SumFunctionOnSet, FoldFunctionOnSet, MapThenFoldSet, SumsUp, SumStep, Chosen
<1> HIDE DEF G
<1>3. G(S)[S] = SumStep(f, G(S), S)
  BY <1>1, SumsUpAt
<1>4. CASE S = {}
  BY <1>2, <1>3, <1>4 DEF SumStep
<1>5. CASE S # {}
  <2> DEFINE R == S \ {Chosen(S)}
  <2>1. IsFiniteSet(R) /\ R \in SUBSET S /\ R \in SUBSET R
    BY FS_Subset
  <2>2. SumsUp(f, G(S), S) /\ SumsUp(f, G(R), R)
    BY <1>1, <2>1
  <2>3. G(S)[R] = G(R)[R]
    BY <2>1, <2>2, SumsUpOnce
  <2>4. SumFunctionOnSet(f, S) = G(S)[S] /\ SumFunctionOnSet(f, R) = G(R)[R]
    BY <1>2
  <2> QED
    BY <1>3, <1>5, <2>3, <2>4 DEF SumStep
<1> QED
  BY <1>4, <1>5
LEMMA SumIsInteger ==
  ASSUME NEW f, NEW S, IsFiniteSet(S), \A x \in S : f[x] \in Int
  PROVE  SumFunctionOnSet(f, S) \in Int
<1> DEFINE Bad == {T \in SUBSET S : SumFunctionOnSet(f, T) \notin Int}
<1> SUFFICES ASSUME Bad # {} PROVE FALSE
  OBVIOUS
<1>1. PICK M \in Bad : \A U \in SUBSET M : U # M => U \notin Bad
  <2> Bad \in SUBSET SUBSET S
    OBVIOUS
  <2> HIDE DEF Bad
  <2> QED
    BY SmallestOf
<1>2. IsFiniteSet(M)
  BY FS_Subset
<1>3. M # {}
  BY <1>2, SumEquation
<1>4. Chosen(M) \in M /\ M \ {Chosen(M)} # M
  BY <1>3, ChosenIsElement
<1>5. SumFunctionOnSet(f, M \ {Chosen(M)}) \in Int /\ f[Chosen(M)] \in Int
  BY <1>1, <1>4
<1> QED
  BY <1>2, <1>3, <1>5, SumEquation

\* Whichever element is taken out, the sum is that of it and the others.
LEMMA SumWithout ==
  ASSUME NEW f, NEW S, IsFiniteSet(S), \A x \in S : f[x] \in Int, NEW e \in S
  PROVE  SumFunctionOnSet(f, S) = f[e] + SumFunctionOnSet(f, S \ {e})
<1> DEFINE Sum(T) == SumFunctionOnSet(f, T)
           Bad == {T \in SUBSET S : \E x \in T : Sum(T) # f[x] + Sum(T \ {x})}
<1> SUFFICES ASSUME Bad # {} PROVE FALSE
  OBVIOUS
<1>1. PICK M \in Bad : \A U \in SUBSET M : U # M => U \notin Bad
  <2> Bad \in SUBSET SUBSET S
    OBVIOUS
  <2> HIDE DEF Bad
  <2> QED
    BY SmallestOf
<1> DEFINE c == Chosen(M)
<1>2. PICK x \in M : Sum(M) # f[x] + Sum(M \ {x})
  OBVIOUS
<1>3. \A T \in SUBSET S : IsFiniteSet(T) /\ Sum(T) \in Int
  <2> TAKE T \in SUBSET S
  <2>1. IsFiniteSet(T)
    BY FS_Subset
  <2> QED
    BY <2>1, SumIsInteger
<1>4. c \in M /\ Sum(M) = f[c] + Sum(M \ {c})
  BY <1>3, SumEquation, ChosenIsElement
<1>5. c # x /\ M \in SUBSET S
  BY <1>2, <1>4
<1>6. \A y, z \in M : y # z => Sum(M \ {y}) = f[z] + Sum((M \ {y}) \ {z})
  BY <1>1
<1>7. (M \ {c}) \ {x} = (M \ {x}) \ {c}
  OBVIOUS
<1>8. f[c] \in Int /\ f[x] \in Int /\ Sum((M \ {x}) \ {c}) \in Int
  BY <1>3, <1>4, <1>5
<1> HIDE DEF Sum, Bad, c
<1>9. Sum(M \ {c}) = f[x] + Sum((M \ {x}) \ {c}) /\ Sum(M \ {x}) = f[c] + Sum((M \ {x}) \ {c})
  BY <1>4, <1>5, <1>6, <1>7
<1> QED
  BY <1>2, <1>4, <1>8, <1>9

\* A sum depends on the summands only.
LEMMA SumOfSame ==
  ASSUME NEW f, NEW g, NEW S, IsFiniteSet(S), \A x \in S : f[x] \in Int /\ g[x] = f[x]
  PROVE  SumFunctionOnSet(g, S) = SumFunctionOnSet(f, S)
<1> DEFINE Bad == {T \in SUBSET S : SumFunctionOnSet(g, T) # SumFunctionOnSet(f, T)}
<1> SUFFICES ASSUME Bad # {} PROVE FALSE
  OBVIOUS
<1>1. PICK M \in Bad : \A U \in SUBSET M : U # M => U \notin Bad
  <2> Bad \in SUBSET SUBSET S
    OBVIOUS
  <2> HIDE DEF Bad
  <2> QED
    BY SmallestOf
<1>2. IsFiniteSet(M)
  BY FS_Subset
<1>3. M # {}
  BY <1>2, SumEquation
<1>4. Chosen(M) \in M /\ M \ {Chosen(M)} # M
  BY <1>3, ChosenIsElement
<1>5. /\ SumFunctionOnSet(g, M \ {Chosen(M)}) = SumFunctionOnSet(f, M \ {Chosen(M)})
      /\ g[Chosen(M)] = f[Chosen(M)]
  BY <1>1, <1>4
<1> QED
  BY <1>2, <1>3, <1>5, SumEquation

LEMMA SumWith ==
  ASSUME NEW f, NEW S, IsFiniteSet(S), \A x \in S : f[x] \in Int,
         NEW e, e \notin S, f[e] \in Int
  PROVE  SumFunctionOnSet(f, S \cup {e}) = f[e] + SumFunctionOnSet(f, S)
<1>1. IsFiniteSet(S \cup {e}) /\ \A x \in S \cup {e} : f[x] \in Int
  BY FS_AddElement
<1>2. (S \cup {e}) \ {e} = S
  OBVIOUS
<1> QED
  BY <1>1, <1>2, SumWithout

-----------------------------------------------------------------------------
(* What Post writes.                                                       *)

LEMMA EntryOnRow ==
  ASSUME TypeOK, NEW a \in Accounts, NEW delta \in Int
  PROVE  /\ EntryOn(a, delta) \in Entries
         /\ EntryOn(a, delta).account = a
         /\ EntryOn(a, delta).delta = delta
         /\ EntryOn(a, delta).before = balance[a]
         /\ EntryOn(a, delta).after = balance[a] + delta
         /\ EntryOn(a, delta).seq = version[a] + 1
  BY DEF EntryOn, Entries, TypeOK

LEMMA PostRows ==
  ASSUME TypeOK,
         NEW op \in OpIds, NEW type \in OpTypes,
         NEW a \in Accounts, NEW b \in Accounts, a # b,
         NEW amount \in Int,
         Post(op, type, a, b, amount)
  PROVE  /\ entries' = [entries EXCEPT ![op] = <<EntryOn(a, -amount), EntryOn(b, amount)>>]
         /\ balance' = [balance EXCEPT ![a] = balance[a] - amount, ![b] = balance[b] + amount]
         /\ version' = [version EXCEPT ![a] = version[a] + 1, ![b] = version[b] + 1]
         /\ outbox' = outbox \cup {EventFor(op, type, e) :
              e \in {x \in {EntryOn(a, -amount), EntryOn(b, amount)} : x.account \in Clients}}
  <1>1. -amount \in Int /\ balance[a] \in Int /\ balance[b] \in Int
    BY DEF TypeOK
  <1>2. /\ EntryOn(a, -amount).after = balance[a] - amount
        /\ EntryOn(a, -amount).seq = version[a] + 1
        /\ EntryOn(b, amount).after = balance[b] + amount
        /\ EntryOn(b, amount).seq = version[b] + 1
    BY <1>1, EntryOnRow
  <1> QED  BY <1>2, Zenon DEF Post, Announced

LEMMA PostTypes ==
  ASSUME TypeOK,
         NEW op \in OpIds, NEW type \in OpTypes,
         NEW a \in Accounts, NEW b \in Accounts, a # b,
         NEW amount \in Int,
         Post(op, type, a, b, amount)
  PROVE  /\ entries' \in [OpIds -> Seq(Entries)]
         /\ balance' \in [Accounts -> Int]
         /\ version' \in [Accounts -> Nat]
         /\ outbox' \subseteq Events
  <1>1. /\ EntryOn(a, -amount) \in Entries
        /\ EntryOn(b, amount) \in Entries
    BY EntryOnRow
  <1>2. /\ entries' = [entries EXCEPT ![op] = <<EntryOn(a, -amount), EntryOn(b, amount)>>]
        /\ balance' = [balance EXCEPT ![a] = balance[a] - amount, ![b] = balance[b] + amount]
        /\ version' = [version EXCEPT ![a] = version[a] + 1, ![b] = version[b] + 1]
    BY PostRows
  <1>3. outbox' = outbox \cup {EventFor(op, type, e) :
          e \in {x \in {EntryOn(a, -amount), EntryOn(b, amount)} : x.account \in Clients}}
    BY PostRows
  <1>4. entries' \in [OpIds -> Seq(Entries)]
    <2>1. <<EntryOn(a, -amount), EntryOn(b, amount)>> \in Seq(Entries)
      BY <1>1
    <2>2. entries \in [OpIds -> Seq(Entries)]
      BY DEF TypeOK
    <2> QED  BY <2>1, <2>2, <1>2
  <1>5. balance' \in [Accounts -> Int] /\ version' \in [Accounts -> Nat]
    BY <1>2 DEF TypeOK
  <1>6. outbox' \subseteq Events
    <2>1. ASSUME NEW e \in Entries, e.account \in Clients
          PROVE  EventFor(op, type, e) \in Events
      BY <2>1 DEF EventFor, Events, Entries
    <2>2. outbox \subseteq Events
      BY DEF TypeOK
    <2> QED  BY <2>1, <2>2, <1>1, <1>3
  <1> QED  BY <1>4, <1>5, <1>6

-----------------------------------------------------------------------------
(* Type correctness.                                                       *)

LEMMA OperationType ==
  ASSUME NEW type \in OpTypes, NEW amount \in Nat,
         NEW original \in OpIds \cup {NoOp}, NEW day \in Days \cup {NoDay}
  PROVE  Operation(type, amount, original, day) \in Operations
  BY DEF Operation, Operations

\* What the four financial transactions have in common.
Posting(op, type, a, b, amount) ==
  /\ Fresh(op) /\ a # b /\ amount # 0
  /\ Post(op, type, a, b, amount)
  /\ ops' \in [OpIds -> Operations]
  /\ ops'[op].type = type
  /\ ops'[op].status = "COMPLETED"
  /\ ops'[op].amount \in {amount, -amount} /\ ops'[op].amount > 0
  /\ \A o \in OpIds \ {op} : /\ ops'[o].type = ops[o].type
                            /\ ops'[o].amount = ops[o].amount
                            /\ (ops'[o].status = "ABSENT" <=> ops[o].status = "ABSENT")

LEMMA TransferPosts ==
  ASSUME TypeOK, NEW op \in OpIds, NEW c \in Clients, NEW d \in Clients,
         NEW amount \in Amounts, Transfer(op, c, d, amount)
  PROVE  Posting(op, "INTERNAL_TRANSFER", c, d, amount)
  <1>1. amount \in Int /\ amount > 0
    BY AmountsAssumption DEF Transfer
  <1>2. ops' = [ops EXCEPT ![op] = Operation("INTERNAL_TRANSFER", amount, NoOp, today[c])]
    BY DEF Transfer
  <1>3. Operation("INTERNAL_TRANSFER", amount, NoOp, today[c]) \in Operations
    <2>1. today[c] \in Days
      BY DEF TypeOK
    <2>2. amount \in Nat /\ "INTERNAL_TRANSFER" \in OpTypes
      BY <1>1 DEF OpTypes
    <2>3. today[c] \in Days \cup {NoDay} /\ NoOp \in OpIds \cup {NoOp}
      BY <2>1
    <2> QED  BY <2>2, <2>3, OperationType, Zenon
  <1>4. ops \in [OpIds -> Operations]
    BY DEF TypeOK
  <1>5. Fresh(op) /\ c # d /\ Post(op, "INTERNAL_TRANSFER", c, d, amount)
    BY DEF Transfer
  <1> QED  BY <1>1, <1>2, <1>3, <1>4, <1>5 DEF Posting, Operation

LEMMA RechargePosts ==
  ASSUME TypeOK, NEW op \in OpIds, NEW c \in Clients,
         NEW amount \in Amounts, Recharge(op, c, amount)
  PROVE  Posting(op, "SIMULATED_RECHARGE", SystemFunding, c, amount)
  <1>1. amount \in Int /\ amount > 0
    BY AmountsAssumption, LimitsAssumption DEF Recharge
  <1>2. ops' = [ops EXCEPT ![op] = Operation("SIMULATED_RECHARGE", amount, NoOp, NoDay)]
    BY DEF Recharge
  <1>3. Operation("SIMULATED_RECHARGE", amount, NoOp, NoDay) \in Operations
    BY <1>1, OperationType DEF OpTypes
  <1>4. ops \in [OpIds -> Operations] /\ SystemFunding # c
    BY IdsAssumption DEF TypeOK
  <1>5. Fresh(op) /\ Post(op, "SIMULATED_RECHARGE", SystemFunding, c, amount)
    BY DEF Recharge
  <1> QED  BY <1>1, <1>2, <1>3, <1>4, <1>5 DEF Posting, Operation

LEMMA AdjustPosts ==
  ASSUME TypeOK, NEW op \in OpIds, NEW c \in Clients, NEW credit \in BOOLEAN,
         NEW amount \in Amounts, Adjust(op, c, credit, amount)
  PROVE  Posting(op, "ADMIN_ADJUSTMENT", SystemFunding, c, IF credit THEN amount ELSE -amount)
  <1>1. amount \in Int /\ amount > 0
    BY AmountsAssumption DEF Adjust
  <1>2. ops' = [ops EXCEPT ![op] = Operation("ADMIN_ADJUSTMENT", amount, NoOp, NoDay)]
    BY DEF Adjust
  <1>3. Operation("ADMIN_ADJUSTMENT", amount, NoOp, NoDay) \in Operations
    BY <1>1, OperationType DEF OpTypes
  <1>4. ops \in [OpIds -> Operations] /\ SystemFunding # c
    BY IdsAssumption DEF TypeOK
  <1>5. /\ Fresh(op)
        /\ Post(op, "ADMIN_ADJUSTMENT", SystemFunding, c, IF credit THEN amount ELSE -amount)
    BY DEF Adjust
  <1> QED  BY <1>1, <1>2, <1>3, <1>4, <1>5 DEF Posting, Operation

\* The reversal's accounts and amount are read from the original's entries.
LEMMA ReversePosts ==
  ASSUME TypeOK, DoubleEntry, NEW op \in OpIds, NEW o \in OpIds, Reverse(op, o)
  PROVE  /\ entries[o][1].account \in Accounts
         /\ entries[o][2].account \in Accounts
         /\ entries[o][1].delta \in Int
         /\ Posting(op, "REVERSAL", entries[o][1].account, entries[o][2].account,
                    entries[o][1].delta)
  <1>1. Fresh(op) /\ Exists(o) /\ op # o
    BY DEF Reverse, Fresh, Exists
  <1>2. /\ Len(entries[o]) = 2
        /\ entries[o][1].account # entries[o][2].account
        /\ entries[o][1].delta = -entries[o][2].delta
        /\ entries[o][2].delta \in {ops[o].amount, -ops[o].amount}
        /\ ops[o].amount > 0
    BY <1>1 DEF DoubleEntry
  <1>3. entries[o][1] \in Entries /\ entries[o][2] \in Entries
    <2>1. entries[o] \in Seq(Entries)
      BY DEF TypeOK
    <2> QED  BY <1>2, <2>1
  <1>4. ops[o] \in Operations /\ ops[o].amount \in Nat
    BY DEF TypeOK, Operations
  <1>5. /\ entries[o][1].account \in Accounts /\ entries[o][2].account \in Accounts
        /\ entries[o][1].delta \in Int /\ entries[o][2].delta \in Int
    BY <1>3 DEF Entries
  <1>6. /\ ops' = [ops EXCEPT ![op] = Operation("REVERSAL", ops[o].amount, o, NoDay),
                              ![o].status = "REVERSED"]
        /\ Post(op, "REVERSAL", entries[o][1].account, entries[o][2].account, entries[o][1].delta)
        /\ ops[o].status = "COMPLETED"
    BY DEF Reverse
  <1>7. /\ Operation("REVERSAL", ops[o].amount, o, NoDay) \in Operations
        /\ [ops[o] EXCEPT !.status = "REVERSED"] \in Operations
    BY <1>4, OperationType DEF OpTypes, Operations
  <1>8. ops' \in [OpIds -> Operations]
    <2>1. ops \in [OpIds -> Operations]
      BY DEF TypeOK
    <2> QED  BY <1>1, <1>6, <1>7, <2>1
  <1>9. ops'[op] = Operation("REVERSAL", ops[o].amount, o, NoDay)
    BY <1>1, <1>6 DEF TypeOK
  <1>10. \A p \in OpIds \ {op} :
           /\ ops'[p].type = ops[p].type
           /\ ops'[p].amount = ops[p].amount
           /\ (ops'[p].status = "ABSENT" <=> ops[p].status = "ABSENT")
    BY <1>6 DEF TypeOK, Operations
  <1>11. /\ entries[o][1].delta # 0
         /\ ops[o].amount \in {entries[o][1].delta, -entries[o][1].delta}
    BY <1>2, <1>4, <1>5
  <1>12. /\ ops'[op].type = "REVERSAL" /\ ops'[op].status = "COMPLETED"
         /\ ops'[op].amount = ops[o].amount
    BY <1>9 DEF Operation
  <1> QED  BY <1>1, <1>2, <1>5, <1>6, <1>8, <1>10, <1>11, <1>12 DEF Posting

\* Every step either posts one operation or leaves the ledger alone.
LEMMA StepCases ==
  ASSUME TypeOK, DoubleEntry, [Next]_vars
  PROVE  \/ \E op \in OpIds, type \in OpTypes, a, b \in Accounts, amount \in Int :
              Posting(op, type, a, b, amount)
         \/ UNCHANGED <<balance, version, usage, ops, entries, outbox>>
  <1>1. ASSUME NEW op \in OpIds, NEW c \in Clients, NEW d \in Clients,
               NEW amount \in Amounts, Transfer(op, c, d, amount)
        PROVE  \E p \in OpIds, type \in OpTypes, a, b \in Accounts, m \in Int :
                 Posting(p, type, a, b, m)
    <2>1. /\ "INTERNAL_TRANSFER" \in OpTypes /\ amount \in Int
          /\ c \in Accounts /\ d \in Accounts
      BY AmountsAssumption DEF OpTypes, Accounts
    <2> QED  BY <1>1, <2>1, TransferPosts, Zenon
  <1>2. ASSUME NEW op \in OpIds, NEW c \in Clients, NEW amount \in Amounts,
               Recharge(op, c, amount)
        PROVE  \E p \in OpIds, type \in OpTypes, a, b \in Accounts, m \in Int :
                 Posting(p, type, a, b, m)
    <2>1. /\ "SIMULATED_RECHARGE" \in OpTypes /\ amount \in Int
          /\ c \in Accounts /\ SystemFunding \in Accounts
      BY AmountsAssumption DEF OpTypes, Accounts
    <2> QED  BY <1>2, <2>1, RechargePosts, Zenon
  <1>3. ASSUME NEW op \in OpIds, NEW o \in OpIds, Reverse(op, o)
        PROVE  \E p \in OpIds, type \in OpTypes, a, b \in Accounts, m \in Int :
                 Posting(p, type, a, b, m)
    <2>1. "REVERSAL" \in OpTypes
      BY DEF OpTypes
    <2> QED  BY <1>3, <2>1, ReversePosts, Zenon
  <1>4. ASSUME NEW op \in OpIds, NEW c \in Clients, NEW credit \in BOOLEAN,
               NEW amount \in Amounts, Adjust(op, c, credit, amount)
        PROVE  \E p \in OpIds, type \in OpTypes, a, b \in Accounts, m \in Int :
                 Posting(p, type, a, b, m)
    <2>1. /\ "ADMIN_ADJUSTMENT" \in OpTypes
          /\ (IF credit THEN amount ELSE -amount) \in Int
          /\ c \in Accounts /\ SystemFunding \in Accounts
      BY AmountsAssumption DEF OpTypes, Accounts
    <2>2. Posting(op, "ADMIN_ADJUSTMENT", SystemFunding, c, IF credit THEN amount ELSE -amount)
      BY <1>4, AdjustPosts
    <2> QED  BY <2>1, <2>2, Zenon
  <1>5. ASSUME NEW c \in Clients, NEW s \in ClientStatuses, SetClientStatus(c, s)
        PROVE  UNCHANGED <<balance, version, usage, ops, entries, outbox>>
    BY <1>5 DEF SetClientStatus
  <1>6. ASSUME NEW c \in Clients, NextDay(c)
        PROVE  UNCHANGED <<balance, version, usage, ops, entries, outbox>>
    BY <1>6 DEF NextDay
  <1>7. CASE UNCHANGED vars
    BY <1>7 DEF vars
  <1> QED  BY <1>1, <1>2, <1>3, <1>4, <1>5, <1>6, <1>7 DEF Next

TypeInv == TypeOK /\ DoubleEntry

LEMMA TypeInvInit == Init => TypeInv
  <1> SUFFICES ASSUME Init PROVE TypeInv
    OBVIOUS
  <1>1. NoOperation \in Operations /\ NoOperation.status = "ABSENT"
    BY DEF NoOperation, Operations, OpTypes
  <1>2. TypeOK
    <2>1. ops \in [OpIds -> Operations]
      BY <1>1 DEF Init
    <2>2. /\ clientStatus \in [Clients -> ClientStatuses]
          /\ walletStatus \in [Clients -> WalletStatuses]
      BY DEF Init, ClientStatuses, WalletStatuses
    <2>3. 0 \in Days
      BY LimitsAssumption DEF Days
    <2>4. /\ balance \in [Accounts -> Int] /\ version \in [Accounts -> Nat]
          /\ today \in [Clients -> Days] /\ usage \in [Clients -> [Days -> Nat]]
      BY <2>3, SeedAssumption DEF Init
    <2>5. entries \in [OpIds -> Seq(Entries)] /\ outbox \subseteq Events
      BY DEF Init
    <2> QED  BY <2>1, <2>2, <2>4, <2>5 DEF TypeOK
  <1>3. DoubleEntry
    BY <1>1 DEF Init, DoubleEntry, Exists
  <1> QED  BY <1>2, <1>3 DEF TypeInv

LEMMA DoubleEntryStep ==
  ASSUME TypeOK, DoubleEntry,
         NEW op \in OpIds, NEW type \in OpTypes,
         NEW a \in Accounts, NEW b \in Accounts, NEW amount \in Int,
         Posting(op, type, a, b, amount)
  PROVE  DoubleEntry'
  <1>1. /\ entries' = [entries EXCEPT ![op] = <<EntryOn(a, -amount), EntryOn(b, amount)>>]
        /\ a # b /\ amount # 0
    BY PostRows DEF Posting
  <1>2. /\ EntryOn(a, -amount).account = a /\ EntryOn(a, -amount).delta = -amount
        /\ EntryOn(b, amount).account = b /\ EntryOn(b, amount).delta = amount
    BY EntryOnRow
  <1>3. entries \in [OpIds -> Seq(Entries)]
    BY DEF TypeOK
  <1>4. /\ entries'[op] = <<EntryOn(a, -amount), EntryOn(b, amount)>>
        /\ \A p \in OpIds \ {op} : entries'[p] = entries[p]
    BY <1>1, <1>3
  <1>5. /\ ops'[op].status # "ABSENT" /\ ops'[op].amount > 0
        /\ ops'[op].amount \in {amount, -amount}
        /\ \A p \in OpIds \ {op} : /\ ops'[p].amount = ops[p].amount
                                  /\ (ops'[p].status = "ABSENT" <=> ops[p].status = "ABSENT")
    BY DEF Posting
  <1>6. ASSUME NEW p \in OpIds, p # op
        PROVE  IF ops'[p].status # "ABSENT"
               THEN /\ Len(entries'[p]) = 2
                    /\ entries'[p][1].account # entries'[p][2].account
                    /\ entries'[p][1].delta = -entries'[p][2].delta
                    /\ entries'[p][2].delta \in {ops'[p].amount, -ops'[p].amount}
                    /\ ops'[p].amount > 0
               ELSE entries'[p] = <<>>
    <2>1. /\ entries'[p] = entries[p] /\ ops'[p].amount = ops[p].amount
          /\ (ops'[p].status = "ABSENT" <=> ops[p].status = "ABSENT")
      <3>1. p \in OpIds \ {op}
        BY <1>6
      <3> QED  BY <1>4, <1>5, <3>1, Zenon
    <2> QED  BY <2>1 DEF DoubleEntry, Exists
  <1>7. /\ Len(entries'[op]) = 2
        /\ entries'[op][1].account # entries'[op][2].account
        /\ entries'[op][1].delta = -entries'[op][2].delta
        /\ entries'[op][2].delta \in {ops'[op].amount, -ops'[op].amount}
    BY <1>1, <1>2, <1>4, <1>5
  <1> QED  BY <1>5, <1>6, <1>7 DEF DoubleEntry, Exists

\* Post with its rows spelled out, for the proofs that follow.
LEMMA PostingRows ==
  ASSUME TypeOK, DoubleEntry,
         NEW op \in OpIds, NEW type \in OpTypes,
         NEW a \in Accounts, NEW b \in Accounts, NEW amount \in Int,
         Posting(op, type, a, b, amount)
  PROVE  /\ a # b
         /\ entries[op] = <<>>
         /\ entries'[op] = <<EntryOn(a, -amount), EntryOn(b, amount)>>
         /\ \A p \in OpIds : p # op => entries'[p] = entries[p]
         /\ balance'[a] = balance[a] - amount /\ balance'[b] = balance[b] + amount
         /\ version'[a] = version[a] + 1 /\ version'[b] = version[b] + 1
         /\ \A x \in Accounts : x # a /\ x # b =>
              balance'[x] = balance[x] /\ version'[x] = version[x]
  <1>1. /\ entries' = [entries EXCEPT ![op] = <<EntryOn(a, -amount), EntryOn(b, amount)>>]
        /\ balance' = [balance EXCEPT ![a] = balance[a] - amount, ![b] = balance[b] + amount]
        /\ version' = [version EXCEPT ![a] = version[a] + 1, ![b] = version[b] + 1]
        /\ a # b
    BY PostRows DEF Posting
  <1>2. /\ entries \in [OpIds -> Seq(Entries)]
        /\ balance \in [Accounts -> Int] /\ version \in [Accounts -> Nat]
    BY DEF TypeOK
  <1>3. entries[op] = <<>>
    BY DEF Posting, Fresh, DoubleEntry, Exists
  <1> QED  BY <1>1, <1>2, <1>3

\* An entry of the old state stays coherent, and its links with old entries stay.
LEMMA OldEntriesStay ==
  ASSUME TypeOK, DoubleEntry, LedgerChain,
         NEW op \in OpIds, NEW type \in OpTypes,
         NEW a \in Accounts, NEW b \in Accounts, NEW amount \in Int,
         Posting(op, type, a, b, amount),
         NEW p \in OpIds, NEW i \in DOMAIN entries[p]
  PROVE  /\ p # op /\ entries'[p] = entries[p]
         /\ entries[p][i] \in Entries
         /\ entries[p][i].seq \in 1..version[entries[p][i].account]
         /\ EntryCoherent(entries[p][i])'
  <1> DEFINE e == entries[p][i]
  <1>1. p # op /\ entries'[p] = entries[p]
    BY PostingRows
  <1>2. e \in Entries
    BY DEF TypeOK
  <1>3. EntryCoherent(e)
    BY DEF LedgerChain
  <1>4. e.account \in Accounts /\ e.seq \in Nat /\ version \in [Accounts -> Nat]
    BY <1>2 DEF Entries, TypeOK
  <1>5. \/ /\ version'[e.account] = version[e.account]
           /\ balance'[e.account] = balance[e.account]
        \/ version'[e.account] = version[e.account] + 1
    BY <1>4, PostingRows
  <1>6. EntryCoherent(e)'
    <2>1. e.seq \in 1..version'[e.account]
      BY <1>3, <1>4, <1>5 DEF EntryCoherent
    <2>2. e.seq = version'[e.account] => e.after = balance'[e.account]
      BY <1>3, <1>4, <1>5 DEF EntryCoherent
    <2> HIDE DEF e
    <2> QED  BY <2>1, <2>2, <1>1, <1>3 DEF EntryCoherent, e
  <1> QED  BY <1>1, <1>2, <1>3, <1>6 DEF EntryCoherent

LEMMA LedgerChainStep ==
  ASSUME TypeOK, DoubleEntry, LedgerChain,
         NEW op \in OpIds, NEW type \in OpTypes,
         NEW a \in Accounts, NEW b \in Accounts, NEW amount \in Int,
         Posting(op, type, a, b, amount)
  PROVE  LedgerChain'
  <1> DEFINE e1 == EntryOn(a, -amount)
             e2 == EntryOn(b, amount)
  <1>1. /\ a # b
        /\ entries'[op] = <<e1, e2>>
        /\ balance'[a] = balance[a] - amount /\ balance'[b] = balance[b] + amount
        /\ version'[a] = version[a] + 1 /\ version'[b] = version[b] + 1
        /\ \A x \in Accounts : x # a /\ x # b =>
             balance'[x] = balance[x] /\ version'[x] = version[x]
    BY PostingRows
  <1>2. /\ e1.account = a /\ e1.delta = -amount /\ e1.before = balance[a]
        /\ e1.after = balance[a] + (-amount) /\ e1.seq = version[a] + 1
        /\ e2.account = b /\ e2.delta = amount /\ e2.before = balance[b]
        /\ e2.after = balance[b] + amount /\ e2.seq = version[b] + 1
    BY EntryOnRow
  <1>3. balance \in [Accounts -> Int] /\ version \in [Accounts -> Nat]
    BY DEF TypeOK
  <1> HIDE DEF e1, e2
  <1>4. \A x \in Accounts : UntouchedBalance(x)'
    BY <1>1, <1>3 DEF LedgerChain, UntouchedBalance
  \* The new entries are the last links of their chains.
  <1>5. ASSUME NEW e \in {e1, e2}
        PROVE  /\ e.account \in {a, b} /\ e.seq = version[e.account] + 1
               /\ e.before = balance[e.account]
               /\ e.seq \in 1..version'[e.account]
               /\ e.after = e.before + e.delta
               /\ (e.seq = 1 => e.before = InitialBalance[e.account])
               /\ (e.seq = version'[e.account] => e.after = balance'[e.account])
    BY <1>1, <1>2, <1>3 DEF LedgerChain, UntouchedBalance
  <1>6. ASSUME NEW p \in OpIds, NEW i \in DOMAIN entries'[p]
        PROVE  \/ p = op /\ i \in {1, 2} /\ entries'[p][i] \in {e1, e2}
               \/ p # op /\ i \in DOMAIN entries[p] /\ entries'[p][i] = entries[p][i]
    BY <1>1, PostingRows
  <1>7. ASSUME NEW p \in OpIds, NEW i \in DOMAIN entries'[p]
        PROVE  EntryCoherent(entries[p][i])'
    <2>1. CASE entries'[p][i] \in {e1, e2}
      BY <2>1, <1>5 DEF EntryCoherent
    <2>2. CASE i \in DOMAIN entries[p]
      BY <2>2, OldEntriesStay
    <2> QED  BY <1>6, <2>1, <2>2
  <1>8. ASSUME NEW o \in OpIds, NEW p \in OpIds,
               NEW i \in DOMAIN entries'[o], NEW j \in DOMAIN entries'[p]
        PROVE  EntriesLinked(entries[o][i], entries[p][j])'
    <2> DEFINE e == entries'[o][i]
               f == entries'[p][j]
    <2> SUFFICES ASSUME e.account = f.account, f.seq = e.seq + 1
                 PROVE  f.before = e.after
      BY DEF EntriesLinked
    <2>1. CASE i \in DOMAIN entries[o] /\ e = entries[o][i] /\ o # op
      <3>1. /\ e \in Entries /\ e.seq \in 1..version[e.account] /\ EntryCoherent(e)
        BY <2>1, OldEntriesStay DEF LedgerChain
      <3>2. CASE j \in DOMAIN entries[p] /\ f = entries[p][j]
        <4>1. EntriesLinked(entries[o][i], entries[p][j])
          BY <2>1, <3>2 DEF LedgerChain
        <4> QED  BY <2>1, <3>2, <4>1 DEF EntriesLinked
      <3>3. CASE f \in {e1, e2}
        <4>1. f.seq = version[f.account] + 1 /\ f.before = balance[f.account]
          BY <3>3, <1>5
        <4>2. e.account \in Accounts /\ e.seq \in Nat /\ version[e.account] \in Nat
          BY <3>1, <1>3 DEF Entries
        <4>3. e.seq = version[e.account]
          BY <4>1, <4>2
        <4> QED  BY <3>1, <4>1, <4>3 DEF EntryCoherent
      <3> QED  BY <3>2, <3>3, <1>6
    <2>2. CASE e \in {e1, e2}
      <3>1. e.seq = version[e.account] + 1 /\ e.account \in {a, b}
        BY <2>2, <1>5
      <3>2. CASE j \in DOMAIN entries[p] /\ f = entries[p][j]
        <4>1. f \in Entries /\ f.seq \in 1..version[f.account]
          BY <3>2, OldEntriesStay
        <4>2. version[f.account] \in Nat
          BY <3>1, <1>3
        <4> QED  BY <3>1, <4>1, <4>2
      <3>3. CASE f \in {e1, e2}
        <4>1. f.seq = version[f.account] + 1
          BY <3>3, <1>5
        <4>2. version[f.account] \in Nat
          BY <3>1, <1>3
        <4> QED  BY <3>1, <4>1, <4>2
      <3> QED  BY <3>2, <3>3, <1>6
    <2> QED  BY <2>1, <2>2, <1>6
  <1> QED  BY <1>4, <1>7, <1>8 DEF LedgerChain

LEMMA OneEntryPerVersionStep ==
  ASSUME TypeOK, DoubleEntry, LedgerChain, OneEntryPerVersion,
         NEW op \in OpIds, NEW type \in OpTypes,
         NEW a \in Accounts, NEW b \in Accounts, NEW amount \in Int,
         Posting(op, type, a, b, amount)
  PROVE  OneEntryPerVersion'
  <1> DEFINE e1 == EntryOn(a, -amount)
             e2 == EntryOn(b, amount)
  <1>1. /\ a # b
        /\ entries[op] = <<>>
        /\ entries'[op] = <<e1, e2>>
        /\ \A p \in OpIds : p # op => entries'[p] = entries[p]
        /\ version'[a] = version[a] + 1 /\ version'[b] = version[b] + 1
        /\ \A x \in Accounts : x # a /\ x # b => version'[x] = version[x]
    BY PostingRows
  <1>2. /\ e1.account = a /\ e1.seq = version[a] + 1
        /\ e2.account = b /\ e2.seq = version[b] + 1
    BY EntryOnRow
  <1>3. version \in [Accounts -> Nat]
    BY DEF TypeOK
  <1> HIDE DEF e1, e2
  <1>4. ASSUME NEW p \in OpIds, NEW i \in DOMAIN entries'[p]
        PROVE  \/ /\ p = op /\ entries'[p][i].seq = version[entries'[p][i].account] + 1
                  /\ (i = 1 /\ entries'[p][i] = e1) \/ (i = 2 /\ entries'[p][i] = e2)
               \/ /\ p # op /\ i \in DOMAIN entries[p] /\ entries'[p][i] = entries[p][i]
                  /\ entries[p][i].seq \in 1..version[entries[p][i].account]
                  /\ entries[p][i].account \in Accounts
    <2>1. CASE p = op
      BY <2>1, <1>1, <1>2
    <2>2. CASE p # op
      <3>1. i \in DOMAIN entries[p] /\ entries'[p][i] = entries[p][i]
        BY <2>2, <1>1
      <3>2. entries[p][i] \in Entries /\ entries[p][i].seq \in 1..version[entries[p][i].account]
        BY <3>1, OldEntriesStay
      <3> QED  BY <2>2, <3>1, <3>2 DEF Entries
    <2> QED  BY <2>1, <2>2
  <1>5. ASSUME NEW o \in OpIds, NEW p \in OpIds,
               NEW i \in DOMAIN entries'[o], NEW j \in DOMAIN entries'[p],
               SameLink(entries[o][i], entries[p][j])'
        PROVE  o = p /\ i = j
    <2>1. /\ entries'[o][i].account = entries'[p][j].account
          /\ entries'[o][i].seq = entries'[p][j].seq
      BY <1>5 DEF SameLink
    <2>2. CASE o = op /\ p = op
      BY <2>1, <2>2, <1>1, <1>2, <1>4
    <2>3. CASE o # op /\ p # op
      BY <2>1, <2>3, <1>4 DEF OneEntryPerVersion, SameLink
    <2>4. ASSUME NEW q \in OpIds, NEW r \in OpIds, NEW k \in DOMAIN entries'[q],
                 NEW l \in DOMAIN entries'[r], q = op, r # op
          PROVE  ~(/\ entries'[q][k].account = entries'[r][l].account
                   /\ entries'[q][k].seq = entries'[r][l].seq)
      BY <2>4, <1>3, <1>4
    <2> QED  BY <2>1, <2>2, <2>3, <2>4
  <1>6. ASSUME NEW x \in Accounts, NEW v \in 1..version'[x]
        PROVE  \E p \in OpIds : \E i \in DOMAIN entries'[p] :
                 entries'[p][i].account = x /\ entries'[p][i].seq = v
    <2>1. CASE v \in 1..version[x]
      <3>1. PICK p \in OpIds : \E i \in DOMAIN entries[p] :
              entries[p][i].account = x /\ entries[p][i].seq = v
        BY <2>1 DEF OneEntryPerVersion
      <3>2. p # op
        BY <3>1, <1>1
      <3> QED  BY <3>1, <3>2, <1>1
    <2>2. CASE v \notin 1..version[x]
      <3>1. v = version[x] + 1 /\ x \in {a, b}
        BY <2>2, <1>1, <1>3
      <3>2. CASE x = a
        BY <3>1, <3>2, <1>1, <1>2
      <3>3. CASE x = b
        BY <3>1, <3>3, <1>1, <1>2
      <3> QED  BY <3>1, <3>2, <3>3
    <2> QED  BY <2>1, <2>2
  <1> QED  BY <1>5, <1>6 DEF OneEntryPerVersion

-----------------------------------------------------------------------------
(* Type correctness and double entry are inductive together: a reversal    *)
(* reads its accounts and its amount from the entries of the original.     *)

LEMMA TypeOKStep ==
  ASSUME TypeInv, [Next]_vars
  PROVE  TypeOK'
  <1> USE DEF TypeInv
  <1>1. \/ /\ entries' \in [OpIds -> Seq(Entries)] /\ balance' \in [Accounts -> Int]
           /\ version' \in [Accounts -> Nat] /\ outbox' \subseteq Events
           /\ ops' \in [OpIds -> Operations]
        \/ UNCHANGED <<balance, version, usage, ops, entries, outbox>>
    <2>1. ASSUME NEW op \in OpIds, NEW type \in OpTypes, NEW a \in Accounts,
                 NEW b \in Accounts, NEW amount \in Int, Posting(op, type, a, b, amount)
          PROVE  /\ entries' \in [OpIds -> Seq(Entries)] /\ balance' \in [Accounts -> Int]
                 /\ version' \in [Accounts -> Nat] /\ outbox' \subseteq Events
                 /\ ops' \in [OpIds -> Operations]
      BY <2>1, PostTypes DEF Posting
    <2> QED  BY <2>1, StepCases
  <1>2. usage' \in [Clients -> [Days -> Nat]]
    <2>1. ASSUME NEW op \in OpIds, NEW c \in Clients, NEW d \in Clients,
                 NEW amount \in Amounts, Transfer(op, c, d, amount)
          PROVE  usage' \in [Clients -> [Days -> Nat]]
      <3>1. amount \in Nat
        BY <2>1, AmountsAssumption DEF Transfer
      <3>2. usage' = [usage EXCEPT ![c][today[c]] = @ + amount]
        BY <2>1 DEF Transfer, ChargeDailyUsage
      <3>3. usage \in [Clients -> [Days -> Nat]] /\ today[c] \in Days
        BY DEF TypeOK
      <3> QED  BY <3>1, <3>2, <3>3
    <2>2. usage \in [Clients -> [Days -> Nat]]
      BY DEF TypeOK
    <2> QED  BY <2>1, <2>2 DEF Next, Recharge, Reverse, Adjust, SetClientStatus, NextDay, vars
  <1>3. today' \in [Clients -> Days]
    <2>1. today \in [Clients -> Days]
      BY DEF TypeOK
    <2>2. ASSUME NEW c \in Clients, NextDay(c)
          PROVE  today' \in [Clients -> Days]
      <3>1. today[c] + 1 \in Days
        BY <2>1, <2>2, LimitsAssumption DEF NextDay, Days
      <3> QED  BY <2>1, <2>2, <3>1 DEF NextDay
    <2> QED  BY <2>1, <2>2 DEF Next, Transfer, Recharge, Reverse, Adjust, SetClientStatus, vars
  <1>4. clientStatus' \in [Clients -> ClientStatuses] /\ walletStatus' \in [Clients -> WalletStatuses]
    <2>1. clientStatus \in [Clients -> ClientStatuses] /\ walletStatus \in [Clients -> WalletStatuses]
      BY DEF TypeOK
    <2>2. ASSUME NEW c \in Clients, NEW t \in ClientStatuses, SetClientStatus(c, t)
          PROVE  /\ clientStatus' \in [Clients -> ClientStatuses]
                 /\ walletStatus' \in [Clients -> WalletStatuses]
      <3>1. WalletStatusFor(t) \in WalletStatuses
        BY DEF WalletStatusFor, WalletStatuses
      <3> QED  BY <2>1, <2>2, <3>1 DEF SetClientStatus
    <2> QED  BY <2>1, <2>2 DEF Next, Transfer, Recharge, Reverse, Adjust, NextDay, vars
  <1>5. TypeOK
    OBVIOUS
  <1> QED  BY <1>1, <1>2, <1>3, <1>4, <1>5 DEF TypeOK

LEMMA DoubleEntryNext ==
  ASSUME TypeInv, [Next]_vars
  PROVE  DoubleEntry'
  <1> USE DEF TypeInv
  <1>1. CASE UNCHANGED <<balance, version, usage, ops, entries, outbox>>
    BY <1>1 DEF DoubleEntry, Exists
  <1> QED  BY <1>1, StepCases, DoubleEntryStep

\* Columns keep their types, and every operation has its two cancelling entries.
THEOREM TypeAndDoubleEntry == Spec => []TypeOK /\ []DoubleEntry
  <1>1. TypeInv /\ [Next]_vars => TypeInv'
    BY TypeOKStep, DoubleEntryNext DEF TypeInv
  <1>2. TypeInv => TypeOK /\ DoubleEntry
    BY DEF TypeInv
  <1> QED  BY <1>1, <1>2, TypeInvInit, PTL DEF Spec

-----------------------------------------------------------------------------
(* The ledger accounts for every balance.                                  *)

ChainInv == LedgerChain /\ OneEntryPerVersion

LEMMA ChainInit == Init => ChainInv
  BY SeedAssumption DEF Init, ChainInv, LedgerChain, OneEntryPerVersion, UntouchedBalance

LEMMA ChainNext ==
  ASSUME TypeInv, ChainInv, [Next]_vars
  PROVE  ChainInv'
  <1> USE DEF TypeInv, ChainInv
  <1>1. CASE UNCHANGED <<balance, version, usage, ops, entries, outbox>>
    BY <1>1 DEF LedgerChain, OneEntryPerVersion, UntouchedBalance, EntryCoherent,
                EntriesLinked, SameLink
  <1>2. ASSUME NEW op \in OpIds, NEW type \in OpTypes, NEW a \in Accounts,
               NEW b \in Accounts, NEW amount \in Int, Posting(op, type, a, b, amount)
        PROVE  ChainInv'
    BY <1>2, LedgerChainStep, OneEntryPerVersionStep
  <1> QED  BY <1>1, <1>2, StepCases

\* From its seed to its stored balance, each account's history is one chain of
\* entries with exactly one entry per version.
THEOREM LedgerAccountsForBalances == Spec => []LedgerChain /\ []OneEntryPerVersion
  <1>1. TypeInv /\ ChainInv /\ [Next]_vars => ChainInv'
    BY ChainNext
  <1>2. TypeOK /\ DoubleEntry => TypeInv
    BY DEF TypeInv
  <1>3. ChainInv => LedgerChain /\ OneEntryPerVersion
    BY DEF ChainInv
  <1> QED  BY <1>1, <1>2, <1>3, ChainInit, TypeAndDoubleEntry, PTL DEF Spec

-----------------------------------------------------------------------------
(* Limits on what a client may do.                                         *)

LEMMA PostMoves ==
  ASSUME TypeOK, NEW op \in OpIds, NEW type \in OpTypes,
         NEW a \in Accounts, NEW b \in Accounts, NEW amount \in Int,
         Posting(op, type, a, b, amount)
  PROVE  /\ balance'[a] = balance[a] - amount /\ balance'[b] = balance[b] + amount
         /\ \A x \in Accounts : x # a /\ x # b => balance'[x] = balance[x]
  <1>1. a # b /\ balance' = [balance EXCEPT ![a] = balance[a] - amount,
                                            ![b] = balance[b] + amount]
    BY PostRows DEF Posting
  <1> QED  BY <1>1 DEF TypeOK

LEMMA NoOverdraftNext ==
  ASSUME TypeInv, NoOverdraft, [Next]_vars
  PROVE  NoOverdraft'
  <1>1. TypeOK /\ DoubleEntry /\ Clients \subseteq Accounts /\ balance \in [Accounts -> Int]
    BY DEF TypeInv, TypeOK, Accounts
  <1>2. \A c \in Clients : balance[c] >= 0
    BY DEF NoOverdraft
  <1>3. ASSUME NEW op \in OpIds, NEW c \in Clients, NEW d \in Clients,
               NEW amount \in Amounts, Transfer(op, c, d, amount)
        PROVE  NoOverdraft'
    <2>1. /\ amount \in Int /\ amount > 0 /\ amount <= balance[c]
          /\ c \in Accounts /\ d \in Accounts /\ "INTERNAL_TRANSFER" \in OpTypes
      BY <1>3, AmountsAssumption DEF Transfer, Accounts, OpTypes
    <2>2. Posting(op, "INTERNAL_TRANSFER", c, d, amount)
      BY <1>1, <1>3, TransferPosts
    <2>3. /\ balance'[c] = balance[c] - amount /\ balance'[d] = balance[d] + amount
          /\ \A x \in Accounts : x # c /\ x # d => balance'[x] = balance[x]
      BY <1>1, <2>1, <2>2, PostMoves
    <2> QED  BY <1>1, <1>2, <2>1, <2>3 DEF NoOverdraft
  <1>4. ASSUME NEW op \in OpIds, NEW c \in Clients, NEW amount \in Amounts,
               Recharge(op, c, amount)
        PROVE  NoOverdraft'
    <2>1. /\ amount \in Int /\ amount > 0 /\ SystemFunding \in Accounts \ Clients
          /\ "SIMULATED_RECHARGE" \in OpTypes
      BY <1>4, AmountsAssumption, LimitsAssumption, IdsAssumption DEF Recharge, Accounts, OpTypes
    <2>2. Posting(op, "SIMULATED_RECHARGE", SystemFunding, c, amount)
      BY <1>1, <1>4, RechargePosts
    <2>3. /\ balance'[c] = balance[c] + amount
          /\ \A x \in Accounts : x # SystemFunding /\ x # c => balance'[x] = balance[x]
      BY <1>1, <2>1, <2>2, PostMoves
    <2> QED  BY <1>1, <1>2, <2>1, <2>3 DEF NoOverdraft
  <1>5. ASSUME NEW op \in OpIds, NEW c \in Clients, NEW credit \in BOOLEAN,
               NEW amount \in Amounts, Adjust(op, c, credit, amount)
        PROVE  NoOverdraft'
    <2> DEFINE delta == IF credit THEN amount ELSE -amount
    <2>0. balance[c] \in Int
      BY <1>1 DEF TypeOK, Accounts
    <2>1. /\ delta \in Int /\ balance[c] + delta >= 0
          /\ SystemFunding \in Accounts \ Clients /\ "ADMIN_ADJUSTMENT" \in OpTypes
      BY <2>0, <1>5, AmountsAssumption, IdsAssumption DEF Adjust, Overdraws, Accounts, OpTypes
    <2>2. Posting(op, "ADMIN_ADJUSTMENT", SystemFunding, c, delta)
      BY <1>1, <1>5, AdjustPosts
    <2> HIDE DEF delta
    <2>3. /\ balance'[c] = balance[c] + delta
          /\ \A x \in Accounts : x # SystemFunding /\ x # c => balance'[x] = balance[x]
      BY <1>1, <2>1, <2>2, PostMoves
    <2> QED  BY <1>1, <1>2, <2>1, <2>3 DEF NoOverdraft
  <1>6. ASSUME NEW op \in OpIds, NEW o \in OpIds, Reverse(op, o)
        PROVE  NoOverdraft'
    <2> DEFINE a == entries[o][1].account
               b == entries[o][2].account
               back == entries[o][1].delta
    <2>1. /\ a \in Accounts /\ b \in Accounts /\ back \in Int /\ "REVERSAL" \in OpTypes
          /\ Posting(op, "REVERSAL", a, b, back)
      BY <1>1, <1>6, ReversePosts DEF OpTypes
    <2>2. /\ ~(a \in Clients /\ balance[a] + (-back) < 0)
          /\ ~(b \in Clients /\ balance[b] + back < 0)
      BY <1>6 DEF Reverse, Overdraws
    <2> HIDE DEF a, b, back
    <2>3. /\ balance'[a] = balance[a] - back /\ balance'[b] = balance[b] + back
          /\ \A x \in Accounts : x # a /\ x # b => balance'[x] = balance[x]
      BY <1>1, <2>1, PostMoves
    <2> QED  BY <1>1, <1>2, <2>1, <2>2, <2>3 DEF NoOverdraft
  <1>7. ASSUME NEW c \in Clients, NEW s \in ClientStatuses, SetClientStatus(c, s)
        PROVE  NoOverdraft'
    BY <1>2, <1>7 DEF SetClientStatus, NoOverdraft
  <1>8. ASSUME NEW c \in Clients, NextDay(c)
        PROVE  NoOverdraft'
    BY <1>2, <1>8 DEF NextDay, NoOverdraft
  <1>9. CASE UNCHANGED vars
    BY <1>2, <1>9 DEF vars, NoOverdraft
  <1> QED  BY <1>3, <1>4, <1>5, <1>6, <1>7, <1>8, <1>9 DEF Next

\* No client's wallet is ever overdrawn: the checks each transaction makes on the
\* balance it read cover every way of debiting a client.
THEOREM NeverOverdrawn == Spec => []NoOverdraft
  <1>1. Init => NoOverdraft
    BY SeedAssumption DEF Init, NoOverdraft
  <1>2. TypeInv /\ NoOverdraft /\ [Next]_vars => NoOverdraft'
    BY NoOverdraftNext
  <1>3. TypeOK /\ DoubleEntry => TypeInv
    BY DEF TypeInv
  <1> QED  BY <1>1, <1>2, <1>3, TypeAndDoubleEntry, PTL DEF Spec

-----------------------------------------------------------------------------
(* What is written stays written.                                          *)

LEMMA PostingKeeps ==
  ASSUME TypeOK, DoubleEntry,
         NEW op \in OpIds, NEW type \in OpTypes,
         NEW a \in Accounts, NEW b \in Accounts, NEW amount \in Int,
         Posting(op, type, a, b, amount)
  PROVE  /\ \A p \in OpIds : Exists(p) => p # op /\ entries'[p] = entries[p]
         /\ outbox \subseteq outbox'
  <1>1. /\ entries[op] = <<>> /\ ~Exists(op)
        /\ \A p \in OpIds : p # op => entries'[p] = entries[p]
    BY PostingRows DEF Posting, Fresh, Exists
  <1>2. outbox \subseteq outbox'
    BY PostRows DEF Posting
  <1> QED  BY <1>1, <1>2

LEMMA UsageGrows ==
  ASSUME TypeInv, [Next]_vars, NEW c \in Clients, NEW d \in Days
  PROVE  usage[c][d] <= usage'[c][d]
  <1>1. usage \in [Clients -> [Days -> Nat]] /\ usage[c][d] \in Nat
    BY DEF TypeInv, TypeOK
  <1>2. ASSUME NEW op \in OpIds, NEW x \in Clients, NEW y \in Clients,
               NEW amount \in Amounts, Transfer(op, x, y, amount)
        PROVE  usage[c][d] <= usage'[c][d]
    <2>1. amount \in Nat /\ usage' = [usage EXCEPT ![x][today[x]] = @ + amount]
      BY <1>2, AmountsAssumption DEF Transfer, ChargeDailyUsage
    <2> QED  BY <1>1, <2>1
  <1>3. CASE UNCHANGED usage
    BY <1>1, <1>3
  <1> QED  BY <1>2, <1>3 DEF Next, Recharge, Reverse, Adjust, SetClientStatus, NextDay, vars

\* Who reverses what, in a transaction that inserts something else.
AddsOperation(op, row) == Fresh(op) /\ ops' = [ops EXCEPT ![op] = row] /\ row.type # "REVERSAL"

LEMMA NonReversals ==
  ASSUME TypeInv, [Next]_vars
  PROVE  \/ \E op, o \in OpIds : Reverse(op, o)
         \/ \E op \in OpIds, row \in Operations :
              AddsOperation(op, row) /\ row.status = "COMPLETED"
         \/ UNCHANGED <<balance, version, usage, ops, entries, outbox>>
  <1> USE DEF TypeInv
  <1>1. ASSUME NEW op \in OpIds, NEW c \in Clients, NEW d \in Clients,
               NEW amount \in Amounts, Transfer(op, c, d, amount)
        PROVE  \E p \in OpIds, row \in Operations :
                 AddsOperation(p, row) /\ row.status = "COMPLETED"
    <2> DEFINE row == Operation("INTERNAL_TRANSFER", amount, NoOp, today[c])
    <2>1. amount \in Nat /\ today[c] \in Days /\ "INTERNAL_TRANSFER" \in OpTypes
      BY <1>1, AmountsAssumption DEF Transfer, TypeOK, OpTypes
    <2>2. row \in Operations
      BY <2>1 DEF Operation, Operations
    <2>3. row.type # "REVERSAL" /\ row.status = "COMPLETED"
      BY DEF Operation
    <2>4. Fresh(op) /\ ops' = [ops EXCEPT ![op] = row]
      BY <1>1 DEF Transfer
    <2> QED  BY <2>2, <2>3, <2>4 DEF AddsOperation
  <1>2. ASSUME NEW op \in OpIds, NEW c \in Clients, NEW amount \in Amounts,
               Recharge(op, c, amount)
        PROVE  \E p \in OpIds, row \in Operations :
                 AddsOperation(p, row) /\ row.status = "COMPLETED"
    <2> DEFINE row == Operation("SIMULATED_RECHARGE", amount, NoOp, NoDay)
    <2>1. amount \in Nat /\ "SIMULATED_RECHARGE" \in OpTypes
      BY <1>2, AmountsAssumption, LimitsAssumption DEF Recharge, OpTypes
    <2>2. row \in Operations
      BY <2>1 DEF Operation, Operations
    <2>3. row.type # "REVERSAL" /\ row.status = "COMPLETED"
      BY DEF Operation
    <2>4. Fresh(op) /\ ops' = [ops EXCEPT ![op] = row]
      BY <1>2 DEF Recharge
    <2> QED  BY <2>2, <2>3, <2>4 DEF AddsOperation
  <1>3. ASSUME NEW op \in OpIds, NEW c \in Clients, NEW credit \in BOOLEAN,
               NEW amount \in Amounts, Adjust(op, c, credit, amount)
        PROVE  \E p \in OpIds, row \in Operations :
                 AddsOperation(p, row) /\ row.status = "COMPLETED"
    <2> DEFINE row == Operation("ADMIN_ADJUSTMENT", amount, NoOp, NoDay)
    <2>1. amount \in Nat /\ "ADMIN_ADJUSTMENT" \in OpTypes
      BY <1>3, AmountsAssumption DEF Adjust, OpTypes
    <2>2. row \in Operations
      BY <2>1 DEF Operation, Operations
    <2>3. row.type # "REVERSAL" /\ row.status = "COMPLETED"
      BY DEF Operation
    <2>4. Fresh(op) /\ ops' = [ops EXCEPT ![op] = row]
      BY <1>3 DEF Adjust
    <2> QED  BY <2>2, <2>3, <2>4 DEF AddsOperation
  <1>4. CASE (\E c \in Clients, s \in ClientStatuses : SetClientStatus(c, s))
             \/ (\E c \in Clients : NextDay(c)) \/ UNCHANGED vars
    BY <1>4 DEF SetClientStatus, NextDay, vars
  <1> QED  BY <1>1, <1>2, <1>3, <1>4 DEF Next

\* What a reversal does to the operations.
LEMMA ReverseRows ==
  ASSUME TypeInv, NEW op \in OpIds, NEW o \in OpIds, Reverse(op, o)
  PROVE  /\ Fresh(op) /\ Exists(o) /\ op # o /\ ops[o].type \in Reversible
         /\ ~AlreadyReversed(o)
         /\ ops'[op].type = "REVERSAL" /\ ops'[op].original = o
         /\ ops'[op].status = "COMPLETED"
         /\ ops'[o] = [ops[o] EXCEPT !.status = "REVERSED"]
         /\ \A p \in OpIds : p # op /\ p # o => ops'[p] = ops[p]
  <1>1. op # o
    BY DEF Reverse, Fresh, Exists
  <1>2. ops' = [ops EXCEPT ![op] = Operation("REVERSAL", ops[o].amount, o, NoDay),
                           ![o].status = "REVERSED"]
    BY DEF Reverse
  <1>3. ops \in [OpIds -> Operations]
    BY DEF TypeInv, TypeOK
  <1>4. ops'[op] = Operation("REVERSAL", ops[o].amount, o, NoDay)
    BY <1>1, <1>2, <1>3
  <1>5. /\ ops'[op].type = "REVERSAL" /\ ops'[op].original = o
        /\ ops'[op].status = "COMPLETED"
    BY <1>4 DEF Operation
  <1>6. /\ ops'[o] = [ops[o] EXCEPT !.status = "REVERSED"]
        /\ \A p \in OpIds : p # op /\ p # o => ops'[p] = ops[p]
    BY <1>1, <1>2, <1>3
  <1>7. /\ Fresh(op) /\ Exists(o) /\ ops[o].type \in Reversible /\ ~AlreadyReversed(o)
    BY DEF Reverse
  <1> QED  BY <1>1, <1>5, <1>6, <1>7

LEMMA EntriesAndEventsStay ==
  ASSUME TypeInv, [Next]_vars
  PROVE  /\ \A p \in OpIds : Exists(p) => entries'[p] = entries[p]
         /\ outbox \subseteq outbox'
  BY StepCases, PostingKeeps DEF TypeInv

\* An operation's row stays, but for the mark of a reversal that the same transaction
\* inserts.
LEMMA OperationsStay ==
  ASSUME TypeInv, [Next]_vars, NEW p \in OpIds, Exists(p)
  PROVE  \/ ops'[p] = ops[p]
         \/ /\ ops'[p] = [ops[p] EXCEPT !.status = "REVERSED"]
            /\ \E r \in OpIds : Fresh(r) /\ Reverses(r, p)'
  <1>1. ops \in [OpIds -> Operations]
    BY DEF TypeInv, TypeOK
  <1>2. ASSUME NEW op \in OpIds, NEW o \in OpIds, Reverse(op, o)
        PROVE  \/ ops'[p] = ops[p]
               \/ /\ ops'[p] = [ops[p] EXCEPT !.status = "REVERSED"]
                  /\ \E r \in OpIds : Fresh(r) /\ Reverses(r, p)'
    <2>1. /\ Fresh(op) /\ Exists(op)' /\ Reverses(op, o)'
          /\ ops'[o] = [ops[o] EXCEPT !.status = "REVERSED"]
          /\ \A q \in OpIds : q # op /\ q # o => ops'[q] = ops[q]
      BY <1>2, ReverseRows DEF Reverses, Exists
    <2>2. p # op
      BY <2>1 DEF Exists, Fresh
    <2> QED  BY <2>1, <2>2
  <1>3. ASSUME NEW op \in OpIds, NEW row \in Operations, AddsOperation(op, row)
        PROVE  ops'[p] = ops[p]
    BY <1>1, <1>3 DEF AddsOperation, Fresh, Exists
  <1>4. CASE UNCHANGED ops
    BY <1>4
  <1> QED  BY <1>2, <1>3, <1>4, NonReversals

\* Nothing in the ledger is edited or deleted, but for the mark of a reversal that the
\* same transaction inserts.
THEOREM LedgerOnlyGrows == Spec => LedgerAppendOnly
  <1>1. TypeInv /\ [Next]_vars =>
          /\ \A op \in OpIds : Exists(op) =>
               /\ entries'[op] = entries[op]
               /\ \/ ops'[op] = ops[op]
                  \/ /\ ops'[op] = [ops[op] EXCEPT !.status = "REVERSED"]
                     /\ \E r \in OpIds : Fresh(r) /\ Reverses(r, op)'
          /\ outbox \subseteq outbox'
          /\ \A c \in Clients, d \in Days : usage[c][d] <= usage'[c][d]
    BY OperationsStay, EntriesAndEventsStay, UsageGrows
  <1>2. TypeOK /\ DoubleEntry => TypeInv
    BY DEF TypeInv
  <1> QED  BY <1>1, <1>2, TypeAndDoubleEntry, PTL DEF Spec, LedgerAppendOnly

\* An operation is reversed at most once, entry by entry, and a reversal never is.
THEOREM NothingReversedTwice == Spec => []ReversedOnce
  <1>1. Init => ReversedOnce
    BY DEF Init, ReversedOnce, Reverses, Exists, NoOperation
  <1>2. ASSUME TypeInv, ReversedOnce, [Next]_vars
        PROVE  ReversedOnce'
    <2>1. ops \in [OpIds -> Operations] /\ \A p \in OpIds : Exists(p) => entries'[p] = entries[p]
      BY <1>2, EntriesAndEventsStay DEF TypeInv, TypeOK
    <2>2. \A r, p \in OpIds : Reverses(r, p) =>
            /\ Exists(r) /\ Exists(p) /\ ops[p].status = "REVERSED"
            /\ ops[r].status = "COMPLETED" /\ ops[r].type = "REVERSAL"
            /\ ops[p].type \in Reversible
            /\ entries'[r] = entries[r] /\ entries'[p] = entries[p]
      BY <1>2, <2>1 DEF ReversedOnce, Reverses, Exists
    <2>3. ASSUME NEW op \in OpIds, NEW o \in OpIds, Reverse(op, o)
          PROVE  ReversedOnce'
      <3>1. /\ Fresh(op) /\ Exists(o) /\ op # o /\ ops[o].type \in Reversible
            /\ ~AlreadyReversed(o)
            /\ ops'[op].type = "REVERSAL" /\ ops'[op].original = o
            /\ ops'[op].status = "COMPLETED"
            /\ ops'[o] = [ops[o] EXCEPT !.status = "REVERSED"]
            /\ \A p \in OpIds : p # op /\ p # o => ops'[p] = ops[p]
        BY <1>2, <2>3, ReverseRows
      <3>2. /\ ops'[o].type = ops[o].type /\ ops'[o].original = ops[o].original
            /\ ops'[o].status = "REVERSED" /\ "REVERSAL" \notin Reversible
        BY <2>1, <3>1 DEF Operations, Reversible
      <3>3. \A r \in OpIds : ~Reverses(r, o) /\ ~Reverses(r, op)
        BY <2>2, <3>1 DEF AlreadyReversed, Reverses, Fresh
      <3>4. \A r, p \in OpIds : Reverses(r, p)' <=> (Reverses(r, p) \/ (r = op /\ p = o))
        <4>1. \A p \in OpIds : Reverses(op, p)' <=> p = o
          BY <3>1 DEF Reverses, Exists
        <4>2. \A p \in OpIds : ~Reverses(op, p) /\ ~Reverses(o, p) /\ ~Reverses(o, p)'
          BY <3>1, <3>2 DEF Reverses, Exists, Fresh
        <4>3. \A r, p \in OpIds : r # op /\ r # o => (Reverses(r, p)' <=> Reverses(r, p))
          BY <3>1 DEF Reverses, Exists
        <4> QED  BY <4>1, <4>2, <4>3
      <3>5. \A i \in 1..2 : /\ entries'[op][i].account = entries'[o][i].account
                            /\ entries'[op][i].delta = -entries'[o][i].delta
        <4> DEFINE a == entries[o][1].account
                   b == entries[o][2].account
                   back == entries[o][1].delta
        <4>1. /\ a \in Accounts /\ b \in Accounts /\ back \in Int
              /\ Posting(op, "REVERSAL", a, b, back) /\ "REVERSAL" \in OpTypes
          BY <1>2, <2>3, ReversePosts DEF TypeInv, OpTypes
        <4>2. entries'[op] = <<EntryOn(a, -back), EntryOn(b, back)>>
          <5> HIDE DEF a, b, back
          <5> QED  BY <1>2, <4>1, PostingRows DEF TypeInv
        <4>3. /\ EntryOn(a, -back).account = a /\ EntryOn(a, -back).delta = -back
              /\ EntryOn(b, back).account = b /\ EntryOn(b, back).delta = back
          BY DEF EntryOn
        <4>4. entries'[o] = entries[o]
          BY <2>1, <3>1
        <4>5. /\ Len(entries[o]) = 2 /\ entries[o][1].delta = -entries[o][2].delta
              /\ entries[o] \in Seq(Entries)
          BY <1>2, <3>1 DEF TypeInv, TypeOK, DoubleEntry
        <4>6. entries[o][2].delta \in Int
          <5>1. entries[o][2] \in Entries
            <6> HIDE DEF a, b, back
            <6> QED  BY <4>5
          <5> QED  BY <5>1 DEF Entries
        <4>7. /\ entries'[op][1].account = a /\ entries'[op][1].delta = -back
              /\ entries'[op][2].account = b /\ entries'[op][2].delta = back
          <5> HIDE DEF a, b, back
          <5> QED  BY <4>2, <4>3
        <4> QED  BY <4>1, <4>4, <4>5, <4>6, <4>7
      <3>6. ASSUME NEW p \in OpIds
            PROVE  ops'[p].status = "REVERSED" <=> \E r \in OpIds : Reverses(r, p)'
        <4>1. CASE p = o
          BY <4>1, <3>2, <3>4
        <4>2. CASE p = op
          BY <4>2, <3>1, <3>3, <3>4
        <4>3. CASE p # o /\ p # op
          BY <4>3, <3>1, <3>4, <1>2 DEF ReversedOnce
        <4> QED  BY <4>1, <4>2, <4>3
      <3>7. ASSUME NEW p \in OpIds, NEW r \in OpIds, NEW s \in OpIds,
                   Reverses(r, p)', Reverses(s, p)'
            PROVE  r = s
        BY <3>3, <3>4, <3>7, <1>2 DEF ReversedOnce
      <3>8. ASSUME NEW p \in OpIds, NEW r \in OpIds, Reverses(r, p)'
            PROVE  /\ ops'[p].type \in Reversible
                   /\ ops'[r].status = "COMPLETED"
                   /\ \A i \in 1..2 : /\ entries'[r][i].account = entries'[p][i].account
                                      /\ entries'[r][i].delta = -entries'[p][i].delta
        <4>1. CASE r = op /\ p = o
          BY <4>1, <3>1, <3>2, <3>5
        <4>2. CASE Reverses(r, p)
          <5>1. /\ r # op /\ r # o /\ p # op /\ p # o
            BY <4>2, <2>2, <3>1, <3>2, <3>3 DEF Exists, Fresh
          <5> QED  BY <4>2, <5>1, <2>2, <3>1, <1>2 DEF ReversedOnce
        <4> QED  BY <4>1, <4>2, <3>4, <3>8
      <3> QED  BY <3>6, <3>7, <3>8 DEF ReversedOnce
    <2>4. ASSUME NEW op \in OpIds, NEW row \in Operations, AddsOperation(op, row),
                 row.status = "COMPLETED"
          PROVE  ReversedOnce'
      <3>1. /\ Fresh(op) /\ ops'[op] = row /\ row.type # "REVERSAL"
            /\ \A p \in OpIds : p # op => ops'[p] = ops[p]
        BY <2>1, <2>4 DEF AddsOperation
      <3>2. \A r, p \in OpIds : Reverses(r, p)' <=> Reverses(r, p)
        <4>1. \A p \in OpIds : ~Reverses(op, p) /\ ~Reverses(op, p)'
          BY <3>1 DEF Reverses, Exists, Fresh
        <4>2. \A r, p \in OpIds : r # op => (Reverses(r, p)' <=> Reverses(r, p))
          BY <3>1 DEF Reverses, Exists
        <4> QED  BY <4>1, <4>2
      <3>3. \A r, p \in OpIds : Reverses(r, p) => r # op /\ p # op
        BY <2>2, <3>1 DEF Exists, Fresh
      <3>4. ASSUME NEW p \in OpIds
            PROVE  ops'[p].status = "REVERSED" <=> \E r \in OpIds : Reverses(r, p)'
        BY <2>4, <3>1, <3>2, <3>3, <1>2 DEF ReversedOnce
      <3>5. ASSUME NEW p \in OpIds, NEW r \in OpIds, Reverses(r, p)'
            PROVE  /\ ops'[p].type \in Reversible
                   /\ ops'[r].status = "COMPLETED"
                   /\ \A i \in 1..2 : /\ entries'[r][i].account = entries'[p][i].account
                                      /\ entries'[r][i].delta = -entries'[p][i].delta
        BY <3>1, <3>2, <3>3, <3>5, <2>2, <1>2 DEF ReversedOnce
      <3> QED  BY <3>2, <3>4, <3>5, <1>2 DEF ReversedOnce
    <2>5. CASE UNCHANGED <<balance, version, usage, ops, entries, outbox>>
      BY <1>2, <2>5 DEF ReversedOnce, Reverses, Exists
    <2> QED  BY <1>2, <2>3, <2>4, <2>5, NonReversals
  <1>3. TypeOK /\ DoubleEntry => TypeInv
    BY DEF TypeInv
  <1> QED  BY <1>1, <1>2, <1>3, TypeAndDoubleEntry, PTL DEF Spec

-----------------------------------------------------------------------------
(* What is announced is what was written.                                  *)

LEMMA PostingAnnounces ==
  ASSUME TypeInv, OutboxMatchesLedger,
         NEW op \in OpIds, NEW type \in OpTypes,
         NEW a \in Accounts, NEW b \in Accounts, NEW amount \in Int,
         Posting(op, type, a, b, amount)
  PROVE  OutboxMatchesLedger'
  <1> DEFINE e1 == EntryOn(a, -amount)
             e2 == EntryOn(b, amount)
             new == {x \in {e1, e2} : x.account \in Clients}
  <1>1. /\ entries[op] = <<>> /\ entries'[op] = <<e1, e2>>
        /\ \A p \in OpIds : p # op => entries'[p] = entries[p]
    BY PostingRows DEF TypeInv
  <1>2. outbox' = outbox \cup {EventFor(op, type, e) : e \in new}
    BY PostRows DEF Posting, TypeInv
  <1>3. ops'[op].type = type /\ \A p \in OpIds : p # op => ops'[p].type = ops[p].type
    BY DEF Posting
  <1>4. outbox \subseteq Events /\ DOMAIN entries[op] = {}
    BY <1>1 DEF TypeInv, TypeOK
  <1> HIDE DEF e1, e2
  <1>5. ASSUME NEW p \in OpIds, NEW i \in DOMAIN entries'[p], entries'[p][i].account \in Clients
        PROVE  EventFor(p, ops'[p].type, entries'[p][i]) \in outbox'
    <2>1. CASE p # op
      BY <1>1, <1>2, <1>3, <1>5, <2>1 DEF OutboxMatchesLedger
    <2>2. CASE p = op
      <3>1. i \in 1..2 /\ entries'[op][i] \in {e1, e2}
        BY <1>1, <1>5, <2>2
      <3>2. entries'[op][i] \in new
        BY <1>5, <2>2, <3>1
      <3> QED  BY <1>2, <1>3, <2>2, <3>2
    <2> QED  BY <2>1, <2>2
  <1>6. ASSUME NEW ev \in outbox'
        PROVE  \E i \in DOMAIN entries'[ev.op] :
                 /\ entries'[ev.op][i].account \in Clients
                 /\ ev = EventFor(ev.op, ops'[ev.op].type, entries'[ev.op][i])
    <2>1. CASE ev \in outbox
      <3>1. ev.op \in OpIds
        BY <1>4, <2>1 DEF Events
      <3>2. PICK i \in DOMAIN entries[ev.op] :
              /\ entries[ev.op][i].account \in Clients
              /\ ev = EventFor(ev.op, ops[ev.op].type, entries[ev.op][i])
        BY <2>1 DEF OutboxMatchesLedger
      <3>3. ev.op # op
        BY <1>4, <3>2
      <3>4. entries'[ev.op] = entries[ev.op] /\ ops'[ev.op].type = ops[ev.op].type
        BY <1>1, <1>3, <3>1, <3>3
      <3> QED  BY <3>2, <3>4
    <2>2. CASE ev \notin outbox
      <3>1. PICK e \in new : ev = EventFor(op, type, e)
        BY <1>2, <1>6, <2>2
      <3>2. ev.op = op
        BY <3>1 DEF EventFor
      <3>3. PICK i \in 1..2 : e = entries'[op][i]
        BY <1>1, <3>1
      <3>4. i \in DOMAIN entries'[op]
        BY <1>1, <3>3
      <3> QED  BY <1>3, <3>1, <3>2, <3>3, <3>4
    <2> QED  BY <2>1, <2>2
  <1> QED  BY <1>5, <1>6 DEF OutboxMatchesLedger

\* The outbox announces exactly the movements of clients' wallets the ledger holds.
THEOREM OutboxIsTheLedger == Spec => []OutboxMatchesLedger
  <1>1. Init => OutboxMatchesLedger
    BY DEF Init, OutboxMatchesLedger
  <1>2. TypeInv /\ OutboxMatchesLedger /\ [Next]_vars => OutboxMatchesLedger'
    <2> SUFFICES ASSUME TypeInv, OutboxMatchesLedger, [Next]_vars
                 PROVE  OutboxMatchesLedger'
      OBVIOUS
    <2>1. CASE UNCHANGED <<balance, version, usage, ops, entries, outbox>>
      BY <2>1 DEF OutboxMatchesLedger
    <2> QED  BY <2>1, StepCases, PostingAnnounces DEF TypeInv
  <1>3. TypeOK /\ DoubleEntry => TypeInv
    BY DEF TypeInv
  <1> QED  BY <1>1, <1>2, <1>3, TypeAndDoubleEntry, PTL DEF Spec

-----------------------------------------------------------------------------
(* Who may move the money of a client who is not active.                   *)

\* A transaction moves the two accounts it posts to, and no other balance.
LEMMA OnlyPostedMove ==
  ASSUME TypeInv, NEW op \in OpIds, NEW type \in OpTypes,
         NEW a \in Accounts, NEW b \in Accounts, NEW amount \in Int,
         Posting(op, type, a, b, amount),
         NEW x \in Accounts, balance'[x] # balance[x]
  PROVE  x \in {a, b}
  BY PostingRows DEF TypeInv

\* Suspending or closing a client freezes the balance against everything but a reversal.
THEOREM FrozenUntilReversed == Spec => InactiveOnlyReversed
  <1>1. ASSUME TypeInv, [Next]_vars, NEW c \in Clients,
               ~ActiveClient(c), balance'[c] # balance[c]
        PROVE  \E r \in OpIds : Fresh(r) /\ Exists(r)' /\ ops'[r].type = "REVERSAL"
    <2>1. TypeOK /\ c \in Accounts /\ c # SystemFunding
      BY <1>1, IdsAssumption DEF TypeInv, Accounts
    <2>2. ASSUME NEW op \in OpIds, NEW x \in Clients, NEW y \in Clients,
                 NEW amount \in Amounts, Transfer(op, x, y, amount)
          PROVE  FALSE
      <3>1. /\ amount \in Int /\ x \in Accounts /\ y \in Accounts
            /\ "INTERNAL_TRANSFER" \in OpTypes
        BY AmountsAssumption DEF Accounts, OpTypes
      <3>2. c \in {x, y}
        BY <1>1, <2>1, <2>2, <3>1, TransferPosts, OnlyPostedMove
      <3> QED  BY <1>1, <2>2, <3>2 DEF Transfer, UsableWallet
    <2>3. ASSUME NEW op \in OpIds, NEW x \in Clients, NEW amount \in Amounts,
                 Recharge(op, x, amount)
          PROVE  FALSE
      <3>1. /\ amount \in Int /\ x \in Accounts /\ SystemFunding \in Accounts
            /\ "SIMULATED_RECHARGE" \in OpTypes
        BY AmountsAssumption DEF Accounts, OpTypes
      <3>2. c \in {SystemFunding, x}
        BY <1>1, <2>1, <2>3, <3>1, RechargePosts, OnlyPostedMove
      <3> QED  BY <1>1, <2>1, <2>3, <3>2 DEF Recharge, UsableWallet
    <2>4. ASSUME NEW op \in OpIds, NEW x \in Clients, NEW credit \in BOOLEAN,
                 NEW amount \in Amounts, Adjust(op, x, credit, amount)
          PROVE  FALSE
      <3> DEFINE delta == IF credit THEN amount ELSE -amount
      <3>1. /\ delta \in Int /\ x \in Accounts /\ SystemFunding \in Accounts
            /\ "ADMIN_ADJUSTMENT" \in OpTypes
        BY AmountsAssumption DEF Accounts, OpTypes
      <3>2. Posting(op, "ADMIN_ADJUSTMENT", SystemFunding, x, delta)
        BY <2>1, <2>4, AdjustPosts
      <3>3. c \in {SystemFunding, x}
        <4> HIDE DEF delta
        <4> QED  BY <1>1, <2>1, <3>1, <3>2, OnlyPostedMove
      <3> QED  BY <1>1, <2>1, <2>4, <3>3 DEF Adjust
    <2>5. ASSUME NEW op \in OpIds, NEW o \in OpIds, Reverse(op, o)
          PROVE  \E r \in OpIds : Fresh(r) /\ Exists(r)' /\ ops'[r].type = "REVERSAL"
      BY <1>1, <2>5, ReverseRows DEF Exists
    <2>6. CASE (\E x \in Clients, s \in ClientStatuses : SetClientStatus(x, s))
               \/ (\E x \in Clients : NextDay(x)) \/ UNCHANGED vars
      BY <1>1, <2>6 DEF SetClientStatus, NextDay, vars
    <2> QED  BY <1>1, <2>2, <2>3, <2>4, <2>5, <2>6 DEF Next
  <1>2. TypeInv /\ [Next]_vars =>
          \A c \in Clients : ~ActiveClient(c) /\ balance'[c] # balance[c] =>
            \E r \in OpIds : Fresh(r) /\ Exists(r)' /\ ops'[r].type = "REVERSAL"
    BY <1>1
  <1>3. TypeOK /\ DoubleEntry => TypeInv
    BY DEF TypeInv
  <1> QED  BY <1>2, <1>3, TypeAndDoubleEntry, PTL DEF Spec, InactiveOnlyReversed

-----------------------------------------------------------------------------
(* What a client has sent in a day.                                        *)

UsageInv ==
  /\ DailyUsage
  /\ \A c \in Clients : \A d \in Days : IsFiniteSet(TransfersOf(c, d))

\* Transfers once made stay those of their client and day, and keep their amounts.
LEMMA TransfersStay ==
  ASSUME TypeInv, [Next]_vars, NEW p \in OpIds, Exists(p)
  PROVE  /\ Exists(p)' /\ entries'[p] = entries[p] /\ ops'[p].type = ops[p].type
         /\ ops'[p].day = ops[p].day /\ ops'[p].amount = ops[p].amount
  <1>1. ops[p] \in Operations
    BY DEF TypeInv, TypeOK
  <1>2. entries'[p] = entries[p]
    BY EntriesAndEventsStay
  <1>3. \/ ops'[p] = ops[p]
        \/ ops'[p] = [ops[p] EXCEPT !.status = "REVERSED"]
    BY OperationsStay
  <1> QED  BY <1>1, <1>2, <1>3 DEF Operations, Exists

\* The sum over transfers that were there before does not change.
LEMMA OldSumStays ==
  ASSUME TypeInv, UsageInv, [Next]_vars, NEW c \in Clients, NEW d \in Days
  PROVE  SumFunctionOnSet(Moved', TransfersOf(c, d)) = usage[c][d]
  <1>1. IsFiniteSet(TransfersOf(c, d)) /\ usage[c][d] = SumFunctionOnSet(Moved, TransfersOf(c, d))
    BY DEF UsageInv, DailyUsage
  <1>2. \A p \in TransfersOf(c, d) : Moved[p] \in Int /\ Moved'[p] = Moved[p]
    <2> TAKE p \in TransfersOf(c, d)
    <2>1. p \in OpIds /\ Exists(p)
      BY DEF TransfersOf
    <2>2. ops'[p].amount = ops[p].amount /\ ops[p].amount \in Int
      BY <2>1, TransfersStay DEF TypeInv, TypeOK, Operations
    <2> QED  BY <2>1, <2>2 DEF Moved
  <1> QED  BY <1>1, <1>2, SumOfSame

\* A transaction that charges nobody inserts no transfer.
LEMMA UnchargedNext ==
  ASSUME TypeInv, UsageInv, [Next]_vars, UNCHANGED usage,
         \A p \in OpIds : Fresh(p) /\ Exists(p)' => ops'[p].type # "INTERNAL_TRANSFER"
  PROVE  UsageInv'
  <1>1. ASSUME NEW c \in Clients, NEW d \in Days
        PROVE  TransfersOf(c, d)' = TransfersOf(c, d)
    BY TransfersStay DEF TransfersOf, Fresh, Exists
  <1>2. ASSUME NEW c \in Clients, NEW d \in Days
        PROVE  /\ usage'[c][d] = SumFunctionOnSet(Moved', TransfersOf(c, d)')
               /\ usage'[c][d] <= MaxDaily /\ IsFiniteSet(TransfersOf(c, d)')
    BY <1>1, OldSumStays DEF UsageInv, DailyUsage
  <1> QED  BY <1>2 DEF UsageInv, DailyUsage

LEMMA TransferCharges ==
  ASSUME TypeInv, UsageInv, NEW op \in OpIds, NEW x \in Clients, NEW y \in Clients,
         NEW amount \in Amounts, Transfer(op, x, y, amount)
  PROVE  UsageInv'
  <1>1. amount \in Nat /\ "INTERNAL_TRANSFER" \in OpTypes /\ x \in Accounts /\ y \in Accounts
    BY AmountsAssumption DEF Transfer, OpTypes, Accounts
  <1>2. /\ ops' = [ops EXCEPT ![op] = Operation("INTERNAL_TRANSFER", amount, NoOp, today[x])]
        /\ usage' = [usage EXCEPT ![x][today[x]] = @ + amount]
        /\ usage[x][today[x]] + amount <= MaxDaily
        /\ Fresh(op)
    BY DEF Transfer, ChargeDailyUsage
  <1>3. ops \in [OpIds -> Operations] /\ usage \in [Clients -> [Days -> Nat]] /\ today[x] \in Days
    BY DEF TypeInv, TypeOK
  <1>4. /\ Exists(op)' /\ ops'[op].type = "INTERNAL_TRANSFER" /\ ops'[op].day = today[x]
        /\ ops'[op].amount = amount /\ \A p \in OpIds \ {op} : ops'[p] = ops[p]
    BY <1>2, <1>3 DEF Operation, Exists
  <1>5. entries'[op][1].account = x /\ \A p \in OpIds \ {op} : entries'[p] = entries[p]
    <2>1. Posting(op, "INTERNAL_TRANSFER", x, y, amount)
      BY TransferPosts DEF TypeInv
    <2>2. /\ entries'[op] = <<EntryOn(x, -amount), EntryOn(y, amount)>>
          /\ \A p \in OpIds : p # op => entries'[p] = entries[p]
      BY <1>1, <2>1, PostingRows DEF TypeInv
    <2>3. EntryOn(x, -amount).account = x
      BY DEF EntryOn
    <2> QED  BY <2>2, <2>3
  <1>6. [Next]_vars
    BY DEF Next
  <1>7. ASSUME NEW c \in Clients, NEW d \in Days, c # x \/ d # today[x]
        PROVE  /\ usage'[c][d] = SumFunctionOnSet(Moved', TransfersOf(c, d)')
               /\ usage'[c][d] <= MaxDaily /\ IsFiniteSet(TransfersOf(c, d)')
    <2>1. TransfersOf(c, d)' = TransfersOf(c, d)
      BY <1>2, <1>4, <1>5, <1>7 DEF TransfersOf, Fresh, Exists
    <2>2. usage'[c][d] = usage[c][d]
      BY <1>2, <1>3, <1>7
    <2> QED  BY <2>1, <2>2, <1>6, OldSumStays DEF UsageInv, DailyUsage
  <1>8. ASSUME NEW d \in Days, d = today[x]
        PROVE  /\ usage'[x][d] = SumFunctionOnSet(Moved', TransfersOf(x, d)')
               /\ usage'[x][d] <= MaxDaily /\ IsFiniteSet(TransfersOf(x, d)')
    <2> DEFINE old == TransfersOf(x, d)
    <2>1. TransfersOf(x, d)' = old \cup {op} /\ op \notin old
      BY <1>8, <1>2, <1>4, <1>5 DEF TransfersOf, Fresh, Exists
    <2>2. IsFiniteSet(old) /\ SumFunctionOnSet(Moved', old) = usage[x][d]
      BY <1>6, OldSumStays DEF UsageInv
    <2>3. Moved'[op] = amount /\ \A p \in old : Moved'[p] \in Int
      BY <1>3, <1>4, <2>1 DEF Moved, Operations, TransfersOf
    <2>4. IsFiniteSet(old \cup {op})
      BY <2>2, FS_AddElement
    <2>5. SumFunctionOnSet(Moved', old \cup {op}) = amount + usage[x][d]
      BY <1>1, <2>1, <2>2, <2>3, SumWith
    <2>6. usage'[x][d] = usage[x][d] + amount /\ usage[x][d] \in Nat
      BY <1>8, <1>2, <1>3
    <2> QED  BY <1>1, <1>2, <1>8, <2>1, <2>4, <2>5, <2>6
  <1>9. ASSUME NEW c \in Clients, NEW d \in Days
        PROVE  /\ usage'[c][d] = SumFunctionOnSet(Moved', TransfersOf(c, d)')
               /\ usage'[c][d] <= MaxDaily /\ IsFiniteSet(TransfersOf(c, d)')
    BY <1>7, <1>8
  <1> QED  BY <1>9 DEF UsageInv, DailyUsage

LEMMA UsageNext ==
  ASSUME TypeInv, UsageInv, [Next]_vars
  PROVE  UsageInv'
  <1>1. ops \in [OpIds -> Operations]
    BY DEF TypeInv, TypeOK
  <1>2. ASSUME NEW op \in OpIds, NEW c \in Clients, NEW amount \in Amounts,
               Recharge(op, c, amount)
        PROVE  UsageInv'
    BY <1>1, <1>2, UnchargedNext DEF Recharge, Operation, Fresh, Exists
  <1>3. ASSUME NEW op \in OpIds, NEW c \in Clients, NEW credit \in BOOLEAN,
               NEW amount \in Amounts, Adjust(op, c, credit, amount)
        PROVE  UsageInv'
    BY <1>1, <1>3, UnchargedNext DEF Adjust, Operation, Fresh, Exists
  <1>4. ASSUME NEW op \in OpIds, NEW o \in OpIds, Reverse(op, o)
        PROVE  UsageInv'
    <2>1. UNCHANGED usage
      BY <1>4 DEF Reverse
    <2> QED  BY <1>1, <1>4, <2>1, ReverseRows, UnchargedNext DEF Fresh, Exists
  <1>5. CASE UNCHANGED <<balance, version, usage, ops, entries, outbox>>
    BY <1>5, UnchargedNext DEF Fresh, Exists
  <1> QED  BY <1>2, <1>3, <1>4, <1>5, TransferCharges DEF Next, SetClientStatus, NextDay, vars

\* The counter of a day is the sum of the transfers of that day, and with it what a
\* client sends stays within the daily limit.
THEOREM DailyLimitHolds == Spec => []DailyUsage
  <1>1. Init => UsageInv
    <2> SUFFICES ASSUME Init, NEW c \in Clients, NEW d \in Days
                 PROVE  /\ usage[c][d] = SumFunctionOnSet(Moved, TransfersOf(c, d))
                        /\ usage[c][d] <= MaxDaily /\ IsFiniteSet(TransfersOf(c, d))
      BY DEF UsageInv, DailyUsage
    <2>1. TransfersOf(c, d) = {} /\ usage[c][d] = 0
      BY DEF Init, TransfersOf, Exists, NoOperation
    <2>2. IsFiniteSet({}) /\ SumFunctionOnSet(Moved, {}) = 0
      BY FS_EmptySet, SumEquation
    <2> QED  BY <2>1, <2>2, LimitsAssumption
  <1>2. TypeInv /\ UsageInv /\ [Next]_vars => UsageInv'
    BY UsageNext
  <1>3. TypeOK /\ DoubleEntry => TypeInv
    BY DEF TypeInv
  <1>4. UsageInv => DailyUsage
    BY DEF UsageInv
  <1> QED  BY <1>1, <1>2, <1>3, <1>4, TypeAndDoubleEntry, PTL DEF Spec

-----------------------------------------------------------------------------
(* Money is neither made nor lost.                                         *)

\* Moving an amount from one summand to another leaves the sum as it is.
LEMMA SumOfMoved ==
  ASSUME NEW S, IsFiniteSet(S), NEW f \in [S -> Int], NEW g \in [S -> Int],
         NEW a \in S, NEW b \in S, a # b, NEW amount \in Int,
         g[a] = f[a] - amount, g[b] = f[b] + amount,
         \A x \in S \ {a, b} : g[x] = f[x]
  PROVE  SumFunctionOnSet(g, S) = SumFunctionOnSet(f, S)
  <1> DEFINE R == (S \ {a}) \ {b}
  <1>1. IsFiniteSet(S \ {a}) /\ IsFiniteSet(R) /\ b \in S \ {a}
    BY FS_RemoveElement
  <1>2. SumFunctionOnSet(g, R) = SumFunctionOnSet(f, R)
    BY <1>1, SumOfSame
  <1>3. ASSUME NEW h \in [S -> Int]
        PROVE  /\ SumFunctionOnSet(h, S) = h[a] + (h[b] + SumFunctionOnSet(h, R))
               /\ SumFunctionOnSet(h, R) \in Int
    <2>1. SumFunctionOnSet(h, S) = h[a] + SumFunctionOnSet(h, S \ {a})
      BY SumWithout
    <2>2. SumFunctionOnSet(h, S \ {a}) = h[b] + SumFunctionOnSet(h, R)
      BY <1>1, SumWithout
    <2>3. SumFunctionOnSet(h, R) \in Int
      BY <1>1, SumIsInteger
    <2> QED  BY <2>1, <2>2, <2>3
  <1> HIDE DEF R
  <1> QED  BY <1>2, <1>3

\* Whatever the four transactions do, and in whatever order, the accounts together
\* hold what they were seeded with.
THEOREM NoMoneyIsMade == Spec => []MoneyConserved
  <1>1. Init => MoneyConserved
    BY DEF Init, MoneyConserved
  <1>2. ASSUME TypeInv, MoneyConserved, [Next]_vars
        PROVE  MoneyConserved'
    <2>1. IsFiniteSet(Accounts)
      BY ClientsAssumption, FS_AddElement DEF Accounts
    <2>2. balance \in [Accounts -> Int] /\ balance' \in [Accounts -> Int]
      BY <1>2, TypeOKStep DEF TypeInv, TypeOK
    <2>3. ASSUME NEW op \in OpIds, NEW type \in OpTypes, NEW a \in Accounts,
                 NEW b \in Accounts, NEW amount \in Int, Posting(op, type, a, b, amount)
          PROVE  SumFunctionOnSet(balance', Accounts) = SumFunctionOnSet(balance, Accounts)
      <3>1. /\ a # b /\ balance'[a] = balance[a] - amount /\ balance'[b] = balance[b] + amount
            /\ \A x \in Accounts \ {a, b} : balance'[x] = balance[x]
        BY <1>2, <2>3, PostingRows DEF TypeInv
      <3> QED  BY <2>1, <2>2, <3>1, SumOfMoved
    <2>4. SumFunctionOnSet(balance', Accounts) = SumFunctionOnSet(balance, Accounts)
      BY <1>2, <2>3, StepCases DEF TypeInv
    <2> QED  BY <1>2, <2>4 DEF MoneyConserved
  <1>3. TypeOK /\ DoubleEntry => TypeInv
    BY DEF TypeInv
  <1> QED  BY <1>1, <1>2, <1>3, TypeAndDoubleEntry, PTL DEF Spec

\* Debits equal credits in every operation, and over all the accounts.
THEOREM TheBooksBalance == Spec => []BooksBalance
  <1>1. DoubleEntry /\ MoneyConserved => BooksBalance
    BY DEF BooksBalance
  <1> QED  BY <1>1, TypeAndDoubleEntry, NoMoneyIsMade, PTL

-----------------------------------------------------------------------------
(* The ledger implements MoneyMovement.                                        *)

\* The movement of an operation is made once and for all.
LEMMA MovementsStay ==
  ASSUME TypeInv, [Next]_vars, NEW p \in OpIds, Exists(p)
  PROVE  Movement(p)' = Movement(p)
  BY EntriesAndEventsStay DEF Movement

\* The two entries of a transaction are one movement, from the account whose balance
\* falls to the other.
LEMMA PostingMoves ==
  ASSUME TypeInv, [Next]_vars, NEW op \in OpIds, NEW type \in OpTypes,
         NEW a \in Accounts, NEW b \in Accounts, NEW delta \in Int,
         Posting(op, type, a, b, delta),
         NEW from \in Accounts, NEW to \in Accounts, NEW amount \in Int,
         \/ from = a /\ to = b /\ amount = delta
         \/ from = b /\ to = a /\ amount = -delta,
         amount > 0, from \in Clients => amount <= balance[from]
  PROVE  Money!Move(op, from, to, amount)
  <1> DEFINE new == [op |-> op, from |-> from, to |-> to, amount |-> amount]
  <1>1. TypeOK /\ DoubleEntry
    BY DEF TypeInv
  <1>2. /\ a # b /\ entries'[op] = <<EntryOn(a, -delta), EntryOn(b, delta)>>
        /\ EntryOn(a, -delta).account = a /\ EntryOn(a, -delta).delta = -delta
        /\ EntryOn(b, delta).account = b /\ EntryOn(b, delta).delta = delta
    BY <1>1, PostingRows, EntryOnRow
  <1>3. Movement(op)' = new
    BY <1>2 DEF Movement
  <1>4. \A p \in OpIds : Exists(p)' <=> Exists(p) \/ p = op
    BY DEF Posting, Exists
  <1>5. \A p \in OpIds : Exists(p) => Movement(p)' = Movement(p)
    BY MovementsStay
  <1>6. Movements' = Movements \cup {new}
    BY <1>3, <1>4, <1>5 DEF Movements
  <1>7. \A m \in Movements : m.op # op
    <2>1. \A p \in OpIds : Movement(p).op = p
      BY DEF Movement
    <2>2. ~Exists(op)
      BY DEF Posting, Fresh, Exists
    <2> QED  BY <2>1, <2>2 DEF Movements
  <1>8. balance' = [balance EXCEPT ![from] = @ - amount, ![to] = @ + amount]
    <2>1. /\ balance' = [balance EXCEPT ![a] = balance[a] - delta, ![b] = balance[b] + delta]
          /\ balance \in [Accounts -> Int]
      BY <1>1, PostRows DEF Posting, TypeOK
    <2>2. CASE from = a /\ to = b /\ amount = delta
      BY <1>2, <2>1, <2>2
    <2>3. CASE from = b /\ to = a /\ amount = -delta
      <3>1. balance[a] - delta = balance[to] + amount /\ balance[b] + delta = balance[from] - amount
        BY <2>1, <2>3
      <3> QED  BY <1>2, <2>1, <2>3, <3>1
    <2> QED  BY <2>2, <2>3
  <1> QED  BY <1>2, <1>6, <1>7, <1>8 DEF Money!Move

\* A transaction that is no reversal settles nothing.
LEMMA PostingSettlesNothing ==
  ASSUME NEW op \in OpIds, Fresh(op),
         ops'[op].status = "COMPLETED", ops'[op].type # "REVERSAL",
         \A p \in OpIds : p # op => ops'[p] = ops[p]
  PROVE  UNCHANGED Settled
  <1>1. op \notin Settled /\ op \notin Settled'
    BY DEF Settled, Fresh, Exists
  <1>2. \A p \in OpIds : p # op => (p \in Settled' <=> p \in Settled)
    BY DEF Settled, Exists
  <1>3. Settled \subseteq OpIds /\ Settled' \subseteq OpIds
    BY DEF Settled
  <1> QED  BY <1>1, <1>2, <1>3

\* A reversal undoes the movement of the operation it reverses.
LEMMA ReverseUndoes ==
  ASSUME TypeInv, NEW op \in OpIds, NEW o \in OpIds, Reverse(op, o)
  PROVE  Movement(o) \in Movements /\ Money!Undo(op, Movement(o))
  <1> DEFINE debit == entries[o][1]
             credit == entries[o][2]
             m == Movement(o)
  <1>1. [Next]_vars /\ Exists(o) /\ Fresh(op)
    BY DEF Next, Reverse
  <1>2. /\ debit.account \in Accounts /\ credit.account \in Accounts
        /\ debit.delta \in Int /\ "REVERSAL" \in OpTypes
        /\ Posting(op, "REVERSAL", debit.account, credit.account, debit.delta)
    BY ReversePosts DEF TypeInv, OpTypes
  <1>3. debit.delta = -credit.delta /\ credit.delta \in Int /\ credit.delta # 0
    <2>1. ops[o].amount \in Int /\ ops[o].amount > 0
      BY <1>1 DEF TypeInv, TypeOK, Operations, DoubleEntry
    <2> QED  BY <1>1, <2>1 DEF TypeInv, DoubleEntry
  <1>4. balance \in [Accounts -> Int]
    BY DEF TypeInv, TypeOK
  <1>5. ~Overdraws(debit.account, -debit.delta) /\ ~Overdraws(credit.account, debit.delta)
    BY DEF Reverse
  <1>6. m.op = o
    BY DEF Movement
  <1>7. Money!Move(op, m.to, m.from, m.amount)
    <2>1. CASE credit.delta > 0
      <3>1. /\ m.from = debit.account /\ m.to = credit.account
            /\ m.amount = -debit.delta /\ m.amount > 0 /\ m.amount \in Int
        BY <2>1, <1>3 DEF Movement
      <3>2. m.to \in Clients => m.amount <= balance[m.to]
        BY <3>1, <1>2, <1>4, <1>5 DEF Overdraws
      <3> HIDE DEF m, debit, credit
      <3> QED  BY <3>1, <3>2, <1>1, <1>2, PostingMoves
    <2>2. CASE credit.delta < 0
      <3>1. /\ m.from = credit.account /\ m.to = debit.account
            /\ m.amount = debit.delta /\ m.amount > 0 /\ m.amount \in Int
        BY <2>2, <1>3 DEF Movement
      <3>2. m.to \in Clients => m.amount <= balance[m.to]
        BY <3>1, <1>2, <1>4, <1>5 DEF Overdraws
      <3> HIDE DEF m, debit, credit
      <3> QED  BY <3>1, <3>2, <1>1, <1>2, PostingMoves
    <2> QED  BY <2>1, <2>2, <1>3
  <1>8. /\ op # o /\ ops[o].type \in Reversible /\ ops[o].status = "COMPLETED"
        /\ ops'[op].type = "REVERSAL" /\ ops'[op].status = "COMPLETED"
        /\ ops'[o].status = "REVERSED"
        /\ \A p \in OpIds : p # op /\ p # o => ops'[p] = ops[p]
    <2>1. ops[o] \in Operations
      BY DEF TypeInv, TypeOK
    <2>2. ops'[o].status = "REVERSED"
      <3>1. ops'[o] = [ops[o] EXCEPT !.status = "REVERSED"]
        BY ReverseRows
      <3> QED  BY <2>1, <3>1 DEF Operations
    <2>3. ops[o].status = "COMPLETED"
      BY DEF Reverse
    <2> QED  BY <2>2, <2>3, ReverseRows
  <1>9. o \notin Settled
    BY <1>8 DEF Settled, Reversible
  <1>10. Settled' = Settled \cup {op, o}
    <2>1. op \in Settled' /\ o \in Settled'
      BY <1>8 DEF Settled, Exists
    <2>2. \A p \in OpIds : p # op /\ p # o => (p \in Settled' <=> p \in Settled)
      BY <1>8 DEF Settled, Exists
    <2>3. Settled \subseteq OpIds /\ Settled' \subseteq OpIds
      BY DEF Settled
    <2> QED  BY <2>1, <2>2, <2>3
  <1>11. m \in Movements
    BY <1>1 DEF Movements
  <1> HIDE DEF m
  <1> QED  BY <1>6, <1>7, <1>9, <1>10, <1>11 DEF Money!Undo, m

LEMMA TransferPays ==
  ASSUME TypeInv, NEW op \in OpIds, NEW c \in Clients, NEW d \in Clients,
         NEW amount \in Amounts, Transfer(op, c, d, amount)
  PROVE  Money!Pay(op, c, d, amount)
  <1>1. /\ amount \in Int /\ amount > 0 /\ c \in Accounts /\ d \in Accounts
        /\ "INTERNAL_TRANSFER" \in OpTypes
    BY AmountsAssumption DEF Transfer, Accounts, OpTypes
  <1>2. [Next]_vars /\ Fresh(op) /\ amount <= balance[c]
    BY DEF Next, Transfer
  <1>3. Posting(op, "INTERNAL_TRANSFER", c, d, amount)
    BY TransferPosts DEF TypeInv
  <1>4. Money!Move(op, c, d, amount)
    BY <1>1, <1>2, <1>3, PostingMoves
  <1>5. /\ ops'[op].status = "COMPLETED" /\ ops'[op].type # "REVERSAL"
        /\ \A p \in OpIds : p # op => ops'[p] = ops[p]
    BY DEF TypeInv, TypeOK, Transfer, Operation
  <1> QED  BY <1>2, <1>4, <1>5, PostingSettlesNothing DEF Money!Pay

LEMMA RechargePays ==
  ASSUME TypeInv, NEW op \in OpIds, NEW c \in Clients,
         NEW amount \in Amounts, Recharge(op, c, amount)
  PROVE  Money!Pay(op, SystemFunding, c, amount)
  <1>1. /\ amount \in Int /\ amount > 0 /\ c \in Accounts /\ SystemFunding \in Accounts
        /\ "SIMULATED_RECHARGE" \in OpTypes /\ SystemFunding \notin Clients
    BY AmountsAssumption, LimitsAssumption, IdsAssumption DEF Recharge, Accounts, OpTypes
  <1>2. [Next]_vars /\ Fresh(op)
    BY DEF Next, Recharge
  <1>3. Posting(op, "SIMULATED_RECHARGE", SystemFunding, c, amount)
    BY RechargePosts DEF TypeInv
  <1>4. Money!Move(op, SystemFunding, c, amount)
    BY <1>1, <1>2, <1>3, PostingMoves
  <1>5. /\ ops'[op].status = "COMPLETED" /\ ops'[op].type # "REVERSAL"
        /\ \A p \in OpIds : p # op => ops'[p] = ops[p]
    BY DEF TypeInv, TypeOK, Recharge, Operation
  <1> QED  BY <1>2, <1>4, <1>5, PostingSettlesNothing DEF Money!Pay

\* A credit is paid by the system, a debit by the client.
LEMMA AdjustPays ==
  ASSUME TypeInv, NEW op \in OpIds, NEW c \in Clients, NEW credit \in BOOLEAN,
         NEW amount \in Amounts, Adjust(op, c, credit, amount)
  PROVE  Money!Pay(op, IF credit THEN SystemFunding ELSE c,
                   IF credit THEN c ELSE SystemFunding, amount)
  <1>1. /\ amount \in Int /\ amount > 0 /\ c \in Accounts /\ SystemFunding \in Accounts
        /\ "ADMIN_ADJUSTMENT" \in OpTypes /\ SystemFunding \notin Clients
    BY AmountsAssumption, IdsAssumption DEF Adjust, Accounts, OpTypes
  <1>2. [Next]_vars /\ Fresh(op)
    BY DEF Next, Adjust
  <1>3. Posting(op, "ADMIN_ADJUSTMENT", SystemFunding, c, IF credit THEN amount ELSE -amount)
    BY AdjustPosts DEF TypeInv
  <1>4. balance \in [Accounts -> Int]
    BY DEF TypeInv, TypeOK
  <1>5. /\ ops'[op].status = "COMPLETED" /\ ops'[op].type # "REVERSAL"
        /\ \A p \in OpIds : p # op => ops'[p] = ops[p]
    BY DEF TypeInv, TypeOK, Adjust, Operation
  <1>6. UNCHANGED Settled
    BY <1>2, <1>5, PostingSettlesNothing
  <1>7. CASE credit
    <2>1. Posting(op, "ADMIN_ADJUSTMENT", SystemFunding, c, amount)
      BY <1>3, <1>7
    <2>2. Money!Move(op, SystemFunding, c, amount)
      BY <1>1, <1>2, <2>1, PostingMoves
    <2> QED  BY <2>2, <1>6, <1>7 DEF Money!Pay
  <1>8. CASE ~credit
    <2>1. Posting(op, "ADMIN_ADJUSTMENT", SystemFunding, c, -amount) /\ -amount \in Int
      BY <1>1, <1>3, <1>8
    <2>2. amount <= balance[c]
      <3>1. ~Overdraws(c, -amount)
        BY <1>8 DEF Adjust
      <3> QED  BY <3>1, <1>1, <1>4 DEF Overdraws
    <2>3. Money!Move(op, c, SystemFunding, amount)
      <3>1. amount = -(-amount)
        BY <1>1
      <3> QED  BY <1>1, <1>2, <2>1, <2>2, <3>1, PostingMoves
    <2> QED  BY <2>3, <1>6, <1>8 DEF Money!Pay
  <1> QED  BY <1>7, <1>8

\* Every step of the ledger is a movement of money, the undoing of one, or none.
LEMMA MoneyNext ==
  ASSUME TypeInv, [Next]_vars
  PROVE  [Money!Next]_<<balance, Movements, Settled>>
  <1>1. ASSUME NEW op \in OpIds, NEW c \in Clients, NEW d \in Clients, NEW amount \in Amounts,
               Transfer(op, c, d, amount)
        PROVE  Money!Next
    <2>1. Money!Pay(op, c, d, amount) /\ c \in Accounts /\ d \in Accounts
      BY <1>1, TransferPays DEF Accounts
    <2> QED  BY <2>1 DEF Money!Next
  <1>2. ASSUME NEW op \in OpIds, NEW c \in Clients, NEW amount \in Amounts,
               Recharge(op, c, amount)
        PROVE  Money!Next
    <2>1. Money!Pay(op, SystemFunding, c, amount) /\ c \in Accounts /\ SystemFunding \in Accounts
      BY <1>2, RechargePays DEF Accounts
    <2> QED  BY <2>1 DEF Money!Next
  <1>3. ASSUME NEW op \in OpIds, NEW o \in OpIds, Reverse(op, o)
        PROVE  Money!Next
    <2>1. Movement(o) \in Movements /\ Money!Undo(op, Movement(o))
      BY <1>3, ReverseUndoes
    <2> QED  BY <2>1 DEF Money!Next
  <1>4. ASSUME NEW op \in OpIds, NEW c \in Clients, NEW credit \in BOOLEAN,
               NEW amount \in Amounts, Adjust(op, c, credit, amount)
        PROVE  Money!Next
    <2> DEFINE from == IF credit THEN SystemFunding ELSE c
               to == IF credit THEN c ELSE SystemFunding
    <2>1. Money!Pay(op, from, to, amount) /\ from \in Accounts /\ to \in Accounts
      BY <1>4, AdjustPays DEF Accounts
    <2> HIDE DEF from, to
    <2> QED  BY <2>1 DEF Money!Next
  <1>5. CASE UNCHANGED <<balance, version, usage, ops, entries, outbox>>
    <2>1. UNCHANGED <<balance, Movements, Settled>>
      BY <1>5 DEF Movements, Movement, Settled, Exists
    <2> QED  BY <2>1
  <1> QED  BY <1>1, <1>2, <1>3, <1>4, <1>5 DEF Next, SetClientStatus, NextDay, vars

\* Whatever the ledger does to balances is what MoneyMovement promises.
THEOREM LedgerMovesMoney == Spec => MovesMoney
  <1>1. Init => Money!Init
    <2> SUFFICES ASSUME Init PROVE Money!Init
      OBVIOUS
    <2>1. \A o \in OpIds : ops[o].status = "ABSENT"
      BY DEF Init, NoOperation
    <2>2. Movements = {} /\ Settled = {}
      BY <2>1 DEF Movements, Settled, Exists
    <2> QED  BY <2>2 DEF Init, Money!Init
  <1>2. TypeInv /\ [Next]_vars => [Money!Next]_<<balance, Movements, Settled>>
    BY MoneyNext
  <1>3. TypeOK /\ DoubleEntry => TypeInv
    BY DEF TypeInv
  <1> QED  BY <1>1, <1>2, <1>3, TypeAndDoubleEntry, PTL DEF Spec, MovesMoney, Money!Spec
=============================================================================
