---------------------------- MODULE MoneyMovement ----------------------------
(* What the ledger promises about money: it only ever moves from one account   *)
(* to another, each operation moves it once, no client pays with money it does *)
(* not have, and a movement is undone at most once, by one back that is never  *)
(* undone itself.                                                              *)
EXTENDS Integers

CONSTANTS Accounts, Clients, OpIds, Amounts, InitialBalance

VARIABLES
  funds,   \* what each account holds
  moves,   \* the movements made
  settled  \* operations that were undone, and those that undid them

Move(op, from, to, amount) ==
  /\ \A m \in moves : m.op # op
  /\ from # to /\ amount > 0
  /\ from \in Clients => amount <= funds[from]
  /\ funds' = [funds EXCEPT ![from] = @ - amount, ![to] = @ + amount]
  /\ moves' = moves \cup {[op |-> op, from |-> from, to |-> to, amount |-> amount]}

Pay(op, from, to, amount) == Move(op, from, to, amount) /\ UNCHANGED settled

Undo(op, m) ==
  /\ m.op \notin settled
  /\ Move(op, m.to, m.from, m.amount)
  /\ settled' = settled \cup {op, m.op}

Init == funds = InitialBalance /\ moves = {} /\ settled = {}

Next ==
  \E op \in OpIds :
    \/ \E from, to \in Accounts, amount \in Amounts : Pay(op, from, to, amount)
    \/ \E m \in moves : Undo(op, m)

Spec == Init /\ [][Next]_<<funds, moves, settled>>
=============================================================================
