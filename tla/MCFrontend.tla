----------------------------- MODULE MCFrontend -----------------------------
(* A small instance of Frontend for TLC.                                       *)
EXTENDS Frontend
CONSTANTS u1, u2

\* useMovements and useCashRegister.
Movements == {"page"}
Cash == {"page", "balance"}
SmallHooks == {Movements, Cash}
SmallApps == SmallHooks \cup {{"backoffice"}}

\* A session that is refreshed, or replaced by another user's; a restart of the app, also
\* amid a sign-out; in the staff app a sign-out pressed twice before another user signs in.
Two == [a \in SmallApps |-> 2]
SmallGeneration == [a \in SmallApps |-> IF a = Cash THEN 1 ELSE IF a = Movements THEN 2 ELSE 3]
SmallRestarts == [a \in SmallApps |-> IF a = Cash THEN 1 ELSE 0]

\* A whole load beside what an older one left.
SmallOpen == [a \in SmallApps |-> IF a = Cash THEN 3 ELSE 2]

SmallStored == {u1}
SmallLoads == 0..6

\* One who is no staff, whose token the device has at first, and one who may do everything.
SmallRoles == u1 :> {"CLIENTE"} @@ u2 :> Staff
=============================================================================
