--------------------------- MODULE BackofficeApp ---------------------------
(***************************************************************************)
(* The staff app: BackofficeApp, its stack of routes, and the screens that *)
(* load a resource and send a form.                                        *)
(***************************************************************************)
EXTENDS SessionScreens

CONSTANTS
  Roles,    \* the roles in the token of each user
  MaxDepth  \* bound: routes on the stack

ASSUME MaxDepthAssumption == MaxDepth \in Nat \ {0}

VARIABLE stack  \* the routes, each with the user who opened it

Home == [name |-> "home", by |-> Nobody]
BackofficeInit == stack = <<Home>>

Route == Last(stack).name

\* Who is on screen: the screens, and the roles, are those of the last status that was
\* rendered, also while the deletion of the session goes on.
viewer == IF session # NoSession THEN session.user ELSE Head(stack).by
roles == IF viewer = Nobody THEN {} ELSE Roles[viewer]
Staff == {"SOPORTE", "OPERADOR_FINANCIERO", "ADMIN"}

\* allowed.
allowed(route) ==
  CASE route = "home" -> TRUE
    [] route \in {"users", "userDetail", "userStatus", "userRoles", "roles"} -> "ADMIN" \in roles
    [] route \in {"reversalCreate", "reversalDetail", "finance search", "finance operation"} ->
         "OPERADOR_FINANCIERO" \in roles
    [] OTHER -> roles \cap Staff # {}

Loading == {"users", "userDetail", "userStatus", "userRoles", "roles", "cases", "caseDetail",
            "caseStatus", "caseAssign", "caseEscalate", "customerProfile", "customerOperations",
            "support operation", "finance operation", "reversalDetail"}

\* The top of the new stack is mounted.
Mount(routes) ==
  /\ stack' = routes /\ form' = "idle"
  /\ IF Last(routes).name \in Loading /\ allowed(Last(routes).name) THEN StartLoad(NoList, {"page"})
     ELSE StopLoad

\* nav.
push(name) == Len(stack) < MaxDepth /\ Mount(Append(stack, [name |-> name, by |-> viewer]))
replace(name) == Mount(Append(Front(stack), [name |-> name, by |-> viewer]))
back == Len(stack) > 1 /\ Mount(Front(stack))
home == Len(stack) > 1 /\ Mount(<<Head(stack)>>)

\* The screen of a route, and what is behind its Remote once it has loaded.
At(name) == shown /\ Route = name /\ allowed(name) /\ Quiet /\ UNCHANGED shown
Loaded(name) == At(name) /\ list.status = "success"

\* The Back of every header, "Sin permisos" included, and the retry of an error.
Header == shown /\ back /\ Quiet /\ UNCHANGED shown
Retry == /\ shown /\ list.status = "error" /\ StartLoad(list, {"page"})
         /\ Quiet /\ UNCHANGED <<shown, stack, form>>

-----------------------------------------------------------------------------
(* Screens.                                                                *)

\* modulesFor; the sign-out is below.
modulesFor ==
  (IF roles \cap Staff # {} THEN {"cases", "customer", "support search"} ELSE {}) \cup
  (IF "OPERADOR_FINANCIERO" \in roles THEN {"finance search", "reversalCreate"} ELSE {}) \cup
  (IF "ADMIN" \in roles THEN {"users", "roles"} ELSE {})

HomeScreen == At("home") /\ \E name \in modulesFor : push(name)

UsersListScreen ==
  \/ At("users") /\ push("userDetail")
  \/ At("users") /\ StartLoad(list, {"page"}) /\ UNCHANGED <<stack, form>> \* the filter

UserDetailScreen == Loaded("userDetail") /\ (push("userStatus") \/ push("userRoles"))

\* A form that was sent offers the way back and no second send.
Apply(name) == Loaded(name) /\ Execute /\ UNCHANGED stack
Done(name) == At(name) /\ form = "done"

UserStatusScreen == Apply("userStatus") \/ (Done("userStatus") /\ home)
UserRolesScreen == Apply("userRoles") \/ (Done("userRoles") /\ home)

CasesListScreen ==
  \/ Loaded("cases") /\ push("caseDetail")
  \/ At("cases") /\ StartLoad(list, {"page"}) /\ UNCHANGED <<stack, form>> \* the filter

\* A reply that was sent reloads the case.
CaseDetailScreen ==
  \/ /\ Loaded("caseDetail")
     /\ \E name \in {"caseStatus", "caseAssign", "caseEscalate", "customerProfile"} : push(name)
  \/ Apply("caseDetail")
  \/ Done("caseDetail") /\ StartLoad(list, {"page"}) /\ form' = "idle" /\ UNCHANGED stack

\* CaseResult: "Volver al detalle".
CaseStatusScreen == Apply("caseStatus") \/ (Done("caseStatus") /\ back)
CaseAssignScreen == Apply("caseAssign") \/ (Done("caseAssign") /\ back)
CaseEscalateScreen == Apply("caseEscalate") \/ (Done("caseEscalate") /\ back)

CustomerSearchScreen == At("customer") /\ push("customerProfile")
CustomerProfileScreen == Loaded("customerProfile") /\ push("customerOperations")
CustomerOperationsScreen == Loaded("customerOperations") /\ push("support operation")

OperationSearchScreen ==
  \/ At("support search") /\ push("support operation")
  \/ At("finance search") /\ push("finance operation")

\* The tabs replace the route; each loads its own data.
OperationScreen ==
  \/ At("support operation") /\ replace("support operation")
  \/ At("finance operation") /\ replace("finance operation")
  \/ Loaded("finance operation") /\ push("reversalCreate")

ReversalCreateScreen ==
  \/ At("reversalCreate") /\ Execute /\ UNCHANGED stack
  \/ Done("reversalCreate") /\ (replace("reversalDetail") \/ push("finance operation"))

ReversalDetailScreen == Loaded("reversalDetail") /\ push("finance operation")

Screens ==
  \/ Header \/ Retry \/ HomeScreen \/ UsersListScreen \/ UserDetailScreen \/ UserStatusScreen
  \/ UserRolesScreen \/ CasesListScreen \/ CaseDetailScreen \/ CaseStatusScreen
  \/ CaseAssignScreen \/ CaseEscalateScreen \/ CustomerSearchScreen \/ CustomerProfileScreen
  \/ CustomerOperationsScreen \/ OperationSearchScreen \/ OperationScreen
  \/ ReversalCreateScreen \/ ReversalDetailScreen

\* The status is rendered: the screen of the top route, or the gate, and the effect of
\* "anonymous" empties the stack.
BackofficeRenders ==
  /\ shown # (status = "authenticated") /\ shown' = ~shown
  /\ IF shown' THEN Mount(<<[Home EXCEPT !.by = session.user]>> \o Tail(stack))
     ELSE StopLoad /\ form' = "idle" /\ stack' = IF status = "anonymous" THEN <<Home>> ELSE stack
  /\ Quiet
=============================================================================
