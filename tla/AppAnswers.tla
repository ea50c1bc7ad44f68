---------------------------- MODULE AppAnswers ----------------------------
(***************************************************************************)
(* What the app makes of one HTTP exchange: ApiError's kinds, what a       *)
(* FinancialOperation concludes from them, and the failure kinds that      *)
(* choose a screen.                                                        *)
(***************************************************************************)

\* How a request can end.  "garbled" is a 2xx whose body is cut short, is no JSON
\* or breaks the contract; "locked" and "short" carry the codes LIMIT_EXCEEDED and
\* INSUFFICIENT_FUNDS; "noMethod" SIMULATED_METHOD_NOT_ALLOWED; "noCategory"
\* CATEGORY_NOT_FOUND; "self" and "twice" the SELF and DUPLICATE beneficiary codes.
Ends == {"ok", "garbled", "400", "401", "403", "404", "409", "422", "429", "500",
         "503", "network", "timeout", "locked", "short", "noMethod", "noCategory",
         "self", "twice", "badDate"}

\* STATUS_KIND, and the transport kinds.  A coded problem comes with a status.
Kind ==
  [e \in Ends \ {"ok"} |->
     CASE e = "400" -> "bad_request"
       [] e = "401" -> "unauthorized"
       [] e = "403" -> "forbidden"
       [] e \in {"404", "noCategory"} -> "not_found"
       [] e \in {"409", "twice"} -> "conflict"
       [] e \in {"422", "locked", "short", "noMethod", "self", "badDate"} -> "unprocessable"
       [] e = "429" -> "rate_limited"
       [] e = "500" -> "server_error"
       [] e = "503" -> "unavailable"
       [] e \in {"network", "timeout"} -> e
       [] OTHER -> "unexpected"]

\* asApiError: whatever else is thrown, a ServiceContractError included.
AsApiError(e) == IF e \in DOMAIN Kind THEN Kind[e] ELSE "unexpected"

\* Mutation: no answer is taken for a refusal.
HastyFailure(e) ==
  CASE e = "short"  -> "insufficient_funds"
    [] e = "locked" -> "limit_exceeded"
    [] OTHER -> CASE AsApiError(e) = "unauthorized" -> "session"
                  [] AsApiError(e) = "unexpected" -> "unknown"
                  [] AsApiError(e) \in {"bad_request", "unprocessable", "timeout", "network"} ->
                       "validation"
                  [] OTHER -> AsApiError(e)

\* classifyOperationFailure.
Failure(e) ==
  CASE e = "short"  -> "insufficient_funds"
    [] e = "locked" -> "limit_exceeded"
    [] OTHER -> CASE AsApiError(e) \in {"bad_request", "unprocessable"} -> "validation"
                  [] AsApiError(e) = "unauthorized" -> "session"
                  [] AsApiError(e) \in {"timeout", "network"} -> "uncertain"
                  [] AsApiError(e) = "unexpected" -> "unknown"
                  [] OTHER -> AsApiError(e)

\* routeCategoryFailure.
CategoryRoute(failure, creating) ==
  CASE failure = "session" -> "session"
    [] failure \in {"forbidden", "not_found"} -> "reload"
    [] creating /\ failure = "conflict" -> "conflict"
    [] creating /\ failure = "validation" -> "validation"
    [] OTHER -> "stay"
=============================================================================
