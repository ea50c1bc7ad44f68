------------------------- MODULE IdempotentEndpoint -------------------------
(* What a POST guarded by an Idempotency-Key promises, whatever happens to the *)
(* requests that carry it: as long as its reservation is kept, a key decides   *)
(* once, for one request, and the decision never changes.                      *)
CONSTANTS Keys, Requests, Nobody

Outcomes ==
  {[status |-> "open", by |-> Nobody]}
    \cup [status : {"applied", "refused"}, by : Requests]

VARIABLE outcome

Open == [status |-> "open", by |-> Nobody]

Decide(k, r, status) ==
  /\ outcome[k] = Open
  /\ outcome' = [outcome EXCEPT ![k] = [status |-> status, by |-> r]]

\* The retention period of the reservation ends and the key is new again.
Forget(k) == outcome' = [outcome EXCEPT ![k] = Open]

Init == outcome = [k \in Keys |-> Open]

Next ==
  \E k \in Keys :
    \/ \E r \in Requests, status \in {"applied", "refused"} : Decide(k, r, status)
    \/ Forget(k)

Spec == Init /\ [][Next]_outcome
=============================================================================
