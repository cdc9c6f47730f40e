---------------------------- MODULE SerialService ----------------------------
(***************************************************************************)
(* What the request queue of an inference node promises to its callers,    *)
(* with no queue, no timers and no reload state: every request has one     *)
(* outcome, the outcome never changes once it is decided, at most one       *)
(* request is being executed, and execution starts only for a request      *)
(* whose outcome is still open.  RequestQueue implements this service.      *)
(***************************************************************************)
CONSTANTS
  Requests,    \* the calls of submit_request
  NoRequest    \* "nothing is being executed", not a request

VARIABLES
  outcome,     \* outcome[r]: what the caller of r will be told
  busy         \* the request being executed, or NoRequest

serviceVars == <<outcome, busy>>

Final == {"result", "failed", "timeout", "cancelled"}
Outcomes == {"none", "pending"} \cup Final

ServiceTypeOK ==
  /\ outcome \in [Requests -> Outcomes]
  /\ busy \in Requests \cup {NoRequest}

ServiceInit ==
  /\ outcome = [r \in Requests |-> "none"]
  /\ busy = NoRequest

Accept(r) ==
  /\ outcome[r] = "none"
  /\ outcome' = [outcome EXCEPT ![r] = "pending"]
  /\ UNCHANGED busy

Execute(r) ==
  /\ busy = NoRequest
  /\ outcome[r] = "pending"
  /\ busy' = r
  /\ UNCHANGED outcome

\* The execution of r ends.  If its caller is still waiting it is told how; a
\* caller that has given up in the meantime keeps the outcome it was given.
Conclude(r) ==
  /\ busy = r
  /\ busy' = NoRequest
  /\ \/ /\ outcome[r] = "pending"
        /\ \E o \in Final : outcome' = [outcome EXCEPT ![r] = o]
     \/ /\ outcome[r] # "pending"
        /\ UNCHANGED outcome

\* Waiting ends without execution having ended: dropped, timed out, cancelled.
GiveUp(r) ==
  /\ outcome[r] = "pending"
  /\ \E o \in {"timeout", "cancelled"} : outcome' = [outcome EXCEPT ![r] = o]
  /\ UNCHANGED busy

\* A shutdown cancels any number of open requests at once.
CancelMany ==
  /\ \E S \in SUBSET {r \in Requests : outcome[r] = "pending"} :
       outcome' = [r \in Requests |-> IF r \in S THEN "cancelled" ELSE outcome[r]]
  /\ UNCHANGED busy

ServiceNext ==
  \/ \E r \in Requests : Accept(r) \/ Execute(r) \/ Conclude(r) \/ GiveUp(r)
  \/ CancelMany

ServiceSpec == ServiceInit /\ [][ServiceNext]_serviceVars
=============================================================================
