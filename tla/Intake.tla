------------------------------- MODULE Intake -------------------------------
(***************************************************************************)
(* What HandleExtract promises the client of a request, without files,     *)
(* statements or processes: an accepted request has its job, a refused one *)
(* never gets one, and a job does not go away.  A request that is answered *)
(* with an error, or not at all, may have its job or get it later.         *)
(***************************************************************************)
CONSTANT Requests

VARIABLES job, answer

Answers == {"none", "accepted", "refused", "error"}

Init ==
  /\ job = {}
  /\ answer = [r \in Requests |-> "none"]

Admit(r) ==
  /\ r \notin job
  /\ answer[r] # "refused"
  /\ job' = job \cup {r}
  /\ UNCHANGED answer

Answer(r) ==
  /\ answer[r] = "none"
  /\ \E a \in Answers :
       /\ a = "accepted" => r \in job
       /\ a = "refused" => r \notin job
       /\ answer' = [answer EXCEPT ![r] = a]
  /\ UNCHANGED job

Next == \E r \in Requests : Admit(r) \/ Answer(r)

Spec == Init /\ [][Next]_<<job, answer>>
=============================================================================
