---------------------------- MODULE JobLifecycle ----------------------------
(***************************************************************************)
(* What the queue promises the API's clients, without workers, statements  *)
(* or stages: a submitted job is handed out once, comes to one outcome and *)
(* keeps it.                                                               *)
(***************************************************************************)
EXTENDS Naturals

CONSTANT Jobs

VARIABLES state, handed

Outcomes == {"completed", "failed"}
States == {"absent", "queued", "running"} \cup Outcomes

Init ==
  /\ state = [j \in Jobs |-> "absent"]
  /\ handed = [j \in Jobs |-> 0]

Submit(j) ==
  /\ state[j] = "absent"
  /\ state' = [state EXCEPT ![j] = "queued"]
  /\ UNCHANGED handed

Hand(j) ==
  /\ state[j] = "queued"
  /\ state' = [state EXCEPT ![j] = "running"]
  /\ handed' = [handed EXCEPT ![j] = @ + 1]

Finish(j) ==
  /\ state[j] = "running"
  /\ \E s \in Outcomes : state' = [state EXCEPT ![j] = s]
  /\ UNCHANGED handed

Next == \E j \in Jobs : Submit(j) \/ Hand(j) \/ Finish(j)

Spec == Init /\ [][Next]_<<state, handed>>
=============================================================================
