----------------------------- MODULE Deliverer ------------------------------
(***************************************************************************)
(* webhook.Deliverer: every delivery is a goroutine that POSTs one payload *)
(* to one URL, at most MaxAttempts times, sleeping between attempts.  The  *)
(* receiver is the environment: it may accept, refuse, accept while its    *)
(* answer is lost, or never be reached.  The context a delivery runs under *)
(* belongs to its caller, who ends it with Cut.                            *)
(***************************************************************************)
EXTENDS Naturals

CONSTANTS
  Deliveries,   \* identities of Deliver calls
  MaxAttempts,  \* the constant of the same name
  Payloads,     \* what can be POSTed
  NoPayload

ASSUME MaxAttemptsAssumption == MaxAttempts \in Nat \ {0}

VARIABLE delivery

Running == {"post", "backoff"}
Ended == {"delivered", "exhausted", "unsent", "abandoned", "lost"}

\* attempt is the loop variable, hits counts the POSTs the receiver has seen,
\* cut says that the context is done.
DeliveryRecords ==
  [pc : {"idle"} \cup Running \cup Ended, attempt : Nat, hits : Nat,
   cut : BOOLEAN, payload : Payloads \cup {NoPayload}]

DeliveryTypeOK == delivery \in [Deliveries -> DeliveryRecords]

Idle == [pc |-> "idle", attempt |-> 0, hits |-> 0, cut |-> FALSE, payload |-> NoPayload]

DeliveryInit == delivery = [d \in Deliveries |-> Idle]

\* go Deliver(ctx, hook, payload) for each d of S.
StartAll(S, payload) ==
  delivery' = [d \in Deliveries |->
    IF d \in S
    THEN [pc |-> "post", attempt |-> 1, hits |-> 0, cut |-> FALSE, payload |-> payload]
    ELSE delivery[d]]

\* The context of the deliveries of S ends.
CutAll(S) ==
  delivery' = [d \in Deliveries |->
    IF d \in S /\ delivery[d].pc \in Running
    THEN [delivery[d] EXCEPT !.cut = TRUE] ELSE delivery[d]]

\* The process of the deliveries of S exits.
KillAll(S) ==
  delivery' = [d \in Deliveries |->
    IF d \in S /\ delivery[d].pc \in Running
    THEN [delivery[d] EXCEPT !.pc = "lost"] ELSE delivery[d]]

\* A 2xx answer.
Accepted(d) ==
  /\ delivery[d].pc = "post"
  /\ ~delivery[d].cut
  /\ delivery' = [delivery EXCEPT ![d].pc = "delivered", ![d].hits = @ + 1]

\* Mutant: the loop's bound is gone.
AlwaysRetry(d) == "backoff"

AfterFailure(d) == IF delivery[d].attempt < MaxAttempts THEN "backoff" ELSE "exhausted"

\* The receiver saw the POST and answered with another status, or its answer
\* did not come back in time.
Refused(d) ==
  /\ delivery[d].pc = "post"
  /\ ~delivery[d].cut
  /\ delivery' = [delivery EXCEPT ![d].pc = AfterFailure(d), ![d].hits = @ + 1]

\* client.Do failed before the POST arrived: the only outcome when the context
\* is done.
Unreached(d) ==
  /\ delivery[d].pc = "post"
  /\ delivery' = [delivery EXCEPT ![d].pc = AfterFailure(d)]

\* json.Marshal or NewRequest fails, as it would at every attempt: Deliver
\* returns before anything is sent.
Unsendable(d) ==
  /\ delivery[d].pc = "post"
  /\ delivery[d].attempt = 1
  /\ delivery' = [delivery EXCEPT ![d].pc = "unsent"]

\* Mutant: attempt++ is missing.
SameAttempt(n) == n

NextAttempt(n) == n + 1

\* Mutant: a 2xx answer does not leave the loop.
RepeatsAfterAck(pc) == pc \in {"backoff", "delivered"}

Repeats(pc) == pc = "backoff"

\* time.After won the select; when both are ready Go picks either.
Retry(d) ==
  /\ Repeats(delivery[d].pc)
  /\ delivery' = [delivery EXCEPT ![d].pc = "post", ![d].attempt = NextAttempt(@)]

\* ctx.Done won the select.
Abandon(d) ==
  /\ delivery[d].pc = "backoff"
  /\ delivery[d].cut
  /\ delivery' = [delivery EXCEPT ![d].pc = "abandoned"]

DeliveryStep(d) ==
  Accepted(d) \/ Refused(d) \/ Unreached(d) \/ Unsendable(d) \/ Retry(d) \/ Abandon(d)

-----------------------------------------------------------------------------
\* The component on its own: its callers start, cut and kill as they like.
Start(d) == delivery[d].pc = "idle" /\ \E p \in Payloads : StartAll({d}, p)
Cut(d) == delivery[d].pc \in Running /\ ~delivery[d].cut /\ CutAll({d})
Kill(d) == delivery[d].pc \in Running /\ KillAll({d})

Next == \E d \in Deliveries : Start(d) \/ DeliveryStep(d) \/ Cut(d) \/ Kill(d)

DelivererSpec ==
  /\ DeliveryInit
  /\ [][Next]_delivery
  /\ \A d \in Deliveries : WF_delivery(DeliveryStep(d))

\* A receiver is never sent more POSTs than attempts were made, a delivery that
\* has been acknowledged spent at least one, and one that reports exhaustion
\* spent all of them (Deliver's loop and its ways out).
AttemptsAccounted ==
  \A d \in Deliveries :
    /\ delivery[d].hits <= delivery[d].attempt
    /\ delivery[d].attempt <= MaxAttempts
    /\ delivery[d].pc = "delivered" => delivery[d].hits >= 1
    /\ delivery[d].pc = "exhausted" => delivery[d].attempt = MaxAttempts
    /\ delivery[d].pc = "backoff" => delivery[d].attempt < MaxAttempts

\* Once Deliver has returned, no POST follows: a 2xx stops the retries, and so
\* does giving up (TestDeliver_EventualSuccess_StopsRetrying).
NoPostAfterReturn ==
  [][\A d \in Deliveries :
       delivery[d].pc \in Ended =>
         /\ delivery'[d].pc = delivery[d].pc
         /\ delivery'[d].hits = delivery[d].hits]_delivery

\* Deliver returns: it retries a bounded number of times and no context, cut
\* or not, makes it wait forever.
DeliverReturns == \A d \in Deliveries : delivery[d].pc = "post" ~> delivery[d].pc \in Ended
=============================================================================
