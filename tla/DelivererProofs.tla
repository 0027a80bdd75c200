--------------------------- MODULE DelivererProofs --------------------------
(***************************************************************************)
(* Deliverer, for any number of deliveries and any MaxAttempts.  What its  *)
(* callers do is proved of whole sets of deliveries, which is how Worker   *)
(* starts, cuts and kills them (WorkerProofs).                             *)
(***************************************************************************)
EXTENDS Deliverer, Integers, TLAPS

\* AttemptsAccounted is not inductive: a POST in progress must be known to be
\* within the loop's bound and ahead of the receiver's count.
DeliveryInv ==
  /\ DeliveryTypeOK
  /\ AttemptsAccounted
  /\ \A d \in Deliveries :
       /\ delivery[d].pc = "post" => delivery[d].hits < delivery[d].attempt
       /\ delivery[d].pc \in Running => delivery[d].attempt >= 1
       /\ delivery[d].pc = "idle" => delivery[d].hits = 0

\* The invariant holds before anything is delivered.
LEMMA DeliveryInvInit == DeliveryInit => DeliveryInv
BY MaxAttemptsAssumption
   DEF DeliveryInit, DeliveryInv, DeliveryTypeOK, DeliveryRecords, AttemptsAccounted, Idle, Running, Ended

\* The acts of a caller, and the steps of a delivery, keep it.
LEMMA StartAllInv ==
  ASSUME DeliveryInv, NEW S, NEW p \in Payloads \cup {NoPayload}, StartAll(S, p)
  PROVE  DeliveryInv'
BY MaxAttemptsAssumption
   DEF DeliveryInv, DeliveryTypeOK, DeliveryRecords, AttemptsAccounted, Running, Ended, StartAll

LEMMA CutAllInv == ASSUME DeliveryInv, NEW S, CutAll(S) PROVE DeliveryInv'
BY MaxAttemptsAssumption
   DEF DeliveryInv, DeliveryTypeOK, DeliveryRecords, AttemptsAccounted, Running, Ended, CutAll

LEMMA KillAllInv == ASSUME DeliveryInv, NEW S, KillAll(S) PROVE DeliveryInv'
BY MaxAttemptsAssumption
   DEF DeliveryInv, DeliveryTypeOK, DeliveryRecords, AttemptsAccounted, Running, Ended, KillAll

LEMMA DeliveryStepInv ==
  ASSUME DeliveryInv, NEW d \in Deliveries, DeliveryStep(d)
  PROVE  DeliveryInv'
<1> USE MaxAttemptsAssumption
    DEF DeliveryInv, DeliveryTypeOK, DeliveryRecords, AttemptsAccounted, Running, Ended
<1>1. CASE Accepted(d)
  BY <1>1 DEF Accepted
<1>2. CASE Refused(d)
  BY <1>2 DEF Refused, AfterFailure
<1>3. CASE Unreached(d)
  <2>1. DeliveryTypeOK'
    BY <1>3 DEF Unreached, AfterFailure
  <2> QED
    BY <1>3, <2>1 DEF Unreached, AfterFailure
<1>4. CASE Retry(d)
  BY <1>4 DEF Retry, Repeats, NextAttempt
<1>5. CASE Abandon(d)
  BY <1>5 DEF Abandon
<1>6. CASE Unsendable(d)
  BY <1>6 DEF Unsendable
<1> QED
  BY <1>1, <1>2, <1>3, <1>4, <1>5, <1>6 DEF DeliveryStep

LEMMA DeliveryInvNext == DeliveryInv /\ [Next]_delivery => DeliveryInv'
<1> SUFFICES ASSUME DeliveryInv, [Next]_delivery PROVE DeliveryInv'
  OBVIOUS
<1>1. CASE UNCHANGED delivery
  BY <1>1 DEF DeliveryInv, DeliveryTypeOK, AttemptsAccounted
<1>2. ASSUME NEW d \in Deliveries, Start(d) PROVE DeliveryInv'
  BY <1>2, StartAllInv DEF Start
<1>3. ASSUME NEW d \in Deliveries, DeliveryStep(d) PROVE DeliveryInv'
  BY <1>3, DeliveryStepInv
<1>4. ASSUME NEW d \in Deliveries, Cut(d) PROVE DeliveryInv'
  BY <1>4, CutAllInv DEF Cut
<1>5. ASSUME NEW d \in Deliveries, Kill(d) PROVE DeliveryInv'
  BY <1>5, KillAllInv DEF Kill
<1> QED
  BY <1>1, <1>2, <1>3, <1>4, <1>5 DEF Next

\* However the receivers answer and whenever contexts end, a receiver sees no
\* more POSTs than attempts were made, and no more are made than MaxAttempts.
THEOREM AttemptsAreAccounted == DelivererSpec => []AttemptsAccounted
<1>1. DeliveryInv => AttemptsAccounted
  BY DEF DeliveryInv
<1> QED
  BY DeliveryInvInit, DeliveryInvNext, <1>1, PTL DEF DelivererSpec

\* No step disturbs a delivery that has ended, unless it is started anew.
LEMMA EndedStays ==
  ASSUME DeliveryTypeOK, NEW d \in Deliveries, delivery[d].pc \in Ended,
         \/ \E S, p : d \notin S /\ StartAll(S, p)
         \/ \E S : CutAll(S) \/ KillAll(S)
         \/ \E e \in Deliveries : DeliveryStep(e)
  PROVE  delivery'[d].pc = delivery[d].pc /\ delivery'[d].hits = delivery[d].hits
<1> USE DEF DeliveryTypeOK, DeliveryRecords, Ended, Running
<1>1. CASE \E S, p : d \notin S /\ StartAll(S, p)
  BY <1>1 DEF StartAll
<1>2. CASE \E S : CutAll(S) \/ KillAll(S)
  BY <1>2 DEF CutAll, KillAll
<1>3. CASE \E e \in Deliveries : DeliveryStep(e)
  BY <1>3 DEF DeliveryStep, Accepted, Refused, Unreached, Unsendable, Retry, Repeats, Abandon
<1> QED
  BY <1>1, <1>2, <1>3

\* A delivery that has returned never posts again.
THEOREM ReturnIsFinal == DelivererSpec => NoPostAfterReturn
<1>1. ASSUME DeliveryInv, [Next]_delivery
      PROVE  [\A d \in Deliveries :
                delivery[d].pc \in Ended =>
                  /\ delivery'[d].pc = delivery[d].pc
                  /\ delivery'[d].hits = delivery[d].hits]_delivery
  <2> SUFFICES ASSUME NEW d \in Deliveries, delivery[d].pc \in Ended,
                      NEW e \in Deliveries,
                      Start(e) \/ DeliveryStep(e) \/ Cut(e) \/ Kill(e)
               PROVE  /\ delivery'[d].pc = delivery[d].pc
                      /\ delivery'[d].hits = delivery[d].hits
    BY <1>1 DEF Next
  <2>1. Start(e) => \E S, p : d \notin S /\ StartAll(S, p)
    BY DEF Start, Ended
  <2> QED
    BY <1>1, <2>1, EndedStays DEF DeliveryInv, Cut, Kill
<1> QED
  BY DeliveryInvInit, DeliveryInvNext, <1>1, PTL DEF DelivererSpec, NoPostAfterReturn

-----------------------------------------------------------------------------
(* Deliver ends *)

\* How many steps a running delivery has left at most: a POST and a backoff
\* for every attempt.
StepsLeft(d) ==
  CASE delivery[d].pc = "post"    -> 2 * (MaxAttempts - delivery[d].attempt) + 2
    [] delivery[d].pc = "backoff" -> 2 * (MaxAttempts - delivery[d].attempt) + 1
    [] OTHER                      -> 0

\* Every step of a delivery brings its end nearer, whatever the receiver and
\* the context do, and nothing else takes a running one away from it: no
\* choice of theirs keeps Deliver going.
THEOREM DeliverComesToAnEnd ==
  DelivererSpec =>
    /\ [](\A d \in Deliveries : StepsLeft(d) \in 0 .. 2 * MaxAttempts)
    /\ [][\A d \in Deliveries :
            /\ DeliveryStep(d) => StepsLeft(d)' < StepsLeft(d)
            /\ delivery[d].pc \in Running => StepsLeft(d)' <= StepsLeft(d)]_delivery
<1>1. ASSUME DeliveryInv, NEW d \in Deliveries
      PROVE  StepsLeft(d) \in 0 .. 2 * MaxAttempts
  <2>1. /\ delivery[d].attempt \in Nat /\ MaxAttempts \in Nat /\ delivery[d].hits \in Nat
        /\ delivery[d].attempt <= MaxAttempts
        /\ delivery[d].pc \in {"post", "backoff"} => delivery[d].attempt >= 1
    BY <1>1, MaxAttemptsAssumption
       DEF Running, DeliveryInv, DeliveryTypeOK, DeliveryRecords, AttemptsAccounted
  <2>2. CASE delivery[d].pc = "post"
    <3>1. 2 * (MaxAttempts - delivery[d].attempt) + 2 \in 0 .. 2 * MaxAttempts
      BY <2>1, <2>2
    <3> QED
      BY <2>2, <3>1 DEF StepsLeft
  <2>3. CASE delivery[d].pc = "backoff"
    <3>1. 2 * (MaxAttempts - delivery[d].attempt) + 1 \in 0 .. 2 * MaxAttempts
      BY <2>1, <2>3
    <3> QED
      BY <2>3, <3>1 DEF StepsLeft
  <2>4. CASE delivery[d].pc \notin {"post", "backoff"}
    BY <2>1, <2>4 DEF StepsLeft
  <2> QED
    BY <2>2, <2>3, <2>4
<1>2. ASSUME DeliveryInv, NEW d \in Deliveries, DeliveryStep(d)
      PROVE  StepsLeft(d)' < StepsLeft(d)
  <2>1. /\ delivery \in [Deliveries -> DeliveryRecords]
        /\ delivery[d].attempt \in Nat /\ MaxAttempts \in Nat
        /\ delivery[d].attempt <= MaxAttempts
        /\ delivery[d].pc = "backoff" => delivery[d].attempt < MaxAttempts
    BY <1>2, MaxAttemptsAssumption
       DEF DeliveryInv, DeliveryTypeOK, DeliveryRecords, AttemptsAccounted
  <2>2. CASE Retry(d)
    <3>1. /\ delivery[d].pc = "backoff" /\ delivery'[d].pc = "post"
          /\ delivery'[d].attempt = delivery[d].attempt + 1
      BY <2>1, <2>2 DEF Retry, Repeats, NextAttempt, DeliveryRecords
    <3> QED
      BY <2>1, <3>1 DEF StepsLeft
  <2>3. CASE Abandon(d)
    <3>1. delivery[d].pc = "backoff" /\ delivery'[d].pc = "abandoned"
      BY <2>1, <2>3 DEF Abandon, DeliveryRecords
    <3> QED
      BY <2>1, <3>1 DEF StepsLeft
  <2>4. CASE Accepted(d) \/ Refused(d) \/ Unreached(d) \/ Unsendable(d)
    <3>1. /\ delivery[d].pc = "post"
          /\ delivery'[d].pc \in {"backoff", "exhausted", "delivered", "unsent"}
          /\ delivery'[d].attempt = delivery[d].attempt
      BY <2>1, <2>4
         DEF Accepted, Refused, Unreached, Unsendable, AfterFailure, DeliveryRecords
    <3> QED
      BY <2>1, <3>1 DEF StepsLeft
  <2> QED
    BY <1>2, <2>2, <2>3, <2>4 DEF DeliveryStep
<1>3. ASSUME DeliveryInv, DeliveryInv', [Next]_delivery, NEW d \in Deliveries,
             delivery[d].pc \in Running
      PROVE  StepsLeft(d)' <= StepsLeft(d)
  <2>l. delivery \in [Deliveries -> DeliveryRecords]
    BY <1>3 DEF DeliveryInv, DeliveryTypeOK
  <2>n. StepsLeft(d) \in Nat /\ StepsLeft(d)' \in Int
    <3>1. delivery'[d].attempt \in Nat /\ MaxAttempts \in Nat
      BY <1>3, MaxAttemptsAssumption DEF DeliveryInv, DeliveryTypeOK, DeliveryRecords
    <3>2. StepsLeft(d)' \in Int
      BY <3>1 DEF StepsLeft
    <3> QED
      BY <1>1, <1>3, <3>2, MaxAttemptsAssumption
  <2>1. \/ DeliveryStep(d)
        \/ delivery'[d].pc = delivery[d].pc /\ delivery'[d].attempt = delivery[d].attempt
        \/ delivery'[d].pc = "lost"
    <3>1. ASSUME NEW e \in Deliveries \ {d}, DeliveryStep(e) PROVE delivery'[d] = delivery[d]
      BY <2>l, <3>1 DEF DeliveryStep, Accepted, Refused, Unreached, Unsendable, Retry, Abandon
    <3>2. ASSUME NEW e \in Deliveries, Start(e) PROVE delivery'[d] = delivery[d]
      BY <1>3, <3>2 DEF Start, StartAll, Running
    <3>3. ASSUME NEW e \in Deliveries, Cut(e)
          PROVE  delivery'[d].pc = delivery[d].pc /\ delivery'[d].attempt = delivery[d].attempt
      BY <2>l, <3>3 DEF Cut, CutAll, DeliveryRecords
    <3>4. ASSUME NEW e \in Deliveries, Kill(e)
          PROVE  delivery'[d] = delivery[d] \/ delivery'[d].pc = "lost"
      BY <2>l, <3>4 DEF Kill, KillAll, DeliveryRecords
    <3> QED
      BY <1>3, <3>1, <3>2, <3>3, <3>4 DEF Next
  <2>2. delivery'[d].pc = "lost" => StepsLeft(d)' = 0
    BY DEF StepsLeft
  <2>3. delivery'[d].pc = delivery[d].pc /\ delivery'[d].attempt = delivery[d].attempt
          => StepsLeft(d)' = StepsLeft(d)
    BY DEF StepsLeft
  <2>4. DeliveryStep(d) => StepsLeft(d)' < StepsLeft(d)
    BY <1>2, <1>3
  <2>5. \/ StepsLeft(d)' < StepsLeft(d)
        \/ StepsLeft(d)' = StepsLeft(d)
        \/ StepsLeft(d)' = 0
    BY <2>1, <2>2, <2>3, <2>4
  <2> QED
    BY <2>n, <2>5
<1>4. DeliveryInv => \A d \in Deliveries : StepsLeft(d) \in 0 .. 2 * MaxAttempts
  BY <1>1
<1>5. DeliveryInv /\ DeliveryInv' /\ [Next]_delivery =>
        [\A d \in Deliveries :
           /\ DeliveryStep(d) => StepsLeft(d)' < StepsLeft(d)
           /\ delivery[d].pc \in Running => StepsLeft(d)' <= StepsLeft(d)]_delivery
  BY <1>2, <1>3
<1> QED
  BY DeliveryInvInit, DeliveryInvNext, <1>4, <1>5, PTL DEF DelivererSpec
=============================================================================
