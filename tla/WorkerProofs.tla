---------------------------- MODULE WorkerProofs ----------------------------
(***************************************************************************)
(* Worker, for any number of workers, jobs, contents, hooks and tenants,   *)
(* any Concurrency and, where a theorem names none, any set of faults.     *)
(* The first part is about claims and slots, the second about what becomes *)
(* of a job: its result is sound, its row moves forward, what is announced *)
(* of it is what the row keeps, somebody is answerable for it, and what a  *)
(* client sees of it is a behaviour of JobLifecycle.                       *)
(***************************************************************************)
EXTENDS Worker, FiniteSetTheorems, TLAPS

-----------------------------------------------------------------------------
(* Type correctness *)

\* A task that moves to another pc with well-typed fields is well typed.
LEMMA BecomeType ==
  ASSUME TaskTypeOK, NEW w \in Workers, NEW j \in Jobs, NEW t \in Tasks,
         NEW pc \in TaskPcs, Become(w, j, t, pc)
  PROVE  TaskTypeOK'
<1>1. [t EXCEPT !.pc = pc, !.done = FALSE] \in Tasks
  BY DEF Tasks
<1> QED
  BY <1>1 DEF TaskTypeOK, Become

\* A slot that runs nothing is a task of its own kind.
LEMMA IdleTaskType == IdleTask \in Tasks
BY MaxChunksAssumption DEF IdleTask, Tasks, ChunkSets, TaskPcs, Confidences, Rows

\* Moving the loop keeps it well typed when a claiming pc comes with a job.
LEMMA MoveToType ==
  ASSUME LoopTypeOK, NEW w \in Workers, NEW pc \in LoopPcs, NEW j \in Jobs \cup {None},
         pc \in {"selected", "committed", "claimed"} => j \in Jobs, MoveTo(w, pc, j)
  PROVE  /\ loop' \in [Workers -> [pc : LoopPcs, job : Jobs \cup {None}]]
         /\ \A v \in Workers :
              loop'[v].pc \in {"selected", "committed", "claimed"} => loop'[v].job \in Jobs
BY DEF LoopTypeOK, MoveTo

\* The table stays well typed under every statement.
LEMMA StoreSteps ==
  ASSUME StoreTypeOK, NEW j \in Jobs
  PROVE  /\ Create(j) => StoreTypeOK'
         /\ \A w \in Workers : LockOldest(w, j) => StoreTypeOK'
         /\ Rollback(j) => StoreTypeOK'
         /\ CommitClaim(j) => StoreTypeOK'
<1> USE DEF StoreTypeOK, Rows, Statuses, Written, InFlight, Terminal
<1>1. Create(j) => StoreTypeOK'
  BY DEF Create, Blank, Confidences
<1>2. ASSUME NEW w \in Workers, LockOldest(w, j) PROVE StoreTypeOK'
  BY <1>2 DEF LockOldest
<1>3. Rollback(j) => StoreTypeOK'
  BY DEF Rollback
<1>4. CommitClaim(j) => StoreTypeOK'
  BY DEF CommitClaim
<1> QED
  BY <1>1, <1>2, <1>3, <1>4

\* No statement takes a row out of its type.
LEMMA UpdateType ==
  ASSUME StoreTypeOK, NEW j \in Jobs, NEW s \in Written,
         NEW r \in Extractions \cup {None}, NEW c \in Confidences, Update(j, s, r, c)
  PROVE  StoreTypeOK'
<1>1. jobs[j] \in Rows
  BY DEF StoreTypeOK
<1>2. Updated(jobs[j], s, r, c) \in Rows
  BY <1>1 DEF Updated, Rows, Statuses
<1> QED
  BY <1>2 DEF StoreTypeOK, Update

\* What a task leaves with the server is a statement.
LEMMA UnfinishedType ==
  ASSUME TaskTypeOK, NEW w \in Workers, NEW J \in SUBSET Jobs, NEW S \in SUBSET Written
  PROVE  Unfinished(w, J, S) \subseteq Statements
BY DEF Unfinished, Statements, TaskTypeOK, Tasks

\* Starting, cutting, killing and stepping deliveries keeps them well typed.
LEMMA DeliverySteps ==
  ASSUME D!DeliveryTypeOK
  PROVE  /\ \A S, p : p \in Rows \cup {None} /\ D!StartAll(S, p) => D!DeliveryTypeOK'
         /\ \A S : D!CutAll(S) => D!DeliveryTypeOK'
         /\ \A S : D!KillAll(S) => D!DeliveryTypeOK'
         /\ \A d \in Deliveries : D!DeliveryStep(d) => D!DeliveryTypeOK'
<1> USE DEF D!DeliveryTypeOK, D!DeliveryRecords, D!Running, D!Ended
<1>1. ASSUME NEW S, NEW p \in Rows \cup {None}, D!StartAll(S, p) PROVE D!DeliveryTypeOK'
  BY <1>1 DEF D!StartAll
<1>2. ASSUME NEW S, D!CutAll(S) PROVE D!DeliveryTypeOK'
  BY <1>2 DEF D!CutAll
<1>3. ASSUME NEW S, D!KillAll(S) PROVE D!DeliveryTypeOK'
  BY <1>3 DEF D!KillAll
<1>4. ASSUME NEW d \in Deliveries, D!DeliveryStep(d) PROVE D!DeliveryTypeOK'
  <2>1. CASE D!Accepted(d) BY <2>1 DEF D!Accepted
  <2>2. CASE D!Refused(d) BY <2>2 DEF D!Refused, D!AfterFailure
  <2>3. CASE D!Unreached(d) BY <2>3 DEF D!Unreached, D!AfterFailure
  <2>4. CASE D!Retry(d) BY <2>4 DEF D!Retry, D!NextAttempt
  <2>5. CASE D!Abandon(d) BY <2>5 DEF D!Abandon
  <2>6. CASE D!Unsendable(d) BY <2>6 DEF D!Unsendable
  <2> QED BY <1>4, <2>1, <2>2, <2>3, <2>4, <2>5, <2>6 DEF D!DeliveryStep
<1> QED
  BY <1>1, <1>2, <1>3, <1>4

\* The processes start with every variable in its type.
LEMMA TypeInit == Init => TypeOK
<1> SUFFICES ASSUME Init PROVE TypeOK
  OBVIOUS
<1>1. StoreTypeOK
  BY DEF Init, StoreInit, StoreTypeOK, Blank, Rows, Statuses, Confidences
<1>2. LoopTypeOK
  BY ConcurrencyAssumption DEF Init, LoopTypeOK, LoopPcs
<1>3. TaskTypeOK
  BY IdleTaskType DEF Init, TaskTypeOK
<1>4. SharedTypeOK
  BY DEF Init, SharedTypeOK, D!DeliveryInit, D!DeliveryTypeOK, D!DeliveryRecords, D!Idle
<1> QED
  BY <1>1, <1>2, <1>3, <1>4 DEF TypeOK

\* One step of a worker's loop.
LEMMA LoopStepType ==
  ASSUME TypeOK, NEW w \in Workers, LoopStep(w)
  PROVE  TypeOK'
<1> USE DEF TypeOK, storeVars, loopVars, sharedVars
<1>1. CASE SelectNext(w)
  <2>1. PICK j \in Jobs : LockOldest(w, j) /\ MoveTo(w, "selected", j)
    BY <1>1 DEF SelectNext
  <2>2. StoreTypeOK'
    BY <2>1, StoreSteps
  <2>3. LoopTypeOK'
    BY <1>1, <2>1, MoveToType DEF SelectNext, LoopTypeOK, LoopPcs
  <2> QED
    BY <1>1, <2>2, <2>3 DEF SelectNext, TaskTypeOK, SharedTypeOK, D!DeliveryTypeOK
<1>2. CASE AbortClaim(w)
  <2>1. StoreTypeOK'
    BY <1>2, StoreSteps DEF AbortClaim, At, LoopTypeOK
  <2>2. LoopTypeOK'
    BY <1>2, MoveToType DEF AbortClaim, LoopTypeOK, LoopPcs
  <2> QED
    BY <1>2, <2>1, <2>2 DEF AbortClaim, TaskTypeOK, SharedTypeOK, D!DeliveryTypeOK
<1>3. CASE Claim(w)
  <2>1. StoreTypeOK'
    BY <1>3, StoreSteps DEF Claim, At, LoopTypeOK
  <2>2. LoopTypeOK'
    BY <1>3, MoveToType DEF Claim, At, LoopTypeOK, LoopPcs
  <2> QED
    BY <1>3, <2>1, <2>2 DEF Claim, TaskTypeOK, SharedTypeOK, D!DeliveryTypeOK
<1>4. CASE AckClaim(w)
  <2>1. LoopTypeOK'
    BY <1>4, MoveToType DEF AckClaim, At, LoopTypeOK, LoopPcs
  <2> QED
    BY <1>4, <2>1 DEF AckClaim, StoreTypeOK, TaskTypeOK, SharedTypeOK, D!DeliveryTypeOK
<1>5. CASE LoseAck(w)
  <2>1. LoopTypeOK'
    BY <1>5, MoveToType DEF LoseAck, LoopTypeOK, LoopPcs
  <2> QED
    BY <1>5, <2>1 DEF LoseAck, StoreTypeOK, TaskTypeOK, SharedTypeOK, D!DeliveryTypeOK
<1>6. CASE Spawn(w)
  <2>1. LoopTypeOK'
    BY <1>6, MoveToType DEF Spawn, LoopTypeOK, LoopPcs
  <2>2. TaskTypeOK'
    BY <1>6, BecomeType, IdleTaskType DEF Spawn, At, LoopTypeOK, TaskPcs
  <2> QED
    BY <1>6, <2>1, <2>2 DEF Spawn, StoreTypeOK, SharedTypeOK, D!DeliveryTypeOK
<1>7. CASE BeginDrain(w)
  <2>1. LoopTypeOK'
    BY <1>7, MoveToType DEF BeginDrain, LoopTypeOK, LoopPcs
  <2> QED
    BY <1>7, <2>1 DEF BeginDrain, StoreTypeOK, TaskTypeOK, SharedTypeOK, D!DeliveryTypeOK
<1>8. CASE DrainSlot(w)
  <2>1. LoopTypeOK'
    BY <1>8, ConcurrencyAssumption DEF DrainSlot, LoopTypeOK
  <2> QED
    BY <1>8, <2>1 DEF DrainSlot, StoreTypeOK, TaskTypeOK, SharedTypeOK, D!DeliveryTypeOK
<1>9. CASE Stop(w)
  <2>1. LoopTypeOK'
    BY <1>9, MoveToType DEF Stop, LoopTypeOK, LoopPcs
  <2>2. D!DeliveryTypeOK'
    BY <1>9, DeliverySteps DEF Stop, SharedTypeOK
  <2> QED
    BY <1>9, <2>1, <2>2 DEF Stop, StoreTypeOK, TaskTypeOK, SharedTypeOK
<1> QED
  BY <1>1, <1>2, <1>3, <1>4, <1>5, <1>6, <1>7, <1>8, <1>9 DEF LoopStep

\* One step of a task.
LEMMA TaskStepType ==
  ASSUME TypeOK, NEW w \in Workers, NEW j \in Jobs, TaskStep(w, j)
  PROVE  TypeOK'
<1> USE DEF TypeOK, storeVars, loopVars, sharedVars
<1> DEFINE t == task[w][j]
<1>t. t \in Tasks
  BY DEF TaskTypeOK
<1>a. ASSUME NEW pc \in TaskPcs, GoTo(w, j, pc) PROVE TaskTypeOK'
  BY <1>t, <1>a, BecomeType DEF GoTo
<1>p. Written \subseteq TaskPcs /\ Written = {"ingesting", "chunking", "extracting", "assembling", "completed", "failed"}
  BY DEF TaskPcs, Written, InFlight, Terminal
<1>m. Merged(w, j) \in Extractions
  BY <1>t, ContentOfAssumption DEF Merged, Extractions, Tasks
<1> HIDE DEF t
<1>1. CASE Download(w, j)
  <2>1. TaskTypeOK'
    BY <1>1, <1>a DEF Download, TaskPcs, Written, Terminal
  <2> QED
    BY <1>1, <2>1 DEF Download, StoreTypeOK, LoopTypeOK, SharedTypeOK, D!DeliveryTypeOK
<1>2. CASE CacheHit(w, j)
  <2>1. [t EXCEPT !.result = cache[ContentOf[j]], !.confidence = "cache_hit"] \in Tasks
    BY <1>2, <1>t, ContentOfAssumption DEF CacheHit, CacheKey, SharedTypeOK, Tasks, Confidences
  <2>2. TaskTypeOK'
    BY <1>2, <1>p, <2>1, BecomeType DEF CacheHit, CacheKey, t
  <2> QED
    BY <1>2, <2>2 DEF CacheHit, StoreTypeOK, LoopTypeOK, SharedTypeOK, D!DeliveryTypeOK
<1>3. CASE CacheMiss(w, j)
  <2>1. TaskTypeOK'
    BY <1>3, <1>a, <1>p DEF CacheMiss
  <2> QED
    BY <1>3, <2>1 DEF CacheMiss, StoreTypeOK, LoopTypeOK, SharedTypeOK, D!DeliveryTypeOK
<1>4. CASE ExtractText(w, j)
  <2>1. TaskTypeOK'
    BY <1>4, <1>a, <1>p DEF ExtractText
  <2> QED
    BY <1>4, <2>1 DEF ExtractText, StoreTypeOK, LoopTypeOK, SharedTypeOK, D!DeliveryTypeOK
<1>5. CASE ExtractChunk(w, j)
  <2>1. t.next \in 1 .. MaxChunks
    BY <1>5, <1>t, ContentOfAssumption, ChunksOfAssumption, MaxChunksAssumption
       DEF ExtractChunk, MoreChunks, Tasks, t
  <2>2. [t EXCEPT !.next = t.next + 1] \in Tasks
    BY <1>t, <2>1, MaxChunksAssumption DEF Tasks
  <2>3. [t EXCEPT !.next = t.next + 1, !.got = @ \cup {t.next}] \in Tasks
    <3> DEFINE n == t.next + 1
               g == t.got \cup {t.next}
    <3>1. n \in 1 .. MaxChunks + 1
      BY <2>1, MaxChunksAssumption
    <3>2. g \in ChunkSets
      BY <1>t, <2>1 DEF Tasks, ChunkSets
    <3> HIDE DEF n, g
    <3>3. [t EXCEPT !.next = n, !.got = g] \in Tasks
      BY <1>t, <3>1, <3>2 DEF Tasks
    <3> QED
      BY <3>3 DEF n, g
  <2>4. \E u \in Tasks : Become(w, j, u, "llm")
    BY <1>5, <2>2, <2>3 DEF ExtractChunk, t
  <2>5. TaskTypeOK'
    BY <2>4, BecomeType DEF TaskPcs
  <2> QED
    BY <1>5, <2>5 DEF ExtractChunk, StoreTypeOK, LoopTypeOK, SharedTypeOK, D!DeliveryTypeOK
<1>6. CASE EndChunks(w, j)
  <2>1. TaskTypeOK'
    BY <1>6, <1>a, <1>p DEF EndChunks, AfterChunks
  <2> QED
    BY <1>6, <2>1 DEF EndChunks, StoreTypeOK, LoopTypeOK, SharedTypeOK, D!DeliveryTypeOK
<1>7. CASE StoreCache(w, j)
  <2>1. [t EXCEPT !.result = Merged(w, j), !.confidence = "fields"] \in Tasks
    BY <1>t, <1>m DEF Tasks, Confidences
  <2>2. TaskTypeOK'
    BY <1>7, <1>p, <2>1, BecomeType DEF StoreCache, t
  <2>3. cache' \in [Contents -> Extractions \cup {None}]
    BY <1>7, <1>m DEF StoreCache, CacheKey, SharedTypeOK
  <2> QED
    BY <1>7, <2>2, <2>3 DEF StoreCache, StoreTypeOK, LoopTypeOK, SharedTypeOK, D!DeliveryTypeOK
<1>8. CASE Execute(w, j)
  <2>1. StoreTypeOK'
    BY <1>8, <1>t, UpdateType DEF Execute, Tasks, t
  <2>2. TaskTypeOK'
    BY <1>8, <1>t DEF Execute, TaskTypeOK, Tasks, t
  <2> QED
    BY <1>8, <2>1, <2>2 DEF Execute, LoopTypeOK, SharedTypeOK, D!DeliveryTypeOK
<1>9. CASE Reply(w, j)
  <2>1. TaskTypeOK'
    BY <1>9, <1>a, <1>p DEF Reply, AfterWrite, TaskPcs
  <2> QED
    BY <1>9, <2>1 DEF Reply, StoreTypeOK, LoopTypeOK, SharedTypeOK, D!DeliveryTypeOK
<1>10. CASE GiveUp(w, j)
  <2>1. TaskTypeOK'
    BY <1>10, <1>a, <1>p DEF GiveUp, AfterError, AfterWrite, TaskPcs
  <2>2. Unfinished(w, {j}, Written) \subseteq Statements
    BY UnfinishedType
  <2>3. stray' \subseteq Statements
    BY <1>10, <2>2 DEF GiveUp, LeaveBehind, SharedTypeOK
  <2> QED
    BY <1>10, <2>1, <2>3 DEF GiveUp, StoreTypeOK, LoopTypeOK, SharedTypeOK, D!DeliveryTypeOK
<1>11. CASE Fetch(w, j)
  <2>1. [t EXCEPT !.payload = jobs[j]] \in Tasks
    BY <1>t DEF Tasks, StoreTypeOK
  <2>2. TaskTypeOK'
    BY <1>11, <1>a, <2>1, BecomeType DEF Fetch, TaskPcs, t
  <2> QED
    BY <1>11, <2>2 DEF Fetch, StoreTypeOK, LoopTypeOK, SharedTypeOK, D!DeliveryTypeOK
<1>12. CASE Notify(w, j)
  <2>1. TaskTypeOK'
    BY <1>12, <1>a DEF Notify, TaskPcs
  <2>2. t.payload \in Rows \cup {None}
    BY <1>t DEF Tasks
  <2>3. D!DeliveryTypeOK'
    BY <1>12, <2>2, DeliverySteps DEF Notify, SharedTypeOK, D!DeliveryTypeOK, t
  <2> QED
    BY <1>12, <2>1, <2>3 DEF Notify, StoreTypeOK, LoopTypeOK, SharedTypeOK
<1>13. CASE Return(w, j)
  <2>1. TaskTypeOK'
    BY <1>13, IdleTaskType DEF Return, TaskTypeOK
  <2>2. D!DeliveryTypeOK'
    BY <1>13, DeliverySteps DEF Return, SharedTypeOK
  <2>3. LoopTypeOK'
    BY <1>13 DEF Return, ReleaseSlot, LoopTypeOK
  <2> QED
    BY <1>13, <2>1, <2>2, <2>3 DEF Return, StoreTypeOK, SharedTypeOK
<1> QED
  BY <1>1, <1>2, <1>3, <1>4, <1>5, <1>6, <1>7, <1>8, <1>9, <1>10, <1>11, <1>12, <1>13
     DEF TaskStep

\* Signals, crashes and restarts of a process.
LEMMA ProcessEventType ==
  ASSUME TypeOK, NEW w \in Workers, ProcessEvent(w)
  PROVE  TypeOK'
<1> USE DEF TypeOK, storeVars, loopVars, sharedVars
<1>1. CASE EmptyPoll(w)
  BY <1>1 DEF EmptyPoll, vars, StoreTypeOK, LoopTypeOK, TaskTypeOK, SharedTypeOK, D!DeliveryTypeOK
<1>2. Unfinished(w, Jobs, Written) \subseteq Statements
  BY UnfinishedType
<1>3. LeaveBehind(Unfinished(w, Jobs, Written)) => stray' \subseteq Statements
  BY <1>2 DEF LeaveBehind, SharedTypeOK
<1>4. CASE Cancel(w)
  <2>1. D!DeliveryTypeOK'
    BY <1>4, DeliverySteps DEF Cancel, SharedTypeOK
  <2>2. LoopTypeOK'
    BY <1>4 DEF Cancel, LoopTypeOK
  <2> QED
    BY <1>3, <1>4, <2>1, <2>2 DEF Cancel, StoreTypeOK, TaskTypeOK, SharedTypeOK
<1>5. CASE Crash(w)
  <2>1. D!DeliveryTypeOK'
    BY <1>5, DeliverySteps DEF Crash, SharedTypeOK
  <2>2. LoopTypeOK'
    BY <1>5, MoveToType, ConcurrencyAssumption DEF Crash, LoopTypeOK, LoopPcs
  <2>3. TaskTypeOK'
    <3>1. [j \in Jobs |-> IdleTask] \in [Jobs -> Tasks]
      BY IdleTaskType
    <3> QED
      BY <1>5, <3>1 DEF Crash, TaskTypeOK
  <2>4. StoreTypeOK'
    BY <1>5 DEF Crash, StoreTypeOK
  <2> QED
    BY <1>3, <1>5, <2>1, <2>2, <2>3, <2>4 DEF Crash, SharedTypeOK
<1>6. CASE Restart(w)
  <2>1. LoopTypeOK'
    BY <1>6, MoveToType, ConcurrencyAssumption DEF Restart, LoopTypeOK, LoopPcs
  <2> QED
    BY <1>6, <2>1 DEF Restart, StoreTypeOK, TaskTypeOK, SharedTypeOK, D!DeliveryTypeOK
<1> QED
  BY <1>1, <1>4, <1>5, <1>6 DEF ProcessEvent

\* Deadlines, late statements, deliveries and the environment.
LEMMA OtherStepType ==
  ASSUME TypeOK,
         \/ \E w \in Workers, j \in Jobs : Deadline(w, j)
         \/ \E d \in Deliveries : Deliver(d)
         \/ ExecuteStray
         \/ Environment
  PROVE  TypeOK'
<1> USE DEF TypeOK, storeVars, loopVars, sharedVars
<1>1. ASSUME NEW w \in Workers, NEW j \in Jobs, Deadline(w, j) PROVE TypeOK'
  <2>1. TaskTypeOK'
    <3> DEFINE t == task[w][j]
    <3>t. t \in Tasks
      BY DEF TaskTypeOK
    <3> HIDE DEF t
    <3>1. [t EXCEPT !.expired = TRUE] \in Tasks
      BY <3>t DEF Tasks
    <3> QED
      BY <1>1, <3>1 DEF Deadline, TaskTypeOK, t
  <2>2. D!DeliveryTypeOK'
    BY <1>1, DeliverySteps DEF Deadline, SharedTypeOK
  <2>3. Unfinished(w, {j}, Written \ {"failed"}) \subseteq Statements
    BY UnfinishedType
  <2>4. stray' \subseteq Statements
    BY <1>1, <2>3 DEF Deadline, LeaveBehind, SharedTypeOK
  <2> QED
    BY <1>1, <2>1, <2>2, <2>4 DEF Deadline, StoreTypeOK, LoopTypeOK, SharedTypeOK
<1>2. ASSUME NEW d \in Deliveries, Deliver(d) PROVE TypeOK'
  <2>1. D!DeliveryTypeOK'
    BY <1>2, DeliverySteps DEF Deliver, SharedTypeOK
  <2> QED
    BY <1>2, <2>1 DEF Deliver, StoreTypeOK, LoopTypeOK, TaskTypeOK, SharedTypeOK
<1>3. CASE ExecuteStray
  <2>1. PICK s \in stray : Update(s.job, s.status, s.result, s.confidence)
    BY <1>3 DEF ExecuteStray
  <2>2. s \in Statements
    BY DEF SharedTypeOK
  <2>3. StoreTypeOK'
    BY <2>1, <2>2, UpdateType DEF Statements
  <2> QED
    BY <1>3, <2>3 DEF ExecuteStray, LoopTypeOK, TaskTypeOK, SharedTypeOK, D!DeliveryTypeOK
<1>4. CASE Environment
  <2>1. ASSUME NEW j \in Jobs, Submit(j) PROVE TypeOK'
    BY <2>1, StoreSteps DEF Submit, LoopTypeOK, TaskTypeOK, SharedTypeOK, D!DeliveryTypeOK
  <2>2. ASSUME NEW h \in Hooks, RegisterHook(h) \/ DeleteHook(h) PROVE TypeOK'
    BY <2>2 DEF RegisterHook, DeleteHook, StoreTypeOK, LoopTypeOK, TaskTypeOK, SharedTypeOK,
                D!DeliveryTypeOK
  <2>3. ASSUME NEW c \in Contents, Evict(c) PROVE TypeOK'
    BY <2>3 DEF Evict, StoreTypeOK, LoopTypeOK, TaskTypeOK, SharedTypeOK, D!DeliveryTypeOK
  <2> QED
    BY <1>4, <2>1, <2>2, <2>3 DEF Environment
<1> QED
  BY <1>1, <1>2, <1>3, <1>4

\* Every step keeps it there.
LEMMA TypeNext == TypeOK /\ [Next]_vars => TypeOK'
<1> SUFFICES ASSUME TypeOK, [Next]_vars PROVE TypeOK'
  OBVIOUS
<1>1. CASE UNCHANGED vars
  BY <1>1 DEF vars, storeVars, loopVars, sharedVars, TypeOK, StoreTypeOK, LoopTypeOK,
              TaskTypeOK, SharedTypeOK, D!DeliveryTypeOK
<1>2. CASE Next
  BY <1>2, LoopStepType, TaskStepType, ProcessEventType, OtherStepType DEF Next
<1> QED
  BY <1>1, <1>2

\* Whatever faults occur, tables, loops, tasks, cache and deliveries keep to
\* their types.
THEOREM TypeCorrect == Spec => []TypeOK
BY TypeInit, TypeNext, PTL DEF Spec

-----------------------------------------------------------------------------
(* A job is claimed once and held by one worker *)

Unclaimed == {"absent", "pending"}

\* The row a transaction has selected is locked by it and still pending.
SelectedIsLocked ==
  \A w \in Workers :
    loop[w].pc = "selected" =>
      /\ lock[loop[w].job] = w
      /\ jobs[loop[w].job].status = "pending"

\* Nobody holds, has claimed or can still write a row that is up for claiming.
UnclaimedIsFree ==
  \A j \in Jobs :
    jobs[j].status \in Unclaimed =>
      /\ claims[j] = 0
      /\ \A w \in Workers : ~Holds(w, j)
      /\ \A s \in stray : s.job # j

\* ExclusiveClaim says nothing of pending rows; these two parts say why the
\* next claim of one is its first.
ClaimInv == TypeOK /\ SelectedIsLocked /\ UnclaimedIsFree /\ ExclusiveClaim

\* Nothing is claimed at the start.
LEMMA ClaimInvInit == Init => ClaimInv
<1> SUFFICES ASSUME Init PROVE ClaimInv
  OBVIOUS
<1>1. \A w \in Workers, j \in Jobs : ~Holds(w, j)
  BY DEF Init, Holds, IdleTask
<1>2. SelectedIsLocked
  BY DEF Init, SelectedIsLocked
<1>3. UnclaimedIsFree
  BY <1>1 DEF Init, StoreInit, UnclaimedIsFree
<1>4. ExclusiveClaim
  BY <1>1 DEF Init, StoreInit, ExclusiveClaim
<1> QED
  BY TypeInit, <1>2, <1>3, <1>4 DEF ClaimInv

\* A step that commits no claim, puts no row up for claiming, makes nobody a
\* holder and leaves behind only statements on held rows keeps the invariant.
LEMMA NoNewClaim ==
  ASSUME ClaimInv, TypeOK', SelectedIsLocked', claims' = claims,
         \A j \in Jobs : jobs'[j].status \in Unclaimed => jobs[j].status \in Unclaimed,
         \A w \in Workers, j \in Jobs : Holds(w, j)' => Holds(w, j),
         \A s \in stray' : s \in stray \/ \E w \in Workers : Holds(w, s.job)
  PROVE  ClaimInv'
<1>1. UnclaimedIsFree'
  <2> SUFFICES ASSUME NEW j \in Jobs, jobs'[j].status \in Unclaimed
               PROVE  /\ claims'[j] = 0
                      /\ \A w \in Workers : ~Holds(w, j)'
                      /\ \A s \in stray' : s.job # j
    BY DEF UnclaimedIsFree
  <2>1. /\ claims[j] = 0
        /\ \A w \in Workers : ~Holds(w, j)
        /\ \A s \in stray : s.job # j
    BY DEF ClaimInv, UnclaimedIsFree
  <2> QED
    BY <2>1
<1>2. ExclusiveClaim'
  BY DEF ClaimInv, ExclusiveClaim
<1> QED
  BY <1>1, <1>2 DEF ClaimInv

\* Statements left behind are on rows their worker holds.
LEMMA LeftBehindIsHeld ==
  ASSUME NEW w \in Workers, NEW J \in SUBSET Jobs, NEW S \in SUBSET Written,
         LeaveBehind(Unfinished(w, J, S))
  PROVE  \A s \in stray' : s \in stray \/ \E v \in Workers : Holds(v, s.job)
<1>1. \A s \in Unfinished(w, J, S) : Holds(w, s.job)
  BY DEF Unfinished, Holds, Written, InFlight, Terminal
<1> QED
  BY <1>1 DEF LeaveBehind

\* A statement of a worker never puts a row up for claiming.
LEMMA UpdateClaims ==
  ASSUME TypeOK, NEW j \in Jobs, NEW s \in Written,
         NEW r \in Extractions \cup {None}, NEW c \in Confidences, Update(j, s, r, c)
  PROVE  /\ jobs'[j].status = s
         /\ s \notin Unclaimed
         /\ \A k \in Jobs \ {j} : jobs'[k] = jobs[k]
<1>1. jobs[j] \in Rows
  BY DEF TypeOK, StoreTypeOK
<1>2. Updated(jobs[j], s, r, c).status = s
  BY <1>1 DEF Updated, Rows
<1>3. jobs'[j] = Updated(jobs[j], s, r, c) /\ \A k \in Jobs \ {j} : jobs'[k] = jobs[k]
  BY DEF Update, TypeOK, StoreTypeOK
<1> QED
  BY <1>2, <1>3 DEF Unclaimed, Written, InFlight, Terminal

\* The loop: only Claim commits, and it does on a row it has locked.
LEMMA LoopStepClaim ==
  ASSUME ClaimInv, TypeOK', NEW w \in Workers, LoopStep(w)
  PROVE  ClaimInv'
<1> USE DEF storeVars, loopVars, sharedVars
<1> USE NoneAssumption
<1>t. TypeOK /\ SelectedIsLocked /\ UnclaimedIsFree /\ ExclusiveClaim
  BY DEF ClaimInv
<1>l. /\ loop \in [Workers -> [pc : LoopPcs, job : Jobs \cup {None}]]
      /\ \A v \in Workers :
           loop[v].pc \in {"selected", "committed", "claimed"} => loop[v].job \in Jobs
      /\ lock \in [Jobs -> Workers \cup {None}]
      /\ jobs \in [Jobs -> Rows]
      /\ claims \in [Jobs -> Nat]
      /\ task \in [Workers -> [Jobs -> Tasks]]
  BY <1>t DEF TypeOK, LoopTypeOK, StoreTypeOK, TaskTypeOK
<1>1. CASE SelectNext(w)
  <2>1. PICK j \in Jobs : LockOldest(w, j) /\ MoveTo(w, "selected", j)
    BY <1>1 DEF SelectNext
  <2>2. SelectedIsLocked'
    BY <1>t, <1>l, <2>1 DEF LockOldest, Claimable, MoveTo, SelectedIsLocked
  <2>3. \A v \in Workers, k \in Jobs : Holds(v, k)' => Holds(v, k)
    BY <1>1, <1>l, <2>1 DEF SelectNext, MoveTo, Holds
  <2> QED
    BY <1>1, <2>1, <2>2, <2>3, NoNewClaim DEF SelectNext, LockOldest
<1>2. CASE AbortClaim(w)
  <2>1. SelectedIsLocked'
    BY <1>2, <1>t, <1>l DEF AbortClaim, At, Rollback, MoveTo, SelectedIsLocked
  <2>2. \A v \in Workers, k \in Jobs : Holds(v, k)' => Holds(v, k)
    BY <1>2, <1>l DEF AbortClaim, MoveTo, Holds
  <2> QED
    BY <1>2, <2>1, <2>2, NoNewClaim DEF AbortClaim, Rollback
<1>3. CASE Claim(w)
  <2> DEFINE j == loop[w].job
  <2>1. /\ j \in Jobs
        /\ lock[j] = w
        /\ jobs[j].status = "pending"
    BY <1>3, <1>t, <1>l DEF Claim, At, SelectedIsLocked
  <2>2. /\ claims[j] = 0
        /\ \A v \in Workers : ~Holds(v, j)
        /\ \A s \in stray : s.job # j
    BY <1>t, <2>1 DEF UnclaimedIsFree, Unclaimed
  <2>3. /\ loop'[w] = [pc |-> "committed", job |-> j]
        /\ \A v \in Workers \ {w} : loop'[v] = loop[v]
        /\ task' = task
        /\ stray' = stray
    BY <1>3, <1>l DEF Claim, MoveTo
  <2>4. /\ jobs'[j].status = "ingesting"
        /\ claims'[j] = claims[j] + 1
        /\ \A k \in Jobs \ {j} : /\ jobs'[k] = jobs[k]
                                  /\ claims'[k] = claims[k]
                                  /\ lock'[k] = lock[k]
    BY <1>3, <1>l, <2>1 DEF Claim, CommitClaim, Rows
  <2> HIDE DEF j
  <2>5. \A v \in Workers, k \in Jobs :
          Holds(v, k)' <=> Holds(v, k) \/ (v = w /\ k = j)
    BY <1>3, <2>1, <2>3 DEF Holds, Claim, At
  <2>6. SelectedIsLocked'
    <3> SUFFICES ASSUME NEW v \in Workers, loop'[v].pc = "selected"
                 PROVE  lock'[loop'[v].job] = v /\ jobs'[loop'[v].job].status = "pending"
      BY DEF SelectedIsLocked
    <3>1. v # w /\ loop'[v] = loop[v]
      BY <2>3
    <3>2. /\ loop[v].job \in Jobs
          /\ lock[loop[v].job] = v
          /\ jobs[loop[v].job].status = "pending"
      BY <1>t, <1>l, <3>1 DEF SelectedIsLocked
    <3>3. loop[v].job # j
      BY <2>1, <3>1, <3>2
    <3> QED
      BY <2>4, <3>1, <3>2, <3>3
  <2>7. UnclaimedIsFree'
    BY <1>t, <2>3, <2>4, <2>5 DEF UnclaimedIsFree, Unclaimed
  <2>8. ExclusiveClaim'
    BY <1>t, <2>2, <2>4, <2>5 DEF ExclusiveClaim
  <2> QED
    BY <2>6, <2>7, <2>8 DEF ClaimInv
<1>4. CASE AckClaim(w)
  <2>1. SelectedIsLocked'
    BY <1>4, <1>t, <1>l DEF AckClaim, MoveTo, SelectedIsLocked
  <2>2. \A v \in Workers, k \in Jobs : Holds(v, k)' => Holds(v, k)
    BY <1>4, <1>l DEF AckClaim, At, MoveTo, Holds
  <2> QED
    BY <1>4, <2>1, <2>2, NoNewClaim DEF AckClaim
<1>5. CASE LoseAck(w) \/ BeginDrain(w) \/ Stop(w)
  <2>1. \E pc \in {"poll", "drain", "stopped"} : MoveTo(w, pc, None)
    BY <1>5 DEF LoseAck, BeginDrain, Stop
  <2>2. UNCHANGED <<storeVars, task, stray>>
    BY <1>5 DEF LoseAck, BeginDrain, Stop
  <2>3. SelectedIsLocked'
    BY <1>t, <1>l, <2>1, <2>2 DEF MoveTo, SelectedIsLocked
  <2>4. \A v \in Workers, k \in Jobs : Holds(v, k)' => Holds(v, k)
    BY <1>l, <2>1, <2>2 DEF MoveTo, Holds
  <2> QED
    BY <2>2, <2>3, <2>4, NoNewClaim
<1>6. CASE Spawn(w)
  <2> DEFINE j == loop[w].job
  <2>1. j \in Jobs /\ Holds(w, j)
    BY <1>6, <1>l DEF Spawn, At, Holds
  <2>2. SelectedIsLocked'
    BY <1>6, <1>t, <1>l DEF Spawn, MoveTo, SelectedIsLocked
  <2>3. \A v \in Workers, k \in Jobs : Holds(v, k)' => Holds(v, k)
    BY <1>6, <1>l, <2>1 DEF Spawn, Become, MoveTo, Holds
  <2> QED
    BY <1>6, <2>2, <2>3, NoNewClaim DEF Spawn
<1>7. CASE DrainSlot(w)
  <2>1. SelectedIsLocked' /\ \A v \in Workers, k \in Jobs : Holds(v, k)' => Holds(v, k)
    BY <1>7, <1>t DEF DrainSlot, SelectedIsLocked, Holds
  <2> QED
    BY <1>7, <2>1, NoNewClaim DEF DrainSlot
<1> QED
  BY <1>1, <1>2, <1>3, <1>4, <1>5, <1>6, <1>7 DEF LoopStep

\* A task takes over no job, and writes rows its worker holds.
LEMMA TaskStepClaim ==
  ASSUME ClaimInv, TypeOK', NEW w \in Workers, NEW j \in Jobs,
         TaskStep(w, j) \/ Deadline(w, j)
  PROVE  ClaimInv'
<1> USE DEF storeVars, loopVars, sharedVars
<1>t. TypeOK /\ SelectedIsLocked /\ UnclaimedIsFree
  BY DEF ClaimInv
<1>l. task \in [Workers -> [Jobs -> Tasks]]
  BY <1>t DEF TypeOK, TaskTypeOK
<1>1. task[w][j].pc # "idle"
  BY DEF TaskStep, Download, CacheHit, CacheMiss, ExtractText, ExtractChunk, EndChunks,
         StoreCache, Execute, Reply, GiveUp, Fetch, Notify, Return, Deadline, In,
         Written, InFlight, Terminal
<1>2. loop' = loop /\ lock' = lock /\ claims' = claims
  BY DEF TaskStep, Download, CacheHit, CacheMiss, ExtractText, ExtractChunk, EndChunks,
         StoreCache, Execute, Update, Reply, GiveUp, Fetch, Notify, Return, Deadline
<1>3. \A v \in Workers, k \in Jobs : <<v, k>> # <<w, j>> => task'[v][k] = task[v][k]
  BY <1>l DEF TaskStep, Download, CacheHit, CacheMiss, ExtractText, ExtractChunk, EndChunks,
         StoreCache, Execute, Reply, GiveUp, Fetch, Notify, Return, Deadline, Become, GoTo
<1>4. \A v \in Workers, k \in Jobs : Holds(v, k)' => Holds(v, k)
  BY <1>1, <1>2, <1>3 DEF Holds
<1>5. jobs' = jobs \/ (jobs[j].status \notin Unclaimed /\ Execute(w, j))
  <2>1. jobs[j].status \notin Unclaimed
    BY <1>t, <1>1 DEF UnclaimedIsFree, Holds
  <2> QED
    BY <2>1 DEF TaskStep, Download, CacheHit, CacheMiss, ExtractText, ExtractChunk, EndChunks,
         StoreCache, Reply, GiveUp, Fetch, Notify, Return, Deadline
<1>6. \A k \in Jobs : jobs'[k] = jobs[k] \/ (jobs[k].status \notin Unclaimed
                                             /\ jobs'[k].status \notin Unclaimed)
  <2>1. CASE Execute(w, j)
    <3>1. task[w][j] \in Tasks
      BY <1>l
    <3>2. /\ task[w][j].pc \in Written
          /\ task[w][j].result \in Extractions \cup {None}
          /\ task[w][j].confidence \in Confidences
          /\ Update(j, task[w][j].pc, task[w][j].result, task[w][j].confidence)
      BY <2>1, <3>1 DEF Execute, Tasks
    <3>3. jobs'[j].status \notin Unclaimed /\ \A k \in Jobs \ {j} : jobs'[k] = jobs[k]
      BY <1>t, <3>2, UpdateClaims
    <3> QED
      BY <1>t, <1>1, <3>3 DEF UnclaimedIsFree, Holds
  <2> QED
    BY <1>5, <2>1
<1>7. SelectedIsLocked'
  <2> SUFFICES ASSUME NEW v \in Workers, loop[v].pc = "selected"
               PROVE  lock[loop[v].job] = v /\ jobs'[loop[v].job].status = "pending"
    BY <1>2 DEF SelectedIsLocked
  <2>1. loop[v].job \in Jobs /\ lock[loop[v].job] = v /\ jobs[loop[v].job].status = "pending"
    BY <1>t DEF SelectedIsLocked, TypeOK, LoopTypeOK
  <2> QED
    BY <1>6, <2>1 DEF Unclaimed
<1>8. \A s \in stray' : s \in stray \/ \E v \in Workers : Holds(v, s.job)
  <2>1. CASE stray' = stray
    BY <2>1
  <2>2. CASE stray' # stray
    <3>1. \/ LeaveBehind(Unfinished(w, {j}, Written))
          \/ LeaveBehind(Unfinished(w, {j}, Written \ {"failed"}))
      BY <2>2 DEF TaskStep, Download, CacheHit, CacheMiss, ExtractText, ExtractChunk, EndChunks,
         StoreCache, Execute, Reply, GiveUp, Fetch, Notify, Return, Deadline
    <3> QED
      BY <3>1, LeftBehindIsHeld
  <2> QED
    BY <2>1, <2>2
<1> QED
  BY <1>2, <1>4, <1>6, <1>7, <1>8, NoNewClaim

\* A process that stops, dies or comes back holds no more than before, and what
\* its death unlocks it had selected itself.
LEMMA ProcessEventClaim ==
  ASSUME ClaimInv, TypeOK', NEW w \in Workers, ProcessEvent(w)
  PROVE  ClaimInv'
<1> USE DEF storeVars, loopVars, sharedVars
<1>t. TypeOK /\ SelectedIsLocked /\ UnclaimedIsFree
  BY DEF ClaimInv
<1>l. /\ loop \in [Workers -> [pc : LoopPcs, job : Jobs \cup {None}]]
      /\ \A v \in Workers :
           loop[v].pc \in {"selected", "committed", "claimed"} => loop[v].job \in Jobs
      /\ lock \in [Jobs -> Workers \cup {None}]
      /\ task \in [Workers -> [Jobs -> Tasks]]
  BY <1>t DEF TypeOK, LoopTypeOK, StoreTypeOK, TaskTypeOK
<1>1. CASE EmptyPoll(w)
  <2>1. SelectedIsLocked' /\ \A v \in Workers, k \in Jobs : Holds(v, k)' => Holds(v, k)
    BY <1>1, <1>t DEF EmptyPoll, vars, SelectedIsLocked, Holds
  <2> QED
    BY <1>1, <2>1, NoNewClaim DEF EmptyPoll, vars
<1>2. CASE Cancel(w)
  <2>1. SelectedIsLocked' /\ \A v \in Workers, k \in Jobs : Holds(v, k)' => Holds(v, k)
    BY <1>2, <1>t DEF Cancel, SelectedIsLocked, Holds
  <2>2. \A s \in stray' : s \in stray \/ \E v \in Workers : Holds(v, s.job)
    BY <1>2, LeftBehindIsHeld DEF Cancel
  <2> QED
    BY <1>2, <2>1, <2>2, NoNewClaim DEF Cancel
<1>3. CASE Crash(w)
  <2>1. SelectedIsLocked'
    BY <1>3, <1>t, <1>l DEF Crash, MoveTo, SelectedIsLocked
  <2>2. \A v \in Workers, k \in Jobs : Holds(v, k)' => Holds(v, k)
    BY <1>3, <1>l DEF Crash, MoveTo, Holds, IdleTask
  <2>3. \A s \in stray' : s \in stray \/ \E v \in Workers : Holds(v, s.job)
    BY <1>3, LeftBehindIsHeld DEF Crash
  <2> QED
    BY <1>3, <2>1, <2>2, <2>3, NoNewClaim DEF Crash
<1>4. CASE Restart(w)
  <2>1. SelectedIsLocked'
    BY <1>4, <1>t, <1>l DEF Restart, MoveTo, SelectedIsLocked
  <2>2. \A v \in Workers, k \in Jobs : Holds(v, k)' => Holds(v, k)
    BY <1>4, <1>l DEF Restart, MoveTo, Holds
  <2> QED
    BY <1>4, <2>1, <2>2, NoNewClaim DEF Restart
<1> QED
  BY <1>1, <1>2, <1>3, <1>4 DEF ProcessEvent

\* Late statements are on rows that were claimed; the API inserts rows nobody
\* has seen; deliveries, hooks and evictions do not touch the table.
LEMMA OtherStepClaim ==
  ASSUME ClaimInv, TypeOK',
         \/ \E d \in Deliveries : Deliver(d)
         \/ ExecuteStray
         \/ Environment
  PROVE  ClaimInv'
<1> USE DEF storeVars, loopVars, sharedVars
<1>t. TypeOK /\ SelectedIsLocked /\ UnclaimedIsFree
  BY DEF ClaimInv
<1>1. \A v \in Workers, k \in Jobs : Holds(v, k)' => Holds(v, k)
  BY DEF Deliver, ExecuteStray, Environment, Submit, RegisterHook, DeleteHook, Evict, Holds
<1>2. stray' \subseteq stray
  BY DEF Deliver, ExecuteStray, Environment, Submit, RegisterHook, DeleteHook, Evict
<1>3. loop' = loop /\ lock' = lock /\ claims' = claims
  BY DEF Deliver, ExecuteStray, Update, Environment, Submit, Create, RegisterHook, DeleteHook,
         Evict
<1>4. \A k \in Jobs :
        \/ jobs'[k] = jobs[k]
        \/ jobs[k].status = "absent"
        \/ (jobs[k].status \notin Unclaimed /\ jobs'[k].status \notin Unclaimed)
  <2>1. ASSUME NEW j \in Jobs, Submit(j)
        PROVE  \A k \in Jobs : jobs'[k] = jobs[k] \/ jobs[k].status = "absent"
    BY <1>t, <2>1 DEF Submit, Create, TypeOK, StoreTypeOK
  <2>2. CASE ExecuteStray
    <3>1. PICK s \in stray : Update(s.job, s.status, s.result, s.confidence)
      BY <2>2 DEF ExecuteStray
    <3>2. s \in Statements
      BY <1>t DEF TypeOK, SharedTypeOK
    <3>3. /\ jobs'[s.job].status \notin Unclaimed
          /\ \A k \in Jobs \ {s.job} : jobs'[k] = jobs[k]
      BY <1>t, <3>1, <3>2, UpdateClaims DEF Statements
    <3> DEFINE j == s.job
    <3>4. j \in Jobs
      BY <3>2 DEF Statements
    <3> HIDE DEF j
    <3>5. jobs[j].status \notin Unclaimed
      BY <1>t, <3>4 DEF UnclaimedIsFree, j
    <3> QED
      BY <3>3, <3>5 DEF j
  <2>3. CASE jobs' = jobs
    BY <2>3
  <2> QED
    BY <2>1, <2>2, <2>3 DEF Deliver, Environment, RegisterHook, DeleteHook, Evict
<1>5. SelectedIsLocked'
  <2> SUFFICES ASSUME NEW v \in Workers, loop[v].pc = "selected"
               PROVE  lock[loop[v].job] = v /\ jobs'[loop[v].job].status = "pending"
    BY <1>3 DEF SelectedIsLocked
  <2>1. loop[v].job \in Jobs /\ lock[loop[v].job] = v /\ jobs[loop[v].job].status = "pending"
    BY <1>t DEF SelectedIsLocked, TypeOK, LoopTypeOK
  <2> QED
    BY <1>4, <2>1 DEF Unclaimed
<1> QED
  BY <1>1, <1>2, <1>3, <1>4, <1>5, NoNewClaim DEF Unclaimed

\* Every step keeps claims exclusive.
LEMMA ClaimInvNext == ClaimInv /\ [Next]_vars => ClaimInv'
<1> SUFFICES ASSUME ClaimInv, [Next]_vars PROVE ClaimInv'
  OBVIOUS
<1>1. TypeOK'
  BY TypeNext DEF ClaimInv
<1>2. CASE UNCHANGED vars
  <2>1. SelectedIsLocked' /\ \A v \in Workers, k \in Jobs : Holds(v, k)' => Holds(v, k)
    BY <1>2 DEF ClaimInv, vars, storeVars, loopVars, SelectedIsLocked, Holds
  <2> QED
    BY <1>1, <1>2, <2>1, NoNewClaim DEF vars, storeVars, sharedVars
<1>3. CASE Next
  BY <1>1, <1>3, LoopStepClaim, TaskStepClaim, ProcessEventClaim, OtherStepClaim DEF Next
<1> QED
  BY <1>2, <1>3

\* However many workers poll, and whatever is cancelled, killed, restarted or
\* executed late, a job is claimed at most once and held by one worker.
THEOREM ClaimedOnce == Spec => []ExclusiveClaim
<1>1. ClaimInv => ExclusiveClaim
  BY DEF ClaimInv
<1> QED
  BY ClaimInvInit, ClaimInvNext, <1>1, PTL DEF Spec

-----------------------------------------------------------------------------
(* Slots are counted *)

\* Spawn starts a task where none runs.
ClaimedIsIdle ==
  \A w \in Workers :
    loop[w].pc \in {"committed", "claimed"} => task[w][loop[w].job].pc = "idle"

SlotsOf(w) ==
  /\ IsFiniteSet(Active(w))
  /\ sem[w] = drained[w] + Cardinality(Active(w))
  /\ sem[w] <= Concurrency
  /\ loop[w].pc \in {"stopped", "crashed"} => Active(w) = {}

Slots == \A w \in Workers : SlotsOf(w)

SlotInv == ClaimInv /\ ClaimedIsIdle /\ Slots

LEMMA SlotInit == Init => ClaimedIsIdle /\ Slots
<1> SUFFICES ASSUME Init PROVE ClaimedIsIdle /\ Slots
  OBVIOUS
<1>1. \A w \in Workers : Active(w) = {} /\ sem[w] = 0 /\ drained[w] = 0 /\ loop[w].pc = "poll"
  BY DEF Init, Active, IdleTask
<1>2. IsFiniteSet({}) /\ Cardinality({}) = 0
  BY FS_EmptySet
<1>3. ASSUME NEW w \in Workers PROVE SlotsOf(w)
  <2>1. Active(w) = {} /\ Cardinality(Active(w)) = 0 /\ IsFiniteSet(Active(w))
    BY <1>1, <1>2
  <2> QED
    BY <1>1, <2>1, ConcurrencyAssumption DEF SlotsOf
<1> QED
  BY <1>1, <1>3 DEF ClaimedIsIdle, Slots

\* A worker whose tasks and slots stay as they are keeps its account.
LEMMA SlotsKept ==
  ASSUME NEW w \in Workers, SlotsOf(w), \A j \in Jobs : task'[w][j].pc = "idle" <=> task[w][j].pc = "idle",
         sem'[w] = sem[w], drained'[w] = drained[w],
         loop'[w].pc \in {"stopped", "crashed"} => Active(w) = {}
  PROVE  SlotsOf(w)'
<1>1. Active(w)' = Active(w)
  BY DEF Active
<1> QED
  BY <1>1 DEF SlotsOf

\* The tasks of the other workers are theirs.
LEMMA SlotsOfOthers ==
  ASSUME Slots, NEW w \in Workers, SlotsOf(w)',
         \A v \in Workers \ {w} : /\ task'[v] = task[v] /\ loop'[v] = loop[v]
                                  /\ sem'[v] = sem[v] /\ drained'[v] = drained[v]
  PROVE  Slots'
<1>1. ASSUME NEW v \in Workers \ {w} PROVE SlotsOf(v)'
  BY <1>1, SlotsKept DEF Slots, SlotsOf
<1> QED
  BY <1>1 DEF Slots

\* Steps that fill and release no slot and start and end no task.
LEMMA NoSlotStep ==
  ASSUME ClaimedIsIdle, Slots, UNCHANGED <<loop, sem, drained>>,
         \A w \in Workers, j \in Jobs : task'[w][j].pc = "idle" <=> task[w][j].pc = "idle", TypeOK
  PROVE  ClaimedIsIdle' /\ Slots'
<1>1. Slots'
  BY SlotsKept DEF Slots, SlotsOf
<1>2. ClaimedIsIdle'
  BY DEF ClaimedIsIdle, TypeOK, LoopTypeOK
<1> QED
  BY <1>1, <1>2

\* The loop: Spawn and DrainSlot fill one slot, and only if one is free.
LEMMA LoopStepSlots ==
  ASSUME SlotInv, NEW w \in Workers, LoopStep(w)
  PROVE  ClaimedIsIdle' /\ Slots'
<1> USE DEF storeVars, loopVars, sharedVars
<1>t. TypeOK /\ ClaimInv /\ ClaimedIsIdle /\ Slots /\ SlotsOf(w)
  BY DEF SlotInv, ClaimInv, Slots
<1>l. /\ loop \in [Workers -> [pc : LoopPcs, job : Jobs \cup {None}]]
      /\ \A v \in Workers :
           loop[v].pc \in {"selected", "committed", "claimed"} => loop[v].job \in Jobs
      /\ task \in [Workers -> [Jobs -> Tasks]]
      /\ sem \in [Workers -> Int]
      /\ drained \in [Workers -> 0 .. Concurrency]
  BY <1>t DEF TypeOK, LoopTypeOK, TaskTypeOK
<1>1. CASE Spawn(w)
  <2> DEFINE j == loop[w].job
  <2>1. j \in Jobs /\ task[w][j].pc = "idle" /\ sem[w] < Concurrency
    BY <1>1, <1>t, <1>l DEF Spawn, At, ClaimedIsIdle, FreeSlot
  <2>2. /\ sem' = [sem EXCEPT ![w] = @ + 1] /\ drained' = drained
        /\ loop' = [loop EXCEPT ![w] = [pc |-> "poll", job |-> None]]
        /\ task' = [task EXCEPT ![w][j] = [IdleTask EXCEPT !.pc = "download", !.done = FALSE]]
    BY <1>1 DEF Spawn, Become, MoveTo
  <2> HIDE DEF j
  <2>3. task'[w][j].pc = "download" /\ \A k \in Jobs \ {j} : task'[w][k] = task[w][k]
    BY <1>l, <2>1, <2>2 DEF IdleTask
  <2>4. Active(w)' = Active(w) \cup {j} /\ j \notin Active(w)
    BY <2>1, <2>3 DEF Active
  <2>5. IsFiniteSet(Active(w)') /\ Cardinality(Active(w)') = Cardinality(Active(w)) + 1
    BY <1>t, <2>4, FS_AddElement DEF SlotsOf
  <2>6. Cardinality(Active(w)) \in Nat
    BY <1>t, FS_CardinalityType DEF SlotsOf
  <2>7. sem'[w] = sem[w] + 1 /\ drained'[w] = drained[w] /\ loop'[w].pc = "poll"
    BY <1>l, <2>2
  <2>8. SlotsOf(w)'
    BY <1>t, <1>l, <2>1, <2>5, <2>6, <2>7, ConcurrencyAssumption DEF SlotsOf
  <2>9. \A v \in Workers \ {w} : task'[v] = task[v] /\ loop'[v] = loop[v] /\ sem'[v] = sem[v]
    BY <1>l, <2>2
  <2>10. ClaimedIsIdle'
    BY <1>t, <2>7, <2>9 DEF ClaimedIsIdle
  <2> QED
    BY <1>t, <2>2, <2>8, <2>9, <2>10, SlotsOfOthers
<1>2. CASE DrainSlot(w)
  <2>1. /\ sem' = [sem EXCEPT ![w] = @ + 1] /\ drained' = [drained EXCEPT ![w] = @ + 1]
        /\ sem[w] < Concurrency /\ loop' = loop /\ task' = task
    BY <1>2 DEF DrainSlot, FreeSlot
  <2>2. Active(w)' = Active(w) /\ Cardinality(Active(w)) \in Nat
    BY <1>t, <2>1, FS_CardinalityType DEF Active, SlotsOf
  <2>3. sem'[w] = sem[w] + 1 /\ drained'[w] = drained[w] + 1 /\ sem[w] \in Int /\ drained[w] \in Nat
    BY <1>l, <2>1
  <2>4. SlotsOf(w)'
    BY <1>t, <2>1, <2>2, <2>3, ConcurrencyAssumption DEF SlotsOf
  <2>5. ClaimedIsIdle'
    BY <1>t, <2>1 DEF ClaimedIsIdle
  <2> QED
    BY <1>t, <1>l, <2>1, <2>4, <2>5, SlotsOfOthers
<1>3. CASE Stop(w)
  <2>1. /\ drained[w] = Concurrency /\ UNCHANGED <<sem, drained, task>>
        /\ loop' = [loop EXCEPT ![w] = [pc |-> "stopped", job |-> None]]
    BY <1>3 DEF Stop, MoveTo
  <2>2. Cardinality(Active(w)) = 0
    BY <1>t, <1>l, <2>1, FS_CardinalityType, ConcurrencyAssumption DEF SlotsOf
  <2>3. Active(w) = {}
    BY <1>t, <2>2, FS_EmptySet DEF SlotsOf
  <2>4. SlotsOf(w)'
    BY <1>t, <2>1, <2>3, SlotsKept
  <2>5. ClaimedIsIdle'
    BY <1>t, <1>l, <2>1 DEF ClaimedIsIdle
  <2> QED
    BY <1>t, <1>l, <2>1, <2>4, <2>5, SlotsOfOthers
<1>4. CASE Claim(w)
  <2> DEFINE j == loop[w].job
  <2>1. j \in Jobs /\ jobs[j].status = "pending"
    BY <1>4, <1>t, <1>l DEF Claim, At, ClaimInv, SelectedIsLocked
  <2>2. task[w][j].pc = "idle"
    BY <1>t, <2>1 DEF ClaimInv, UnclaimedIsFree, Unclaimed, Holds
  <2>3. /\ loop' = [loop EXCEPT ![w] = [pc |-> "committed", job |-> j]]
        /\ UNCHANGED <<sem, drained, task>>
    BY <1>4 DEF Claim, MoveTo
  <2> HIDE DEF j
  <2>4. ClaimedIsIdle'
    BY <1>t, <1>l, <2>2, <2>3 DEF ClaimedIsIdle
  <2>5. SlotsOf(w)'
    BY <1>t, <1>l, <2>3, SlotsKept
  <2> QED
    BY <1>t, <1>l, <2>3, <2>4, <2>5, SlotsOfOthers
<1>5. CASE AckClaim(w)
  <2>1. /\ loop' = [loop EXCEPT ![w] = [pc |-> "claimed", job |-> loop[w].job]]
        /\ loop[w].pc = "committed" /\ UNCHANGED <<sem, drained, task>>
    BY <1>5 DEF AckClaim, At, MoveTo
  <2>2. ClaimedIsIdle'
    BY <1>t, <1>l, <2>1 DEF ClaimedIsIdle
  <2>3. SlotsOf(w)'
    BY <1>t, <1>l, <2>1, SlotsKept
  <2> QED
    BY <1>t, <1>l, <2>1, <2>2, <2>3, SlotsOfOthers
<1>6. CASE SelectNext(w) \/ AbortClaim(w) \/ LoseAck(w) \/ BeginDrain(w)
  <2>1. \E pc \in {"selected", "poll", "drain"}, k \in Jobs \cup {None} :
          loop' = [loop EXCEPT ![w] = [pc |-> pc, job |-> k]]
    BY <1>6 DEF SelectNext, AbortClaim, LoseAck, BeginDrain, MoveTo
  <2>2. UNCHANGED <<sem, drained, task>>
    BY <1>6 DEF SelectNext, AbortClaim, LoseAck, BeginDrain
  <2>3. ClaimedIsIdle'
    BY <1>t, <1>l, <2>1, <2>2 DEF ClaimedIsIdle
  <2>4. SlotsOf(w)'
    BY <1>t, <1>l, <2>1, <2>2, SlotsKept
  <2> QED
    BY <1>t, <1>l, <2>1, <2>2, <2>3, <2>4, SlotsOfOthers
<1> QED
  BY <1>1, <1>2, <1>3, <1>4, <1>5, <1>6 DEF LoopStep

\* A task that goes on keeps its slot.
LEMMA BecomeSlots ==
  ASSUME TypeOK, NEW w \in Workers, NEW j \in Jobs, task[w][j].pc # "idle",
         NEW t \in Tasks, NEW pc \in TaskPcs \ {"idle"}, Become(w, j, t, pc)
  PROVE  \A v \in Workers, k \in Jobs : task'[v][k].pc = "idle" <=> task[v][k].pc = "idle"
<1>1. task \in [Workers -> [Jobs -> Tasks]]
  BY DEF TypeOK, TaskTypeOK
<1>2. /\ task'[w][j].pc = pc
      /\ \A v \in Workers, k \in Jobs : <<v, k>> # <<w, j>> => task'[v][k] = task[v][k]
  BY <1>1 DEF Become, Tasks
<1> QED
  BY <1>2

\* A task: Return gives the slot of a task back that had one.
LEMMA TaskStepSlots ==
  ASSUME SlotInv, TypeOK', NEW w \in Workers, NEW j \in Jobs, TaskStep(w, j) \/ Deadline(w, j)
  PROVE  ClaimedIsIdle' /\ Slots'
<1> USE DEF storeVars, loopVars, sharedVars
<1> DEFINE t == task[w][j]
<1>t. TypeOK /\ ClaimedIsIdle /\ Slots /\ SlotsOf(w)
  BY DEF SlotInv, ClaimInv, Slots
<1>l. /\ loop \in [Workers -> [pc : LoopPcs, job : Jobs \cup {None}]]
      /\ \A v \in Workers :
           loop[v].pc \in {"selected", "committed", "claimed"} => loop[v].job \in Jobs
      /\ task \in [Workers -> [Jobs -> Tasks]] /\ task' \in [Workers -> [Jobs -> Tasks]]
      /\ sem \in [Workers -> Int]
      /\ drained \in [Workers -> 0 .. Concurrency]
  BY <1>t DEF TypeOK, LoopTypeOK, TaskTypeOK
<1>1. CASE Return(w, j)
  <2>1. /\ t.pc = "return" /\ task' = [task EXCEPT ![w][j] = IdleTask]
        /\ sem' = [sem EXCEPT ![w] = @ - 1] /\ UNCHANGED <<loop, drained>>
    BY <1>1 DEF Return, In, ReleaseSlot
  <2>2. task'[w][j].pc = "idle" /\ \A k \in Jobs \ {j} : task'[w][k] = task[w][k]
    BY <1>l, <2>1 DEF IdleTask
  <2>3. Active(w)' = Active(w) \ {j} /\ j \in Active(w)
    BY <2>1, <2>2 DEF Active
  <2>4. IsFiniteSet(Active(w)') /\ Cardinality(Active(w)') = Cardinality(Active(w)) - 1
    BY <1>t, <2>3, FS_RemoveElement DEF SlotsOf
  <2>5. Cardinality(Active(w)) \in Nat
    BY <1>t, FS_CardinalityType DEF SlotsOf
  <2>6. SlotsOf(w)'
    BY <1>t, <1>l, <2>1, <2>3, <2>4, <2>5, ConcurrencyAssumption DEF SlotsOf
  <2>7. \A v \in Workers \ {w} : task'[v] = task[v] /\ sem'[v] = sem[v]
    BY <1>l, <2>1
  <2>8. ClaimedIsIdle'
    BY <1>t, <1>l, <2>1, <2>2, <2>7 DEF ClaimedIsIdle
  <2> QED
    BY <1>t, <2>1, <2>6, <2>7, <2>8, SlotsOfOthers
<1>2. CASE ~Return(w, j)
  <2>1. t.pc # "idle"
    BY <1>2 DEF TaskStep, Download, CacheHit, CacheMiss, ExtractText, ExtractChunk, EndChunks,
         StoreCache, Execute, Reply, GiveUp, Fetch, Notify, Deadline, In, Written, InFlight, Terminal
  <2>2. UNCHANGED <<loop, sem, drained>>
    BY <1>2 DEF TaskStep, Download, CacheHit, CacheMiss, ExtractText, ExtractChunk, EndChunks,
         StoreCache, Execute, Reply, GiveUp, Fetch, Notify, Deadline
  <2>3. \/ \E pc : pc # "idle" /\ \E u : task' = [task EXCEPT ![w][j] = [u EXCEPT !.pc = pc, !.done = FALSE]]
        \/ task' = [task EXCEPT ![w][j].done = TRUE]
        \/ task' = [task EXCEPT ![w][j].expired = TRUE]
    <3>1. CASE Download(w, j) \/ CacheMiss(w, j) \/ ExtractText(w, j) \/ CacheHit(w, j)
               \/ ExtractChunk(w, j) \/ StoreCache(w, j) \/ Notify(w, j) \/ Fetch(w, j)
      BY <3>1 DEF Download, CacheMiss, ExtractText, CacheHit, ExtractChunk, StoreCache, Notify, Fetch,
                  GoTo, Become
    <3>2. CASE EndChunks(w, j) \/ Reply(w, j) \/ GiveUp(w, j)
      <4>1. \E pc \in {"failed", "assembling", "text", "extracting", "llm", "store", "fetch", "return"} :
              GoTo(w, j, pc)
        BY <3>2 DEF EndChunks, AfterChunks, Reply, GiveUp, AfterWrite, AfterError, Written, InFlight, Terminal
      <4> QED
        BY <4>1 DEF GoTo, Become
    <3>3. CASE Execute(w, j) \/ Deadline(w, j)
      BY <3>3 DEF Execute, Deadline
    <3> QED
      BY <1>2, <3>1, <3>2, <3>3 DEF TaskStep
  <2>4. task'[w][j].pc # "idle" /\ \A v \in Workers, k \in Jobs : <<v, k>> # <<w, j>> => task'[v][k] = task[v][k]
    <3>1. ASSUME NEW pc, pc # "idle", NEW u,
                 task' = [task EXCEPT ![w][j] = [u EXCEPT !.pc = pc, !.done = FALSE]]
          PROVE  task'[w][j].pc = pc
      <4>1. task'[w][j] = [u EXCEPT !.pc = pc, !.done = FALSE] /\ task'[w][j] \in Tasks
        BY <1>l, <3>1
      <4> QED
        BY <4>1 DEF Tasks
    <3>2. CASE task' = [task EXCEPT ![w][j].done = TRUE]
      BY <1>l, <2>1, <3>2 DEF Tasks
    <3>3. CASE task' = [task EXCEPT ![w][j].expired = TRUE]
      BY <1>l, <2>1, <3>3 DEF Tasks
    <3>4. task'[w][j].pc # "idle"
      <4>1. CASE \E pc : pc # "idle" /\ \E u : task' = [task EXCEPT ![w][j] = [u EXCEPT !.pc = pc, !.done = FALSE]]
        BY <3>1, <4>1
      <4>2. CASE task' = [task EXCEPT ![w][j].done = TRUE] \/ task' = [task EXCEPT ![w][j].expired = TRUE]
        BY <3>2, <3>3, <4>2
      <4> QED
        BY <2>3, <4>1, <4>2
    <3>5. \A v \in Workers, k \in Jobs : <<v, k>> # <<w, j>> => task'[v][k] = task[v][k]
      BY <1>2, <1>l DEF TaskStep, Download, CacheHit, CacheMiss, ExtractText, ExtractChunk, EndChunks,
         StoreCache, Execute, Reply, GiveUp, Fetch, Notify, Deadline, Become, GoTo
    <3> QED
      BY <3>4, <3>5
  <2>5. \A v \in Workers, k \in Jobs : task'[v][k].pc = "idle" <=> task[v][k].pc = "idle"
    BY <2>1, <2>4
  <2> QED
    BY <1>t, <2>2, <2>5, NoSlotStep
<1> QED
  BY <1>1, <1>2

\* A new process has an empty channel, as the dead one has no goroutine left.
LEMMA ProcessEventSlots ==
  ASSUME SlotInv, NEW w \in Workers, ProcessEvent(w)
  PROVE  ClaimedIsIdle' /\ Slots'
<1> USE DEF storeVars, loopVars, sharedVars
<1>t. TypeOK /\ ClaimedIsIdle /\ Slots /\ SlotsOf(w)
  BY DEF SlotInv, ClaimInv, Slots
<1>l. /\ loop \in [Workers -> [pc : LoopPcs, job : Jobs \cup {None}]]
      /\ task \in [Workers -> [Jobs -> Tasks]]
      /\ sem \in [Workers -> Int]
      /\ drained \in [Workers -> 0 .. Concurrency]
  BY <1>t DEF TypeOK, LoopTypeOK, TaskTypeOK
<1>1. CASE EmptyPoll(w) \/ Cancel(w)
  BY <1>1, <1>t, NoSlotStep DEF EmptyPoll, Cancel, vars
<1>2. CASE Crash(w) \/ Restart(w)
  <2>1. /\ sem' = [sem EXCEPT ![w] = 0] /\ drained' = [drained EXCEPT ![w] = 0]
        /\ \E pc \in {"poll", "crashed"} : loop' = [loop EXCEPT ![w] = [pc |-> pc, job |-> None]]
        /\ task' = task \/ task' = [task EXCEPT ![w] = [j \in Jobs |-> IdleTask]]
    BY <1>2 DEF Crash, Restart, MoveTo
  <2>2. Active(w)' = {}
    <3>1. CASE Crash(w)
      BY <1>l, <3>1 DEF Crash, Active, IdleTask
    <3>2. CASE Restart(w)
      BY <1>t, <3>2 DEF Restart, Active, SlotsOf
    <3> QED
      BY <1>2, <3>1, <3>2
  <2>3. sem'[w] = 0 /\ drained'[w] = 0
    BY <1>l, <2>1
  <2>4. SlotsOf(w)'
    BY <2>2, <2>3, FS_EmptySet, ConcurrencyAssumption DEF SlotsOf
  <2>5. \A v \in Workers \ {w} : /\ task'[v] = task[v] /\ loop'[v] = loop[v]
                                 /\ sem'[v] = sem[v] /\ drained'[v] = drained[v]
    BY <1>l, <2>1
  <2>6. ClaimedIsIdle'
    BY <1>t, <1>l, <2>1, <2>5 DEF ClaimedIsIdle
  <2> QED
    BY <1>t, <2>4, <2>5, <2>6, SlotsOfOthers
<1> QED
  BY <1>1, <1>2 DEF ProcessEvent

LEMMA SlotNext == SlotInv /\ [Next]_vars => SlotInv'
<1> SUFFICES ASSUME SlotInv, [Next]_vars PROVE SlotInv'
  OBVIOUS
<1>1. ClaimInv' /\ TypeOK'
  BY ClaimInvNext DEF SlotInv, ClaimInv
<1>2. CASE \/ \E d \in Deliveries : Deliver(d)
           \/ ExecuteStray
           \/ Environment
           \/ UNCHANGED vars
  <2>1. UNCHANGED <<loop, sem, drained, task>>
    BY <1>2 DEF Deliver, ExecuteStray, Environment, Submit, RegisterHook, DeleteHook, Evict,
                vars, loopVars
  <2> QED
    BY <1>1, <2>1, NoSlotStep DEF SlotInv, ClaimInv
<1> QED
  BY <1>1, <1>2, LoopStepSlots, TaskStepSlots, ProcessEventSlots DEF Next, SlotInv

\* What a worker holds are the jobs of its goroutines and at most one more, in
\* its loop.
LEMMA HeldByLoopAndTasks ==
  ASSUME SlotInv, NEW w \in Workers
  PROVE  Cardinality({j \in Jobs : Holds(w, j)}) <= Concurrency + 1
<1> DEFINE H == {j \in Jobs : Holds(w, j)}
           A == Active(w) \cup {loop[w].job}
<1>1. H \subseteq A
  BY DEF Holds, Active
<1>2. IsFiniteSet(Active(w)) /\ Cardinality(Active(w)) \in Nat /\ Cardinality(Active(w)) <= Concurrency
  <2>1. IsFiniteSet(Active(w)) /\ Cardinality(Active(w)) \in Nat
    BY FS_CardinalityType DEF SlotInv, Slots, SlotsOf
  <2>2. sem[w] = drained[w] + Cardinality(Active(w)) /\ sem[w] <= Concurrency /\ drained[w] \in 0 .. Concurrency
    BY DEF SlotInv, ClaimInv, TypeOK, LoopTypeOK, Slots, SlotsOf
  <2> QED
    BY <2>1, <2>2, ConcurrencyAssumption
<1>3. IsFiniteSet(A) /\ Cardinality(A) <= Concurrency + 1 /\ Cardinality(A) \in Nat
  <2>1. IsFiniteSet(A)
    BY <1>2, FS_AddElement
  <2>2. Cardinality(A) = Cardinality(Active(w)) \/ Cardinality(A) = Cardinality(Active(w)) + 1
    BY <1>2, FS_AddElement
  <2>3. Cardinality(A) \in Nat
    BY <2>1, FS_CardinalityType
  <2> QED
    BY <1>2, <2>1, <2>2, <2>3, ConcurrencyAssumption
<1> HIDE DEF A, H
<1>4. Cardinality(H) <= Cardinality(A) /\ IsFiniteSet(H)
  BY <1>1, <1>3, FS_Subset
<1>5. Cardinality(H) \in Nat
  BY <1>4, FS_CardinalityType
<1>6. Cardinality(H) <= Concurrency + 1
  BY <1>3, <1>4, <1>5, ConcurrencyAssumption
<1> QED
  BY <1>6 DEF H

\* The semaphore counts the goroutines that run, through crashes, shutdowns and
\* restarts; a worker that has stopped left none running, and none ever holds
\* more than Concurrency jobs and the one in its loop.
THEOREM SlotsAreCounted == Spec => []SlotAccounting
<1>1. SlotInv => SlotAccounting
  BY HeldByLoopAndTasks DEF SlotInv, Slots, SlotsOf, SlotAccounting
<1>2. Init => SlotInv
  BY ClaimInvInit, SlotInit DEF SlotInv
<1> QED
  BY <1>1, <1>2, SlotNext, PTL DEF Spec

-----------------------------------------------------------------------------
(* Results are sound *)

\* A result a row of j may have.
SoundResult(j, r) == r # None /\ r.content = ContentOf[j] /\ r.chunks # {}

\* Whatever the cache answers was extracted from that content.
CacheSound == \A c \in Contents : cache[c] # None => cache[c].content = c /\ cache[c].chunks # {}

\* A task that assembles has chunks, and one that completes has a result.
TasksSound ==
  \A w \in Workers, j \in Jobs :
    /\ task[w][j].pc \in {"assembling", "store"} => task[w][j].got # {}
    /\ task[w][j].pc = "completed" =>
         SoundResult(j, task[w][j].result) /\ task[w][j].confidence # "none"

\* So has a statement it leaves behind.
StraySound ==
  \A s \in stray : s.status = "completed" => SoundResult(s.job, s.result) /\ s.confidence # "none"

OutcomeInv == TypeOK /\ OutcomeSound /\ CacheSound /\ TasksSound /\ StraySound

\* No statement with a sound result, or without one, makes a row unsound.
LEMMA UpdateSound ==
  ASSUME TypeOK, OutcomeSound, NEW j \in Jobs, NEW s \in Written,
         NEW r \in Extractions \cup {None}, NEW c \in Confidences,
         s = "completed" => SoundResult(j, r) /\ c # "none", Update(j, s, r, c)
  PROVE  OutcomeSound'
<1>1. jobs \in [Jobs -> Rows]
  BY DEF TypeOK, StoreTypeOK
<1>2. jobs'[j] = Updated(jobs[j], s, r, c) /\ \A k \in Jobs \ {j} : jobs'[k] = jobs[k]
  BY <1>1 DEF Update
<1>3. \/ /\ s = "completed" /\ jobs'[j].status = "completed"
         /\ jobs'[j].result = r /\ jobs'[j].confidence = c
      \/ /\ s = "failed" /\ jobs'[j].status = "failed" /\ jobs'[j].error = TRUE
         /\ jobs'[j].result = jobs[j].result /\ jobs'[j].confidence = jobs[j].confidence
      \/ /\ s \in InFlight /\ jobs'[j].status = s
         /\ jobs'[j].result = jobs[j].result /\ jobs'[j].confidence = jobs[j].confidence
  BY <1>1, <1>2 DEF Updated, Rows, Written, InFlight, Terminal
<1> QED
  BY <1>2, <1>3 DEF OutcomeSound, SoundResult, InFlight

\* A task that goes on as t is sound if t is.
LEMMA BecomeSound ==
  ASSUME TypeOK, TasksSound, NEW w \in Workers, NEW j \in Jobs, NEW t \in Tasks, NEW pc \in TaskPcs,
         Become(w, j, t, pc), pc \in {"assembling", "store"} => t.got # {},
         pc = "completed" => SoundResult(j, t.result) /\ t.confidence # "none"
  PROVE  TasksSound'
<1>1. task' = [task EXCEPT ![w][j] = [t EXCEPT !.pc = pc, !.done = FALSE]]
  BY DEF Become
<1>2. task \in [Workers -> [Jobs -> Tasks]]
  BY DEF TypeOK, TaskTypeOK
<1>3. /\ task'[w][j] = [t EXCEPT !.pc = pc, !.done = FALSE]
      /\ \A v \in Workers, k \in Jobs : <<v, k>> # <<w, j>> => task'[v][k] = task[v][k]
  BY <1>1, <1>2
<1>4. /\ task'[w][j].pc = pc /\ task'[w][j].got = t.got
      /\ task'[w][j].result = t.result /\ task'[w][j].confidence = t.confidence
  BY <1>3 DEF Tasks
<1> SUFFICES ASSUME NEW v \in Workers, NEW k \in Jobs
             PROVE  /\ task'[v][k].pc \in {"assembling", "store"} => task'[v][k].got # {}
                    /\ task'[v][k].pc = "completed" =>
                         SoundResult(k, task'[v][k].result) /\ task'[v][k].confidence # "none"
  BY DEF TasksSound, SoundResult
<1>5. CASE v = w /\ k = j
  BY <1>4, <1>5
<1>6. CASE ~(v = w /\ k = j)
  BY <1>3, <1>6 DEF TasksSound
<1> QED
  BY <1>5, <1>6

\* What sound tasks leave behind is sound.
LEMMA LeftBehindSound ==
  ASSUME TasksSound, StraySound, NEW w \in Workers, NEW J \in SUBSET Jobs, NEW S,
         LeaveBehind(Unfinished(w, J, S))
  PROVE  StraySound'
<1>1. \A s \in Unfinished(w, J, S) :
        s.status = "completed" => SoundResult(s.job, s.result) /\ s.confidence # "none"
  BY DEF Unfinished, TasksSound
<1>2. stray' \subseteq stray \cup Unfinished(w, J, S)
  BY DEF LeaveBehind
<1> QED
  BY <1>1, <1>2 DEF StraySound

\* Where nothing but tasks moves.
LEMMA TasksSoundOnly ==
  ASSUME OutcomeInv, TypeOK', TasksSound', UNCHANGED <<jobs, stray, cache>>
  PROVE  OutcomeInv'
BY DEF OutcomeInv, OutcomeSound, CacheSound, StraySound

LEMMA OutcomeInit == Init => OutcomeInv
<1> SUFFICES ASSUME Init PROVE OutcomeInv
  OBVIOUS
<1>1. OutcomeSound
  BY DEF Init, StoreInit, Blank, OutcomeSound
<1>2. CacheSound /\ TasksSound /\ StraySound
  BY DEF Init, CacheSound, TasksSound, StraySound, IdleTask
<1> QED
  BY TypeInit, <1>1, <1>2 DEF OutcomeInv

\* The loop claims rows as they are and starts tasks that have nothing yet.
LEMMA LoopStepSound ==
  ASSUME OutcomeInv, TypeOK', NEW w \in Workers, LoopStep(w)
  PROVE  OutcomeInv'
<1> USE DEF storeVars, loopVars, sharedVars
<1>t. TypeOK /\ TasksSound
  BY DEF OutcomeInv
<1>1. CASE Claim(w)
  <2>1. /\ jobs' = [jobs EXCEPT ![loop[w].job].status = "ingesting"]
        /\ UNCHANGED <<task, stray, cache>>
    BY <1>1 DEF Claim, CommitClaim
  <2>2. \A j \in Jobs : \/ jobs'[j] = jobs[j]
                        \/ /\ jobs'[j].status = "ingesting" /\ jobs'[j].result = jobs[j].result
                           /\ jobs'[j].confidence = jobs[j].confidence
    BY <1>t, <2>1 DEF TypeOK, StoreTypeOK, Rows
  <2>3. OutcomeSound'
    BY <2>2 DEF OutcomeInv, OutcomeSound
  <2> QED
    BY <2>1, <2>3 DEF OutcomeInv, CacheSound, TasksSound, StraySound
<1>2. CASE Spawn(w)
  <2>1. Become(w, loop[w].job, IdleTask, "download") /\ loop[w].job \in Jobs
    BY <1>2, <1>t DEF Spawn, At, TypeOK, LoopTypeOK
  <2>2. TasksSound'
    BY <1>t, <2>1, BecomeSound, IdleTaskType DEF TaskPcs
  <2> QED
    BY <1>2, <2>2, TasksSoundOnly DEF Spawn
<1>3. CASE ~(Claim(w) \/ Spawn(w))
  <2>1. UNCHANGED <<jobs, task, stray, cache>>
    BY <1>3 DEF LoopStep, SelectNext, LockOldest, AbortClaim, Rollback, AckClaim, LoseAck,
                BeginDrain, DrainSlot, Stop
  <2> QED
    BY <2>1, TasksSoundOnly DEF OutcomeInv, TasksSound
<1> QED
  BY <1>1, <1>2, <1>3

\* A task stores what it merged from its own document, or what the cache had
\* for the same content.
LEMMA TaskStepSound ==
  ASSUME OutcomeInv, TypeOK', NEW w \in Workers, NEW j \in Jobs,
         TaskStep(w, j) \/ Deadline(w, j)
  PROVE  OutcomeInv'
<1> USE DEF storeVars, loopVars, sharedVars
<1> DEFINE t == task[w][j]
<1>t. TypeOK /\ OutcomeSound /\ CacheSound /\ TasksSound /\ StraySound
  BY DEF OutcomeInv
<1>k. t \in Tasks /\ ContentOf[j] \in Contents
  BY <1>t, ContentOfAssumption DEF TypeOK, TaskTypeOK
<1>g. ASSUME NEW pc \in TaskPcs, GoTo(w, j, pc), pc # "completed",
             pc \in {"assembling", "store"} => t.got # {}
      PROVE  TasksSound'
  BY <1>t, <1>k, <1>g, BecomeSound DEF GoTo
<1> HIDE DEF t
<1>1. CASE Download(w, j) \/ CacheMiss(w, j) \/ ExtractText(w, j) \/ EndChunks(w, j)
           \/ (Fetch(w, j) /\ GoTo(w, j, "return"))
  <2>1. \E pc \in {"lookup", "failed", "ingesting", "chunking", "assembling", "return"} :
          GoTo(w, j, pc) /\ (pc = "assembling" => t.got # {})
    BY <1>1 DEF Download, CacheMiss, ExtractText, EndChunks, AfterChunks, t
  <2>2. TasksSound'
    BY <1>g, <2>1 DEF TaskPcs, Written, InFlight, Terminal
  <2> QED
    BY <1>1, <2>2, TasksSoundOnly DEF Download, CacheMiss, ExtractText, EndChunks, Fetch
<1>2. CASE CacheHit(w, j)
  <2> DEFINE u == [t EXCEPT !.result = cache[ContentOf[j]], !.confidence = "cache_hit"]
  <2>1. Become(w, j, u, "completed") /\ cache[ContentOf[j]] # None
    BY <1>2 DEF CacheHit, CacheKey, t
  <2>2. /\ u \in Tasks
        /\ u.result = cache[ContentOf[j]] /\ u.confidence = "cache_hit"
    BY <1>k, <1>t, <2>1 DEF TypeOK, SharedTypeOK, Tasks, Confidences
  <2> HIDE DEF u
  <2>3. SoundResult(j, u.result) /\ u.confidence # "none"
    BY <1>k, <1>t, <2>1, <2>2 DEF CacheSound, SoundResult
  <2>4. TasksSound'
    BY <1>t, <2>1, <2>2, <2>3, BecomeSound DEF TaskPcs, Written, Terminal
  <2> QED
    BY <1>2, <2>4, TasksSoundOnly DEF CacheHit
<1>3. CASE ExtractChunk(w, j)
  <2>1. \E u : task' = [task EXCEPT ![w][j] = [u EXCEPT !.pc = "llm", !.done = FALSE]]
    BY <1>3 DEF ExtractChunk, Become
  <2>2. task' \in [Workers -> [Jobs -> Tasks]] /\ task \in [Workers -> [Jobs -> Tasks]]
    BY <1>t DEF TypeOK, TaskTypeOK
  <2>3. /\ task'[w][j].pc = "llm"
        /\ \A v \in Workers, k \in Jobs : <<v, k>> # <<w, j>> => task'[v][k] = task[v][k]
    BY <2>1, <2>2 DEF Tasks
  <2>4. TasksSound'
    BY <1>t, <2>3 DEF TasksSound
  <2> QED
    BY <1>3, <2>4, TasksSoundOnly DEF ExtractChunk
<1>4. CASE StoreCache(w, j)
  <2> DEFINE u == [t EXCEPT !.result = Merged(w, j), !.confidence = "fields"]
  <2>1. /\ Merged(w, j) \in Extractions
        /\ SoundResult(j, Merged(w, j))
    <3>1. t.pc = "store" /\ t.got # {} /\ t.got \in ChunkSets
      BY <1>4, <1>t, <1>k DEF StoreCache, In, TasksSound, Tasks, t
    <3>2. Merged(w, j) = [content |-> ContentOf[j], chunks |-> t.got]
      BY DEF Merged, t
    <3>3. Merged(w, j) \in Extractions
      BY <1>k, <3>1, <3>2 DEF Extractions
    <3> QED
      BY <3>1, <3>2, <3>3, NoneIsNoExtraction DEF SoundResult
  <2>2. u \in Tasks /\ u.result = Merged(w, j) /\ u.confidence = "fields"
    BY <1>k, <2>1 DEF Tasks, Confidences
  <2>3. Become(w, j, u, "completed")
    BY <1>4 DEF StoreCache, t
  <2> HIDE DEF u
  <2>4. TasksSound'
    BY <1>t, <2>1, <2>2, <2>3, BecomeSound DEF TaskPcs, Written, Terminal
  <2>5. cache' = cache \/ cache' = [cache EXCEPT ![ContentOf[j]] = Merged(w, j)]
    BY <1>4 DEF StoreCache, CacheKey
  <2>6. CacheSound'
    BY <1>t, <1>k, <2>1, <2>5 DEF TypeOK, SharedTypeOK, CacheSound, SoundResult
  <2> QED
    BY <1>4, <1>t, <2>4, <2>6 DEF StoreCache, OutcomeInv, OutcomeSound, StraySound
<1>5. CASE Execute(w, j)
  <2>1. /\ t.pc \in Written /\ Update(j, t.pc, t.result, t.confidence)
        /\ task' = [task EXCEPT ![w][j].done = TRUE]
        /\ UNCHANGED <<stray, cache>>
    BY <1>5 DEF Execute, t
  <2>2. t.result \in Extractions \cup {None} /\ t.confidence \in Confidences
    BY <1>k DEF Tasks
  <2>3. t.pc = "completed" => SoundResult(j, t.result) /\ t.confidence # "none"
    BY <1>t DEF TasksSound, t
  <2>4. OutcomeSound'
    BY <1>t, <2>1, <2>2, <2>3, UpdateSound
  <2>5. \A v \in Workers, k \in Jobs :
          /\ task'[v][k].pc = task[v][k].pc /\ task'[v][k].got = task[v][k].got
          /\ task'[v][k].result = task[v][k].result
          /\ task'[v][k].confidence = task[v][k].confidence
    BY <1>t, <2>1 DEF TypeOK, TaskTypeOK, Tasks
  <2>6. TasksSound'
    BY <1>t, <2>5 DEF TasksSound
  <2> QED
    BY <1>t, <2>1, <2>4, <2>6 DEF OutcomeInv, CacheSound, StraySound
<1>6. CASE Reply(w, j)
  <2>1. /\ GoTo(w, j, AfterWrite(t.pc)) /\ t.pc \in Written
        /\ UNCHANGED <<jobs, stray, cache>>
    BY <1>6 DEF Reply, t
  <2>2. /\ AfterWrite(t.pc) \in TaskPcs \ {"completed"}
        /\ AfterWrite(t.pc) \in {"assembling", "store"} => t.pc = "assembling"
    BY <2>1 DEF AfterWrite, TaskPcs, Written, InFlight, Terminal
  <2>3. AfterWrite(t.pc) \in {"assembling", "store"} => t.got # {}
    BY <1>t, <2>2 DEF TasksSound, t
  <2>4. TasksSound'
    BY <1>g, <2>1, <2>2, <2>3
  <2> QED
    BY <2>1, <2>4, TasksSoundOnly
<1>7. CASE GiveUp(w, j)
  <2>1. /\ GoTo(w, j, AfterError(t.pc)) /\ t.pc \in Written
        /\ UNCHANGED stray \/ LeaveBehind(Unfinished(w, {j}, Written))
        /\ UNCHANGED <<jobs, cache>>
    BY <1>7 DEF GiveUp, t
  <2>2. /\ AfterError(t.pc) \in TaskPcs \ {"completed"}
        /\ AfterError(t.pc) \in {"assembling", "store"} => t.pc = "assembling"
    BY <2>1 DEF AfterError, AfterWrite, TaskPcs, Written, InFlight, Terminal
  <2>3. AfterError(t.pc) \in {"assembling", "store"} => t.got # {}
    BY <1>t, <2>2 DEF TasksSound, t
  <2>4. TasksSound'
    BY <1>g, <2>1, <2>2, <2>3
  <2>5. StraySound'
    BY <1>t, <2>1, LeftBehindSound DEF StraySound
  <2> QED
    BY <1>t, <2>1, <2>4, <2>5 DEF OutcomeInv, OutcomeSound, CacheSound
<1>8. CASE Fetch(w, j) /\ ~GoTo(w, j, "return")
  <2> DEFINE u == [t EXCEPT !.payload = jobs[j]]
  <2>1. Become(w, j, u, "notify")
    BY <1>8 DEF Fetch, t
  <2>2. u \in Tasks
    BY <1>k, <1>t DEF TypeOK, StoreTypeOK, Tasks
  <2>3. TasksSound'
    BY <1>t, <2>1, <2>2, BecomeSound DEF TaskPcs
  <2> QED
    BY <1>8, <2>3, TasksSoundOnly DEF Fetch
<1>9. CASE Notify(w, j)
  <2>1. GoTo(w, j, "return")
    BY <1>9 DEF Notify
  <2>2. TasksSound'
    BY <1>g, <2>1 DEF TaskPcs
  <2> QED
    BY <1>9, <2>2, TasksSoundOnly DEF Notify
<1>10. CASE Return(w, j)
  <2>1. task' = [task EXCEPT ![w][j] = IdleTask]
    BY <1>10 DEF Return
  <2>2. TasksSound'
    BY <1>t, <2>1 DEF TypeOK, TaskTypeOK, TasksSound, IdleTask
  <2> QED
    BY <1>10, <2>2, TasksSoundOnly DEF Return
<1>11. CASE Deadline(w, j)
  <2>1. /\ task' = [task EXCEPT ![w][j].expired = TRUE]
        /\ LeaveBehind(Unfinished(w, {j}, Written \ {"failed"}))
        /\ UNCHANGED <<jobs, cache>>
    BY <1>11 DEF Deadline
  <2>2. \A v \in Workers, k \in Jobs :
          /\ task'[v][k].pc = task[v][k].pc /\ task'[v][k].got = task[v][k].got
          /\ task'[v][k].result = task[v][k].result
          /\ task'[v][k].confidence = task[v][k].confidence
    BY <1>t, <2>1 DEF TypeOK, TaskTypeOK, Tasks
  <2>3. TasksSound'
    BY <1>t, <2>2 DEF TasksSound
  <2>4. StraySound'
    BY <1>t, <2>1, LeftBehindSound
  <2> QED
    BY <1>t, <2>1, <2>3, <2>4 DEF OutcomeInv, OutcomeSound, CacheSound
<1> QED
  BY <1>1, <1>2, <1>3, <1>4, <1>5, <1>6, <1>7, <1>8, <1>9, <1>10, <1>11 DEF TaskStep

\* Statements of a process that stops or dies are as sound as its tasks were,
\* and so is what they write later.
LEMMA OtherStepSound ==
  ASSUME OutcomeInv, TypeOK',
         \/ \E w \in Workers : ProcessEvent(w)
         \/ \E d \in Deliveries : Deliver(d)
         \/ ExecuteStray
         \/ Environment
         \/ UNCHANGED vars
  PROVE  OutcomeInv'
<1> USE DEF storeVars, loopVars, sharedVars
<1>t. TypeOK /\ OutcomeSound /\ CacheSound /\ TasksSound /\ StraySound
  BY DEF OutcomeInv
<1>1. ASSUME NEW w \in Workers, Cancel(w) \/ Crash(w) PROVE OutcomeInv'
  <2>1. /\ LeaveBehind(Unfinished(w, Jobs, Written))
        /\ task' = task \/ task' = [task EXCEPT ![w] = [j \in Jobs |-> IdleTask]]
        /\ UNCHANGED <<jobs, cache>>
    BY <1>1 DEF Cancel, Crash
  <2>2. TasksSound'
    BY <1>t, <2>1 DEF TypeOK, TaskTypeOK, TasksSound, IdleTask
  <2>3. StraySound'
    BY <1>t, <2>1, LeftBehindSound
  <2> QED
    BY <1>t, <2>1, <2>2, <2>3 DEF OutcomeInv, OutcomeSound, CacheSound
<1>2. CASE ExecuteStray
  <2>1. PICK s \in stray : Update(s.job, s.status, s.result, s.confidence)
    BY <1>2 DEF ExecuteStray
  <2>2. /\ s.job \in Jobs /\ s.status \in Written
        /\ s.result \in Extractions \cup {None} /\ s.confidence \in Confidences
    BY <1>t DEF TypeOK, SharedTypeOK, Statements
  <2>3. s.status = "completed" => SoundResult(s.job, s.result) /\ s.confidence # "none"
    BY <1>t DEF StraySound
  <2>4. OutcomeSound'
    BY <1>t, <2>1, <2>2, <2>3, UpdateSound
  <2>5. stray' \subseteq stray /\ UNCHANGED <<task, cache>>
    BY <1>2 DEF ExecuteStray
  <2> QED
    BY <1>t, <2>4, <2>5 DEF OutcomeInv, CacheSound, TasksSound, StraySound
<1>3. ASSUME NEW j \in Jobs, Submit(j) PROVE OutcomeInv'
  <2>1. jobs' = [jobs EXCEPT ![j] = Blank("pending")] /\ UNCHANGED <<task, stray, cache>>
    BY <1>3 DEF Submit, Create
  <2>2. OutcomeSound'
    BY <1>t, <2>1 DEF TypeOK, StoreTypeOK, OutcomeSound, Blank
  <2> QED
    BY <1>t, <2>1, <2>2 DEF OutcomeInv, CacheSound, TasksSound, StraySound
<1>4. ASSUME NEW c \in Contents, Evict(c) PROVE OutcomeInv'
  <2>1. cache' = [cache EXCEPT ![c] = None] /\ UNCHANGED <<jobs, task, stray>>
    BY <1>4 DEF Evict
  <2>2. CacheSound'
    BY <1>t, <2>1 DEF TypeOK, SharedTypeOK, CacheSound
  <2> QED
    BY <1>t, <2>1, <2>2 DEF OutcomeInv, OutcomeSound, TasksSound, StraySound
<1>5. CASE UNCHANGED <<jobs, task, stray, cache>>
  BY <1>5, TasksSoundOnly DEF OutcomeInv, TasksSound
<1> QED
  BY <1>1, <1>2, <1>3, <1>4, <1>5 DEF ProcessEvent, EmptyPoll, Restart, Deliver, Environment,
     RegisterHook, DeleteHook, vars

LEMMA OutcomeNext == OutcomeInv /\ [Next]_vars => OutcomeInv'
<1> SUFFICES ASSUME OutcomeInv, [Next]_vars PROVE OutcomeInv'
  OBVIOUS
<1>1. TypeOK'
  BY TypeNext DEF OutcomeInv
<1> QED
  BY <1>1, LoopStepSound, TaskStepSound, OtherStepSound DEF Next

\* Whatever is cancelled, killed, cached, evicted or executed late, a result is
\* of the job's own document and not empty, and a completed job has one.
THEOREM OutcomesAreSound == Spec => []OutcomeSound
<1>1. OutcomeInv => OutcomeSound
  BY DEF OutcomeInv
<1> QED
  BY OutcomeInit, OutcomeNext, <1>1, PTL DEF Spec

-----------------------------------------------------------------------------
(* How a task moves *)

\* From one stage to the next, or out.
Moves ==
  {<<"download", "lookup">>, <<"download", "failed">>, <<"lookup", "completed">>,
   <<"lookup", "ingesting">>, <<"ingesting", "text">>, <<"text", "chunking">>,
   <<"text", "failed">>, <<"chunking", "extracting">>, <<"extracting", "llm">>,
   <<"llm", "llm">>, <<"llm", "failed">>, <<"llm", "assembling">>,
   <<"assembling", "store">>, <<"store", "completed">>, <<"completed", "fetch">>,
   <<"completed", "failed">>, <<"fetch", "notify">>, <<"fetch", "return">>,
   <<"notify", "return">>, <<"failed", "return">>}

\* A step of a task is of no other one, and not of the loops.
LEMMA OneTaskMoves ==
  ASSUME TypeOK, NEW w \in Workers, NEW j \in Jobs, TaskStep(w, j) \/ Deadline(w, j)
  PROVE  /\ task[w][j].pc # "idle"
         /\ \A v \in Workers, k \in Jobs : <<v, k>> # <<w, j>> => task'[v][k] = task[v][k]
         /\ UNCHANGED <<loop, drained, cancelled, lock, claims>>
         /\ jobs' = jobs \/ Execute(w, j)
<1> USE DEF storeVars, loopVars, sharedVars
<1>l. task \in [Workers -> [Jobs -> Tasks]]
  BY DEF TypeOK, TaskTypeOK
<1>1. task[w][j].pc # "idle"
  BY DEF TaskStep, Download, CacheHit, CacheMiss, ExtractText, ExtractChunk, EndChunks,
         StoreCache, Execute, Reply, GiveUp, Fetch, Notify, Return, Deadline, In,
         Written, InFlight, Terminal
<1>2. UNCHANGED <<loop, drained, cancelled, lock, claims>>
  BY DEF TaskStep, Download, CacheHit, CacheMiss, ExtractText, ExtractChunk, EndChunks,
         StoreCache, Execute, Update, Reply, GiveUp, Fetch, Notify, Return, Deadline
<1>3. \A v \in Workers, k \in Jobs : <<v, k>> # <<w, j>> => task'[v][k] = task[v][k]
  BY <1>l DEF TaskStep, Download, CacheHit, CacheMiss, ExtractText, ExtractChunk, EndChunks,
         StoreCache, Execute, Reply, GiveUp, Fetch, Notify, Return, Deadline, Become, GoTo
<1>4. jobs' = jobs \/ Execute(w, j)
  BY DEF TaskStep, Download, CacheHit, CacheMiss, ExtractText, ExtractChunk, EndChunks,
         StoreCache, Reply, GiveUp, Fetch, Notify, Return, Deadline
<1> QED
  BY <1>1, <1>2, <1>3, <1>4

LEMMA BecomePc ==
  ASSUME TypeOK, TypeOK', NEW w \in Workers, NEW j \in Jobs, NEW u, NEW pc, Become(w, j, u, pc)
  PROVE  /\ task'[w][j].pc = pc /\ ~task'[w][j].done
         /\ \A v \in Workers, k \in Jobs : <<v, k>> # <<w, j>> => task'[v][k] = task[v][k]
<1>1. task'[w][j] = [u EXCEPT !.pc = pc, !.done = FALSE] /\ task'[w][j] \in Tasks
  BY DEF Become, TypeOK, TaskTypeOK
<1>2. DOMAIN task'[w][j] = DOMAIN u /\ {"pc", "done"} \subseteq DOMAIN task'[w][j]
  BY <1>1 DEF Tasks
<1>3. \A v \in Workers, k \in Jobs : <<v, k>> # <<w, j>> => task'[v][k] = task[v][k]
  BY DEF Become, TypeOK, TaskTypeOK
<1> QED
  BY <1>1, <1>2, <1>3

\* Where it goes, and what of the row it knows when it gets there.
LEMMA TaskMoves ==
  ASSUME TypeOK, TypeOK', NEW w \in Workers, NEW j \in Jobs, TaskStep(w, j) \/ Deadline(w, j)
  PROVE  LET t == task[w][j]
             u == task'[w][j] IN
         \/ /\ <<t.pc, u.pc>> \in Moves /\ ~u.done /\ UNCHANGED jobs
            /\ u.pc = "fetch" => t.done
            /\ u.pc = "notify" => u.payload = jobs[j]
            /\ t.pc = "failed" => t.done \/ cancelled[w] \/ "db" \in Faults
            /\ t.pc = "completed" /\ u.pc = "failed" => GiveUp(w, j)
         \/ Execute(w, j) /\ u.pc = t.pc /\ u.done /\ u.payload = t.payload
         \/ Deadline(w, j) /\ UNCHANGED jobs /\ u.pc = t.pc /\ u.done = t.done /\ u.payload = t.payload
         \/ Return(w, j) /\ u.pc = "idle"
<1> USE DEF storeVars, loopVars, sharedVars
<1> DEFINE t == task[w][j]
           u == task'[w][j]
<1>l. task \in [Workers -> [Jobs -> Tasks]] /\ t \in Tasks
  BY DEF TypeOK, TaskTypeOK
<1>1. CASE Download(w, j) \/ CacheHit(w, j) \/ CacheMiss(w, j) \/ ExtractText(w, j)
           \/ ExtractChunk(w, j) \/ EndChunks(w, j) \/ StoreCache(w, j) \/ Notify(w, j)
  <2>1. UNCHANGED jobs
    BY <1>1 DEF Download, CacheHit, CacheMiss, ExtractText, ExtractChunk, EndChunks, StoreCache, Notify
  <2>2. \E pc, x : Become(w, j, x, pc) /\ <<t.pc, pc>> \in Moves /\ pc \notin {"fetch", "notify"}
                   /\ t.pc \notin {"failed", "completed"}
    <3>1. CASE Download(w, j) \/ CacheMiss(w, j) \/ ExtractText(w, j) \/ EndChunks(w, j) \/ Notify(w, j)
      <4>1. \E pc : GoTo(w, j, pc) /\ <<t.pc, pc>> \in Moves /\ pc \notin {"fetch", "notify"}
                     /\ t.pc \notin {"failed", "completed"}
        BY <3>1 DEF Download, CacheMiss, ExtractText, EndChunks, AfterChunks, Notify, In, Moves
      <4> QED
        BY <4>1 DEF GoTo
    <3>2. CASE CacheHit(w, j)
      BY <3>2 DEF CacheHit, In, Moves
    <3>3. CASE ExtractChunk(w, j)
      BY <3>3 DEF ExtractChunk, In, Moves
    <3>4. CASE StoreCache(w, j)
      BY <3>4 DEF StoreCache, In, Moves
    <3> QED
      BY <1>1, <3>1, <3>2, <3>3, <3>4
  <2>3. PICK pc, x : /\ Become(w, j, x, pc) /\ <<t.pc, pc>> \in Moves
                     /\ pc \notin {"fetch", "notify"} /\ t.pc \notin {"failed", "completed"}
    BY <2>2
  <2>4. u.pc = pc /\ ~u.done
    BY <2>3, BecomePc
  <2> QED
    BY <2>1, <2>3, <2>4
<1>2. CASE Reply(w, j)
  <2>1. /\ UNCHANGED jobs /\ t.done /\ t.pc \in Written
        /\ Become(w, j, t, AfterWrite(t.pc))
    BY <1>2 DEF Reply, GoTo
  <2>2. <<t.pc, AfterWrite(t.pc)>> \in Moves /\ AfterWrite(t.pc) \notin {"notify", "failed"}
    BY <2>1 DEF AfterWrite, Moves, Written, InFlight, Terminal
  <2>3. u.pc = AfterWrite(t.pc) /\ ~u.done
    BY <2>1, BecomePc
  <2> QED
    BY <2>1, <2>2, <2>3
<1>3. CASE GiveUp(w, j)
  <2>1. /\ UNCHANGED jobs /\ t.pc \in Written
        /\ Become(w, j, t, AfterError(t.pc))
        /\ WriteCtxDone(w, j) \/ "db" \in Faults
    BY <1>3 DEF GiveUp, GoTo
  <2>2. <<t.pc, AfterError(t.pc)>> \in Moves /\ AfterError(t.pc) \notin {"fetch", "notify"}
    BY <2>1 DEF AfterError, AfterWrite, Moves, Written, InFlight, Terminal
  <2>3. t.pc = "failed" => cancelled[w] \/ "db" \in Faults
    BY <2>1 DEF WriteCtxDone
  <2>4. u.pc = AfterError(t.pc) /\ ~u.done
    BY <2>1, BecomePc
  <2> QED
    BY <1>3, <2>1, <2>2, <2>3, <2>4
<1>4. CASE Fetch(w, j)
  <2>1. UNCHANGED jobs /\ t.pc = "fetch"
    BY <1>4 DEF Fetch, In
  <2>2. CASE Become(w, j, t, "return")
    <3>1. u.pc = "return" /\ ~u.done
      BY <2>2, BecomePc
    <3> QED
      BY <2>1, <3>1 DEF Moves
  <2>3. CASE Become(w, j, [t EXCEPT !.payload = jobs[j]], "notify")
    <3>1. u.pc = "notify" /\ ~u.done
      BY <2>3, BecomePc
    <3>2. u.payload = jobs[j]
      BY <1>l, <2>3 DEF Become, Tasks
    <3> QED
      BY <2>1, <3>1, <3>2 DEF Moves
  <2> QED
    BY <1>4, <2>2, <2>3 DEF Fetch, GoTo
<1>5. CASE Execute(w, j)
  <2>1. task' = [task EXCEPT ![w][j].done = TRUE]
    BY <1>5 DEF Execute
  <2>2. u.pc = t.pc /\ u.done /\ u.payload = t.payload
    BY <1>l, <2>1 DEF Tasks
  <2> QED
    BY <1>5, <2>2
<1>6. CASE Deadline(w, j)
  <2>1. task' = [task EXCEPT ![w][j].expired = TRUE] /\ UNCHANGED jobs
    BY <1>6 DEF Deadline
  <2>2. u.pc = t.pc /\ u.done = t.done /\ u.payload = t.payload
    BY <1>l, <2>1 DEF Tasks
  <2> QED
    BY <1>6, <2>1, <2>2
<1>7. CASE Return(w, j)
  <2>1. task' = [task EXCEPT ![w][j] = IdleTask]
    BY <1>7 DEF Return
  <2>2. u.pc = "idle"
    BY <1>l, <2>1 DEF IdleTask
  <2> QED
    BY <1>7, <2>2
<1> QED
  BY <1>1, <1>2, <1>3, <1>4, <1>5, <1>6, <1>7 DEF TaskStep

-----------------------------------------------------------------------------
(* A task comes to an end *)

\* How many stages a task goes through at most from one on, the chunks aside.
StagesLeft == [pc \in TaskPcs |->
  CASE pc = "download" -> 13 [] pc = "lookup" -> 12 [] pc = "ingesting" -> 11
    [] pc = "text" -> 10 [] pc = "chunking" -> 9 [] pc = "extracting" -> 8
    [] pc = "llm" -> 7 [] pc = "assembling" -> 6 [] pc = "store" -> 5
    [] pc = "completed" -> 4 [] pc = "fetch" -> 3 [] pc \in {"notify", "failed"} -> 2
    [] pc = "return" -> 1 [] OTHER -> 0]

\* A stage or a chunk is two steps, a statement and its reply, or one.
StepsLeft(t) ==
  IF t.pc = "idle" THEN 0
  ELSE 2 * (StagesLeft[t.pc] + MaxChunks + 1 - t.next) + (IF t.done THEN 0 ELSE 1)

LEMMA MovesGoDown ==
  ASSUME NEW a, NEW b, <<a, b>> \in Moves, a # "llm" \/ b # "llm"
  PROVE  StagesLeft[b] + 1 <= StagesLeft[a]
<1>1. a \in TaskPcs /\ b \in TaskPcs
  BY DEF Moves, TaskPcs, Written, InFlight, Terminal
<1> QED
  BY <1>1 DEF StagesLeft, Moves

LEMMA StagesLeftType ==
  ASSUME NEW pc \in TaskPcs
  PROVE  StagesLeft[pc] \in 0 .. 13 /\ (pc # "idle" => StagesLeft[pc] >= 1)
BY DEF StagesLeft, TaskPcs, Written, InFlight, Terminal

LEMMA StepsLeftType ==
  ASSUME NEW t \in Tasks
  PROVE  StepsLeft(t) \in 0 .. 2 * MaxChunks + 27 /\ (t.pc # "idle" => StepsLeft(t) > 0)
<1>1. /\ t.pc \in TaskPcs /\ t.next \in 1 .. MaxChunks + 1 /\ MaxChunks \in Nat
      /\ StagesLeft[t.pc] \in 0 .. 13 /\ (t.pc # "idle" => StagesLeft[t.pc] >= 1)
  BY MaxChunksAssumption, StagesLeftType DEF Tasks
<1> QED
  BY <1>1 DEF StepsLeft

\* The chunks are counted up, and only the loop over them stays at its stage.
LEMMA ChunksGoOn ==
  ASSUME TypeOK, NEW w \in Workers, NEW j \in Jobs, TaskStep(w, j), ~Return(w, j)
  PROVE  LET t == task[w][j]
             u == task'[w][j] IN
         /\ u.expired = t.expired
         /\ u.next = t.next \/ u.next = t.next + 1
         /\ t.pc = "llm" /\ u.pc = "llm" => u.next = t.next + 1
         /\ Execute(w, j) => ~t.done
<1> DEFINE t == task[w][j]
           u == task'[w][j]
<1>l. task \in [Workers -> [Jobs -> Tasks]] /\ t \in Tasks
  BY DEF TypeOK, TaskTypeOK
<1>1. CASE ExtractChunk(w, j)
  <2>1. \/ Become(w, j, [t EXCEPT !.next = t.next + 1, !.got = @ \cup {t.next}], "llm")
        \/ Become(w, j, [t EXCEPT !.next = t.next + 1], "llm")
    BY <1>1 DEF ExtractChunk
  <2>2. ASSUME NEW x, Become(w, j, x, "llm"), {"next", "expired"} \subseteq DOMAIN x
        PROVE  u.next = x.next /\ u.expired = x.expired
    <3>1. u = [x EXCEPT !.pc = "llm", !.done = FALSE]
      BY <1>l, <2>2 DEF Become
    <3> QED
      BY <2>2, <3>1
  <2>3. u.next = t.next + 1 /\ u.expired = t.expired
    <3> DEFINE x == [t EXCEPT !.next = t.next + 1, !.got = @ \cup {t.next}]
               y == [t EXCEPT !.next = t.next + 1]
    <3>1. /\ {"next", "expired"} \subseteq DOMAIN x /\ x.next = t.next + 1 /\ x.expired = t.expired
          /\ {"next", "expired"} \subseteq DOMAIN y /\ y.next = t.next + 1 /\ y.expired = t.expired
      BY <1>l DEF Tasks
    <3>2. Become(w, j, x, "llm") \/ Become(w, j, y, "llm")
      BY <2>1
    <3> HIDE DEF x, y
    <3> QED
      BY <2>2, <3>1, <3>2
  <2> QED
    BY <1>1, <2>3 DEF ExtractChunk, Execute, In, Written, InFlight, Terminal
<1>2. CASE Execute(w, j)
  <2>1. u = [t EXCEPT !.done = TRUE] /\ ~t.done /\ t.pc # "llm"
    BY <1>l, <1>2 DEF Execute, Written, InFlight, Terminal
  <2> QED
    BY <1>l, <2>1 DEF Tasks
<1>3. ASSUME NEW x \in Tasks, NEW pc, Become(w, j, x, pc), x.next = t.next,
             x.expired = t.expired, ~Execute(w, j),
             t.pc # "llm" \/ pc # "llm"
      PROVE  u.next = t.next /\ u.expired = t.expired /\ ~(t.pc = "llm" /\ u.pc = "llm")
  <2>1. u = [x EXCEPT !.pc = pc, !.done = FALSE]
    BY <1>l, <1>3 DEF Become
  <2> QED
    BY <1>3, <2>1 DEF Tasks
<1>4. ASSUME ~ExtractChunk(w, j), ~Execute(w, j)
      PROVE  \E x \in Tasks : \E pc :
               /\ Become(w, j, x, pc) /\ x.next = t.next /\ x.expired = t.expired
               /\ t.pc # "llm" \/ pc # "llm"
  <2>1. CASE \E pc : GoTo(w, j, pc) /\ (t.pc # "llm" \/ pc # "llm")
    BY <1>l, <2>1 DEF GoTo
  <2>2. CASE CacheHit(w, j)
    <3>1. [t EXCEPT !.result = cache[ContentOf[j]], !.confidence = "cache_hit"] \in Tasks
      BY <1>l, ContentOfAssumption DEF Tasks, TypeOK, SharedTypeOK, Confidences
    <3>2. /\ [t EXCEPT !.result = cache[ContentOf[j]], !.confidence = "cache_hit"].next = t.next
          /\ [t EXCEPT !.result = cache[ContentOf[j]], !.confidence = "cache_hit"].expired = t.expired
      BY <1>l DEF Tasks
    <3> QED
      BY <2>2, <3>1, <3>2 DEF CacheHit, CacheKey, In
  <2>3. CASE StoreCache(w, j)
    <3>1. [t EXCEPT !.result = Merged(w, j), !.confidence = "fields"] \in Tasks
      BY <1>l, ContentOfAssumption DEF Tasks, Merged, Extractions, Confidences
    <3>2. /\ [t EXCEPT !.result = Merged(w, j), !.confidence = "fields"].next = t.next
          /\ [t EXCEPT !.result = Merged(w, j), !.confidence = "fields"].expired = t.expired
      BY <1>l DEF Tasks
    <3> QED
      BY <2>3, <3>1, <3>2 DEF StoreCache, In
  <2>4. CASE Fetch(w, j)
    <3>1. [t EXCEPT !.payload = jobs[j]] \in Tasks
      BY <1>l DEF Tasks, TypeOK, StoreTypeOK
    <3>2. [t EXCEPT !.payload = jobs[j]].next = t.next /\ [t EXCEPT !.payload = jobs[j]].expired = t.expired
      BY <1>l DEF Tasks
    <3> QED
      BY <1>l, <2>4, <3>1, <3>2 DEF Fetch, GoTo, In
  <2>5. CASE Download(w, j) \/ CacheMiss(w, j) \/ ExtractText(w, j) \/ EndChunks(w, j)
             \/ Notify(w, j) \/ Reply(w, j) \/ GiveUp(w, j)
    <3>1. \E pc : GoTo(w, j, pc) /\ (t.pc # "llm" \/ pc # "llm")
      BY <2>5 DEF Download, CacheMiss, ExtractText, EndChunks, AfterChunks, Notify, Reply,
             GiveUp, In, Written, InFlight, Terminal
    <3> QED
      BY <2>1, <3>1
  <2> QED
    BY <1>4, <2>2, <2>3, <2>4, <2>5 DEF TaskStep
<1> QED
  BY <1>1, <1>2, <1>3, <1>4

LEMMA Lower ==
  ASSUME NEW t \in Tasks, NEW u \in Tasks, t.pc # "idle",
         \/ StagesLeft[u.pc] + t.next + 1 <= StagesLeft[t.pc] + u.next
         \/ u.pc = t.pc /\ u.next >= t.next /\ u.done /\ ~t.done
  PROVE  StepsLeft(u) < StepsLeft(t)
<1>1. /\ t.next \in 1 .. MaxChunks + 1 /\ u.next \in 1 .. MaxChunks + 1 /\ MaxChunks \in Nat
      /\ StagesLeft[t.pc] \in 0 .. 13 /\ StagesLeft[u.pc] \in 0 .. 13 /\ StagesLeft[t.pc] >= 1
  BY StagesLeftType, MaxChunksAssumption DEF Tasks
<1> DEFINE a == StagesLeft[t.pc] + MaxChunks + 1 - t.next
           b == StagesLeft[u.pc] + MaxChunks + 1 - u.next
<1>2. a \in Nat /\ b \in Nat /\ a >= 1
  BY <1>1
<1>3. b + 1 <= a \/ (b <= a /\ u.done /\ ~t.done)
  BY <1>1
<1>4. StepsLeft(t) = 2 * a + (IF t.done THEN 0 ELSE 1)
  BY DEF StepsLeft
<1>5. StepsLeft(u) = 0 \/ StepsLeft(u) = 2 * b + (IF u.done THEN 0 ELSE 1)
  BY DEF StepsLeft
<1> HIDE DEF a, b
<1>6. CASE b + 1 <= a
  BY <1>2, <1>4, <1>5, <1>6
<1>7. CASE b <= a /\ u.done /\ ~t.done
  BY <1>2, <1>4, <1>5, <1>7
<1> QED
  BY <1>3, <1>6, <1>7

LEMMA TaskStepsDown ==
  ASSUME TypeOK, TypeOK', NEW w \in Workers, NEW j \in Jobs, TaskStep(w, j)
  PROVE  StepsLeft(task'[w][j]) < StepsLeft(task[w][j])
<1> DEFINE t == task[w][j]
           u == task'[w][j]
<1>l. t \in Tasks /\ u \in Tasks /\ t.pc # "idle" /\ MaxChunks \in Nat
  BY OneTaskMoves, MaxChunksAssumption DEF TypeOK, TaskTypeOK
<1>t. /\ t.next \in 1 .. MaxChunks + 1 /\ u.next \in 1 .. MaxChunks + 1
      /\ StagesLeft[t.pc] \in 0 .. 13 /\ StagesLeft[u.pc] \in 0 .. 13
  BY <1>l, StagesLeftType DEF Tasks
<1>1. CASE Return(w, j)
  <2>1. u = IdleTask
    BY <1>1 DEF Return, TypeOK, TaskTypeOK
  <2>2. StepsLeft(u) = 0
    BY <2>1 DEF StepsLeft, IdleTask
  <2> QED
    BY <1>l, <2>2, StepsLeftType
<1>2. CASE ~Return(w, j)
  <2>1. /\ u.expired = t.expired
        /\ u.next = t.next \/ u.next = t.next + 1
        /\ t.pc = "llm" /\ u.pc = "llm" => u.next = t.next + 1
        /\ Execute(w, j) => ~t.done
    BY <1>2, ChunksGoOn
  <2>2. CASE <<t.pc, u.pc>> \in Moves
    <3>1. t.pc # "llm" \/ u.pc # "llm" => StagesLeft[u.pc] + 1 <= StagesLeft[t.pc]
      BY <2>2, MovesGoDown
    <3>2. StagesLeft[u.pc] + t.next + 1 <= StagesLeft[t.pc] + u.next
      BY <1>t, <2>1, <3>1
    <3> QED
      BY <1>l, <3>2, Lower
  <2>3. CASE Execute(w, j) /\ u.pc = t.pc /\ u.done
    <3>1. u.next >= t.next
      BY <1>t, <2>1
    <3> QED
      BY <1>l, <2>1, <2>3, <3>1, Lower
  <2>4. ~Deadline(w, j)
    <3>1. Deadline(w, j) => task' = [task EXCEPT ![w][j].expired = TRUE] /\ ~t.expired
      BY DEF Deadline
    <3>2. task' = [task EXCEPT ![w][j].expired = TRUE] => u.expired
      BY DEF TypeOK, TaskTypeOK, Tasks
    <3> QED
      BY <2>1, <3>1, <3>2
  <2> QED
    BY <1>2, <2>2, <2>3, <2>4, TaskMoves
<1> QED
  BY <1>1, <1>2

\* A job that is taken up is dealt with in at most 2 * MaxChunks + 27 steps of its
\* task, whatever fails meanwhile: each brings it nearer to its end, and nothing
\* else that happens takes it away from there (processJob goes back nowhere).
THEOREM JobComesToAnEnd ==
  Spec => [][\A w \in Workers, j \in Jobs :
               task[w][j].pc # "idle" =>
                 /\ StepsLeft(task[w][j]) \in 1 .. 2 * MaxChunks + 27
                 /\ StepsLeft(task'[w][j]) <= StepsLeft(task[w][j])
                 /\ TaskStep(w, j) => StepsLeft(task'[w][j]) < StepsLeft(task[w][j])]_vars
<1> DEFINE Down == \A w \in Workers, j \in Jobs :
      task[w][j].pc # "idle" =>
        /\ StepsLeft(task[w][j]) \in 1 .. 2 * MaxChunks + 27
        /\ StepsLeft(task'[w][j]) <= StepsLeft(task[w][j])
        /\ TaskStep(w, j) => StepsLeft(task'[w][j]) < StepsLeft(task[w][j])
<1>1. Init => SlotInv
  BY ClaimInvInit, SlotInit DEF SlotInv
<1>2. ASSUME SlotInv, [Next]_vars PROVE Down
  <2> SUFFICES ASSUME NEW w \in Workers, NEW j \in Jobs, task[w][j].pc # "idle"
               PROVE  /\ StepsLeft(task[w][j]) \in 1 .. 2 * MaxChunks + 27
                      /\ StepsLeft(task'[w][j]) <= StepsLeft(task[w][j])
                      /\ TaskStep(w, j) => StepsLeft(task'[w][j]) < StepsLeft(task[w][j])
    OBVIOUS
  <2>t. TypeOK /\ TypeOK' /\ ClaimedIsIdle
    BY <1>2, SlotNext DEF SlotInv, ClaimInv
  <2>l. /\ task[w][j] \in Tasks /\ task'[w][j] \in Tasks
        /\ StepsLeft(task[w][j]) \in 1 .. 2 * MaxChunks + 27
        /\ StepsLeft(task'[w][j]) \in Nat
    <3>1. task[w][j] \in Tasks /\ task'[w][j] \in Tasks
      BY <2>t DEF TypeOK, TaskTypeOK
    <3>2. /\ StepsLeft(task[w][j]) \in 0 .. 2 * MaxChunks + 27 /\ StepsLeft(task[w][j]) > 0
          /\ StepsLeft(task'[w][j]) \in 0 .. 2 * MaxChunks + 27
      BY <3>1, StepsLeftType
    <3> QED
      BY <3>1, <3>2, MaxChunksAssumption
  <2>1. TaskStep(w, j) => StepsLeft(task'[w][j]) < StepsLeft(task[w][j])
    BY <2>t, TaskStepsDown
  <2>2. \/ TaskStep(w, j)
        \/ task'[w][j] = task[w][j]
        \/ task'[w][j] = [task[w][j] EXCEPT !.expired = TRUE]
        \/ task'[w][j] = IdleTask
    <3> USE DEF storeVars, loopVars, sharedVars
    <3>1. CASE \E v \in Workers : LoopStep(v)
      <4>1. PICK v \in Workers : LoopStep(v)
        BY <3>1
      <4>2. CASE Spawn(v)
        <5>1. task[v][loop[v].job].pc = "idle"
          BY <2>t, <4>2 DEF ClaimedIsIdle, Spawn, At, TypeOK, LoopTypeOK
        <5>2. loop[v].job \in Jobs
          BY <2>t, <4>2 DEF Spawn, At, TypeOK, LoopTypeOK
        <5> QED
          BY <2>t, <4>2, <5>1, <5>2 DEF Spawn, Become, TypeOK, TaskTypeOK
      <4>3. CASE ~Spawn(v)
        BY <4>1, <4>3 DEF LoopStep, SelectNext, AbortClaim, Claim, AckClaim, LoseAck, BeginDrain,
             DrainSlot, Stop
      <4> QED
        BY <4>2, <4>3
    <3>2. CASE \E v \in Workers : ProcessEvent(v)
      BY <2>t, <3>2 DEF ProcessEvent, EmptyPoll, Cancel, Crash, Restart, vars, TypeOK, TaskTypeOK
    <3>3. CASE \E v \in Workers, k \in Jobs : TaskStep(v, k) \/ Deadline(v, k)
      <4>1. PICK v \in Workers, k \in Jobs : TaskStep(v, k) \/ Deadline(v, k)
        BY <3>3
      <4>2. CASE <<v, k>> # <<w, j>>
        BY <2>t, <4>1, <4>2, OneTaskMoves
      <4>3. CASE <<v, k>> = <<w, j>>
        <5>1. v = w /\ k = j
          BY <4>3
        <5>2. ASSUME Deadline(w, j) PROVE task'[w][j] = [task[w][j] EXCEPT !.expired = TRUE]
          BY <2>t, <5>2 DEF Deadline, TypeOK, TaskTypeOK
        <5> QED
          BY <4>1, <5>1, <5>2
      <4> QED
        BY <4>2, <4>3
    <3>4. CASE (\E d \in Deliveries : Deliver(d)) \/ ExecuteStray \/ Environment \/ UNCHANGED vars
      BY <3>4 DEF Deliver, ExecuteStray, Environment, Submit, RegisterHook, DeleteHook, Evict, vars
    <3> QED
      BY <1>2, <3>1, <3>2, <3>3, <3>4 DEF Next
  <2>3. task'[w][j] = [task[w][j] EXCEPT !.expired = TRUE]
          => StepsLeft(task'[w][j]) = StepsLeft(task[w][j])
    BY <2>l DEF StepsLeft, Tasks
  <2>4. StepsLeft(IdleTask) = 0
    BY DEF StepsLeft, IdleTask
  <2> QED
    BY <2>l, <2>1, <2>2, <2>3, <2>4
<1>3. SlotInv /\ [Next]_vars => SlotInv'
  BY SlotNext
<1> QED
  BY <1>1, <1>2, <1>3, PTL DEF Spec

-----------------------------------------------------------------------------
(* Rows move forward *)

\* How far the row of a job may be while a task of it is at pc.
Ahead(pc) ==
  CASE pc \in {"download", "lookup", "ingesting", "text"} -> 2
    [] pc = "chunking" -> 3
    [] pc \in {"extracting", "llm"} -> 4
    [] pc \in {"assembling", "store"} -> 5
    [] pc = "completed" -> 6
    [] OTHER -> 7

\* Neither the row nor a statement left behind for it is further.
NotBeyond(j, a) ==
  /\ Rank[jobs[j].status] <= a
  /\ \A s \in stray : s.job = j => Rank[s.status] <= a

Behind(w, j) ==
  /\ task[w][j].pc # "idle" => NotBeyond(j, Ahead(task[w][j].pc))
  /\ loop[w].pc \in {"committed", "claimed"} /\ loop[w].job = j => NotBeyond(j, 2)

RowsBehind == \A w \in Workers, j \in Jobs : Behind(w, j)

ForwardInv == SlotInv /\ RowsBehind

LEMMA Ranks ==
  /\ \A s \in Statuses : Rank[s] \in Nat
  /\ \A s \in Written : Rank[s] = Ahead(s)
  /\ \A pc \in TaskPcs : Ahead(pc) \in Nat /\ 2 <= Ahead(pc)
  /\ Rank["absent"] = 0 /\ Rank["pending"] = 1 /\ Rank["ingesting"] = 2
BY DEF Rank, Ahead, Statuses, Written, InFlight, Terminal, TaskPcs

LEMMA MovesAhead ==
  ASSUME NEW p, NEW q, <<p, q>> \in Moves
  PROVE  Ahead(p) <= Ahead(q) /\ Ahead(p) \in Nat /\ Ahead(q) \in Nat
BY DEF Moves, Ahead

\* The statuses that a step may find in the table and among the strays.
LEMMA RankTypes ==
  ASSUME TypeOK
  PROVE  /\ \A j \in Jobs : jobs[j].status \in Statuses /\ Rank[jobs[j].status] \in Nat
         /\ \A s \in stray : s.job \in Jobs /\ s.status \in Written /\ Rank[s.status] \in Nat
         /\ \A w \in Workers, j \in Jobs : task[w][j].pc \in TaskPcs /\ Ahead(task[w][j].pc) \in Nat
<1>1. \A j \in Jobs : jobs[j].status \in Statuses
  BY DEF TypeOK, StoreTypeOK, Rows
<1>2. \A s \in stray : s.job \in Jobs /\ s.status \in Written
  BY DEF TypeOK, SharedTypeOK, Statements
<1>3. \A w \in Workers, j \in Jobs : task[w][j].pc \in TaskPcs
  BY DEF TypeOK, TaskTypeOK, Tasks
<1>4. Written \subseteq Statuses
  BY DEF Statuses
<1> QED
  BY <1>1, <1>2, <1>3, <1>4, Ranks

LEMMA UpdateStatus ==
  ASSUME TypeOK, NEW j \in Jobs, NEW s \in Written, NEW r, NEW c, Update(j, s, r, c)
  PROVE  jobs'[j].status = s /\ \A k \in Jobs \ {j} : jobs'[k] = jobs[k]
BY DEF Update, Updated, TypeOK, StoreTypeOK, Rows

\* What a process leaves behind are statements its tasks are at.
LEMMA LeftBehindIsAt ==
  ASSUME TypeOK, NEW w \in Workers, NEW J \in SUBSET Jobs, NEW S \in SUBSET Written,
         LeaveBehind(Unfinished(w, J, S)), NEW s \in stray'
  PROVE  \/ s \in stray
         \/ s.job \in J /\ s.status \in Written /\ task[w][s.job].pc = s.status
<1>1. stray' \subseteq stray \cup Unfinished(w, J, S)
  BY DEF LeaveBehind
<1> QED
  BY <1>1 DEF Unfinished

LEMMA ForwardInit == Init => RowsBehind
BY DEF Init, RowsBehind, Behind, IdleTask

\* Where neither the row nor what is left behind of it changes.
LEMMA BehindKept ==
  ASSUME RowsBehind, UNCHANGED jobs, stray' \subseteq stray, NEW w \in Workers, NEW j \in Jobs,
         task'[w][j].pc = task[w][j].pc, loop'[w] = loop[w]
  PROVE  Behind(w, j)'
BY DEF RowsBehind, Behind, NotBeyond

\* The loop: a claimed row is at the first stage, and nobody else writes it.
LEMMA LoopStepForward ==
  ASSUME ForwardInv, TypeOK', NEW w \in Workers, LoopStep(w)
  PROVE  RowsBehind'
<1> USE DEF storeVars, loopVars, sharedVars
<1>t. TypeOK /\ SelectedIsLocked /\ UnclaimedIsFree /\ RowsBehind
  BY DEF ForwardInv, SlotInv, ClaimInv
<1>l. /\ loop \in [Workers -> [pc : LoopPcs, job : Jobs \cup {None}]]
      /\ \A v \in Workers :
           loop[v].pc \in {"selected", "committed", "claimed"} => loop[v].job \in Jobs
      /\ task \in [Workers -> [Jobs -> Tasks]] /\ task' \in [Workers -> [Jobs -> Tasks]]
  BY <1>t DEF TypeOK, LoopTypeOK, TaskTypeOK
<1>1. CASE Claim(w)
  <2>0. PICK c \in Jobs : c = loop[w].job
    BY <1>1, <1>l DEF Claim, At
  <2>1. /\ loop[w].pc = "selected"
        /\ jobs' = [jobs EXCEPT ![c].status = "ingesting"]
        /\ loop' = [loop EXCEPT ![w] = [pc |-> "committed", job |-> c]]
        /\ UNCHANGED <<task, stray>>
    BY <1>1, <2>0 DEF Claim, At, CommitClaim, MoveTo
  <2>2. jobs[c].status = "pending" /\ \A s \in stray : s.job # c
    BY <1>t, <2>0, <2>1 DEF SelectedIsLocked, UnclaimedIsFree, Unclaimed
  <2>3. jobs'[c].status = "ingesting" /\ \A k \in Jobs \ {c} : jobs'[k] = jobs[k]
    BY <1>t, <2>1 DEF TypeOK, StoreTypeOK, Rows
  <2>4. \A a \in Nat : 2 <= a => NotBeyond(c, a)'
    BY <2>1, <2>2, <2>3, Ranks DEF NotBeyond
  <2>5. \A v \in Workers : Behind(v, c)'
    BY <1>t, <2>1, <2>4, Ranks, RankTypes DEF Behind
  <2>6. \A v \in Workers, k \in Jobs \ {c} : Behind(v, k)'
    BY <1>t, <1>l, <2>1, <2>3 DEF RowsBehind, Behind, NotBeyond
  <2> QED
    BY <2>5, <2>6 DEF RowsBehind
<1>2. CASE Spawn(w)
  <2>0. PICK c \in Jobs : c = loop[w].job
    BY <1>2, <1>l DEF Spawn, At
  <2>1. /\ loop[w].pc = "claimed"
        /\ Become(w, c, IdleTask, "download")
        /\ loop' = [loop EXCEPT ![w] = [pc |-> "poll", job |-> None]]
        /\ UNCHANGED <<jobs, stray>>
    BY <1>2, <2>0 DEF Spawn, At, MoveTo
  <2>2. /\ task'[w][c].pc = "download"
        /\ \A v \in Workers, k \in Jobs : <<v, k>> # <<w, c>> => task'[v][k] = task[v][k]
    BY <1>t, <2>1, BecomePc
  <2>3. NotBeyond(c, 2) /\ Ahead("download") = 2
    BY <1>t, <2>0, <2>1 DEF RowsBehind, Behind, Ahead
  <2>4. Behind(w, c)'
    BY <1>l, <2>1, <2>2, <2>3 DEF Behind, NotBeyond
  <2>5. ASSUME NEW v \in Workers, NEW k \in Jobs, <<v, k>> # <<w, c>> PROVE Behind(v, k)'
    BY <1>t, <1>l, <2>1, <2>2, <2>5 DEF RowsBehind, Behind, NotBeyond
  <2> QED
    BY <2>4, <2>5 DEF RowsBehind
<1>3. CASE AckClaim(w)
  <2>1. /\ loop[w].pc = "committed"
        /\ loop' = [loop EXCEPT ![w] = [pc |-> "claimed", job |-> loop[w].job]]
        /\ UNCHANGED <<jobs, task, stray>>
    BY <1>3 DEF AckClaim, At, MoveTo
  <2> QED
    BY <1>t, <1>l, <2>1 DEF RowsBehind, Behind, NotBeyond
<1>4. CASE ~(Claim(w) \/ Spawn(w) \/ AckClaim(w))
  <2>1. /\ UNCHANGED <<jobs, task, stray>>
        /\ \/ UNCHANGED loop
           \/ \E pc \in LoopPcs \ {"committed", "claimed"}, j \in Jobs \cup {None} :
                loop' = [loop EXCEPT ![w] = [pc |-> pc, job |-> j]]
    BY <1>4, <1>l DEF LoopStep, SelectNext, LockOldest, AbortClaim, Rollback, LoseAck,
                BeginDrain, DrainSlot, Stop, MoveTo, LoopPcs
  <2>2. \A v \in Workers : \/ loop'[v] = loop[v]
                           \/ loop'[v].pc \notin {"committed", "claimed"}
    BY <1>l, <2>1
  <2> QED
    BY <1>t, <2>1, <2>2 DEF RowsBehind, Behind, NotBeyond
<1> QED
  BY <1>1, <1>2, <1>3, <1>4

\* A task: what it writes, or leaves behind, is the stage it is at, and where
\* it goes next is no earlier one.
LEMMA TaskStepForward ==
  ASSUME ForwardInv, TypeOK', NEW w \in Workers, NEW j \in Jobs, TaskStep(w, j) \/ Deadline(w, j)
  PROVE  /\ RowsBehind'
         /\ Rank[jobs[j].status] <= Rank[jobs'[j].status]
         /\ \A k \in Jobs \ {j} : jobs'[k] = jobs[k]
<1> USE DEF storeVars, loopVars, sharedVars
<1> DEFINE t == task[w][j]
           u == task'[w][j]
<1>t. TypeOK /\ ExclusiveClaim /\ ClaimedIsIdle /\ RowsBehind
  BY DEF ForwardInv, SlotInv, ClaimInv
<1>1. /\ t.pc # "idle"
      /\ \A v \in Workers, k \in Jobs : <<v, k>> # <<w, j>> => task'[v][k] = task[v][k]
      /\ UNCHANGED loop
      /\ jobs' = jobs \/ Execute(w, j)
  BY <1>t, OneTaskMoves
<1>2. NotBeyond(j, Ahead(t.pc))
  BY <1>t, <1>1 DEF RowsBehind, Behind
<1>3. \A s \in stray' : \/ s \in stray
                        \/ s.job = j /\ s.status \in Written /\ s.status = t.pc
  <2>1. \/ UNCHANGED stray
        \/ LeaveBehind(Unfinished(w, {j}, Written))
        \/ LeaveBehind(Unfinished(w, {j}, Written \ {"failed"}))
    BY DEF TaskStep, Download, CacheHit, CacheMiss, ExtractText, ExtractChunk, EndChunks,
         StoreCache, Execute, Reply, GiveUp, Fetch, Notify, Return, Deadline
  <2>2. {j} \in SUBSET Jobs /\ Written \in SUBSET Written /\ Written \ {"failed"} \in SUBSET Written
    OBVIOUS
  <2>3. CASE UNCHANGED stray
    BY <2>3
  <2>4. CASE LeaveBehind(Unfinished(w, {j}, Written))
    BY <1>t, <2>2, <2>4, LeftBehindIsAt
  <2>5. CASE LeaveBehind(Unfinished(w, {j}, Written \ {"failed"}))
    BY <1>t, <2>2, <2>5, LeftBehindIsAt
  <2> QED
    BY <2>1, <2>3, <2>4, <2>5
<1>4. /\ \/ jobs'[j] = jobs[j]
         \/ t.pc \in Written /\ jobs'[j].status = t.pc
      /\ \A k \in Jobs \ {j} : jobs'[k] = jobs[k]
  <2>1. CASE Execute(w, j)
    <3>1. t.pc \in Written /\ Update(j, t.pc, t.result, t.confidence)
      BY <2>1 DEF Execute
    <3> QED
      BY <1>t, <3>1, UpdateStatus
  <2>2. CASE jobs' = jobs
    BY <2>2
  <2> QED
    BY <1>1, <2>1, <2>2
<1>5. u.pc = "idle" \/ Ahead(t.pc) <= Ahead(u.pc)
  <2>1. <<t.pc, u.pc>> \in Moves \/ u.pc = t.pc \/ u.pc = "idle"
    BY <1>t, TaskMoves
  <2>2. Ahead(t.pc) \in Nat
    BY <1>t, RankTypes
  <2> QED
    BY <2>1, <2>2, MovesAhead
<1>6. Ahead(t.pc) \in Nat /\ Ahead(u.pc) \in Nat
  <2>1. t.pc \in TaskPcs /\ u.pc \in TaskPcs
    BY <1>t DEF TypeOK, TaskTypeOK, Tasks
  <2> QED
    BY <2>1, Ranks
<1>7. Rank[jobs'[j].status] <= Ahead(t.pc) /\ Rank[jobs[j].status] <= Rank[jobs'[j].status]
  BY <1>t, <1>2, <1>4, <1>6, Ranks, RankTypes DEF NotBeyond
<1>8. \A s \in stray' : s.job = j => Rank[s.status] <= Ahead(t.pc)
  BY <1>2, <1>3, <1>6, Ranks DEF NotBeyond
<1>9. Behind(w, j)'
  <2>1. ~(loop[w].pc \in {"committed", "claimed"} /\ loop[w].job = j)
    BY <1>t, <1>1 DEF ClaimedIsIdle
  <2>2. Rank[jobs'[j].status] \in Nat
    BY <1>t, <1>4, Ranks, RankTypes
  <2>3. \A s \in stray' : s.job = j => Rank[s.status] \in Nat
    BY <1>t, <1>3, <1>6, Ranks, RankTypes
  <2>4. ASSUME NEW a \in Nat, Ahead(t.pc) <= a PROVE NotBeyond(j, a)'
    BY <1>6, <1>7, <1>8, <2>2, <2>3, <2>4 DEF NotBeyond
  <2> QED
    BY <1>1, <1>5, <1>6, <2>1, <2>4 DEF Behind
<1>10. ASSUME NEW v \in Workers \ {w} PROVE Behind(v, j)'
  <2>1. Holds(w, j) /\ ~Holds(v, j)
    BY <1>t, <1>1 DEF ExclusiveClaim, Holds
  <2> QED
    BY <1>1, <2>1 DEF Behind, Holds
<1>11. ASSUME NEW v \in Workers, NEW k \in Jobs \ {j} PROVE Behind(v, k)'
  <2>1. \A s \in stray' : s.job = k => s \in stray
    BY <1>3
  <2> QED
    BY <1>t, <1>1, <1>4, <2>1 DEF RowsBehind, Behind, NotBeyond
<1> QED
  BY <1>4, <1>7, <1>9, <1>10, <1>11 DEF RowsBehind

\* A process that is stopped or dies leaves no more behind than its tasks were at.
LEMMA ProcessEventForward ==
  ASSUME ForwardInv, NEW w \in Workers, ProcessEvent(w)
  PROVE  RowsBehind' /\ UNCHANGED jobs
<1> USE DEF storeVars, loopVars, sharedVars
<1>t. TypeOK /\ ExclusiveClaim /\ ClaimedIsIdle /\ RowsBehind
  BY DEF ForwardInv, SlotInv, ClaimInv
<1>l. /\ loop \in [Workers -> [pc : LoopPcs, job : Jobs \cup {None}]]
      /\ task \in [Workers -> [Jobs -> Tasks]]
  BY <1>t DEF TypeOK, LoopTypeOK, TaskTypeOK
<1>1. CASE Cancel(w) \/ Crash(w)
  <2>1. /\ LeaveBehind(Unfinished(w, Jobs, Written))
        /\ task' = task \/ task' = [task EXCEPT ![w] = [j \in Jobs |-> IdleTask]]
        /\ loop' = loop \/ loop' = [loop EXCEPT ![w] = [pc |-> "crashed", job |-> None]]
        /\ UNCHANGED jobs
    BY <1>1 DEF Cancel, Crash, MoveTo
  <2>2. \A v \in Workers, k \in Jobs : task'[v][k].pc = task[v][k].pc \/ task'[v][k].pc = "idle"
    BY <1>l, <2>1 DEF IdleTask
  <2>3. \A v \in Workers : loop'[v] = loop[v] \/ loop'[v].pc \notin {"committed", "claimed"}
    BY <1>l, <2>1
  <2>4. ASSUME NEW v \in Workers, NEW k \in Jobs PROVE Behind(v, k)'
    <3>1. CASE \E s \in stray' : s \notin stray /\ s.job = k
      <4>1. PICK s \in stray' : s \notin stray /\ s.job = k
        BY <3>1
      <4>2. task[w][k].pc \in Written
        BY <1>t, <2>1, <4>1, LeftBehindIsAt
      <4>3. task[w][k].pc # "idle"
        BY <4>2 DEF Written, InFlight, Terminal
      <4>4. \A x \in stray' : x \notin stray /\ x.job = k => Rank[x.status] = Ahead(task[w][k].pc)
        BY <1>t, <2>1, LeftBehindIsAt, Ranks
      <4>5. ASSUME NEW a, a = Ahead(task[w][k].pc) PROVE NotBeyond(k, a)'
        <5>1. NotBeyond(k, a) /\ a \in Nat
          BY <1>t, <4>3, <4>5, RankTypes DEF RowsBehind, Behind
        <5>2. Rank[jobs'[k].status] <= a
          BY <2>1, <5>1 DEF NotBeyond
        <5>3. \A x \in stray' : x.job = k => Rank[x.status] <= a
          BY <4>4, <4>5, <5>1 DEF NotBeyond
        <5> QED
          BY <5>2, <5>3 DEF NotBeyond
      <4>6. CASE v = w
        BY <1>t, <2>2, <2>3, <4>3, <4>5, <4>6 DEF Behind, ClaimedIsIdle
      <4>7. CASE v # w
        <5>1. Holds(w, k) /\ ~Holds(v, k)
          BY <1>t, <4>3, <4>7 DEF ExclusiveClaim, Holds
        <5> QED
          BY <2>2, <2>3, <5>1 DEF Behind, Holds
      <4> QED
        BY <4>6, <4>7
    <3>2. CASE \A s \in stray' : s.job = k => s \in stray
      BY <1>t, <2>1, <2>2, <2>3, <3>2 DEF RowsBehind, Behind, NotBeyond
    <3> QED
      BY <3>1, <3>2
  <2> QED
    BY <2>1, <2>4 DEF RowsBehind
<1>2. CASE EmptyPoll(w) \/ Restart(w)
  <2>1. /\ UNCHANGED <<jobs, task, stray>>
        /\ loop' = loop \/ loop' = [loop EXCEPT ![w] = [pc |-> "poll", job |-> None]]
    BY <1>2 DEF EmptyPoll, Restart, MoveTo, vars
  <2>2. \A v \in Workers : loop'[v] = loop[v] \/ loop'[v].pc \notin {"committed", "claimed"}
    BY <1>l, <2>1
  <2> QED
    BY <1>t, <2>1, <2>2 DEF RowsBehind, Behind, NotBeyond
<1> QED
  BY <1>1, <1>2 DEF ProcessEvent

\* A late statement writes no more than it was let.
LEMMA OtherStepForward ==
  ASSUME ForwardInv, TypeOK',
         \/ \E d \in Deliveries : Deliver(d)
         \/ ExecuteStray
         \/ Environment
         \/ UNCHANGED vars
  PROVE  /\ RowsBehind'
         /\ ExecuteStray \/ \A j \in Jobs : Rank[jobs[j].status] <= Rank[jobs'[j].status]
<1> USE DEF storeVars, loopVars, sharedVars
<1>t. TypeOK /\ UnclaimedIsFree /\ RowsBehind
  BY DEF ForwardInv, SlotInv, ClaimInv
<1>1. CASE ExecuteStray
  <2>1. PICK s \in stray : Update(s.job, s.status, s.result, s.confidence)
    BY <1>1 DEF ExecuteStray
  <2>2. s.job \in Jobs /\ s.status \in Written
    BY <1>t, RankTypes
  <2>3. jobs'[s.job].status = s.status /\ \A k \in Jobs \ {s.job} : jobs'[k] = jobs[k]
    BY <1>t, <2>1, <2>2, UpdateStatus
  <2>4. stray' \subseteq stray /\ UNCHANGED <<loop, task>>
    BY <1>1 DEF ExecuteStray
  <2>5. ASSUME NEW k \in Jobs, NEW a, NotBeyond(k, a) PROVE NotBeyond(k, a)'
    BY <2>2, <2>3, <2>4, <2>5 DEF NotBeyond
  <2> QED
    BY <1>1, <1>t, <2>4, <2>5 DEF RowsBehind, Behind
<1>2. ASSUME NEW j \in Jobs, Submit(j)
      PROVE  RowsBehind' /\ \A k \in Jobs : Rank[jobs[k].status] <= Rank[jobs'[k].status]
  <2>1. /\ jobs[j].status = "absent" /\ jobs' = [jobs EXCEPT ![j] = Blank("pending")]
        /\ UNCHANGED <<loop, task, stray>>
    BY <1>2 DEF Submit, Create
  <2>2. jobs'[j].status = "pending" /\ \A k \in Jobs \ {j} : jobs'[k] = jobs[k]
    BY <1>t, <2>1 DEF TypeOK, StoreTypeOK, Blank
  <2>3. \A w \in Workers : ~Holds(w, j)
    BY <1>t, <2>1 DEF UnclaimedIsFree, Unclaimed
  <2>4. \A w \in Workers : Behind(w, j)'
    BY <2>1, <2>3 DEF Behind, Holds
  <2>5. \A w \in Workers, k \in Jobs \ {j} : Behind(w, k)'
    BY <1>t, <2>1, <2>2 DEF RowsBehind, Behind, NotBeyond
  <2>6. \A k \in Jobs : Rank[jobs[k].status] <= Rank[jobs'[k].status]
    BY <1>t, <2>1, <2>2, Ranks, RankTypes
  <2> QED
    BY <2>4, <2>5, <2>6 DEF RowsBehind
<1>3. CASE UNCHANGED <<jobs, loop, task, stray>>
  BY <1>t, <1>3, RankTypes DEF RowsBehind, Behind, NotBeyond
<1> QED
  BY <1>1, <1>2, <1>3 DEF Deliver, Environment, RegisterHook, DeleteHook, Evict, vars

\* Every step keeps the invariant, and moves rows forward unless it is a late
\* statement's.
LEMMA ForwardNext ==
  ASSUME ForwardInv, [Next]_vars
  PROVE  /\ ForwardInv'
         /\ ExecuteStray \/ \A j \in Jobs : Rank[jobs[j].status] <= Rank[jobs'[j].status]
<1>1. SlotInv' /\ TypeOK' /\ TypeOK
  BY SlotNext DEF ForwardInv, SlotInv, ClaimInv
<1>2. ASSUME NEW w \in Workers, LoopStep(w)
      PROVE  \A j \in Jobs : Rank[jobs[j].status] <= Rank[jobs'[j].status]
  <2>1. CASE Claim(w)
    <3>1. /\ loop[w].job \in Jobs /\ jobs[loop[w].job].status = "pending"
          /\ jobs' = [jobs EXCEPT ![loop[w].job].status = "ingesting"]
      BY <2>1, <1>1 DEF Claim, At, CommitClaim, ForwardInv, SlotInv, ClaimInv, SelectedIsLocked,
                        TypeOK, LoopTypeOK
    <3>2. /\ jobs'[loop[w].job].status = "ingesting"
          /\ \A k \in Jobs \ {loop[w].job} : jobs'[k] = jobs[k]
      BY <1>1, <3>1 DEF TypeOK, StoreTypeOK, Rows
    <3> QED
      BY <1>1, <3>1, <3>2, Ranks, RankTypes
  <2>2. CASE ~Claim(w)
    <3>1. UNCHANGED jobs
      BY <1>2, <2>2 DEF LoopStep, SelectNext, LockOldest, AbortClaim, Rollback, AckClaim, LoseAck,
                  Spawn, BeginDrain, DrainSlot, Stop, storeVars
    <3> QED
      BY <1>1, <3>1, RankTypes
  <2> QED
    BY <2>1, <2>2
<1>3. ASSUME NEW w \in Workers, LoopStep(w) PROVE RowsBehind'
  BY <1>1, <1>3, LoopStepForward
<1>4. ASSUME NEW w \in Workers, NEW j \in Jobs, TaskStep(w, j) \/ Deadline(w, j)
      PROVE  RowsBehind' /\ \A k \in Jobs : Rank[jobs[k].status] <= Rank[jobs'[k].status]
  BY <1>1, <1>4, TaskStepForward, RankTypes
<1>5. ASSUME NEW w \in Workers, ProcessEvent(w)
      PROVE  RowsBehind' /\ \A k \in Jobs : Rank[jobs[k].status] <= Rank[jobs'[k].status]
  BY <1>1, <1>5, ProcessEventForward, RankTypes
<1>6. RowsBehind' /\ (ExecuteStray \/ \A j \in Jobs : Rank[jobs[j].status] <= Rank[jobs'[j].status])
  BY <1>1, <1>2, <1>3, <1>4, <1>5, OtherStepForward DEF Next
<1> QED
  BY <1>1, <1>6 DEF ForwardInv

\* No write that a worker waits for takes a row back, though no statement looks
\* at the status it overwrites.
THEOREM RowsMoveForward == Spec => ForwardOnly
<1>1. Init => ForwardInv
  BY ClaimInvInit, SlotInit, ForwardInit DEF ForwardInv, SlotInv
<1>2. ForwardInv /\ [Next]_vars => ForwardInv'
  BY ForwardNext
<1>3. ForwardInv /\ [Next]_vars
        => [ExecuteStray \/ \A j \in Jobs : Rank[jobs[j].status] <= Rank[jobs'[j].status]]_jobs
  BY ForwardNext
<1> QED
  BY <1>1, <1>2, <1>3, PTL DEF Spec, ForwardOnly

-----------------------------------------------------------------------------
(* What is announced is final *)

\* No delivery starts, and none changes what it delivers.
NothingAnnounced ==
  \A d \in Deliveries :
    /\ delivery'[d].pc = "idle" <=> delivery[d].pc = "idle"
    /\ delivery'[d].payload = delivery[d].payload

LEMMA DeliveriesKept ==
  ASSUME TypeOK,
         \/ UNCHANGED delivery
         \/ \E S : D!CutAll(S) \/ D!KillAll(S)
         \/ \E d \in Deliveries : D!DeliveryStep(d)
  PROVE  NothingAnnounced
<1>1. delivery \in [Deliveries -> D!DeliveryRecords]
  BY DEF TypeOK, SharedTypeOK, D!DeliveryTypeOK
<1> USE DEF D!DeliveryRecords, D!Running, D!Ended, NothingAnnounced
<1>2. ASSUME NEW S, D!CutAll(S) PROVE NothingAnnounced
  BY <1>1, <1>2 DEF D!CutAll
<1>3. ASSUME NEW S, D!KillAll(S) PROVE NothingAnnounced
  BY <1>1, <1>3 DEF D!KillAll
<1>4. ASSUME NEW d \in Deliveries, D!DeliveryStep(d) PROVE NothingAnnounced
  <2>1. CASE D!Accepted(d) BY <1>1, <2>1 DEF D!Accepted
  <2>2. CASE D!Refused(d) BY <1>1, <2>2 DEF D!Refused, D!AfterFailure
  <2>3. CASE D!Unreached(d) BY <1>1, <2>3 DEF D!Unreached, D!AfterFailure
  <2>4. CASE D!Retry(d) BY <1>1, <2>4 DEF D!Retry, D!Repeats, D!NextAttempt
  <2>5. CASE D!Abandon(d) BY <1>1, <2>5 DEF D!Abandon
  <2>6. CASE D!Unsendable(d) BY <1>1, <2>6 DEF D!Unsendable
  <2> QED BY <1>4, <2>1, <2>2, <2>3, <2>4, <2>5, <2>6 DEF D!DeliveryStep
<1> QED
  BY <1>2, <1>3, <1>4

\* Without late statements the row is as the task that writes it left it, and
\* what it fetched is still what a poll returns.
TasksKnow ==
  \A w \in Workers, j \in Jobs :
    /\ task[w][j].pc \in Written /\ task[w][j].done => jobs[j].status = task[w][j].pc
    /\ task[w][j].pc \in {"fetch", "notify"} => jobs[j].status = "completed"
    /\ task[w][j].pc = "notify" => task[w][j].payload = jobs[j]

\* AnnouncedIsFinal, and why it stays: nobody is left who would write.
Final(w, j, h) ==
  delivery[<<w, j, h>>].pc # "idle" =>
    /\ delivery[<<w, j, h>>].payload = jobs[j]
    /\ jobs[j].status = "completed"
    /\ TenantOf[h] = TenantOf[j]
    /\ \A v \in Workers \ {w} : delivery[<<v, j, h>>].pc = "idle"
    /\ \A v \in Workers : Holds(v, j) => task[v][j].pc = "return"

AllFinal == \A w \in Workers, j \in Jobs, h \in Hooks : Final(w, j, h)

AnnouncedInv == SlotInv /\ stray = {} /\ TasksKnow /\ AllFinal

LEMMA NothingLeftBehind ==
  ASSUME "late" \notin Faults, NEW statements, LeaveBehind(statements), stray = {}
  PROVE  stray' = {}
BY DEF LeaveBehind

LEMMA AnnouncedInit == Init => stray = {} /\ TasksKnow /\ AllFinal
BY DEF Init, TasksKnow, AllFinal, Final, IdleTask, Written, InFlight, Terminal,
       D!DeliveryInit, D!Idle, Deliveries

\* Deliveries of a job whose row stays, and which nobody comes to hold, are as
\* final as they were.
LEMMA FinalKept ==
  ASSUME AllFinal, NEW j \in Jobs, jobs'[j] = jobs[j],
         \A v \in Workers, h \in Hooks :
           /\ delivery'[<<v, j, h>>].pc = "idle" <=> delivery[<<v, j, h>>].pc = "idle"
           /\ delivery'[<<v, j, h>>].payload = delivery[<<v, j, h>>].payload,
         \A v \in Workers : Holds(v, j)' => Holds(v, j) /\ task'[v][j].pc = task[v][j].pc
  PROVE  \A w \in Workers, h \in Hooks : Final(w, j, h)'
BY DEF AllFinal, Final

LEMMA LoopStepFinal ==
  ASSUME AnnouncedInv, TypeOK', NEW w \in Workers, LoopStep(w)
  PROVE  stray' = {} /\ TasksKnow' /\ AllFinal'
<1> USE DEF storeVars, loopVars, sharedVars
<1>t. TypeOK /\ SelectedIsLocked /\ UnclaimedIsFree /\ ClaimedIsIdle /\ TasksKnow /\ AllFinal /\ stray = {}
  BY DEF AnnouncedInv, SlotInv, ClaimInv
<1>l. /\ loop \in [Workers -> [pc : LoopPcs, job : Jobs \cup {None}]]
      /\ \A v \in Workers :
           loop[v].pc \in {"selected", "committed", "claimed"} => loop[v].job \in Jobs
      /\ task \in [Workers -> [Jobs -> Tasks]] /\ task' \in [Workers -> [Jobs -> Tasks]]
  BY <1>t DEF TypeOK, LoopTypeOK, TaskTypeOK
<1>0. UNCHANGED stray
  BY DEF LoopStep, SelectNext, AbortClaim, Claim, AckClaim, LoseAck, Spawn,
         BeginDrain, DrainSlot, Stop
<1>n. NothingAnnounced
  <2>1. UNCHANGED delivery \/ D!KillAll(DeliveriesOf(w))
    BY DEF LoopStep, SelectNext, AbortClaim, Claim, AckClaim, LoseAck, Spawn,
           BeginDrain, DrainSlot, Stop
  <2> QED
    BY <1>t, <2>1, DeliveriesKept
<1>d. \A v \in Workers, j \in Jobs, h \in Hooks :
        /\ delivery'[<<v, j, h>>].pc = "idle" <=> delivery[<<v, j, h>>].pc = "idle"
        /\ delivery'[<<v, j, h>>].payload = delivery[<<v, j, h>>].payload
  BY <1>n DEF NothingAnnounced, Deliveries
<1>1. CASE Claim(w)
  <2>1. PICK c \in Jobs : c = loop[w].job
    BY <1>1, <1>l DEF Claim, At
  <2>2. /\ loop[w].pc = "selected"
        /\ jobs' = [jobs EXCEPT ![c].status = "ingesting"]
        /\ loop' = [loop EXCEPT ![w] = [pc |-> "committed", job |-> c]]
        /\ UNCHANGED task
    BY <1>1, <2>1 DEF Claim, At, CommitClaim, MoveTo
  <2>3. jobs[c].status = "pending" /\ \A v \in Workers : ~Holds(v, c)
    BY <1>t, <2>1, <2>2 DEF SelectedIsLocked, UnclaimedIsFree, Unclaimed
  <2>4. \A k \in Jobs \ {c} : jobs'[k] = jobs[k]
    BY <1>t, <2>2 DEF TypeOK, StoreTypeOK
  <2>5. \A v \in Workers : task[v][c].pc = "idle"
    BY <2>3 DEF Holds
  <2>6. TasksKnow'
    BY <1>t, <2>2, <2>4, <2>5 DEF TasksKnow, Written, InFlight, Terminal
  <2>7. \A v \in Workers, h \in Hooks : Final(v, c, h)'
    BY <1>t, <1>d, <2>3 DEF AllFinal, Final
  <2>8. ASSUME NEW k \in Jobs \ {c} PROVE \A v \in Workers, h \in Hooks : Final(v, k, h)'
    <3>1. \A v \in Workers : Holds(v, k)' => Holds(v, k) /\ task'[v][k].pc = task[v][k].pc
      BY <1>l, <2>2 DEF Holds
    <3> QED
      BY <1>t, <1>d, <2>4, <3>1, FinalKept
  <2> QED
    BY <1>t, <1>0, <2>6, <2>7, <2>8 DEF AllFinal
<1>2. CASE Spawn(w)
  <2>1. PICK c \in Jobs : c = loop[w].job
    BY <1>2, <1>l DEF Spawn, At
  <2>2. /\ loop[w].pc = "claimed"
        /\ Become(w, c, IdleTask, "download")
        /\ loop' = [loop EXCEPT ![w] = [pc |-> "poll", job |-> None]]
        /\ UNCHANGED jobs
    BY <1>2, <2>1 DEF Spawn, At, MoveTo
  <2>3. /\ task'[w][c].pc = "download"
        /\ \A v \in Workers, k \in Jobs : <<v, k>> # <<w, c>> => task'[v][k] = task[v][k]
    BY <1>t, <2>2, BecomePc
  <2>4. TasksKnow'
    BY <1>t, <2>2, <2>3 DEF TasksKnow, Written, InFlight, Terminal
  <2>5. Holds(w, c) /\ task[w][c].pc = "idle"
    BY <1>t, <2>1, <2>2 DEF Holds, ClaimedIsIdle
  <2>6. \A v \in Workers, h \in Hooks : Final(v, c, h)'
    BY <1>t, <1>d, <2>5 DEF AllFinal, Final
  <2>7. ASSUME NEW k \in Jobs \ {c} PROVE \A v \in Workers, h \in Hooks : Final(v, k, h)'
    <3>1. \A v \in Workers : Holds(v, k)' => Holds(v, k) /\ task'[v][k].pc = task[v][k].pc
      BY <1>l, <2>2, <2>3 DEF Holds
    <3> QED
      BY <1>t, <1>d, <2>2, <3>1, FinalKept
  <2> QED
    BY <1>t, <1>0, <2>4, <2>6, <2>7 DEF AllFinal
<1>3. CASE ~(Claim(w) \/ Spawn(w))
  <2>1. /\ UNCHANGED <<jobs, task>>
        /\ \/ UNCHANGED loop
           \/ loop[w].pc = "committed" /\ loop' = [loop EXCEPT ![w] = [pc |-> "claimed", job |-> loop[w].job]]
           \/ \E pc \in LoopPcs \ {"committed", "claimed"}, j \in Jobs \cup {None} :
                loop' = [loop EXCEPT ![w] = [pc |-> pc, job |-> j]]
    BY <1>3, <1>l DEF LoopStep, SelectNext, LockOldest, AbortClaim, Rollback, AckClaim, LoseAck,
                BeginDrain, DrainSlot, Stop, MoveTo, LoopPcs, At
  <2>2. \A v \in Workers, k \in Jobs : Holds(v, k)' => Holds(v, k) /\ task'[v][k].pc = task[v][k].pc
    BY <1>l, <2>1 DEF Holds
  <2>3. ASSUME NEW k \in Jobs PROVE \A v \in Workers, h \in Hooks : Final(v, k, h)'
    BY <1>t, <1>d, <2>1, <2>2, FinalKept
  <2> QED
    BY <1>t, <1>0, <2>1, <2>3 DEF AllFinal, TasksKnow
<1> QED
  BY <1>1, <1>2, <1>3

\* A task announces what it fetched after its Complete was acknowledged, and
\* writes nothing after that.
LEMMA TaskStepFinal ==
  ASSUME "late" \notin Faults, AnnouncedInv, TypeOK', NEW w \in Workers, NEW j \in Jobs,
         TaskStep(w, j) \/ Deadline(w, j)
  PROVE  stray' = {} /\ TasksKnow' /\ AllFinal'
<1> USE DEF storeVars, loopVars, sharedVars
<1> DEFINE t == task[w][j]
           u == task'[w][j]
<1>t. TypeOK /\ ExclusiveClaim /\ ClaimedIsIdle /\ TasksKnow /\ AllFinal /\ stray = {}
  BY DEF AnnouncedInv, SlotInv, ClaimInv
<1>1. /\ t.pc # "idle"
      /\ \A v \in Workers, k \in Jobs : <<v, k>> # <<w, j>> => task'[v][k] = task[v][k]
      /\ UNCHANGED loop
      /\ jobs' = jobs \/ Execute(w, j)
  BY <1>t, OneTaskMoves
<1>2. /\ Holds(w, j) /\ ~(loop[w].pc \in {"committed", "claimed"} /\ loop[w].job = j)
      /\ \A v \in Workers \ {w} : ~Holds(v, j) /\ task[v][j].pc = "idle"
  BY <1>t, <1>1 DEF Holds, ClaimedIsIdle, ExclusiveClaim
<1>3. stray' = {}
  <2>1. UNCHANGED stray \/ \E statements : LeaveBehind(statements)
    BY DEF TaskStep, Download, CacheHit, CacheMiss, ExtractText, ExtractChunk, EndChunks,
         StoreCache, Execute, Reply, GiveUp, Fetch, Notify, Return, Deadline
  <2> QED
    BY <1>t, <2>1, NothingLeftBehind
<1>4. /\ \/ jobs'[j] = jobs[j]
         \/ t.pc \in Written /\ jobs'[j].status = t.pc
      /\ \A k \in Jobs \ {j} : jobs'[k] = jobs[k]
  <2>1. CASE Execute(w, j)
    <3>1. t.pc \in Written /\ Update(j, t.pc, t.result, t.confidence)
      BY <2>1 DEF Execute
    <3> QED
      BY <1>t, <3>1, UpdateStatus
  <2>2. CASE jobs' = jobs
    BY <2>2
  <2> QED
    BY <1>1, <2>1, <2>2
<1>5. /\ u.pc \in Written /\ u.done => jobs'[j].status = u.pc
      /\ u.pc \in {"fetch", "notify"} => jobs'[j].status = "completed"
      /\ u.pc = "notify" => u.payload = jobs'[j]
  <2>1. CASE /\ <<t.pc, u.pc>> \in Moves /\ ~u.done /\ UNCHANGED jobs
             /\ u.pc = "fetch" => t.done
             /\ u.pc = "notify" => u.payload = jobs[j]
    <3>1. u.pc = "fetch" => t.pc = "completed"
      BY <2>1 DEF Moves
    <3>2. u.pc = "notify" => t.pc = "fetch"
      BY <2>1 DEF Moves
    <3>3. "completed" \in Written
      BY DEF Written, Terminal
    <3> QED
      BY <1>t, <2>1, <3>1, <3>2, <3>3 DEF TasksKnow
  <2>2. CASE Execute(w, j) /\ u.pc = t.pc
    <3>1. t.pc \in Written /\ Update(j, t.pc, t.result, t.confidence)
      BY <2>2 DEF Execute
    <3>2. jobs'[j].status = t.pc /\ t.pc \notin {"fetch", "notify"}
      BY <1>t, <3>1, UpdateStatus DEF Written, InFlight, Terminal
    <3> QED
      BY <2>2, <3>2
  <2>3. CASE UNCHANGED jobs /\ u.pc = t.pc /\ u.done = t.done /\ u.payload = t.payload
    BY <1>t, <2>3 DEF TasksKnow
  <2>4. CASE u.pc = "idle"
    BY <2>4 DEF Written, InFlight, Terminal
  <2> QED
    BY <1>t, <2>1, <2>2, <2>3, <2>4, TaskMoves
<1>6. TasksKnow'
  <2> SUFFICES ASSUME NEW v \in Workers, NEW k \in Jobs
               PROVE  /\ task'[v][k].pc \in Written /\ task'[v][k].done => jobs'[k].status = task'[v][k].pc
                      /\ task'[v][k].pc \in {"fetch", "notify"} => jobs'[k].status = "completed"
                      /\ task'[v][k].pc = "notify" => task'[v][k].payload = jobs'[k]
    BY DEF TasksKnow
  <2>1. CASE v = w /\ k = j
    BY <1>5, <2>1
  <2>2. CASE k # j
    BY <1>t, <1>1, <1>4, <2>2 DEF TasksKnow
  <2>3. CASE v # w /\ k = j
    BY <1>1, <1>2, <2>3 DEF Written, InFlight, Terminal
  <2> QED
    BY <2>1, <2>2, <2>3
<1>7. \A v \in Workers, k \in Jobs \ {j} : Holds(v, k)' => Holds(v, k) /\ task'[v][k].pc = task[v][k].pc
  BY <1>1 DEF Holds
<1>8. \A v \in Workers : Holds(v, j)' => v = w /\ task'[v][j].pc # "idle"
  BY <1>1, <1>2 DEF Holds
<1>9. CASE NothingAnnounced
  <2>1. \A v \in Workers, k \in Jobs, h \in Hooks :
          /\ delivery'[<<v, k, h>>].pc = "idle" <=> delivery[<<v, k, h>>].pc = "idle"
          /\ delivery'[<<v, k, h>>].payload = delivery[<<v, k, h>>].payload
    BY <1>9 DEF NothingAnnounced, Deliveries
  <2>2. ASSUME NEW k \in Jobs \ {j} PROVE \A v \in Workers, h \in Hooks : Final(v, k, h)'
    BY <1>t, <1>4, <1>7, <2>1, FinalKept
  <2>3. CASE t.pc # "return"
    <3>1. \A v \in Workers, h \in Hooks : delivery[<<v, j, h>>].pc = "idle"
      BY <1>t, <1>2, <2>3 DEF AllFinal, Final
    <3>2. \A v \in Workers, h \in Hooks : Final(v, j, h)'
      BY <2>1, <3>1 DEF Final
    <3> QED
      BY <1>3, <1>6, <2>2, <3>2 DEF AllFinal
  <2>4. CASE t.pc = "return"
    <3>1. u.pc \in {"return", "idle"}
      BY <1>t, <2>4, TaskMoves DEF Moves
    <3>2. jobs'[j] = jobs[j]
      BY <1>4, <2>4 DEF Written, InFlight, Terminal
    <3>3. \A v \in Workers : Holds(v, j)' => Holds(v, j) /\ task'[v][j].pc = task[v][j].pc
      BY <1>2, <1>8, <2>4, <3>1
    <3>4. \A v \in Workers, h \in Hooks : Final(v, j, h)'
      BY <1>t, <2>1, <3>2, <3>3, FinalKept
    <3> QED
      BY <1>3, <1>6, <2>2, <3>4 DEF AllFinal
  <2> QED
    BY <2>3, <2>4
<1>10. CASE Notify(w, j) /\ D!StartAll({w} \X {j} \X ListActive(TenantOf[j]), t.payload)
  <2>1. t.pc = "notify" /\ UNCHANGED jobs /\ GoTo(w, j, "return")
    BY <1>10 DEF Notify, In
  <2>2. u.pc = "return"
    BY <1>t, <2>1, BecomePc DEF GoTo
  <2>3. /\ jobs[j].status = "completed" /\ t.payload = jobs[j]
        /\ \A v \in Workers, h \in Hooks : delivery[<<v, j, h>>].pc = "idle"
    BY <1>t, <1>2, <2>1 DEF TasksKnow, AllFinal, Final
  <2>4. \A v \in Workers, k \in Jobs, h \in Hooks :
          IF v = w /\ k = j /\ h \in ListActive(TenantOf[j])
          THEN delivery'[<<v, k, h>>].payload = t.payload
          ELSE delivery'[<<v, k, h>>] = delivery[<<v, k, h>>]
    BY <1>10 DEF D!StartAll, Deliveries
  <2>5. ASSUME NEW k \in Jobs \ {j} PROVE \A v \in Workers, h \in Hooks : Final(v, k, h)'
    <3>1. \A v \in Workers, h \in Hooks : delivery'[<<v, k, h>>] = delivery[<<v, k, h>>]
      BY <2>4
    <3> QED
      BY <1>t, <1>4, <1>7, <3>1, FinalKept
  <2>6. ASSUME NEW v \in Workers, NEW h \in Hooks PROVE Final(v, j, h)'
    <3>1. CASE v = w /\ h \in ListActive(TenantOf[j])
      <4>1. TenantOf[h] = TenantOf[j] /\ delivery'[<<v, j, h>>].payload = jobs[j]
        BY <2>3, <2>4, <3>1 DEF ListActive
      <4>2. \A x \in Workers \ {w} : delivery'[<<x, j, h>>].pc = "idle"
        BY <2>3, <2>4
      <4> QED
        BY <1>8, <2>1, <2>2, <2>3, <3>1, <4>1, <4>2 DEF Final
    <3>2. CASE ~(v = w /\ h \in ListActive(TenantOf[j]))
      <4>1. delivery'[<<v, j, h>>] = delivery[<<v, j, h>>]
        BY <2>4, <3>2
      <4> QED
        BY <2>3, <4>1 DEF Final
    <3> QED
      BY <3>1, <3>2
  <2> QED
    BY <1>3, <1>6, <2>5, <2>6 DEF AllFinal
<1>11. NothingAnnounced \/ (Notify(w, j) /\ D!StartAll({w} \X {j} \X ListActive(TenantOf[j]), t.payload))
  <2>1. \/ UNCHANGED delivery \/ \E S : D!CutAll(S)
        \/ Notify(w, j) /\ D!StartAll({w} \X {j} \X ListActive(TenantOf[j]), t.payload)
    BY DEF TaskStep, Download, CacheHit, CacheMiss, ExtractText, ExtractChunk, EndChunks,
         StoreCache, Execute, Reply, GiveUp, Fetch, Notify, Return, Deadline
  <2> QED
    BY <1>t, <2>1, DeliveriesKept
<1> QED
  BY <1>9, <1>10, <1>11

LEMMA OtherStepFinal ==
  ASSUME "late" \notin Faults, AnnouncedInv, TypeOK',
         \/ \E w \in Workers : ProcessEvent(w)
         \/ \E d \in Deliveries : Deliver(d)
         \/ ExecuteStray
         \/ Environment
         \/ UNCHANGED vars
  PROVE  stray' = {} /\ TasksKnow' /\ AllFinal'
<1> USE DEF storeVars, loopVars, sharedVars
<1>t. TypeOK /\ UnclaimedIsFree /\ TasksKnow /\ AllFinal /\ stray = {}
  BY DEF AnnouncedInv, SlotInv, ClaimInv
<1>l. /\ loop \in [Workers -> [pc : LoopPcs, job : Jobs \cup {None}]]
      /\ task \in [Workers -> [Jobs -> Tasks]]
  BY <1>t DEF TypeOK, LoopTypeOK, TaskTypeOK
<1>n. ASSUME NothingAnnounced
      PROVE \A v \in Workers, j \in Jobs, h \in Hooks :
              /\ delivery'[<<v, j, h>>].pc = "idle" <=> delivery[<<v, j, h>>].pc = "idle"
              /\ delivery'[<<v, j, h>>].payload = delivery[<<v, j, h>>].payload
  BY <1>n DEF NothingAnnounced, Deliveries
<1>1. ASSUME NEW w \in Workers, Cancel(w) \/ Crash(w) \/ Restart(w)
      PROVE  stray' = {} /\ TasksKnow' /\ AllFinal'
  <2>1. /\ UNCHANGED stray \/ \E statements : LeaveBehind(statements)
        /\ task' = task \/ task' = [task EXCEPT ![w] = [j \in Jobs |-> IdleTask]]
        /\ \/ loop' = loop
           \/ \E pc \in {"poll", "crashed"} : loop' = [loop EXCEPT ![w] = [pc |-> pc, job |-> None]]
        /\ UNCHANGED jobs
        /\ UNCHANGED delivery \/ \E S : D!CutAll(S) \/ D!KillAll(S)
    BY <1>1 DEF Cancel, Crash, Restart, MoveTo
  <2>2. stray' = {} /\ NothingAnnounced
    BY <1>t, <2>1, NothingLeftBehind, DeliveriesKept
  <2>3. \A v \in Workers, k \in Jobs : task'[v][k] = task[v][k] \/ task'[v][k].pc = "idle"
    BY <1>l, <2>1 DEF IdleTask
  <2>4. \A v \in Workers : \/ loop'[v] = loop[v] /\ task'[v] = task[v]
                           \/ loop'[v].pc \notin {"committed", "claimed"}
    BY <1>1, <1>l DEF Cancel, Crash, Restart, MoveTo
  <2>5. TasksKnow'
    BY <1>t, <2>1, <2>3 DEF TasksKnow, Written, InFlight, Terminal
  <2>6. ASSUME NEW k \in Jobs PROVE \A v \in Workers, h \in Hooks : Final(v, k, h)'
    <3>1. ASSUME NEW v \in Workers, Holds(v, k)' PROVE Holds(v, k) /\ task'[v][k].pc = task[v][k].pc
      <4>1. CASE task'[v][k] = task[v][k]
        BY <2>4, <3>1, <4>1 DEF Holds
      <4>2. CASE task'[v][k].pc = "idle"
        BY <2>3, <2>4, <3>1, <4>2 DEF Holds
      <4> QED
        BY <2>3, <4>1, <4>2
    <3> QED
      BY <1>t, <1>n, <2>1, <2>2, <3>1, FinalKept
  <2> QED
    BY <2>2, <2>5, <2>6 DEF AllFinal
<1>2. ASSUME NEW j \in Jobs, Submit(j) PROVE stray' = {} /\ TasksKnow' /\ AllFinal'
  <2>1. /\ jobs[j].status = "absent" /\ jobs' = [jobs EXCEPT ![j] = Blank("pending")]
        /\ UNCHANGED <<loop, task, stray, delivery>>
    BY <1>2 DEF Submit, Create
  <2>2. \A k \in Jobs \ {j} : jobs'[k] = jobs[k]
    BY <1>t, <2>1 DEF TypeOK, StoreTypeOK
  <2>3. \A w \in Workers : ~Holds(w, j)
    BY <1>t, <2>1 DEF UnclaimedIsFree, Unclaimed
  <2>4. TasksKnow'
    BY <1>t, <2>1, <2>2, <2>3 DEF TasksKnow, Holds, Written, InFlight, Terminal
  <2>5. \A w \in Workers, h \in Hooks : Final(w, j, h)'
    BY <1>t, <2>1 DEF AllFinal, Final
  <2>6. \A k \in Jobs \ {j}, w \in Workers, h \in Hooks : Final(w, k, h)'
    BY <1>t, <2>1, <2>2 DEF AllFinal, Final, Holds
  <2> QED
    BY <1>t, <2>1, <2>4, <2>5, <2>6 DEF AllFinal
<1>3. CASE UNCHANGED <<jobs, loop, task, stray>> /\ NothingAnnounced
  <2>1. \A k \in Jobs, w \in Workers : Holds(w, k)' => Holds(w, k) /\ task'[w][k].pc = task[w][k].pc
    BY <1>3 DEF Holds
  <2>2. ASSUME NEW k \in Jobs PROVE \A v \in Workers, h \in Hooks : Final(v, k, h)'
    BY <1>t, <1>n, <1>3, <2>1, FinalKept
  <2> QED
    BY <1>t, <1>3, <2>2 DEF AllFinal, TasksKnow
<1>4. ~ExecuteStray
  BY <1>t DEF ExecuteStray
<1>5. \/ \E w \in Workers : Cancel(w) \/ Crash(w) \/ Restart(w)
      \/ \E j \in Jobs : Submit(j)
      \/ UNCHANGED <<jobs, loop, task, stray>> /\ (UNCHANGED delivery \/ \E d \in Deliveries : D!DeliveryStep(d))
  BY <1>4 DEF ProcessEvent, EmptyPoll, Deliver, Environment, RegisterHook, DeleteHook, Evict, vars
<1>6. \/ \E w \in Workers : Cancel(w) \/ Crash(w) \/ Restart(w)
      \/ \E j \in Jobs : Submit(j)
      \/ UNCHANGED <<jobs, loop, task, stray>> /\ NothingAnnounced
  BY <1>t, <1>5, DeliveriesKept
<1> QED
  BY <1>1, <1>2, <1>3, <1>6

LEMMA AnnouncedNext ==
  ASSUME "late" \notin Faults
  PROVE  AnnouncedInv /\ [Next]_vars => AnnouncedInv'
<1> SUFFICES ASSUME AnnouncedInv, [Next]_vars PROVE AnnouncedInv'
  OBVIOUS
<1>1. SlotInv' /\ TypeOK'
  BY SlotNext DEF AnnouncedInv, SlotInv, ClaimInv
<1> QED
  BY <1>1, LoopStepFinal, TaskStepFinal, OtherStepFinal DEF Next, AnnouncedInv

\* Where no statement executes after its caller gave it up, what is announced
\* is what the row keeps, through crashes, shutdowns, deadlines and errors.
THEOREM AnnouncementsAreFinal ==
  ASSUME "late" \notin Faults
  PROVE  Spec => []AnnouncedIsFinal
<1>1. AnnouncedInv => AnnouncedIsFinal
  BY DEF AnnouncedInv, AllFinal, Final, AnnouncedIsFinal
<1>2. Init => AnnouncedInv
  BY ClaimInvInit, SlotInit, AnnouncedInit DEF AnnouncedInv, SlotInv
<1>3. AnnouncedInv /\ [Next]_vars => AnnouncedInv'
  BY AnnouncedNext
<1> QED
  BY <1>1, <1>2, <1>3, PTL DEF Spec

-----------------------------------------------------------------------------
(* A hook hears of a job from one worker *)

\* What is proved of deliveries by themselves holds of those a worker starts.
DP == INSTANCE DelivererProofs WITH Payloads <- Rows, NoPayload <- None

\* A job whose announcement has begun was claimed, and is held by nobody but
\* the task that announced it, on its way out.
ToldOnce(w, j) ==
  (\E h \in Hooks : delivery[<<w, j, h>>].pc # "idle") =>
    /\ claims[j] >= 1
    /\ \A v \in Workers : Holds(v, j) => v = w /\ In(w, j, "return")
    /\ \A v \in Workers \ {w}, h \in Hooks : delivery[<<v, j, h>>].pc = "idle"

AllToldOnce == \A w \in Workers, j \in Jobs : ToldOnce(w, j)

HeldIsClaimed == \A w \in Workers, j \in Jobs : Holds(w, j) => claims[j] >= 1

ToldInv == SlotInv /\ HeldIsClaimed /\ AllToldOnce /\ DP!DeliveryInv

LEMMA ToldInit == Init => HeldIsClaimed /\ AllToldOnce /\ DP!DeliveryInv
<1> SUFFICES ASSUME Init PROVE HeldIsClaimed /\ AllToldOnce /\ DP!DeliveryInv
  OBVIOUS
<1>1. HeldIsClaimed /\ AllToldOnce
  BY DEF Init, HeldIsClaimed, Holds, IdleTask, AllToldOnce, ToldOnce, D!DeliveryInit, D!Idle,
         Deliveries
<1>2. DP!DeliveryInit
  BY DEF Init, D!DeliveryInit, D!Idle, DP!DeliveryInit, DP!Idle
<1> QED
  BY <1>1, <1>2, AttemptsAssumption, DP!DeliveryInvInit

\* What a step does to the deliveries is an act of a caller or a step of one.
DeliveryActs ==
  \/ UNCHANGED delivery
  \/ \E S : D!CutAll(S) \/ D!KillAll(S)
  \/ \E d \in Deliveries : D!DeliveryStep(d)

LEMMA DeliveriesAct ==
  ASSUME [Next]_vars
  PROVE  \/ DeliveryActs
         \/ \E w \in Workers, j \in Jobs :
              /\ Notify(w, j)
              /\ D!StartAll({w} \X {j} \X ListActive(TenantOf[j]), task[w][j].payload)
<1> USE DEF storeVars, loopVars, sharedVars
<1>1. ASSUME NEW w \in Workers, LoopStep(w) \/ ProcessEvent(w) PROVE DeliveryActs
  BY <1>1 DEF DeliveryActs, LoopStep, SelectNext, AbortClaim, Claim, AckClaim, LoseAck, Spawn,
       BeginDrain, DrainSlot, Stop, ProcessEvent, EmptyPoll, vars, Cancel, Crash, Restart
<1>2. ASSUME NEW w \in Workers, NEW j \in Jobs, TaskStep(w, j) \/ Deadline(w, j), ~Notify(w, j)
      PROVE  DeliveryActs
  BY <1>2 DEF DeliveryActs, TaskStep, Download, CacheHit, CacheMiss, ExtractText, ExtractChunk,
       EndChunks, StoreCache, Execute, Reply, GiveUp, Fetch, Return, Deadline
<1>3. ASSUME NEW w \in Workers, NEW j \in Jobs, Notify(w, j)
      PROVE  \/ UNCHANGED delivery
             \/ D!StartAll({w} \X {j} \X ListActive(TenantOf[j]), task[w][j].payload)
  BY <1>3 DEF Notify
<1>4. CASE (\E d \in Deliveries : Deliver(d)) \/ ExecuteStray \/ Environment \/ UNCHANGED vars
  BY <1>4 DEF DeliveryActs, Deliver, ExecuteStray, Environment, Submit, RegisterHook, DeleteHook,
       Evict, vars
<1> QED
  BY <1>1, <1>2, <1>3, <1>4 DEF Next, DeliveryActs

\* Deliverer's own invariant holds of them.
LEMMA DeliveriesKeepInv ==
  ASSUME DP!DeliveryInv, TypeOK, [Next]_vars
  PROVE  DP!DeliveryInv'
<1>1. ASSUME UNCHANGED delivery PROVE DP!DeliveryInv'
  BY <1>1, DP!DeliveryInvNext, AttemptsAssumption
<1>2. ASSUME NEW S, D!CutAll(S) PROVE DP!DeliveryInv'
  <2>1. DP!CutAll(S)
    BY <1>2 DEF D!CutAll, D!Running, DP!CutAll, DP!Running
  <2> QED
    BY <2>1, DP!CutAllInv, AttemptsAssumption
<1>3. ASSUME NEW S, D!KillAll(S) PROVE DP!DeliveryInv'
  <2>1. DP!KillAll(S)
    BY <1>3 DEF D!KillAll, D!Running, DP!KillAll, DP!Running
  <2> QED
    BY <2>1, DP!KillAllInv, AttemptsAssumption
<1>4. ASSUME NEW d \in Deliveries, D!DeliveryStep(d) PROVE DP!DeliveryInv'
  <2>1. DP!DeliveryStep(d)
    BY <1>4 DEF D!DeliveryStep, D!Accepted, D!Refused, D!Unreached, D!Unsendable,
         D!AfterFailure, D!Retry, D!Repeats, D!NextAttempt, D!Abandon,
         DP!DeliveryStep, DP!Accepted, DP!Refused, DP!Unreached, DP!Unsendable,
         DP!AfterFailure, DP!Retry, DP!Repeats, DP!NextAttempt, DP!Abandon
  <2> QED
    BY <2>1, DP!DeliveryStepInv, AttemptsAssumption
<1>5. ASSUME NEW S, NEW p \in Rows \cup {None}, D!StartAll(S, p) PROVE DP!DeliveryInv'
  <2>1. DP!StartAll(S, p)
    BY <1>5 DEF D!StartAll, DP!StartAll
  <2> QED
    BY <2>1, DP!StartAllInv, AttemptsAssumption
<1>6. \A w \in Workers, j \in Jobs : task[w][j].payload \in Rows \cup {None}
  BY DEF TypeOK, TaskTypeOK, Tasks
<1> QED
  BY <1>1, <1>2, <1>3, <1>4, <1>5, <1>6, DeliveriesAct DEF DeliveryActs

\* Where nobody comes to hold a job and its announcer does not take it up
\* again, it stays told once.
LEMMA ToldKept ==
  ASSUME NEW w \in Workers, NEW j \in Jobs, ToldOnce(w, j),
         \A v \in Workers, h \in Hooks :
           delivery'[<<v, j, h>>].pc = "idle" <=> delivery[<<v, j, h>>].pc = "idle",
         claims'[j] >= 1 \/ claims'[j] = claims[j],
         \A v \in Workers : Holds(v, j)' => Holds(v, j),
         In(w, j, "return") /\ Holds(w, j)' => In(w, j, "return")'
  PROVE  ToldOnce(w, j)'
BY DEF ToldOnce

LEMMA LoopStepTold ==
  ASSUME ToldInv, SlotInv', NEW w \in Workers, LoopStep(w)
  PROVE  HeldIsClaimed' /\ AllToldOnce'
<1> USE DEF storeVars, loopVars, sharedVars
<1>t. TypeOK /\ TypeOK' /\ ClaimedIsIdle /\ HeldIsClaimed /\ AllToldOnce /\ SelectedIsLocked /\ UnclaimedIsFree
  BY DEF ToldInv, SlotInv, ClaimInv
<1>l. /\ loop \in [Workers -> [pc : LoopPcs, job : Jobs \cup {None}]]
      /\ \A v \in Workers :
           loop[v].pc \in {"selected", "committed", "claimed"} => loop[v].job \in Jobs
      /\ claims \in [Jobs -> Nat]
  BY <1>t DEF TypeOK, LoopTypeOK, StoreTypeOK
<1>d. \A v \in Workers, j \in Jobs, h \in Hooks :
        delivery'[<<v, j, h>>].pc = "idle" <=> delivery[<<v, j, h>>].pc = "idle"
  <2>1. UNCHANGED delivery \/ D!KillAll(DeliveriesOf(w))
    BY DEF LoopStep, SelectNext, AbortClaim, Claim, AckClaim, LoseAck, Spawn,
           BeginDrain, DrainSlot, Stop
  <2> QED
    BY <1>t, <2>1, DeliveriesKept DEF NothingAnnounced, Deliveries
<1>1. CASE Claim(w)
  <2>1. PICK c \in Jobs : c = loop[w].job
    BY <1>1, <1>l DEF Claim, At
  <2>2. /\ loop[w].pc = "selected"
        /\ loop' = [loop EXCEPT ![w] = [pc |-> "committed", job |-> c]]
        /\ claims' = [claims EXCEPT ![c] = @ + 1]
        /\ UNCHANGED task
    BY <1>1, <2>1 DEF Claim, At, CommitClaim, MoveTo
  <2>3. claims[c] = 0
    BY <1>t, <2>1, <2>2 DEF SelectedIsLocked, UnclaimedIsFree, Unclaimed
  <2>4. \A v \in Workers : ToldOnce(v, c)'
    BY <1>t, <1>d, <2>3 DEF AllToldOnce, ToldOnce
  <2>5. ASSUME NEW k \in Jobs \ {c}, NEW v \in Workers PROVE ToldOnce(v, k)'
    <3>1. \A u \in Workers : Holds(u, k)' => Holds(u, k)
      BY <1>l, <2>2 DEF Holds
    <3>2. claims'[k] = claims[k]
      BY <1>l, <2>2
    <3> QED
      BY <1>t, <1>d, <2>2, <3>1, <3>2, ToldKept DEF AllToldOnce, In
  <2>6. HeldIsClaimed'
    BY <1>t, <1>l, <2>2, <2>3 DEF HeldIsClaimed, Holds
  <2> QED
    BY <2>4, <2>5, <2>6 DEF AllToldOnce
<1>2. CASE Spawn(w)
  <2>1. PICK c \in Jobs : c = loop[w].job
    BY <1>2, <1>l DEF Spawn, At
  <2>2. /\ loop[w].pc = "claimed"
        /\ Become(w, c, IdleTask, "download")
        /\ loop' = [loop EXCEPT ![w] = [pc |-> "poll", job |-> None]]
        /\ UNCHANGED claims
    BY <1>2, <2>1 DEF Spawn, At, MoveTo
  <2>3. \A v \in Workers, k \in Jobs : <<v, k>> # <<w, c>> => task'[v][k] = task[v][k]
    BY <1>t, <2>2, BecomePc
  <2>4. Holds(w, c) /\ ~In(w, c, "return")
    BY <1>t, <2>1, <2>2 DEF Holds, ClaimedIsIdle, In
  <2>5. \A v \in Workers : ToldOnce(v, c)'
    BY <1>t, <1>d, <2>4 DEF AllToldOnce, ToldOnce
  <2>6. ASSUME NEW k \in Jobs \ {c}, NEW v \in Workers PROVE ToldOnce(v, k)'
    <3>1. \A u \in Workers : Holds(u, k)' => Holds(u, k)
      BY <1>l, <2>2, <2>3 DEF Holds
    <3> QED
      BY <1>t, <1>d, <2>2, <2>3, <3>1, ToldKept DEF AllToldOnce, In
  <2>7. HeldIsClaimed'
    BY <1>t, <1>l, <2>2, <2>3, <2>4 DEF HeldIsClaimed, Holds
  <2> QED
    BY <2>5, <2>6, <2>7 DEF AllToldOnce
<1>3. CASE ~(Claim(w) \/ Spawn(w))
  <2>1. /\ UNCHANGED <<claims, task>>
        /\ \/ UNCHANGED loop
           \/ loop[w].pc = "committed" /\ loop' = [loop EXCEPT ![w] = [pc |-> "claimed", job |-> loop[w].job]]
           \/ \E pc \in LoopPcs \ {"committed", "claimed"}, j \in Jobs \cup {None} :
                loop' = [loop EXCEPT ![w] = [pc |-> pc, job |-> j]]
    BY <1>3, <1>l DEF LoopStep, SelectNext, LockOldest, AbortClaim, Rollback, AckClaim, LoseAck,
                BeginDrain, DrainSlot, Stop, MoveTo, LoopPcs, At
  <2>2. \A v \in Workers, k \in Jobs : Holds(v, k)' => Holds(v, k)
    BY <1>l, <2>1 DEF Holds
  <2>3. ASSUME NEW v \in Workers, NEW k \in Jobs PROVE ToldOnce(v, k)'
    BY <1>t, <1>d, <2>1, <2>2, ToldKept DEF AllToldOnce, In
  <2> QED
    BY <1>t, <2>1, <2>2, <2>3 DEF AllToldOnce, HeldIsClaimed
<1> QED
  BY <1>1, <1>2, <1>3

\* Only a task that holds its job announces it, so nobody has before.
LEMMA TaskStepTold ==
  ASSUME ToldInv, SlotInv', NEW w \in Workers, NEW j \in Jobs, TaskStep(w, j) \/ Deadline(w, j)
  PROVE  HeldIsClaimed' /\ AllToldOnce'
<1> USE DEF storeVars, loopVars, sharedVars
<1>t. TypeOK /\ TypeOK' /\ ExclusiveClaim /\ ClaimedIsIdle /\ HeldIsClaimed /\ AllToldOnce
  BY DEF ToldInv, SlotInv, ClaimInv
<1>1. /\ task[w][j].pc # "idle"
      /\ \A v \in Workers, k \in Jobs : <<v, k>> # <<w, j>> => task'[v][k] = task[v][k]
      /\ UNCHANGED <<loop, claims>>
  BY <1>t, OneTaskMoves
<1>2. \A v \in Workers, k \in Jobs : Holds(v, k)' => Holds(v, k)
  BY <1>1 DEF Holds
<1>3. ASSUME NothingAnnounced PROVE AllToldOnce'
  <2>1. In(w, j, "return") /\ Holds(w, j)' => In(w, j, "return")'
    <3>1. In(w, j, "return") => task'[w][j].pc \in {"return", "idle"}
      <4>1. "return" \notin Written /\ (\A pc : <<"return", pc>> \notin Moves)
        BY DEF Written, InFlight, Terminal, Moves
      <4> QED
        BY <1>t, <4>1, TaskMoves DEF In
    <3>2. ~(loop'[w].pc \in {"committed", "claimed"} /\ loop'[w].job = j)
      BY <1>t, <1>1 DEF ClaimedIsIdle
    <3> QED
      BY <3>1, <3>2 DEF Holds, In
  <2>2. \A v \in Workers, k \in Jobs, h \in Hooks :
          delivery'[<<v, k, h>>].pc = "idle" <=> delivery[<<v, k, h>>].pc = "idle"
    BY <1>3 DEF NothingAnnounced, Deliveries
  <2>3. ASSUME NEW v \in Workers, NEW k \in Jobs PROVE ToldOnce(v, k)'
    <3>1. In(v, k, "return") /\ Holds(v, k)' => In(v, k, "return")'
      BY <1>1, <2>1 DEF In
    <3> QED
      BY <1>t, <1>1, <1>2, <2>2, <3>1, ToldKept DEF AllToldOnce
  <2> QED
    BY <2>3 DEF AllToldOnce
<1>4. ASSUME /\ Notify(w, j)
             /\ D!StartAll({w} \X {j} \X ListActive(TenantOf[j]), task[w][j].payload)
      PROVE  AllToldOnce'
  <2>1. /\ Holds(w, j) /\ ~In(w, j, "return")
        /\ \A v \in Workers \ {w} : ~Holds(v, j)
    BY <1>t, <1>1, <1>4 DEF Holds, ExclusiveClaim, Notify, In
  <2>2. \A v \in Workers, h \in Hooks : delivery[<<v, j, h>>].pc = "idle"
    BY <1>t, <2>1 DEF AllToldOnce, ToldOnce
  <2>3. claims'[j] >= 1
    BY <1>t, <1>1, <2>1 DEF HeldIsClaimed
  <2>4. /\ In(w, j, "return")'
        /\ UNCHANGED loop
    BY <1>t, <1>1, <1>4, BecomePc DEF Notify, GoTo, In
  <2>5. \A v \in Workers, k \in Jobs, h \in Hooks :
          <<v, k>> # <<w, j>> => delivery'[<<v, k, h>>] = delivery[<<v, k, h>>]
    BY <1>4 DEF D!StartAll, Deliveries
  <2>6. \A v \in Workers : ToldOnce(v, j)'
    <3>1. ToldOnce(w, j)'
      <4>1. \A v \in Workers : Holds(v, j)' => v = w
        BY <1>2, <2>1
      <4>2. \A v \in Workers \ {w}, h \in Hooks : delivery'[<<v, j, h>>].pc = "idle"
        BY <2>2, <2>5
      <4> QED
        BY <2>3, <2>4, <4>1, <4>2 DEF ToldOnce
    <3>2. \A v \in Workers \ {w} : ToldOnce(v, j)'
      BY <2>2, <2>5 DEF ToldOnce
    <3> QED
      BY <3>1, <3>2
  <2>7. ASSUME NEW v \in Workers, NEW k \in Jobs \ {j} PROVE ToldOnce(v, k)'
    BY <1>t, <1>1, <1>2, <2>5, ToldKept DEF AllToldOnce, In
  <2>8. \A v \in Workers, k \in Jobs : ToldOnce(v, k)'
    BY <2>6, <2>7
  <2> QED
    BY <2>8 DEF AllToldOnce
<1>5. NothingAnnounced \/ (Notify(w, j) /\ D!StartAll({w} \X {j} \X ListActive(TenantOf[j]), task[w][j].payload))
  <2>1. \/ UNCHANGED delivery \/ \E S : D!CutAll(S)
        \/ Notify(w, j) /\ D!StartAll({w} \X {j} \X ListActive(TenantOf[j]), task[w][j].payload)
    BY DEF TaskStep, Download, CacheHit, CacheMiss, ExtractText, ExtractChunk, EndChunks,
         StoreCache, Execute, Reply, GiveUp, Fetch, Notify, Return, Deadline
  <2> QED
    BY <1>t, <2>1, DeliveriesKept
<1>6. HeldIsClaimed'
  BY <1>t, <1>1, <1>2 DEF HeldIsClaimed
<1> QED
  BY <1>3, <1>4, <1>5, <1>6

LEMMA OtherStepTold ==
  ASSUME ToldInv, SlotInv',
         \/ \E w \in Workers : ProcessEvent(w)
         \/ \E d \in Deliveries : Deliver(d)
         \/ ExecuteStray
         \/ Environment
         \/ UNCHANGED vars
  PROVE  HeldIsClaimed' /\ AllToldOnce'
<1> USE DEF storeVars, loopVars, sharedVars
<1>t. TypeOK /\ HeldIsClaimed /\ AllToldOnce
  BY DEF ToldInv, SlotInv, ClaimInv
<1>l. /\ loop \in [Workers -> [pc : LoopPcs, job : Jobs \cup {None}]]
      /\ task \in [Workers -> [Jobs -> Tasks]]
  BY <1>t DEF TypeOK, LoopTypeOK, TaskTypeOK
<1>1. NothingAnnounced
  <2>1. \/ UNCHANGED delivery
        \/ \E S : D!CutAll(S) \/ D!KillAll(S)
        \/ \E d \in Deliveries : D!DeliveryStep(d)
    BY DEF ProcessEvent, EmptyPoll, vars, Cancel, Crash, Restart, Deliver, ExecuteStray,
           Environment, Submit, RegisterHook, DeleteHook, Evict
  <2> QED
    BY <1>t, <2>1, DeliveriesKept
<1>2. UNCHANGED claims
  BY DEF ProcessEvent, EmptyPoll, vars, Cancel, Crash, Restart, Deliver, ExecuteStray, Update,
         Environment, Submit, Create, RegisterHook, DeleteHook, Evict
<1>3. \A v \in Workers, k \in Jobs :
        Holds(v, k)' => Holds(v, k) /\ task'[v][k].pc = task[v][k].pc
  <2>1. ASSUME NEW w \in Workers, Crash(w) \/ Restart(w)
        PROVE  \A v \in Workers, k \in Jobs :
                 Holds(v, k)' => Holds(v, k) /\ task'[v][k].pc = task[v][k].pc
    <3>1. /\ loop'[w].pc \in {"crashed", "poll"}
          /\ \A v \in Workers \ {w} : loop'[v] = loop[v] /\ task'[v] = task[v]
          /\ \A k \in Jobs : task'[w][k] = task[w][k] \/ task'[w][k].pc = "idle"
      BY <1>l, <2>1 DEF Crash, Restart, MoveTo, IdleTask
    <3> QED
      BY <3>1 DEF Holds
  <2>2. CASE UNCHANGED <<loop, task>>
    BY <2>2 DEF Holds
  <2> QED
    BY <2>1, <2>2 DEF ProcessEvent, EmptyPoll, vars, Cancel, Deliver, ExecuteStray, Environment,
         Submit, RegisterHook, DeleteHook, Evict
<1>4. \A v \in Workers, k \in Jobs, h \in Hooks :
        delivery'[<<v, k, h>>].pc = "idle" <=> delivery[<<v, k, h>>].pc = "idle"
  BY <1>1 DEF NothingAnnounced, Deliveries
<1>5. ASSUME NEW v \in Workers, NEW k \in Jobs PROVE ToldOnce(v, k)'
  BY <1>t, <1>2, <1>3, <1>4, ToldKept DEF AllToldOnce, In
<1> QED
  BY <1>t, <1>2, <1>3, <1>5 DEF AllToldOnce, HeldIsClaimed

LEMMA ToldNext == ToldInv /\ [Next]_vars => ToldInv'
<1> SUFFICES ASSUME ToldInv, [Next]_vars PROVE ToldInv'
  OBVIOUS
<1>1. SlotInv'
  BY SlotNext DEF ToldInv
<1>2. DP!DeliveryInv'
  BY DeliveriesKeepInv DEF ToldInv, SlotInv, ClaimInv
<1> QED
  BY <1>1, <1>2, LoopStepTold, TaskStepTold, OtherStepTold DEF Next, ToldInv

LEMMA ToldAlways == Spec => []ToldInv
<1>1. Init => ToldInv
  BY ClaimInvInit, SlotInit, ToldInit DEF ToldInv, SlotInv
<1> QED
  BY <1>1, ToldNext, PTL DEF Spec

\* A hook that has seen POSTs about a job has seen no more than MaxAttempts of
\* them, all of one worker.
HeardOnce ==
  \A w \in Workers, j \in Jobs, h \in Hooks :
    delivery[<<w, j, h>>].hits > 0 =>
      /\ delivery[<<w, j, h>>].hits <= MaxAttempts
      /\ \A v \in Workers \ {w} : delivery[<<v, j, h>>].hits = 0

\* Whatever is cancelled, killed, restarted or executed late, a receiver gets at
\* most MaxAttempts POSTs about a job, and no two workers send them
\* (ClaimNext, fireWebhooks and Deliver together).
THEOREM HooksHearOnce == Spec => [](D!AttemptsAccounted /\ HeardOnce)
<1>1. ASSUME ToldInv PROVE D!AttemptsAccounted
  BY <1>1 DEF ToldInv, DP!DeliveryInv, DP!AttemptsAccounted, D!AttemptsAccounted
<1>2. ASSUME ToldInv PROVE HeardOnce
  <2>1. SUFFICES ASSUME NEW w \in Workers, NEW j \in Jobs, NEW h \in Hooks,
                        delivery[<<w, j, h>>].hits > 0
                 PROVE  /\ delivery[<<w, j, h>>].hits <= MaxAttempts
                        /\ \A v \in Workers \ {w} : delivery[<<v, j, h>>].hits = 0
    BY DEF HeardOnce
  <2>2. \A v \in Workers :
          /\ delivery[<<v, j, h>>].hits \in Nat /\ delivery[<<v, j, h>>].attempt \in Nat
          /\ delivery[<<v, j, h>>].hits <= delivery[<<v, j, h>>].attempt
          /\ delivery[<<v, j, h>>].attempt <= MaxAttempts
          /\ delivery[<<v, j, h>>].pc = "idle" => delivery[<<v, j, h>>].hits = 0
    <3>1. \A v \in Workers : <<v, j, h>> \in Deliveries
      BY DEF Deliveries
    <3> QED
      BY <1>2, <3>1 DEF ToldInv, DP!DeliveryInv, DP!DeliveryTypeOK, DP!DeliveryRecords,
           DP!AttemptsAccounted
  <2>3. delivery[<<w, j, h>>].pc # "idle"
    BY <2>1, <2>2
  <2>4. \A v \in Workers \ {w} : delivery[<<v, j, h>>].pc = "idle"
    BY <1>2, <2>3 DEF ToldInv, AllToldOnce, ToldOnce
  <2>5. MaxAttempts \in Nat
    BY AttemptsAssumption
  <2> QED
    BY <2>2, <2>4, <2>5
<1>3. ToldInv => D!AttemptsAccounted /\ HeardOnce
  BY <1>1, <1>2
<1> QED
  BY <1>3, ToldAlways, PTL

\* A worker never starts a delivery a second time, so one that has returned is
\* over for good: Deliver's callers keep the promise its own theorem needs.
THEOREM DeliveriesEndForGood == Spec => D!NoPostAfterReturn
<1>1. ASSUME ToldInv, [Next]_vars
      PROVE  [\A d \in Deliveries :
                delivery[d].pc \in D!Ended =>
                  /\ delivery'[d].pc = delivery[d].pc
                  /\ delivery'[d].hits = delivery[d].hits]_delivery
  <2> SUFFICES ASSUME NEW d \in Deliveries, delivery[d].pc \in D!Ended, delivery' # delivery
               PROVE  /\ delivery'[d].pc = delivery[d].pc
                      /\ delivery'[d].hits = delivery[d].hits
    OBVIOUS
  <2>t. delivery \in [Deliveries -> D!DeliveryRecords]
    BY <1>1 DEF ToldInv, SlotInv, ClaimInv, TypeOK, SharedTypeOK, D!DeliveryTypeOK
  <2> USE DEF D!DeliveryRecords, D!Ended, D!Running
  <2>1. ASSUME NEW S, D!CutAll(S) \/ D!KillAll(S)
        PROVE  delivery'[d].pc = delivery[d].pc /\ delivery'[d].hits = delivery[d].hits
    BY <2>t, <2>1 DEF D!CutAll, D!KillAll
  <2>2. ASSUME NEW e \in Deliveries, D!DeliveryStep(e)
        PROVE  delivery'[d].pc = delivery[d].pc /\ delivery'[d].hits = delivery[d].hits
    BY <2>t, <2>2 DEF D!DeliveryStep, D!Accepted, D!Refused, D!Unreached, D!Unsendable,
         D!Retry, D!Repeats, D!Abandon
  <2>3. ASSUME NEW w \in Workers, NEW j \in Jobs, Notify(w, j),
               D!StartAll({w} \X {j} \X ListActive(TenantOf[j]), task[w][j].payload)
        PROVE  delivery'[d].pc = delivery[d].pc /\ delivery'[d].hits = delivery[d].hits
    <3>1. Holds(w, j) /\ ~In(w, j, "return")
      BY <2>3 DEF Notify, In, Holds
    <3>2. \A h \in Hooks : delivery[<<w, j, h>>].pc = "idle"
      BY <1>1, <3>1 DEF ToldInv, AllToldOnce, ToldOnce
    <3>3. d \notin {w} \X {j} \X ListActive(TenantOf[j])
      BY <3>2 DEF ListActive
    <3> QED
      BY <2>3, <3>3 DEF D!StartAll
  <2> QED
    BY <1>1, <2>1, <2>2, <2>3, DeliveriesAct DEF DeliveryActs
<1>2. ToldInv /\ [Next]_vars =>
        [\A d \in Deliveries :
           delivery[d].pc \in D!Ended =>
             /\ delivery'[d].pc = delivery[d].pc
             /\ delivery'[d].hits = delivery[d].hits]_delivery
  BY <1>1
<1> QED
  BY <1>2, ToldAlways, PTL DEF Spec, D!NoPostAfterReturn

-----------------------------------------------------------------------------
(* No job is stranded *)

\* With no fault but a deadline a process stays up, and a task that ends has
\* left its row at an outcome.
Up == \A w \in Workers : ~cancelled[w] /\ loop[w].pc \in {"poll", "selected", "committed", "claimed"}

EndsSettled == \A w \in Workers, j \in Jobs : task[w][j].pc = "return" => jobs[j].status \in Terminal

HeldInv == AnnouncedInv /\ Up /\ EndsSettled /\ NoStrandedJob

LEMMA HeldInit == Init => Up /\ EndsSettled /\ NoStrandedJob
BY DEF Init, StoreInit, Blank, Up, EndsSettled, NoStrandedJob, IdleTask, InFlight

LEMMA LoopStepHeld ==
  ASSUME Faults \subseteq {"deadline"}, HeldInv, TypeOK', NEW w \in Workers, LoopStep(w)
  PROVE  Up' /\ EndsSettled' /\ NoStrandedJob'
<1> USE DEF storeVars, loopVars, sharedVars
<1>t. TypeOK /\ UnclaimedIsFree /\ SelectedIsLocked /\ ClaimedIsIdle /\ Up /\ EndsSettled /\ NoStrandedJob
  BY DEF HeldInv, AnnouncedInv, SlotInv, ClaimInv
<1>l. /\ loop \in [Workers -> [pc : LoopPcs, job : Jobs \cup {None}]]
      /\ \A v \in Workers :
           loop[v].pc \in {"selected", "committed", "claimed"} => loop[v].job \in Jobs
      /\ task \in [Workers -> [Jobs -> Tasks]] /\ task' \in [Workers -> [Jobs -> Tasks]]
  BY <1>t DEF TypeOK, LoopTypeOK, TaskTypeOK
<1>1. ~cancelled[w] /\ "db" \notin Faults /\ loop[w].pc # "drain" /\ UNCHANGED cancelled
  BY <1>t DEF Up, LoopStep, SelectNext, AbortClaim, Claim, AckClaim, LoseAck, Spawn,
              BeginDrain, DrainSlot, Stop
<1>2. CASE Claim(w)
  <2>1. PICK c \in Jobs : c = loop[w].job
    BY <1>2, <1>l DEF Claim, At
  <2>2. /\ loop[w].pc = "selected"
        /\ jobs' = [jobs EXCEPT ![c].status = "ingesting"]
        /\ loop' = [loop EXCEPT ![w] = [pc |-> "committed", job |-> c]]
        /\ UNCHANGED task
    BY <1>2, <2>1 DEF Claim, At, CommitClaim, MoveTo
  <2>3. /\ jobs[c].status = "pending" /\ \A v \in Workers : task[v][c].pc = "idle"
        /\ \A k \in Jobs \ {c} : jobs'[k] = jobs[k]
    BY <1>t, <2>1, <2>2 DEF TypeOK, StoreTypeOK, SelectedIsLocked, UnclaimedIsFree, Unclaimed, Holds
  <2>4. Up' /\ EndsSettled'
    BY <1>t, <1>l, <1>1, <2>2, <2>3 DEF Up, EndsSettled
  <2>5. Holds(w, c)'
    BY <1>l, <2>2 DEF Holds
  <2>6. \A v \in Workers, k \in Jobs : Holds(v, k) => Holds(v, k)'
    BY <1>l, <2>2 DEF Holds
  <2> QED
    BY <1>t, <2>3, <2>4, <2>5, <2>6 DEF NoStrandedJob
<1>3. CASE Spawn(w)
  <2>1. PICK c \in Jobs : c = loop[w].job
    BY <1>3, <1>l DEF Spawn, At
  <2>2. /\ loop[w].pc = "claimed"
        /\ Become(w, c, IdleTask, "download")
        /\ loop' = [loop EXCEPT ![w] = [pc |-> "poll", job |-> None]]
        /\ UNCHANGED jobs
    BY <1>3, <2>1 DEF Spawn, At, MoveTo
  <2>3. /\ task'[w][c].pc = "download"
        /\ \A v \in Workers, k \in Jobs : <<v, k>> # <<w, c>> => task'[v][k] = task[v][k]
    BY <1>t, <2>2, BecomePc
  <2>4. Up' /\ EndsSettled'
    BY <1>t, <1>l, <1>1, <2>2, <2>3 DEF Up, EndsSettled
  <2>5. \A v \in Workers, k \in Jobs : Holds(v, k) => Holds(v, k)'
    BY <1>l, <2>1, <2>2, <2>3 DEF Holds
  <2> QED
    BY <1>t, <2>2, <2>4, <2>5 DEF NoStrandedJob
<1>4. CASE SelectNext(w) \/ AckClaim(w)
  <2>1. /\ UNCHANGED <<jobs, task>>
        /\ \/ loop[w].pc = "committed" /\ loop' = [loop EXCEPT ![w] = [pc |-> "claimed", job |-> loop[w].job]]
           \/ loop[w].pc = "poll" /\ \E j \in Jobs : loop' = [loop EXCEPT ![w] = [pc |-> "selected", job |-> j]]
    BY <1>4 DEF SelectNext, AckClaim, LockOldest, At, MoveTo
  <2>2. \A v \in Workers, k \in Jobs : Holds(v, k) => Holds(v, k)'
    BY <1>l, <2>1 DEF Holds
  <2> QED
    BY <1>t, <1>l, <1>1, <2>1, <2>2 DEF Up, EndsSettled, NoStrandedJob
<1> QED
  BY <1>1, <1>2, <1>3, <1>4 DEF LoopStep, AbortClaim, LoseAck, BeginDrain, DrainSlot, Stop, At

LEMMA TaskStepHeld ==
  ASSUME Faults \subseteq {"deadline"}, HeldInv, TypeOK', NEW w \in Workers, NEW j \in Jobs,
         TaskStep(w, j) \/ Deadline(w, j)
  PROVE  Up' /\ EndsSettled' /\ NoStrandedJob'
<1> USE DEF storeVars, loopVars, sharedVars
<1> DEFINE t == task[w][j]
           u == task'[w][j]
<1>t. /\ TypeOK /\ ExclusiveClaim /\ TasksKnow /\ Up /\ EndsSettled /\ NoStrandedJob
      /\ ~cancelled[w] /\ "db" \notin Faults
  BY DEF HeldInv, AnnouncedInv, SlotInv, ClaimInv, Up
<1>1. /\ t.pc # "idle"
      /\ \A v \in Workers, k \in Jobs : <<v, k>> # <<w, j>> => task'[v][k] = task[v][k]
      /\ UNCHANGED <<loop, cancelled>>
      /\ jobs' = jobs \/ Execute(w, j)
  BY <1>t, OneTaskMoves
<1>2. /\ \/ jobs'[j] = jobs[j]
         \/ t.pc \in Written /\ jobs'[j].status = t.pc
      /\ \A k \in Jobs \ {j} : jobs'[k] = jobs[k]
  <2>1. CASE Execute(w, j)
    <3>1. t.pc \in Written /\ Update(j, t.pc, t.result, t.confidence)
      BY <2>1 DEF Execute
    <3> QED
      BY <1>t, <3>1, UpdateStatus
  <2>2. CASE jobs' = jobs
    BY <2>2
  <2> QED
    BY <1>1, <2>1, <2>2
<1>3. \A v \in Workers \ {w} : task[v][j].pc = "idle"
  BY <1>t, <1>1 DEF ExclusiveClaim, Holds
<1>4. u.pc = "return" => jobs'[j].status \in Terminal
  <2>1. CASE /\ <<t.pc, u.pc>> \in Moves /\ UNCHANGED jobs
             /\ t.pc = "failed" => t.done \/ cancelled[w] \/ "db" \in Faults
    <3>1. u.pc = "return" => t.pc \in {"fetch", "notify", "failed"}
      BY <2>1 DEF Moves
    <3>2. t.pc \in {"fetch", "notify"} => jobs[j].status = "completed"
      BY <1>t DEF TasksKnow
    <3>3. t.pc = "failed" => jobs[j].status = "failed"
      BY <1>t, <2>1 DEF TasksKnow, Written, Terminal
    <3> QED
      BY <2>1, <3>1, <3>2, <3>3 DEF Terminal
  <2>2. CASE Execute(w, j) /\ u.pc = t.pc
    BY <2>2 DEF Execute, Written, InFlight, Terminal
  <2>3. CASE UNCHANGED jobs /\ u.pc = t.pc
    BY <1>t, <2>3 DEF EndsSettled
  <2>4. CASE u.pc = "idle"
    BY <2>4
  <2> QED
    BY <1>t, <2>1, <2>2, <2>3, <2>4, TaskMoves
<1>5. EndsSettled'
  BY <1>t, <1>1, <1>2, <1>3, <1>4 DEF EndsSettled
<1>6. Up'
  BY <1>t, <1>1 DEF Up
<1>7. ASSUME jobs'[j].status \in InFlight PROVE Holds(w, j)'
  <2>1. u.pc # "idle"
    <3>1. CASE <<t.pc, u.pc>> \in Moves
      BY <3>1 DEF Moves
    <3>2. CASE u.pc = t.pc
      BY <1>1, <3>2
    <3>3. CASE Return(w, j)
      <4>1. t.pc = "return" /\ UNCHANGED jobs
        BY <3>3 DEF Return, In
      <4> QED
        BY <1>t, <1>7, <4>1 DEF EndsSettled, InFlight, Terminal
    <3> QED
      BY <1>t, <3>1, <3>2, <3>3, TaskMoves
  <2> QED
    BY <2>1 DEF Holds
<1>8. \A v \in Workers, k \in Jobs \ {j} : Holds(v, k) => Holds(v, k)'
  BY <1>1 DEF Holds
<1>9. NoStrandedJob'
  BY <1>t, <1>2, <1>7, <1>8 DEF NoStrandedJob
<1> QED
  BY <1>5, <1>6, <1>9

LEMMA OtherStepHeld ==
  ASSUME Faults \subseteq {"deadline"}, HeldInv, TypeOK',
         \/ \E w \in Workers : ProcessEvent(w)
         \/ \E d \in Deliveries : Deliver(d)
         \/ ExecuteStray
         \/ Environment
         \/ UNCHANGED vars
  PROVE  Up' /\ EndsSettled' /\ NoStrandedJob'
<1> USE DEF storeVars, loopVars, sharedVars
<1>t. TypeOK /\ UnclaimedIsFree /\ Up /\ EndsSettled /\ NoStrandedJob /\ stray = {}
  BY DEF HeldInv, AnnouncedInv, SlotInv, ClaimInv
<1>1. UNCHANGED <<loop, cancelled, task>> /\ (UNCHANGED jobs \/ \E j \in Jobs : Submit(j))
  BY <1>t DEF ProcessEvent, EmptyPoll, Cancel, Crash, Restart, Up, Deliver, ExecuteStray,
              Environment, Submit, RegisterHook, DeleteHook, Evict, vars
<1>2. \A w \in Workers, k \in Jobs : Holds(w, k) <=> Holds(w, k)'
  BY <1>1 DEF Holds
<1>3. CASE UNCHANGED jobs
  BY <1>t, <1>1, <1>2, <1>3 DEF Up, EndsSettled, NoStrandedJob
<1>4. ASSUME NEW j \in Jobs, Submit(j) PROVE Up' /\ EndsSettled' /\ NoStrandedJob'
  <2>1. jobs[j].status = "absent" /\ jobs' = [jobs EXCEPT ![j] = Blank("pending")]
    BY <1>4 DEF Submit, Create
  <2>2. /\ jobs'[j].status = "pending" /\ \A k \in Jobs \ {j} : jobs'[k] = jobs[k]
        /\ \A w \in Workers : task[w][j].pc = "idle"
    BY <1>t, <2>1 DEF TypeOK, StoreTypeOK, Blank, UnclaimedIsFree, Unclaimed, Holds
  <2> QED
    BY <1>t, <1>1, <1>2, <2>2 DEF Up, EndsSettled, NoStrandedJob, InFlight
<1> QED
  BY <1>1, <1>3, <1>4

LEMMA HeldNext ==
  ASSUME Faults \subseteq {"deadline"}
  PROVE  HeldInv /\ [Next]_vars => HeldInv'
<1> SUFFICES ASSUME HeldInv, [Next]_vars PROVE HeldInv'
  OBVIOUS
<1>1. AnnouncedInv' /\ TypeOK'
  BY AnnouncedNext DEF HeldInv, AnnouncedInv, SlotInv, ClaimInv
<1> QED
  BY <1>1, LoopStepHeld, TaskStepHeld, OtherStepHeld DEF Next, HeldInv

\* With no fault but a deadline a row is never left at an intermediate stage
\* with nobody answerable for it.
THEOREM NoJobIsStranded ==
  ASSUME Faults \subseteq {"deadline"}
  PROVE  Spec => []NoStrandedJob
<1>1. HeldInv => NoStrandedJob
  BY DEF HeldInv
<1>2. Init => HeldInv
  BY ClaimInvInit, SlotInit, AnnouncedInit, HeldInit DEF HeldInv, AnnouncedInv, SlotInv
<1>3. HeldInv /\ [Next]_vars => HeldInv'
  BY HeldNext
<1> QED
  BY <1>1, <1>2, <1>3, PTL DEF Spec

-----------------------------------------------------------------------------
(* The abstract queue *)

\* A context that ends ends every statement of its process.
NeverExpired == \A w \in Workers, j \in Jobs : ~task[w][j].expired

\* A claim, or a task some statement of which may still execute.
MayWrite(w, j) ==
  \/ loop[w].pc \in {"committed", "claimed"} /\ loop[w].job = j
  \/ /\ ~cancelled[w]
     /\ task[w][j].pc \notin {"idle", "fetch", "notify", "return"}
     /\ ~(task[w][j].pc \in Terminal /\ task[w][j].done)

\* The row has no outcome yet, and only its holder writes it.
Open(j) == jobs[j].status \in InFlight /\ \A s \in stray : s.job # j

WritersOpen == \A w \in Workers, j \in Jobs : MayWrite(w, j) => Open(j)

\* One statement at most is left of a job, and none after its outcome.
StraysOpen ==
  \A s \in stray :
    /\ jobs[s.job].status \in InFlight
    /\ \A x \in stray : x.job = s.job => x = s

LifecycleInv == SlotInv /\ NeverExpired /\ WritersOpen /\ StraysOpen

\* What the table looks like to a client.
Seen == [j \in Jobs |-> Stage[jobs[j].status]]

LEMMA LifecycleInit == Init => NeverExpired /\ WritersOpen /\ StraysOpen
BY DEF Init, NeverExpired, WritersOpen, StraysOpen, MayWrite, IdleTask

LEMMA Stages ==
  /\ Stage["absent"] = "absent" /\ Stage["pending"] = "queued"
  /\ \A s \in InFlight : Stage[s] = "running"
  /\ \A s \in Terminal : Stage[s] = s
BY DEF Stage, Statuses, Written, InFlight, Terminal

\* Writing a status to a row without an outcome is a step of the queue, or none.
LEMMA OpenUpdate ==
  ASSUME TypeOK, NEW j \in Jobs, NEW s \in Written, NEW r, NEW c, Update(j, s, r, c),
         jobs[j].status \in InFlight
  PROVE  Lifecycle!Finish(j) \/ UNCHANGED <<Seen, claims>>
<1>1. jobs'[j].status = s /\ \A k \in Jobs \ {j} : jobs'[k] = jobs[k]
  BY UpdateStatus
<1>2. UNCHANGED claims
  BY DEF Update
<1>3. Stage[jobs[j].status] = "running"
  BY Stages
<1>4. CASE s \in InFlight
  <2>1. \A k \in Jobs : Stage[jobs'[k].status] = Stage[jobs[k].status]
    BY <1>1, <1>3, <1>4, Stages
  <2> QED
    BY <1>2, <2>1 DEF Seen
<1>5. CASE s \in Terminal
  <2>1. Stage[jobs'[j].status] = s /\ \A k \in Jobs \ {j} : Stage[jobs'[k].status] = Stage[jobs[k].status]
    BY <1>1, <1>5, Stages
  <2>2. Seen' = [Seen EXCEPT ![j] = s] /\ Seen[j] = "running"
    BY <1>3, <2>1 DEF Seen
  <2> QED
    BY <1>2, <1>5, <2>2 DEF Lifecycle!Finish, Lifecycle!Outcomes, Seen, Terminal
<1> QED
  BY <1>4, <1>5 DEF Written

LEMMA ExpiredKept ==
  ASSUME TypeOK, TypeOK', NEW w \in Workers, NEW j \in Jobs, TaskStep(w, j)
  PROVE  task'[w][j].expired => task[w][j].expired
<1> DEFINE t == task[w][j]
<1>1. /\ task \in [Workers -> [Jobs -> Tasks]] /\ task' \in [Workers -> [Jobs -> Tasks]]
      /\ t \in Tasks
  BY DEF TypeOK, TaskTypeOK
<1>2. ASSUME NEW pc, GoTo(w, j, pc) PROVE task'[w][j].expired => t.expired
  BY <1>1, <1>2 DEF GoTo, Become, Tasks
<1>3. CASE Download(w, j) \/ CacheMiss(w, j) \/ ExtractText(w, j) \/ EndChunks(w, j)
           \/ Reply(w, j) \/ GiveUp(w, j) \/ Notify(w, j)
  <2>1. \E pc : GoTo(w, j, pc)
    BY <1>3 DEF Download, CacheMiss, ExtractText, EndChunks, Reply, GiveUp, Notify
  <2> QED
    BY <1>2, <2>1
<1>4. CASE CacheHit(w, j)
  BY <1>1, <1>4 DEF CacheHit, Become, Tasks
<1>5. CASE ExtractChunk(w, j)
  <2>1. \E x : /\ task' = [task EXCEPT ![w][j] = [x EXCEPT !.pc = "llm", !.done = FALSE]]
               /\ x = [t EXCEPT !.next = t.next + 1, !.got = @ \cup {t.next}]
                    \/ x = [t EXCEPT !.next = t.next + 1]
    BY <1>5 DEF ExtractChunk, Become
  <2>2. PICK x : /\ task' = [task EXCEPT ![w][j] = [x EXCEPT !.pc = "llm", !.done = FALSE]]
                 /\ DOMAIN x = DOMAIN t /\ x.expired = t.expired
    BY <1>1, <2>1 DEF Tasks
  <2> QED
    BY <1>1, <2>2 DEF Tasks
<1>6. CASE StoreCache(w, j)
  BY <1>1, <1>6 DEF StoreCache, Become, Tasks
<1>7. CASE Fetch(w, j)
  <2>1. CASE GoTo(w, j, "return")
    BY <1>2, <2>1
  <2>2. CASE Become(w, j, [t EXCEPT !.payload = jobs[j]], "notify")
    BY <1>1, <2>2 DEF Become, Tasks
  <2> QED
    BY <1>7, <2>1, <2>2 DEF Fetch
<1>8. CASE Execute(w, j)
  BY <1>1, <1>8 DEF Execute, Tasks
<1>9. CASE Return(w, j)
  BY <1>1, <1>9 DEF Return, IdleTask
<1> QED
  BY <1>3, <1>4, <1>5, <1>6, <1>7, <1>8, <1>9 DEF TaskStep

\* The loop hands out a queued job, or does nothing a client can see.
LEMMA LoopStepLifecycle ==
  ASSUME LifecycleInv, TypeOK', NEW w \in Workers, LoopStep(w)
  PROVE  /\ NeverExpired' /\ WritersOpen' /\ StraysOpen'
         /\ Lifecycle!Next \/ UNCHANGED <<Seen, claims>>
<1> USE DEF storeVars, loopVars, sharedVars
<1>t. /\ TypeOK /\ SelectedIsLocked /\ UnclaimedIsFree /\ ClaimedIsIdle
      /\ NeverExpired /\ WritersOpen /\ StraysOpen
  BY DEF LifecycleInv, SlotInv, ClaimInv
<1>l. /\ loop \in [Workers -> [pc : LoopPcs, job : Jobs \cup {None}]]
      /\ \A v \in Workers :
           loop[v].pc \in {"selected", "committed", "claimed"} => loop[v].job \in Jobs
      /\ task \in [Workers -> [Jobs -> Tasks]] /\ task' \in [Workers -> [Jobs -> Tasks]]
  BY <1>t DEF TypeOK, LoopTypeOK, TaskTypeOK
<1>0. UNCHANGED <<stray, cancelled>>
  BY DEF LoopStep, SelectNext, AbortClaim, Claim, AckClaim, LoseAck, Spawn,
         BeginDrain, DrainSlot, Stop
<1>1. CASE Claim(w)
  <2>1. PICK c \in Jobs : c = loop[w].job
    BY <1>1, <1>l DEF Claim, At
  <2>2. /\ loop[w].pc = "selected"
        /\ jobs' = [jobs EXCEPT ![c].status = "ingesting"]
        /\ claims' = [claims EXCEPT ![c] = @ + 1]
        /\ loop' = [loop EXCEPT ![w] = [pc |-> "committed", job |-> c]]
        /\ UNCHANGED task
    BY <1>1, <2>1 DEF Claim, At, CommitClaim, MoveTo
  <2>3. /\ jobs[c].status = "pending" /\ jobs'[c].status = "ingesting"
        /\ \A k \in Jobs \ {c} : jobs'[k] = jobs[k]
        /\ \A s \in stray : s.job # c
    BY <1>t, <2>1, <2>2 DEF TypeOK, StoreTypeOK, Rows, SelectedIsLocked, UnclaimedIsFree, Unclaimed
  <2>4. \A s \in stray : s.job \in Jobs
    BY <1>t, RankTypes
  <2>5. NeverExpired' /\ StraysOpen'
    BY <1>t, <1>0, <2>2, <2>3, <2>4 DEF NeverExpired, StraysOpen
  <2>6. Open(c)'
    BY <1>0, <2>3 DEF Open, InFlight
  <2>7. ASSUME NEW v \in Workers, NEW k \in Jobs \ {c}, MayWrite(v, k)' PROVE Open(k)'
    <3>1. MayWrite(v, k)
      BY <1>l, <1>0, <2>2, <2>7 DEF MayWrite
    <3> QED
      BY <1>t, <1>0, <2>3, <3>1 DEF WritersOpen, Open
  <2>8. Lifecycle!Hand(c)
    <3>1. Stage[jobs'[c].status] = "running" /\ Stage[jobs[c].status] = "queued"
      BY <2>3, Stages DEF InFlight
    <3>2. Seen' = [Seen EXCEPT ![c] = "running"] /\ Seen[c] = "queued"
      BY <2>3, <3>1 DEF Seen
    <3> QED
      BY <2>2, <3>2 DEF Lifecycle!Hand, Seen
  <2> QED
    BY <2>5, <2>6, <2>7, <2>8 DEF WritersOpen, Lifecycle!Next
<1>2. CASE Spawn(w)
  <2>1. PICK c \in Jobs : c = loop[w].job
    BY <1>2, <1>l DEF Spawn, At
  <2>2. /\ loop[w].pc = "claimed"
        /\ Become(w, c, IdleTask, "download")
        /\ loop' = [loop EXCEPT ![w] = [pc |-> "poll", job |-> None]]
        /\ UNCHANGED <<jobs, claims>>
    BY <1>2, <2>1 DEF Spawn, At, MoveTo
  <2>3. /\ task'[w][c].pc = "download"
        /\ \A v \in Workers, k \in Jobs : <<v, k>> # <<w, c>> => task'[v][k] = task[v][k]
    BY <1>t, <2>2, BecomePc
  <2>4. ~task'[w][c].expired
    BY <1>l, <2>2 DEF Become, IdleTask
  <2>5. NeverExpired' /\ StraysOpen'
    BY <1>t, <1>0, <2>2, <2>3, <2>4 DEF NeverExpired, StraysOpen
  <2>6. Open(c)
    BY <1>t, <2>1, <2>2 DEF WritersOpen, MayWrite
  <2>7. ASSUME NEW v \in Workers, NEW k \in Jobs, MayWrite(v, k)' PROVE Open(k)
    <3>1. CASE k = c
      BY <2>6, <3>1
    <3>2. CASE k # c
      <4>1. MayWrite(v, k)
        BY <1>l, <1>0, <2>2, <2>3, <2>7, <3>2 DEF MayWrite
      <4> QED
        BY <1>t, <4>1 DEF WritersOpen
    <3> QED
      BY <3>1, <3>2
  <2>8. WritersOpen'
    BY <1>0, <2>2, <2>7 DEF WritersOpen, Open
  <2> QED
    BY <2>2, <2>5, <2>8 DEF Seen
<1>3. CASE ~(Claim(w) \/ Spawn(w))
  <2>1. /\ UNCHANGED <<jobs, claims, task>>
        /\ \/ UNCHANGED loop
           \/ loop[w].pc = "committed" /\ loop' = [loop EXCEPT ![w] = [pc |-> "claimed", job |-> loop[w].job]]
           \/ \E pc \in LoopPcs \ {"committed", "claimed"}, j \in Jobs \cup {None} :
                loop' = [loop EXCEPT ![w] = [pc |-> pc, job |-> j]]
    BY <1>3, <1>l DEF LoopStep, SelectNext, LockOldest, AbortClaim, Rollback, AckClaim, LoseAck,
                BeginDrain, DrainSlot, Stop, MoveTo, LoopPcs, At
  <2>2. \A v \in Workers, k \in Jobs : MayWrite(v, k)' => MayWrite(v, k)
    BY <1>l, <1>0, <2>1 DEF MayWrite
  <2> QED
    BY <1>t, <1>0, <2>1, <2>2 DEF NeverExpired, WritersOpen, StraysOpen, Open, Seen
<1> QED
  BY <1>1, <1>2, <1>3

\* A task writes a row that has no outcome, or nothing.
LEMMA TaskStepLifecycle ==
  ASSUME Faults \cap {"db", "deadline"} = {}, LifecycleInv, TypeOK',
         NEW w \in Workers, NEW j \in Jobs, TaskStep(w, j) \/ Deadline(w, j)
  PROVE  /\ NeverExpired' /\ WritersOpen' /\ StraysOpen'
         /\ Lifecycle!Next \/ UNCHANGED <<Seen, claims>>
<1> USE DEF storeVars, loopVars, sharedVars
<1> DEFINE t == task[w][j]
           u == task'[w][j]
<1>t. /\ TypeOK /\ ExclusiveClaim /\ ClaimedIsIdle /\ NeverExpired /\ WritersOpen /\ StraysOpen
      /\ "db" \notin Faults /\ ~Deadline(w, j) /\ TaskStep(w, j)
  BY DEF LifecycleInv, SlotInv, ClaimInv, Deadline
<1>1. /\ t.pc # "idle"
      /\ \A v \in Workers, k \in Jobs : <<v, k>> # <<w, j>> => task'[v][k] = task[v][k]
      /\ UNCHANGED <<loop, cancelled, claims>>
      /\ jobs' = jobs \/ Execute(w, j)
  BY <1>t, OneTaskMoves
<1>2. /\ ~(loop[w].pc \in {"committed", "claimed"} /\ loop[w].job = j)
      /\ \A v \in Workers \ {w} : ~Holds(v, j) /\ task[v][j].pc = "idle"
  BY <1>t, <1>1 DEF Holds, ClaimedIsIdle, ExclusiveClaim
<1>3. UNCHANGED stray
  BY <1>t DEF TaskStep, Download, CacheHit, CacheMiss, ExtractText, ExtractChunk, EndChunks,
       StoreCache, Execute, Reply, GiveUp, Fetch, Notify, Return
<1>4. NeverExpired'
  <2>1. ~u.expired
    BY <1>t, ExpiredKept DEF NeverExpired
  <2> QED
    BY <1>t, <1>1, <2>1 DEF NeverExpired
<1>5. \A s \in stray : s.job \in Jobs
  BY <1>t, RankTypes
<1>6. CASE Execute(w, j)
  <2>1. /\ t.pc \in Written /\ ~t.done /\ ~cancelled[w]
        /\ Update(j, t.pc, t.result, t.confidence)
    BY <1>6 DEF Execute, WriteCtxDone, CtxDone
  <2>2. Open(j)
    BY <1>t, <2>1 DEF WritersOpen, MayWrite, Written, InFlight, Terminal
  <2>3. jobs'[j].status = t.pc /\ \A k \in Jobs \ {j} : jobs'[k] = jobs[k]
    BY <1>t, <2>1, UpdateStatus
  <2>4. u.pc = t.pc /\ u.done
    BY <1>t, <1>6 DEF Execute, TypeOK, TaskTypeOK, Tasks
  <2>5. MayWrite(w, j)' => Open(j)'
    BY <1>1, <1>2, <1>3, <2>1, <2>2, <2>3, <2>4 DEF MayWrite, Open, Written
  <2>6. \A v \in Workers \ {w} : ~MayWrite(v, j)'
    BY <1>1, <1>2 DEF MayWrite, Holds
  <2>7. ASSUME NEW v \in Workers, NEW k \in Jobs \ {j}, MayWrite(v, k)' PROVE Open(k)'
    <3>1. MayWrite(v, k)
      BY <1>1, <2>7 DEF MayWrite
    <3> QED
      BY <1>t, <1>3, <2>3, <3>1 DEF WritersOpen, Open
  <2>8. StraysOpen'
    BY <1>t, <1>3, <1>5, <2>2, <2>3 DEF StraysOpen, Open
  <2>9. Lifecycle!Next \/ UNCHANGED <<Seen, claims>>
    BY <1>t, <2>1, <2>2, OpenUpdate DEF Open, Lifecycle!Next
  <2> QED
    BY <1>4, <2>5, <2>6, <2>7, <2>8, <2>9 DEF WritersOpen
<1>7. CASE jobs' = jobs
  <2>1. MayWrite(w, j)' => MayWrite(w, j)
    <3>1. CASE /\ <<t.pc, u.pc>> \in Moves
               /\ t.pc = "completed" /\ u.pc = "failed" => GiveUp(w, j)
      <4>1. GiveUp(w, j) => cancelled[w]
        BY <1>t DEF GiveUp, WriteCtxDone, CtxDone, NeverExpired
      <4>2. u.pc \notin {"idle", "fetch", "notify", "return"} =>
              /\ t.pc \notin {"idle", "fetch", "notify", "return"}
              /\ t.pc \in Terminal => t.pc = "completed" /\ u.pc = "failed"
        BY <3>1 DEF Moves, Terminal
      <4> QED
        BY <1>1, <1>2, <3>1, <4>1, <4>2 DEF MayWrite
    <3>2. CASE u.pc = t.pc /\ (t.done => u.done)
      BY <1>1, <3>2 DEF MayWrite
    <3>3. CASE u.pc = "idle"
      BY <1>1, <1>2, <3>3 DEF MayWrite
    <3> QED
      BY <1>t, <3>1, <3>2, <3>3, TaskMoves DEF TypeOK, TaskTypeOK, Tasks
  <2>2. \A v \in Workers, k \in Jobs : MayWrite(v, k)' => MayWrite(v, k)
    BY <1>1, <2>1 DEF MayWrite
  <2> QED
    BY <1>t, <1>1, <1>3, <1>4, <1>7, <2>2 DEF WritersOpen, StraysOpen, Open, Seen
<1> QED
  BY <1>1, <1>6, <1>7

\* A process that stops or dies leaves at most one statement per job, the one
\* its task is at.
LEMMA ProcessEventLifecycle ==
  ASSUME LifecycleInv, NEW w \in Workers, ProcessEvent(w)
  PROVE  NeverExpired' /\ WritersOpen' /\ StraysOpen' /\ UNCHANGED <<Seen, claims>>
<1> USE DEF storeVars, loopVars, sharedVars
<1>t. /\ TypeOK /\ ExclusiveClaim /\ ClaimedIsIdle /\ NeverExpired /\ WritersOpen /\ StraysOpen
      /\ SlotsOf(w)
  BY DEF LifecycleInv, SlotInv, ClaimInv, Slots
<1>l. /\ loop \in [Workers -> [pc : LoopPcs, job : Jobs \cup {None}]]
      /\ task \in [Workers -> [Jobs -> Tasks]]
      /\ cancelled \in [Workers -> BOOLEAN]
  BY <1>t DEF TypeOK, LoopTypeOK, TaskTypeOK
<1>1. CASE Cancel(w) \/ Crash(w)
  <2> DEFINE left == Unfinished(w, Jobs, Written)
  <2>1. /\ stray' \subseteq stray \cup left
        /\ UNCHANGED <<jobs, claims>>
        /\ \A v \in Workers \ {w} : loop'[v] = loop[v] /\ task'[v] = task[v] /\ cancelled'[v] = cancelled[v]
        /\ \A j \in Jobs : task'[w][j] = task[w][j] \/ task'[w][j] = IdleTask
        /\ loop'[w] = loop[w] \/ loop'[w].pc = "crashed"
    BY <1>1, <1>l DEF Cancel, Crash, MoveTo, LeaveBehind
  <2>2. ASSUME NEW j \in Jobs PROVE ~(/\ ~cancelled'[w]
                                      /\ task'[w][j].pc \notin {"idle", "fetch", "notify", "return"})
    BY <1>1, <1>l DEF Cancel, Crash, IdleTask
  <2>3. \A s \in left :
          /\ s.job \in Jobs /\ MayWrite(w, s.job) /\ task[w][s.job].pc # "idle"
          /\ \A x \in left : x.job = s.job => x = s
    <3>1. \A j \in Jobs : ~WriteCtxDone(w, j) => ~cancelled[w]
      BY DEF WriteCtxDone, CtxDone
    <3> QED
      BY <3>1 DEF Unfinished, MayWrite, Written, InFlight, Terminal
  <2> HIDE DEF left
  <2>4. StraysOpen'
    <3>1. \A s \in left : Open(s.job)
      BY <1>t, <2>3 DEF WritersOpen
    <3>2. \A s \in left : jobs[s.job].status \in InFlight /\ \A x \in stray : x.job # s.job
      BY <3>1 DEF Open
    <3> QED
      BY <1>t, <2>1, <2>3, <3>2 DEF StraysOpen
  <2>5. ASSUME NEW v \in Workers, NEW k \in Jobs, MayWrite(v, k)' PROVE Open(k)'
    <3>1. MayWrite(v, k) /\ ~(v = w /\ task[w][k].pc # "idle")
      <4>1. CASE v = w
        <5>1. loop[w].pc \in {"committed", "claimed"} /\ loop[w].job = k
          BY <2>1, <2>2, <2>5, <4>1 DEF MayWrite
        <5> QED
          BY <1>t, <4>1, <5>1 DEF MayWrite, ClaimedIsIdle
      <4>2. CASE v # w
        BY <2>1, <2>5, <4>2 DEF MayWrite
      <4> QED
        BY <4>1, <4>2
    <3>2. \A s \in left : s.job # k
      <4>1. Holds(v, k)
        BY <3>1 DEF MayWrite, Holds
      <4>2. task[w][k].pc # "idle" => v = w
        BY <1>t, <4>1 DEF ExclusiveClaim, Holds
      <4> QED
        BY <2>3, <3>1, <4>2
    <3> QED
      BY <1>t, <2>1, <3>1, <3>2 DEF WritersOpen, Open
  <2>6. NeverExpired'
    <3>1. \A j \in Jobs : ~task'[w][j].expired
      BY <1>t, <2>1 DEF NeverExpired, IdleTask
    <3> QED
      BY <1>t, <2>1, <3>1 DEF NeverExpired
  <2> QED
    BY <2>1, <2>4, <2>5, <2>6 DEF WritersOpen, Seen
<1>2. CASE Restart(w)
  <2>1. /\ UNCHANGED <<jobs, claims, task, stray>>
        /\ loop' = [loop EXCEPT ![w] = [pc |-> "poll", job |-> None]]
        /\ cancelled' = [cancelled EXCEPT ![w] = FALSE]
        /\ loop[w].pc \in {"stopped", "crashed"}
    BY <1>2 DEF Restart, MoveTo
  <2>2. \A j \in Jobs : task[w][j].pc = "idle"
    BY <1>t, <2>1 DEF SlotsOf, Active
  <2>3. \A v \in Workers, k \in Jobs : MayWrite(v, k)' => MayWrite(v, k)
    BY <1>l, <2>1, <2>2 DEF MayWrite
  <2> QED
    BY <1>t, <2>1, <2>3 DEF NeverExpired, WritersOpen, StraysOpen, Open, Seen
<1>3. CASE EmptyPoll(w)
  BY <1>t, <1>3 DEF EmptyPoll, vars, NeverExpired, WritersOpen, StraysOpen, MayWrite, Open, Seen
<1> QED
  BY <1>1, <1>2, <1>3 DEF ProcessEvent

LEMMA OtherStepLifecycle ==
  ASSUME LifecycleInv, TypeOK',
         \/ \E d \in Deliveries : Deliver(d)
         \/ ExecuteStray
         \/ Environment
         \/ UNCHANGED vars
  PROVE  /\ NeverExpired' /\ WritersOpen' /\ StraysOpen'
         /\ Lifecycle!Next \/ UNCHANGED <<Seen, claims>>
<1> USE DEF storeVars, loopVars, sharedVars
<1>t. TypeOK /\ UnclaimedIsFree /\ NeverExpired /\ WritersOpen /\ StraysOpen
  BY DEF LifecycleInv, SlotInv, ClaimInv
<1>s. \A s \in stray : s.job \in Jobs /\ s.status \in Written
  BY <1>t, RankTypes
<1>1. CASE ExecuteStray
  <2>1. PICK s \in stray : /\ Update(s.job, s.status, s.result, s.confidence)
                           /\ stray' = stray \ {s} /\ UNCHANGED <<loop, cancelled, task>>
    BY <1>1 DEF ExecuteStray
  <2>2. jobs'[s.job].status = s.status /\ \A k \in Jobs \ {s.job} : jobs'[k] = jobs[k]
    BY <1>t, <1>s, <2>1, UpdateStatus
  <2>3. jobs[s.job].status \in InFlight /\ \A x \in stray' : x.job # s.job
    BY <1>t, <2>1 DEF StraysOpen
  <2>4. NeverExpired' /\ StraysOpen'
    BY <1>t, <1>s, <2>1, <2>2, <2>3 DEF NeverExpired, StraysOpen
  <2>5. ASSUME NEW v \in Workers, NEW k \in Jobs, MayWrite(v, k)' PROVE Open(k)'
    <3>1. Open(k)
      BY <1>t, <2>1, <2>5 DEF WritersOpen, MayWrite
    <3>2. k # s.job
      BY <3>1 DEF Open
    <3> QED
      BY <2>1, <2>2, <3>1, <3>2 DEF Open
  <2>6. Lifecycle!Next \/ UNCHANGED <<Seen, claims>>
    BY <1>t, <1>s, <2>1, <2>3, OpenUpdate DEF Lifecycle!Next
  <2> QED
    BY <2>4, <2>5, <2>6 DEF WritersOpen
<1>2. ASSUME NEW j \in Jobs, Submit(j)
      PROVE  /\ NeverExpired' /\ WritersOpen' /\ StraysOpen'
             /\ Lifecycle!Next \/ UNCHANGED <<Seen, claims>>
  <2>1. /\ jobs[j].status = "absent" /\ jobs' = [jobs EXCEPT ![j] = Blank("pending")]
        /\ UNCHANGED <<claims, loop, cancelled, task, stray>>
    BY <1>2 DEF Submit, Create
  <2>2. jobs'[j].status = "pending" /\ \A k \in Jobs \ {j} : jobs'[k] = jobs[k]
    BY <1>t, <2>1 DEF TypeOK, StoreTypeOK, Blank
  <2>3. \A s \in stray : s.job # j
    BY <1>t, <2>1 DEF UnclaimedIsFree, Unclaimed
  <2>4. \A v \in Workers : ~MayWrite(v, j)'
    BY <1>t, <2>1 DEF UnclaimedIsFree, Unclaimed, MayWrite, Holds
  <2>5. ASSUME NEW v \in Workers, NEW k \in Jobs \ {j}, MayWrite(v, k)' PROVE Open(k)'
    BY <1>t, <2>1, <2>2, <2>5 DEF WritersOpen, MayWrite, Open
  <2>6. NeverExpired' /\ StraysOpen'
    BY <1>t, <1>s, <2>1, <2>2, <2>3 DEF NeverExpired, StraysOpen
  <2>7. Lifecycle!Submit(j)
    <3>1. Stage[jobs'[j].status] = "queued" /\ Stage[jobs[j].status] = "absent"
      BY <2>1, <2>2, Stages
    <3>2. Seen' = [Seen EXCEPT ![j] = "queued"] /\ Seen[j] = "absent"
      BY <2>2, <3>1 DEF Seen
    <3> QED
      BY <2>1, <3>2 DEF Lifecycle!Submit, Seen
  <2> QED
    BY <2>4, <2>5, <2>6, <2>7 DEF WritersOpen, Lifecycle!Next
<1>3. CASE UNCHANGED <<jobs, claims, loop, cancelled, task, stray>>
  BY <1>t, <1>3 DEF NeverExpired, WritersOpen, StraysOpen, MayWrite, Open, Seen
<1> QED
  BY <1>1, <1>2, <1>3 DEF Deliver, Environment, RegisterHook, DeleteHook, Evict, vars

LEMMA LifecycleNext ==
  ASSUME Faults \cap {"db", "deadline"} = {}, LifecycleInv, [Next]_vars
  PROVE  LifecycleInv' /\ (Lifecycle!Next \/ UNCHANGED <<Seen, claims>>)
<1>1. SlotInv' /\ TypeOK'
  BY SlotNext DEF LifecycleInv, SlotInv, ClaimInv
<1> QED
  BY <1>1, LoopStepLifecycle, TaskStepLifecycle, ProcessEventLifecycle, OtherStepLifecycle
     DEF Next, LifecycleInv

\* Whatever is cancelled, killed, restarted or executed late, a client sees a
\* job handed out once and come to at most one outcome, which stays.
THEOREM WorkersImplementLifecycle ==
  ASSUME Faults \cap {"db", "deadline"} = {}
  PROVE  Spec => ImplementsLifecycle
<1>1. Init => LifecycleInv
  BY ClaimInvInit, SlotInit, LifecycleInit DEF LifecycleInv, SlotInv
<1>2. LifecycleInv /\ [Next]_vars => LifecycleInv'
  BY LifecycleNext
<1>3. Init => Lifecycle!Init
  BY Stages DEF Init, StoreInit, Blank, Lifecycle!Init
<1>4. LifecycleInv /\ [Next]_vars
        => [Lifecycle!Next]_<<[j \in Jobs |-> Stage[jobs[j].status]], claims>>
  BY LifecycleNext DEF Seen
<1> QED
  BY <1>1, <1>2, <1>3, <1>4, PTL DEF Spec, ImplementsLifecycle, Lifecycle!Spec
=============================================================================
