------------------------------- MODULE Worker -------------------------------
(***************************************************************************)
(* jobs.Worker: worker processes that claim rows of the jobs table, run    *)
(* the extraction pipeline on each in a goroutine under a deadline, write  *)
(* every stage to the row, cache the result by content hash and announce a *)
(* completed job to the tenant's webhooks.  Composes the table (JobStore)  *)
(* with the deliveries (Deliverer); the API and the LLM are environment.   *)
(*                                                                         *)
(* A database call has two moments: the statement executes, and its reply  *)
(* (or an error) reaches the caller.  Faults names what may go wrong:      *)
(*   "db"        a call fails although its context is live, before or      *)
(*               after its statement executed                              *)
(*   "deadline"  MaxJobDuration passes while a job is being processed      *)
(*   "shutdown"  a worker's context is cancelled by a signal               *)
(*   "crash"     a worker process dies                                     *)
(*   "late"      a statement its caller gave up on executes afterwards     *)
(* A failing download, extractor, LLM call or cache is always possible.    *)
(***************************************************************************)
EXTENDS JobStore, Integers, FiniteSets

CONSTANTS
  Hooks,        \* webhook ids
  Tenants,
  TenantOf,     \* [Jobs \cup Hooks -> Tenants], the tenant_id columns
  ContentOf,    \* [Jobs -> Contents], what the job's document and schema are
  ChunksOf,     \* [Contents -> 0..MaxChunks], how many chunks Chunk cuts it into
  Concurrency,  \* WorkerConfig.Concurrency
  MaxAttempts,
  Faults

ASSUME ContentOfAssumption == ContentOf \in [Jobs -> Contents]
ASSUME ChunksOfAssumption == ChunksOf \in [Contents -> 0 .. MaxChunks]
ASSUME TenantOfAssumption == TenantOf \in [Jobs \cup Hooks -> Tenants]
ASSUME ConcurrencyAssumption == Concurrency \in Nat \ {0}
ASSUME AttemptsAssumption == MaxAttempts \in Nat \ {0}
ASSUME FaultsAssumption == Faults \subseteq {"db", "deadline", "shutdown", "crash", "late"}

VARIABLES
  loop,         \* per worker, Run's position and the job it is claiming
  sem,          \* per worker, the filled slots of the semaphore channel
  drained,      \* per worker, the slots the shutdown loop has filled itself
  cancelled,    \* per worker, ctx.Done
  task,         \* per worker and job, the goroutine processing it
  stray,        \* statements given up on that the server still has
  cache,        \* Redis: per content key, the cached result
  hooks,        \* the webhooks table
  delivery      \* Deliverer's

Deliveries == Workers \X Jobs \X Hooks

D == INSTANCE Deliverer WITH Payloads <- Rows, NoPayload <- None

loopVars == <<loop, sem, drained, cancelled>>
sharedVars == <<stray, cache, hooks, delivery>>
vars == <<storeVars, loopVars, task, sharedVars>>

LoopPcs == {"poll", "selected", "committed", "claimed", "drain", "stopped", "crashed"}

\* A task writing a status is at the status it writes.
TaskPcs == {"idle", "download", "lookup", "text", "llm", "store", "fetch", "notify", "return"}
             \cup Written

Statements == [job : Jobs, status : Written, result : Extractions \cup {None},
               confidence : Confidences]

Tasks == [pc : TaskPcs,
          done : BOOLEAN,                    \* the statement has executed
          expired : BOOLEAN,                 \* jobCtx's deadline has passed
          next : 1 .. MaxChunks + 1,         \* the chunk to extract next
          got : ChunkSets,                   \* the chunks extracted
          result : Extractions \cup {None},  \* what Complete is given
          confidence : Confidences,
          payload : Rows \cup {None}]        \* the row GetByID returned

IdleTask == [pc |-> "idle", done |-> FALSE, expired |-> FALSE, next |-> 1, got |-> {},
             result |-> None, confidence |-> "none", payload |-> None]

\* A loop between a claim's SELECT and its goroutine has a job.
LoopTypeOK ==
  /\ loop \in [Workers -> [pc : LoopPcs, job : Jobs \cup {None}]]
  /\ \A w \in Workers :
       loop[w].pc \in {"selected", "committed", "claimed"} => loop[w].job \in Jobs
  /\ sem \in [Workers -> Int]
  /\ drained \in [Workers -> 0 .. Concurrency]
  /\ cancelled \in [Workers -> BOOLEAN]

TaskTypeOK == task \in [Workers -> [Jobs -> Tasks]]

SharedTypeOK ==
  /\ stray \subseteq Statements
  /\ cache \in [Contents -> Extractions \cup {None}]
  /\ hooks \in [Hooks -> {"absent", "active", "inactive"}]
  /\ D!DeliveryTypeOK

TypeOK == StoreTypeOK /\ LoopTypeOK /\ TaskTypeOK /\ SharedTypeOK

Init ==
  /\ StoreInit
  /\ loop = [w \in Workers |-> [pc |-> "poll", job |-> None]]
  /\ sem = [w \in Workers |-> 0]
  /\ drained = [w \in Workers |-> 0]
  /\ cancelled = [w \in Workers |-> FALSE]
  /\ task = [w \in Workers |-> [j \in Jobs |-> IdleTask]]
  /\ stray = {}
  /\ cache = [c \in Contents |-> None]
  /\ hooks = [h \in Hooks |-> "absent"]
  /\ D!DeliveryInit

-----------------------------------------------------------------------------
(* Contexts and the statements they leave behind *)

\* jobCtx is done: by its deadline or with the worker's context.
CtxDone(w, j) == task[w][j].expired \/ cancelled[w]

\* Mutants: Fail is given jobCtx like the rest; it is given no context at all.
JobCtxDone(w, j) == CtxDone(w, j)
Detached(w, j) == task[w][j].pc # "failed" /\ CtxDone(w, j)

\* The context of the statement the task is at: Fail is given the worker's
\* context, every other statement jobCtx.
WriteCtxDone(w, j) == IF task[w][j].pc = "failed" THEN cancelled[w] ELSE CtxDone(w, j)

\* The statements of some of w's tasks that may have been sent (under a context
\* that is not done) and have not executed.
Unfinished(w, J, S) ==
  {[job |-> j, status |-> task[w][j].pc, result |-> task[w][j].result,
    confidence |-> task[w][j].confidence] :
   j \in {k \in J : task[w][k].pc \in S /\ ~task[w][k].done /\ ~WriteCtxDone(w, k)}}

\* Their callers stop waiting for them; the server may still have some.
LeaveBehind(statements) ==
  \E S \in SUBSET statements :
    /\ S # {} => "late" \in Faults
    /\ stray' = stray \cup S

DeliveriesOf(w) == {w} \X Jobs \X Hooks
DeliveriesFor(w, j) == {w} \X {j} \X Hooks

-----------------------------------------------------------------------------
(* Run: the claiming loop *)

\* The task, its other fields those of t, goes on at pc.
Become(w, j, t, pc) == task' = [task EXCEPT ![w][j] = [t EXCEPT !.pc = pc, !.done = FALSE]]
GoTo(w, j, pc) == Become(w, j, task[w][j], pc)

At(w, pc) == loop[w].pc = pc
MoveTo(w, pc, j) == loop' = [loop EXCEPT ![w] = [pc |-> pc, job |-> j]]

\* ClaimNext's SELECT found nothing: sleep and poll again.
EmptyPoll(w) ==
  /\ At(w, "poll")
  /\ ~cancelled[w]
  /\ Claimable = {}
  /\ UNCHANGED vars

SelectNext(w) ==
  /\ At(w, "poll")
  /\ ~cancelled[w]
  /\ \E j \in Jobs : LockOldest(w, j) /\ MoveTo(w, "selected", j)
  /\ UNCHANGED <<sem, drained, cancelled, task, sharedVars>>

\* The UPDATE or the COMMIT failed, or the deferred Rollback ran.
AbortClaim(w) ==
  /\ At(w, "selected")
  /\ cancelled[w] \/ "db" \in Faults
  /\ Rollback(loop[w].job)
  /\ MoveTo(w, "poll", None)
  /\ UNCHANGED <<sem, drained, cancelled, task, sharedVars>>

Claim(w) ==
  /\ At(w, "selected")
  /\ ~cancelled[w]
  /\ CommitClaim(loop[w].job)
  /\ MoveTo(w, "committed", loop[w].job)
  /\ UNCHANGED <<sem, drained, cancelled, task, sharedVars>>

\* Commit returned to the caller.
AckClaim(w) ==
  /\ At(w, "committed")
  /\ MoveTo(w, "claimed", loop[w].job)
  /\ UNCHANGED <<storeVars, sem, drained, cancelled, task, sharedVars>>

\* Commit executed and returned an error: ClaimNext does not return the job.  One
\* that executes later is one that executed before: the row is locked until then.
LoseAck(w) ==
  /\ At(w, "committed")
  /\ cancelled[w] \/ "db" \in Faults
  /\ MoveTo(w, "poll", None)
  /\ UNCHANGED <<storeVars, sem, drained, cancelled, task, sharedVars>>

FreeSlot(w) == sem[w] < Concurrency

\* sem <- struct{}{} (it blocks while the channel is full, whatever ctx says)
\* and the go statement.
Spawn(w) ==
  LET j == loop[w].job IN
  /\ At(w, "claimed")
  /\ FreeSlot(w)
  /\ sem' = [sem EXCEPT ![w] = @ + 1]
  /\ Become(w, j, IdleTask, "download")
  /\ MoveTo(w, "poll", None)
  /\ UNCHANGED <<storeVars, drained, cancelled, sharedVars>>

\* The select at the top of the loop sees ctx.Done.
BeginDrain(w) ==
  /\ At(w, "poll")
  /\ cancelled[w]
  /\ MoveTo(w, "drain", None)
  /\ UNCHANGED <<storeVars, sem, drained, cancelled, task, sharedVars>>

DrainSlot(w) ==
  /\ At(w, "drain")
  /\ drained[w] < Concurrency
  /\ FreeSlot(w)
  /\ sem' = [sem EXCEPT ![w] = @ + 1]
  /\ drained' = [drained EXCEPT ![w] = @ + 1]
  /\ UNCHANGED <<storeVars, loop, cancelled, task, sharedVars>>

\* Run returns, main returns, and the delivery goroutines die with the process.
Stop(w) ==
  /\ At(w, "drain")
  /\ drained[w] = Concurrency
  /\ MoveTo(w, "stopped", None)
  /\ D!KillAll(DeliveriesOf(w))
  /\ UNCHANGED <<storeVars, sem, drained, cancelled, task, stray, cache, hooks>>

-----------------------------------------------------------------------------
(* The task: processJob and the goroutine around it *)

In(w, j, pc) == task[w][j].pc = pc

\* The object store ignores the context.
Download(w, j) ==
  /\ In(w, j, "download")
  /\ \E pc \in {"lookup", "failed"} : GoTo(w, j, pc)
  /\ UNCHANGED <<storeVars, loopVars, sharedVars>>

\* Mutant: the hash leaves the document out.
OneKey(j) == CHOOSE c \in Contents : TRUE

\* contentHash of the document and its schema.
CacheKey(j) == ContentOf[j]

CacheHit(w, j) ==
  LET cached == cache[CacheKey(j)] IN
  /\ In(w, j, "lookup")
  /\ ~CtxDone(w, j)
  /\ cached # None
  /\ Become(w, j, [task[w][j] EXCEPT !.result = cached, !.confidence = "cache_hit"], "completed")
  /\ UNCHANGED <<storeVars, loopVars, sharedVars>>

\* A miss, or any error of the cache.
CacheMiss(w, j) ==
  /\ In(w, j, "lookup")
  /\ GoTo(w, j, "ingesting")
  /\ UNCHANGED <<storeVars, loopVars, sharedVars>>

\* Extract text: fails, or finds none, or goes on to chunk it.
ExtractText(w, j) ==
  /\ In(w, j, "text")
  /\ \E pc \in {"chunking", "failed"} : GoTo(w, j, pc)
  /\ UNCHANGED <<storeVars, loopVars, sharedVars>>

\* Mutant: the loop runs one chunk too far.
OneChunkTooMany(w, j) == task[w][j].next <= ChunksOf[ContentOf[j]] + 1

MoreChunks(w, j) == task[w][j].next <= ChunksOf[ContentOf[j]]

\* One turn of the LLM loop: a chunk that fails is logged and skipped.
ExtractChunk(w, j) ==
  LET i == task[w][j].next IN
  /\ In(w, j, "llm")
  /\ MoreChunks(w, j)
  /\ \/ ~CtxDone(w, j) /\ Become(w, j, [task[w][j] EXCEPT !.next = i + 1, !.got = @ \cup {i}], "llm")
     \/ Become(w, j, [task[w][j] EXCEPT !.next = i + 1], "llm")
  /\ UNCHANGED <<storeVars, loopVars, sharedVars>>

\* Mutant: a job whose chunks all failed is assembled like any other.
AssembleAnyway(got) == "assembling"

AfterChunks(got) == IF got = {} THEN "failed" ELSE "assembling"

EndChunks(w, j) ==
  /\ In(w, j, "llm")
  /\ ~MoreChunks(w, j)
  /\ GoTo(w, j, AfterChunks(task[w][j].got))
  /\ UNCHANGED <<storeVars, loopVars, sharedVars>>

\* mergeResults over the chunks that answered.
Merged(w, j) == [content |-> ContentOf[j], chunks |-> task[w][j].got]

\* setCache: an error is logged and the job goes on.
StoreCache(w, j) ==
  /\ In(w, j, "store")
  /\ \/ ~CtxDone(w, j) /\ cache' = [cache EXCEPT ![CacheKey(j)] = Merged(w, j)]
     \/ UNCHANGED cache
  /\ Become(w, j, [task[w][j] EXCEPT !.result = Merged(w, j), !.confidence = "fields"], "completed")
  /\ UNCHANGED <<storeVars, loopVars, stray, hooks, delivery>>

\* The statement a task is at executes.
Execute(w, j) ==
  LET t == task[w][j] IN
  /\ t.pc \in Written
  /\ ~t.done
  /\ ~WriteCtxDone(w, j)
  /\ Update(j, t.pc, t.result, t.confidence)
  /\ task' = [task EXCEPT ![w][j].done = TRUE]
  /\ UNCHANGED <<loopVars, sharedVars>>

AfterWrite(s) ==
  CASE s = "ingesting"  -> "text"
    [] s = "chunking"   -> "extracting"
    [] s = "extracting" -> "llm"
    [] s = "assembling" -> "store"
    [] s = "completed"  -> "fetch"
    [] s = "failed"     -> "return"

Reply(w, j) ==
  /\ task[w][j].pc \in Written
  /\ task[w][j].done
  /\ GoTo(w, j, AfterWrite(task[w][j].pc))
  /\ UNCHANGED <<storeVars, loopVars, sharedVars>>

\* Mutant: Complete's error starts the pipeline again.
StartAgain(pc) == IF pc = "completed" THEN "ingesting" ELSE AfterWrite(pc)

AfterError(pc) == IF pc = "completed" THEN "failed" ELSE AfterWrite(pc)

\* The call returns an error.  UpdateStatus and Fail swallow it; Complete's
\* makes processJob fail, whether or not the statement executed.
GiveUp(w, j) ==
  LET pc == task[w][j].pc IN
  /\ pc \in Written
  /\ \/ WriteCtxDone(w, j) /\ UNCHANGED stray
     \/ ~WriteCtxDone(w, j) /\ "db" \in Faults /\ LeaveBehind(Unfinished(w, {j}, Written))
  /\ GoTo(w, j, AfterError(pc))
  /\ UNCHANGED <<storeVars, loopVars, cache, hooks, delivery>>

\* GetByID: the row as it is now, or an error, which ends the job quietly.
Fetch(w, j) ==
  /\ In(w, j, "fetch")
  /\ \/ ~CtxDone(w, j) /\ Become(w, j, [task[w][j] EXCEPT !.payload = jobs[j]], "notify")
     \/ (CtxDone(w, j) \/ "db" \in Faults) /\ GoTo(w, j, "return")
  /\ UNCHANGED <<storeVars, loopVars, sharedVars>>

\* Mutant: the tenant is not looked at.
ActiveHooks(t) == {h \in Hooks : hooks[h] = "active"}

ListActive(t) == {h \in Hooks : hooks[h] = "active" /\ TenantOf[h] = t}

\* fireWebhooks: one goroutine per active hook of the tenant, or none when
\* ListActive fails.
Notify(w, j) ==
  /\ In(w, j, "notify")
  /\ \/ ~CtxDone(w, j) /\ D!StartAll({w} \X {j} \X ListActive(TenantOf[j]), task[w][j].payload)
     \/ (CtxDone(w, j) \/ "db" \in Faults) /\ UNCHANGED delivery
  /\ GoTo(w, j, "return")
  /\ UNCHANGED <<storeVars, loopVars, stray, cache, hooks>>

\* Mutant: the slot is not given back.
KeepSlot(n) == n

ReleaseSlot(n) == n - 1

\* The deferred cancel and <-sem: jobCtx ends, and with it the context of the
\* deliveries just started.
Return(w, j) ==
  /\ In(w, j, "return")
  /\ D!CutAll(DeliveriesFor(w, j))
  /\ task' = [task EXCEPT ![w][j] = IdleTask]
  /\ sem' = [sem EXCEPT ![w] = ReleaseSlot(@)]
  /\ UNCHANGED <<storeVars, loop, drained, cancelled, stray, cache, hooks>>

\* MaxJobDuration passes.
Deadline(w, j) ==
  /\ "deadline" \in Faults
  /\ task[w][j].pc # "idle"
  /\ ~task[w][j].expired
  /\ task' = [task EXCEPT ![w][j].expired = TRUE]
  /\ LeaveBehind(Unfinished(w, {j}, Written \ {"failed"}))
  /\ D!CutAll(DeliveriesFor(w, j))
  /\ UNCHANGED <<storeVars, loopVars, cache, hooks>>

-----------------------------------------------------------------------------
(* Processes that are told to stop, die and come back *)

\* SIGINT or SIGTERM: runCancel ends the worker's context and every jobCtx.
Cancel(w) ==
  /\ "shutdown" \in Faults
  /\ ~cancelled[w]
  /\ loop[w].pc \notin {"stopped", "crashed"}
  /\ cancelled' = [cancelled EXCEPT ![w] = TRUE]
  /\ LeaveBehind(Unfinished(w, Jobs, Written))
  /\ D!CutAll(DeliveriesOf(w))
  /\ UNCHANGED <<storeVars, loop, sem, drained, task, cache, hooks>>

\* PostgreSQL rolls the open transaction of a dead client back.
Crash(w) ==
  /\ "crash" \in Faults
  /\ loop[w].pc \notin {"stopped", "crashed"}
  /\ MoveTo(w, "crashed", None)
  /\ lock' = [j \in Jobs |-> IF lock[j] = w THEN None ELSE lock[j]]
  /\ task' = [task EXCEPT ![w] = [j \in Jobs |-> IdleTask]]
  /\ sem' = [sem EXCEPT ![w] = 0]
  /\ drained' = [drained EXCEPT ![w] = 0]
  /\ LeaveBehind(Unfinished(w, Jobs, Written))
  /\ D!KillAll(DeliveriesOf(w))
  /\ UNCHANGED <<jobs, claims, cancelled, cache, hooks>>

\* A new process: it looks at pending rows only, whatever the last one left.
Restart(w) ==
  /\ loop[w].pc \in {"stopped", "crashed"}
  /\ MoveTo(w, "poll", None)
  /\ sem' = [sem EXCEPT ![w] = 0]
  /\ drained' = [drained EXCEPT ![w] = 0]
  /\ cancelled' = [cancelled EXCEPT ![w] = FALSE]
  /\ UNCHANGED <<storeVars, task, sharedVars>>

\* A statement nobody waits for any more executes.
ExecuteStray ==
  \E s \in stray :
    /\ Update(s.job, s.status, s.result, s.confidence)
    /\ stray' = stray \ {s}
    /\ UNCHANGED <<loopVars, task, cache, hooks, delivery>>

-----------------------------------------------------------------------------
(* The environment: the API's writes, Redis's clock, the webhook receivers *)

\* HandleExtract's Create, after the upload.
Submit(j) ==
  /\ Create(j)
  /\ UNCHANGED <<loopVars, task, sharedVars>>

RegisterHook(h) ==
  /\ hooks[h] = "absent"
  /\ hooks' = [hooks EXCEPT ![h] = "active"]
  /\ UNCHANGED <<storeVars, loopVars, task, stray, cache, delivery>>

DeleteHook(h) ==
  /\ hooks[h] = "active"
  /\ hooks' = [hooks EXCEPT ![h] = "inactive"]
  /\ UNCHANGED <<storeVars, loopVars, task, stray, cache, delivery>>

\* CacheTTL passes, or Redis evicts the key.
Evict(c) ==
  /\ cache[c] # None
  /\ cache' = [cache EXCEPT ![c] = None]
  /\ UNCHANGED <<storeVars, loopVars, task, stray, hooks, delivery>>

Deliver(d) ==
  /\ D!DeliveryStep(d)
  /\ UNCHANGED <<storeVars, loopVars, task, stray, cache, hooks>>

-----------------------------------------------------------------------------
LoopStep(w) ==
  \/ SelectNext(w) \/ AbortClaim(w) \/ Claim(w) \/ AckClaim(w) \/ LoseAck(w)
  \/ Spawn(w) \/ BeginDrain(w) \/ DrainSlot(w) \/ Stop(w)

TaskStep(w, j) ==
  \/ Download(w, j) \/ CacheHit(w, j) \/ CacheMiss(w, j) \/ ExtractText(w, j)
  \/ ExtractChunk(w, j) \/ EndChunks(w, j) \/ StoreCache(w, j)
  \/ Execute(w, j) \/ Reply(w, j) \/ GiveUp(w, j)
  \/ Fetch(w, j) \/ Notify(w, j) \/ Return(w, j)

ProcessEvent(w) == EmptyPoll(w) \/ Cancel(w) \/ Crash(w) \/ Restart(w)

Environment ==
  \/ \E j \in Jobs : Submit(j)
  \/ \E h \in Hooks : RegisterHook(h) \/ DeleteHook(h)
  \/ \E c \in Contents : Evict(c)

Next ==
  \/ \E w \in Workers : LoopStep(w) \/ ProcessEvent(w)
  \/ \E w \in Workers, j \in Jobs : TaskStep(w, j) \/ Deadline(w, j)
  \/ \E d \in Deliveries : Deliver(d)
  \/ ExecuteStray
  \/ Environment

Spec == Init /\ [][Next]_vars

\* A process that is up keeps running its loop and its goroutines.  Nothing is
\* assumed of faults, clients, hooks, evictions or restarts.
Fairness ==
  /\ \A w \in Workers : WF_vars(LoopStep(w))
  /\ \A w \in Workers, j \in Jobs : WF_vars(TaskStep(w, j))
  /\ \A d \in Deliveries : WF_vars(Deliver(d))

FairSpec == Spec /\ Fairness

-----------------------------------------------------------------------------
(* Properties *)

\* The worker is answerable for the job: its loop has claimed it or one of its
\* goroutines is processing it.
Holds(w, j) ==
  \/ loop[w].pc \in {"committed", "claimed"} /\ loop[w].job = j
  \/ task[w][j].pc # "idle"

\* FOR UPDATE SKIP LOCKED hands a job to one worker, once, whatever crashes,
\* lost acknowledgements and restarts come in between (ClaimNext).
ExclusiveClaim ==
  \A j \in Jobs :
    /\ claims[j] <= 1
    /\ \A v, w \in Workers : Holds(v, j) /\ Holds(w, j) => v = w

\* The pipeline only moves forward: no write a worker waits for takes a row back
\* to an earlier stage, and none is made over a failure, though UpdateStatus,
\* Complete and Fail update whatever they find.  Only a statement that executes
\* after its caller gave it up can.
Rank == [s \in Statuses |->
  CASE s = "absent" -> 0 [] s = "pending" -> 1 [] s = "ingesting" -> 2
    [] s = "chunking" -> 3 [] s = "extracting" -> 4 [] s = "assembling" -> 5
    [] s = "completed" -> 6 [] s = "failed" -> 7]

ForwardOnly ==
  [][ExecuteStray \/ \A j \in Jobs : Rank[jobs[j].status] <= Rank[jobs'[j].status]]_jobs

\* A job's result was extracted from its own document, though it may come from
\* another job through the cache, and is not empty; a completed job has one, and
\* a failed job has an error.
OutcomeSound ==
  \A j \in Jobs :
    LET row == jobs[j] IN
    /\ row.result # None =>
         /\ row.result.content = ContentOf[j]
         /\ row.result.chunks # {}
         /\ row.confidence # "none"
    /\ row.status = "completed" => row.result # None
    /\ row.status = "failed" => row.error

\* A job is announced by at most one worker, to hooks of its own tenant, with
\* the row a poll still returns: a client is never told of a completion that a
\* later Fail takes back (Complete, GetByID, fireWebhooks).
AnnouncedIsFinal ==
  \A w \in Workers, j \in Jobs, h \in Hooks :
    LET d == delivery[<<w, j, h>>] IN
    d.pc # "idle" =>
      /\ d.payload = jobs[j]
      /\ jobs[j].status = "completed"
      /\ TenantOf[h] = TenantOf[j]
      /\ \A v \in Workers \ {w} : delivery[<<v, j, h>>].pc = "idle"

\* The semaphore counts the goroutines that run and the slots the shutdown
\* took, so that a drained worker has none left and a worker holds at most one
\* job more than Concurrency (Run's send on sem follows ClaimNext).
Active(w) == {j \in Jobs : task[w][j].pc # "idle"}
SlotAccounting ==
  \A w \in Workers :
    /\ sem[w] = drained[w] + Cardinality(Active(w))
    /\ sem[w] <= Concurrency
    /\ loop[w].pc \in {"stopped", "crashed"} => Active(w) = {}
    /\ Cardinality({j \in Jobs : Holds(w, j)}) <= Concurrency + 1

\* A row is never left at an intermediate stage by everybody: some worker is
\* answerable for it (Fail is reached from every error of processJob).
NoStrandedJob ==
  \A j \in Jobs : jobs[j].status \in InFlight => \E w \in Workers : Holds(w, j)

\* A submitted job reaches a final status, and keeps one.
EveryJobSettles ==
  \A j \in Jobs : jobs[j].status = "pending" ~> [](jobs[j].status \in Terminal)

\* Without deadlines and database errors the workers implement the abstract
\* queue: a job goes to one worker, once, and its outcome is never rewritten,
\* though a crash or a shutdown may keep it from having one.
Stage == [s \in Statuses |->
  CASE s = "pending" -> "queued" [] s \in InFlight -> "running" [] OTHER -> s]
Lifecycle == INSTANCE JobLifecycle
  WITH state <- [j \in Jobs |-> Stage[jobs[j].status]], handed <- claims
ImplementsLifecycle == Lifecycle!Spec

\* A worker that is told to stop stops: the drain waits for goroutines that
\* all end (Run's shutdown loop).
CancelledStops ==
  \A w \in Workers : cancelled[w] ~> loop[w].pc \in {"stopped", "crashed"}

-----------------------------------------------------------------------------
(* What the repository says and the code does not keep *)

\* README: failed deliveries are retried up to 5 times.  One that cannot be sent at
\* all is not meant.
RetriedToTheEnd ==
  \A d \in Deliveries :
    delivery[d].pc \in D!Ended \ {"delivered", "unsent"} => delivery[d].attempt = MaxAttempts
=============================================================================
