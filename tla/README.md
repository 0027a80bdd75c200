# docpulse in TLA+

docpulse turns documents into structured JSON. A client uploads a document with
a JSON schema, an API process stores the file and inserts a row into a
PostgreSQL table, worker processes claim rows and run each through a pipeline
(text extraction, chunking, an LLM call per chunk, merging), and webhooks
announce the result. This directory models the parts of that whose correctness
depends on order, failure or counting, checks them with TLC on small instances
and proves some of the results with TLAPS for every instance.

Paths below are relative to `src/`.

## 1. Inventory

### Components

| component | state it keeps | operations | module |
|---|---|---|---|
| Job queue, `internal/database/job_store.go` | the `jobs` table; row locks of open transactions | `Create`, `ClaimNext` (BEGIN, SELECT FOR UPDATE SKIP LOCKED, UPDATE, COMMIT), `UpdateStatus`, `Complete`, `Fail`; `GetByID`, `List`, `Count` read | `JobStore`, promise: `JobLifecycle` |
| Worker, `internal/jobs/worker.go`, `cmd/worker/main.go` | semaphore channel, one goroutine per job with its context and results so far | `Run`, `processJob`, `checkCache`, `setCache`, `fireWebhooks`, signal handling | `Worker` |
| Result merging, `mergeResults` in `worker.go` | local | one pure function with two loops | `Merger` |
| Webhook deliverer, `internal/webhook/deliverer.go` | one goroutine per delivery: attempt, backoff | `Deliver` | `Deliverer` |
| Webhook store, `internal/database/webhook_store.go` | the `webhooks` table | `Create`, `Delete`, `ListActive` | in `Worker` |
| LLM router, `internal/llm/router.go` | local: tier and attempt | `Extract`, `selectTier`, `callLLM`, `validateResponse` | `LLMRouter` |
| Chunker, `internal/extraction/chunker.go` | local: builder, chunks, sequence number | `Chunk`, `splitLongParagraph`, `getOverlap`, `finalizeChunk` | `Chunker` |
| Rate limiter, `internal/api/middleware/ratelimit.go`, `cache.RateIncr` | a Redis counter per tenant and minute, with an expiry | `RateLimit` | `RateLimiter` |
| Result cache, `internal/cache/cache.go` | a Redis key per content hash, with a TTL | `Get`, `Set` | in `Worker` |
| HTTP API, `internal/api/handlers.go`, `cmd/api/main.go` | the handlers in flight; the process | `HandleExtract` (checks, upload, insert, response), `HandleListJobs`, `HandleGetJob`, webhooks; signal and `Shutdown` | `API`, promise: `Intake`; `HandleGetJob` in `Polling`, hooks in `Worker` |
| Object store, `internal/storage/store.go` | files | `Upload`, `Download` | `API`; downloads in `Worker` |
| Ingestion | none | detect a format, extract text | outcomes in `API` and `Worker` |
| Frontend, `internal/api/frontend/index.html` | `pollTimer`, the intervals, the elements of the page | `submitJob`, `pollJob` (every 1.5 seconds), `showResult`, `resetForm` | `Polling` |
| Authentication and tenants, `internal/api/middleware/auth.go`, `internal/database/tenant_store.go`; `scripts/seed.go` | the `tenants` table | `Auth`, `Create`, `CreateIfNotExists`, `seedDevTenant` | `API` |
| Configuration, logging, migrations | none that changes | | not modelled |

### How they interact

The API and the workers share the jobs table and nothing else: the API inserts
`pending` rows, a worker claims the oldest one and overwrites its status at
every stage. A worker's loop (`Run`) claims; a goroutine per job processes,
bounded by a semaphore channel; a goroutine per hook delivers. Three contexts
nest: the worker's (ended by a signal), the job's (`MaxJobDuration`, ended by the
deferred cancel as soon as `processJob` returns) and, inside it, the deliveries'.
Workers share Redis, which may lose a key at any moment. Every one of these
calls can fail before or after it took effect. An API process stores the file of
a job and then inserts its row, and may be told to stop between any two of these
steps. The page polls for the job it submitted last; its callbacks run one at a
time but answers arrive in any order, and they share one `pollTimer`.

### What is hard

* Claims: two workers and one row; a COMMIT that executes and whose reply is lost.
* Status writes are unconditional: order and lateness decide what the row ends as.
* A deadline or a signal comes between a statement and its reply; `Complete`
  may have executed when the error path calls `Fail`.
* `Fail` uses the worker's context, everything else the job's.
* Nobody looks at a row that is neither pending nor final: a job lost is lost.
* The shutdown waits for goroutines by filling their semaphore.
* Webhooks are read from one moment of the row and sent in a later one.
* Counting by hand: attempts in `Deliver`, attempts and escalations in `Extract`,
  lengths, separators and a sequence number shared by two loops in `Chunk`.
* A rate-limit key whose life and whose window start at different moments.
* A file, a row and an answer that are not one transaction; an INSERT that executes
  after its handler reported an error, or after the process is gone.
* Pages cut by OFFSET from a list that grows at its head, counted by another statement.
* A tenant that every start seeds again, while rows and handlers have its first id.
* Two submissions and several polls of one page, whose answers overtake each other.

`PROJECT.json` lists each of these at its line, with the property that would
catch it going wrong.

### What makes each component correct

* queue and worker: a job is claimed once; its status moves forward only; a
  completed job has a sound result of its own document; no job is lost; a
  worker never holds more than it may, and stops when told to;
* deliverer: bounded attempts, none after an acknowledgement, it always returns;
* webhooks: what is announced is what the table keeps, to the right tenant;
* router: bounded calls and at most one on the cheap model; the answer is valid
  and names the model that gave it;
* chunker: chunks are numbered by place and no text is lost before the cap;
* merger: the result does not depend on the order of a Go map;
* rate limiter: the limit holds, and nobody is rejected for another's minute;
* API: a row has its document, a refused request leaves nothing, an accepted one has
  its job, and is found with its key; walking through the list misses no job without
  a reason;
* page: one interval, the result of the job it polls for, a button that comes back.

## 2. Modules

```
JobStore <--- Worker ---> Deliverer      LLMRouter   Chunker   Merger   RateLimiter   Polling
                 |                           |          |         |          |
                 +--> JobLifecycle      MCLLMRouter MCChunker MCMerger MCRateLimiter
              MCWorker   (refined)
                                         API --> Intake (refined)
                                          |
                                        MCAPI
WorkerProofs ---> DelivererProofs   (instantiated as Worker instantiates Deliverer)
LLMRouterProofs  ChunkerProofs  MergerProofs  RateLimiterProofs  APIProofs  PollingProofs
```

**JobStore** has the table (`jobs`), the row locks (`lock`) and the number of
committed claims of each row as history (`claims`), with one operator per SQL
statement or transaction step. A row keeps its status, its result (of which
content and which chunks), the kind of its confidence scores and whether it has
an error.

**Worker** extends JobStore and instantiates Deliverer. `loop[w]` is the place of
`Run`, `task[w][j]` the goroutine that processes `j`, `sem[w]` the filled slots,
`drained[w]` those the shutdown filled. A database call is two steps, the
statement (`Execute`, `Claim`) and its reply (`Reply`, `AckClaim`), or an error
that may come before or after the statement (`GiveUp`, `AbortClaim`, `LoseAck`). The
stages of `processJob` are the values of `task[w][j].pc`: `download`, `lookup`
(cache), `ingesting`, `text`, `chunking`, `extracting`, `llm`, `assembling`,
`store` (merge and cache), `completed`, `fetch`, `notify`, `return`, and `failed`,
where the goroutine of `Run` calls `Fail`. `Deadline`, `Cancel`, `Crash`, `Restart`
and `ExecuteStray` are the faults; the constant `Faults` says which may happen. The
API's writes (`Submit`, `RegisterHook`, `DeleteHook`) and Redis (`Evict`) are the
environment.

**JobLifecycle** is what a client of the queue relies on: queued, running, one
outcome, handed out once. `Worker!Lifecycle` maps every intermediate status to
"running" and `claims` to `handed`.

**Deliverer** is `Deliver` attempt by attempt. `cut` is the end of its context,
which makes `client.Do` fail and lets the backoff's `select` choose; `hits` counts
what the receiver saw. A body or a request that cannot be made (`Unsendable`) ends it at once.

**LLMRouter** is one call of `Extract` for any schema: whether it is complex
decides the first tier, a failed call or an invalid answer escalates, and each
counts as an attempt. Whether an answer is valid is a choice of the model that gave it.

**Chunker** is `Chunk` with its two loops over lengths. A chunk remembers the
sentences it has whole, so that loss and repetition are visible; the overlap is any
suffix `getOverlap` may return, with the sentences short enough to be whole in it.

**Merger** is `mergeResults`; the fields of an answer are visited in any order. What it is
to compute is said without an order: `Given(k)` are the answers that have field `k`,
`First(k)` the first of them, and `Joined` the items of the arrays among some values.

**RateLimiter** is `RateLimit` with the two pipelined commands of `RateIncr` as two
steps, Redis's expiry and a clock.

**API** is `HandleExtract` from the first check to the response, with the process it
runs in, and `HandleListJobs`. `pc[r]` is where the handler of request `r` is, `disk[r]`
the file `Upload` writes (a part of it until it returns), `table` the rows, `late` the
INSERTs their callers gave up on and PostgreSQL may still execute, `told[r]` what reached the
client. `Exit` is the end of `Shutdown`, after its handlers or after its 30
seconds, `Crash` any other death. A request makes its own job id and storage key, so a client that
retries is another request. `tenants` is the table by key and `owner[r]` the id `Auth` found; `Seed`
is the seed script and `SeedDevTenant` a part of every start. `walk` is a client that asks for page after page of one
tenant; `CountJobs` and `ListJobs` are the two statements of a request, and `PagesOf` is any
page `ORDER BY created_at DESC LIMIT OFFSET` may give when rows share a `created_at`.

**Intake** is what a client relies on: an accepted request has its job, a refused one
never gets it, no job goes away. `API!ImplementsIntake` maps `job` to `table` and
`answer` to `told`.

**Polling** is the page's script, one action per stretch between two awaits. `live` is the
set of intervals that tick, `pollTimer` the one the variable names, `poll[x]` a
callback that waits for its answer, `posting` the submissions `submitJob` waits for;
`enabled`, `visible`, `result`, `error` and `label` are the elements. `Serve` and `Deny` are
`HandleGetJob` and whatever answers instead of it, `Finish` is a worker.

`MC*` modules give the constants values for TLC. Operators whose comment says
"Mutant" are wrong variants of the definition that follows them: each property
has been seen to fail with one of them in place.

## 3. Runs

| run | what is asked | instance |
|---|---|---|
| `deliverer` | `AttemptsAccounted`, `NoPostAfterReturn`, `DeliverReturns` | two deliveries, five attempts |
| `worker_faults` | `TypeOK`, `ExclusiveClaim`, `OutcomeSound`, `ForwardOnly` | two workers, two jobs with different documents of one and two chunks; database errors, deadlines, shutdowns, crashes |
| `worker_settles` | `NoStrandedJob`, `AnnouncedIsFinal`, `EveryJobSettles` | two workers, jobs of two tenants, one and two chunks, one hook; deadlines |
| `worker_shutdown` | `SlotAccounting`, `OutcomeSound`, `CancelledStops`, `ImplementsLifecycle` | one worker, three jobs, one slot; a document submitted twice and another of two chunks; shutdowns, crashes, late statements |
| `router` | `CallsBounded`, `AnswerSound` | every schema over three fields, chunks at and over the limit, three attempts |
| `chunker` | `SequenceIsIndex`, `NoGap`, `NothingLost`, `SizeBounded`, `RepeatsAreOverlap`, `EveryChunkAdds` | every text of up to four of six kinds of paragraph |
| `merger` | `MergedAsDefined`, `ScoredAsMerged` | up to three answers with an array, a scalar and an undeclared field |
| `ratelimit` | `LimitHolds`, `RejectedForCause` | three requests, limit one, minutes of two ticks; failing and resent calls |
| `api` | `TypeOK`, `RowHasDocument`, `RefusedLeavesNothing`, `FoundByItsKey`, `ImplementsIntake`, `NoneMissed`, `RepeatsExplained`, `TotalReached` | three requests with two keys, pages of one row; tenants seeded meanwhile; failing calls, late statements, shutdowns, crashes and restarts |
| `polling` | `TypeOK`, `OneInterval`, `ButtonNotStuck`, `ShownIsOwn`, `ResultArrives`, `ButtonComesBack` | three submissions, two polls out at a time |

Why the bounds are enough. Two workers race for a claim, and a third would only
repeat the race: a row is locked by one transaction at a time. Two different documents are what
ordering by `created_at`, tenants and the cache need: with one of them a result could not be of
the wrong one. A document submitted twice is what a hit needs. `worker_shutdown` has both,
and asks `OutcomeSound` of results that did come from the cache; `worker_faults` asks it
while two workers run different documents side by side and every call may fail. Three jobs
and one slot let a worker hold one job in its goroutine and one in its loop, with
one it must not take. The two chunks of
the other document give an empty, a partial and a full result in all three runs. One
attempt is enough in `worker_settles`, where the deliverer's own run has five.
The chunker's paragraphs are one that fits, one that just does, one
that just does not, and long ones whose sentences fit, are shorter than an
overlap, and do not fit; with a cap of three the cap is met in both loops and
at the end. The merger's three answers are the fewest in which an array, something
else and an array again meet. Of the three requests of `api` two are the reader's, the
fewest that make two pages, and the third shows that another tenant's rows do not
count; pages of one row cut the list at every place. One of the two keys is the one that every
start seeds. The tenant ids are a symmetry set, for they are only compared (the run has no
liveness property). In `polling` the first
submission is the one that is late, the second the one it disturbs, and the third
meets both; two polls are the fewest that overtake one another.

Other bounds: `MaxTime` stops the clock of `RateLimiter` (the run says
`CHECK_DEADLOCK FALSE` for that reason), after three windows, which is more than
the life of a key; `Patience` is the time within which go-redis gives a call up, less
than a minute; `Resends` is how often it sends a pipeline again. `MaxChunks` of `Worker`
bounds the chunks of the document and is not `ChunkConfig.MaxChunks`.

### Fairness

`Worker!Fairness` is weak fairness of each loop, each task and each delivery: a
goroutine of a live process is scheduled, and a call it makes executes and replies, or
ends in an error (every context a task uses ends at the latest with its
deadline or its worker). Nothing is assumed of faults, clients, hooks, evictions, restarts
or late statements. `EveryJobSettles` is checked with deadlines as the only fault:
with a shutdown, a crash or a lost COMMIT reply it does not hold, because no one
picks up a job that is not pending. `Deliverer` has weak fairness of a
delivery's steps (its HTTP client has a timeout).

`Polling!Fairness` is weak fairness of what the browser does by itself (an interval
ticks, a callback whose answer is there goes on), of every submission, which the API
answers or the network fails, and of the end of every job, which is what
`EveryJobSettles` says of the workers. `Serve` is strongly fair: a poll that is sent
again and again is not denied for ever, since the rate limiter forgets with its minute
and the page is far below its limit. Nothing is assumed of clicks, lost polls or the order of answers.

### Where the code and what is said of it differ

| run | statement | what happens |
|---|---|---|
| `violates_retries` | README.md:131, failed deliveries are retried up to five times | the deliveries' context ends with the job's goroutine, right after they start |
| `violates_limit` | ratelimit.go:16, a fixed-window limit is enforced | the key can expire before the last request of its minute counts itself |

Read in the code while modelling, without a run of their own:

* worker.go:73 logs that shutting down waits for in-flight jobs. It waits for
  goroutines whose contexts have ended, and `Fail` is given the one that was cancelled
  (worker.go:105): a job keeps an intermediate status for good. `NoStrandedJob` is
  therefore checked without shutdowns.
* chunker.go:16 calls `MaxChunks` a hard limit; the cap is not looked at before and inside
  a long paragraph. `NothingLost` says what the cap does mean.
* index.html:717-725: a poll of an earlier job that is answered late with a final
  status clears the interval of the job submitted after it and shows its own result;
  README.md:46 says that "the UI polls for the result", and it does not any
  more. `ResultArrives` asks for a job without such polls, and `ShownIsOwn` names
  `overtaken` for the same reason. A stale answer also sets the label back.
* README.md:199 has a `total` with the pages of a list. `Count` runs before `List`: a client that
  stops when it has seen `total` jobs may stop early; one that stops at a page that
  is not full does not (`NoneMissed`, `TotalReached`).
* `ORDER BY created_at` has no second key: of two rows of one moment a walk may see one
  twice and the other never. `NoneMissed` and `RepeatsExplained` name this exception.
* handlers.go:147 answers every error of the query with 404 "job not found", also when the
  database cannot be reached; the page polls on.
* handlers.go:65 calls 50 MB a limit of the body; it is what `ParseMultipartForm` keeps in
  memory, the rest goes to files. There is no limit.
* handlers.go:233 returns the hook "including secret", but the field is never encoded
  (types.go, `json:"-"`): README.md:100 cannot be followed.
* chunker.go:14 calls `MaxChunkSize` the maximum of a chunk; the overlap, the second
  newline and a long sentence exceed it. `SizeBounded` is the bound that holds.
* cache.go:52 says the TTL is set on first creation; EXPIRE follows every INCR.
* types.go:137 gives 0.5 to an ambiguous field; `mergeResults` never compares values.
* README.md:3 promises per-field confidence; a cache hit stores `{"_cache_hit": 1.0}`.
* A deadline between `Complete`'s statement and its reply turns a completed row
  into a failed one that keeps its result. `ForwardOnly` ranks `failed` last for
  this reason, `JobLifecycle` does not allow it, and `AnnouncedIsFinal` shows
  that no webhook was sent for such a job.

## 4. Proofs

All proofs are for every value of the constants that satisfies the named
assumptions of the modules; TLC evaluates those on every run.

| module | theorem | property |
|---|---|---|
| `WorkerProofs` | `TypeCorrect` | `TypeOK` |
| `WorkerProofs` | `ClaimedOnce` | `ExclusiveClaim` |
| `WorkerProofs` | `SlotsAreCounted` | `SlotAccounting` |
| `WorkerProofs` | `OutcomesAreSound`, `RowsMoveForward` | `OutcomeSound`, `ForwardOnly` |
| `WorkerProofs` | `JobComesToAnEnd` | a bound on the steps of a task |
| `WorkerProofs` | `AnnouncementsAreFinal`, no late statements | `AnnouncedIsFinal` |
| `WorkerProofs` | `HooksHearOnce` | `AttemptsAccounted` of a worker's deliveries, `HeardOnce` |
| `WorkerProofs` | `DeliveriesEndForGood` | `NoPostAfterReturn` of a worker's deliveries |
| `WorkerProofs` | `NoJobIsStranded`, deadlines only | `NoStrandedJob` |
| `WorkerProofs` | `WorkersImplementLifecycle`, no deadlines and database errors | `ImplementsLifecycle` |
| `DelivererProofs` | `AttemptsAreAccounted` | `AttemptsAccounted` |
| `DelivererProofs` | `ReturnIsFinal` | `NoPostAfterReturn` |
| `DelivererProofs` | `DeliverComesToAnEnd` | a bound on the steps of a delivery |
| `MergerProofs` | `MergeIsDefined`, `ScoresAreJustified` | `MergedAsDefined`, `ScoredAsMerged` |
| `LLMRouterProofs` | `RouterTypeCorrect` | types of the router's state |
| `LLMRouterProofs` | `CallsAreBounded` | `CallsBounded` |
| `LLMRouterProofs` | `AnswersAreSound` | `AnswerSound` |
| `ChunkerProofs` | `NumberedByPlace`, `NoSentenceSkipped`, `AllChunked` | `SequenceIsIndex`, `NoGap`, `NothingLost` |
| `ChunkerProofs` | `SizesAreBounded`, `OnlyOverlapsRepeat`, `ChunksAdd` | `SizeBounded`, `RepeatsAreOverlap`, `EveryChunkAdds` |
| `RateLimiterProofs` | `LimitIsKept`, `RejectionsHaveCause` | `LimitHolds`, `RejectedForCause` |
| `APIProofs` | `APITypeCorrect` | `TypeOK` |
| `APIProofs` | `RowsHaveDocuments`, `RefusalsLeaveNothing` | `RowHasDocument`, `RefusedLeavesNothing` |
| `APIProofs` | `PromiseKept` | `ImplementsIntake` |
| `APIProofs` | `JobsAreFound`, `TotalsReachTheirPage` | `FoundByItsKey`, `TotalReached` |
| `APIProofs` | `NoJobIsMissed`, `RepeatsHaveCause` | `NoneMissed`, `RepeatsExplained` |
| `PollingProofs` | `PageTypeCorrect` | `TypeOK` |
| `PollingProofs` | `IntervalIsOne`, `ButtonWaits`, `ShownIsItsOwn` | `OneInterval`, `ButtonNotStuck`, `ShownIsOwn` |

* `ClaimedOnce`. `ExclusiveClaim` is not inductive: it does not say that a pending row
  is unclaimed nor that the row a loop has selected is locked by it.
  `ClaimInv` adds both (`UnclaimedIsFree`, `SelectedIsLocked`): a row that is absent or
  pending has no claim, no holder and no statement left behind, and a loop between
  SELECT and COMMIT owns the lock of its row, which is pending. A late statement
  (`ExecuteStray`) preserves it because it never writes `pending` and is of a job
  that was claimed.
* `TypeCorrect` needs that a statement left behind is a statement of a task, and
  that a loop after SELECT has a job; both are parts of the type invariant.
* `SlotsAreCounted` adds to `ClaimInv` that the task of a claimed job is idle, so that the
  goroutine `Run` starts fills a slot of its own, and that `sem` is the number of active tasks and of the
  slots the shutdown drained (`SlotInv`). A loop that has stopped drained them all.
* `OutcomesAreSound` needs the same of what leads to a row: cache entries, tasks that
  assemble or complete, and statements left behind (`OutcomeInv`).
* `RowsMoveForward` holds because neither a row nor a late statement of it is ever beyond
  where its task is (`RowsBehind`). A statement that executes late may take the row back, and is the
  one step the property leaves out.
* `AnnouncementsAreFinal` needs that a task past a status write finds what it wrote
  (`TasksKnow`) and that after a delivery has started nobody is left who would write (`AllFinal`). It
  assumes that no statement executes late: a late write of an intermediate status would
  follow the announcement.
* `JobComesToAnEnd` counts the steps a task has left (`StepsLeft`): the stages still before it, a
  statement and its reply in each, and the chunks it has not looked at. Every step of the
  task lowers it and a deadline leaves it, so that a task takes at most
  `2 * MaxChunks + 27` steps. It is the half of `EveryJobSettles` and `CancelledStops` that needs no
  fairness. `DeliverComesToAnEnd` does the same for a delivery, a POST and a backoff an attempt.
* `HooksHearOnce` and `DeliveriesEndForGood` compose the proofs as the modules are composed:
  what `DelivererProofs` proves of starting, cutting and killing any set of deliveries
  and of a delivery's step is cited of those of the workers. Deliverer's own theorems rest on
  a caller that starts no delivery twice; that the workers are such callers is
  `ToldInv`: a job whose announcement has begun was claimed, and is held by nobody but
  the task that announced it, which is about to return. `ExclusiveClaim` then
  lets nobody else come to hold it. Unlike `AnnouncementsAreFinal` it needs no
  assumption about faults.
* `NoJobIsStranded` assumes that a deadline is the only fault, as its run does. Then no
  loop leaves its cycle (`Up`), and a task returns only from a final row (`EndsSettled`).
* `WorkersImplementLifecycle` needs that whoever may still write finds its job open, and that at most one
  statement is left of a job and none after its outcome (`LifecycleInv`). Every step is then
  one of `JobLifecycle` or changes neither what a client sees nor `claims`. Deadlines and
  database errors are excluded, for with them `Fail` may follow a `Complete` that executed.
* `LimitIsKept` rests on the numbers INCR gave: as long as a minute lasts its key does, hence the requests counted within
  it hold different numbers (`CountsDiffer`), and the admitted ones hold numbers up to the limit, so
  there are no more of them. `RejectionsHaveCause` bounds a counter by the increments that may have
  executed (`Accounted`). Both count requests: `RequestsAssumption` has finitely many.
* `MergeIsDefined` says of every field how far the loops have come with it (`Visited`), and that
  what is merged is what the definition gives for the answers up to there (`PrefixMerged`):
  a field that waits in `todo` is one answer behind the others, whatever the order. That
  `Joined`, a recursive function, exists for any number of answers is an induction
  over data, done without the induction theorems: were there a length without
  a solution there would be a least one (`LeastOf`), and the solution for the length before it can be
  extended (`JoinedExists`). `ScoresAreJustified` needs besides that `sources` counts the
  answers given. `MergerInv` has all of this.
* `AttemptsAreAccounted` is inductive together with the type of a delivery and the fact that
  a delivery about to post has been seen fewer times than it was tried (`DeliveryInv`).
* `CallsAreBounded` rests on `CountInv`: the calls made so far are the attempts, the fast
  model has had one of them exactly if a simple request was escalated, and a request
  is on the fast tier in its first attempt only.
* `NothingLost` follows from `NoGap` at the moment `Chunk` returns, and `NoGap` needs
  that the overlap adds no sentence that was not chunked, where the loops are, and that a
  cut at the cap falls between two paragraphs (`ChunkerInv`).
* `SizesAreBounded` adds what the builder may hold before a piece is written: an overlap, or no
  more than leaves room for the piece (`BuilderSized`). `OnlyOverlapsRepeat` and `ChunksAdd` add the same
  of the builder as they say of the chunks (`BuilderInv`), and that it is as long as any sentence it has whole.
* The theorems about requests rest on `Placed`: how far a request's file, row, late statement
  and answer can be, given where its handler is. With it each step of the handlers or the
  process is one of `Intake`'s or changes neither the rows nor the answers
  (`APIStep`), which is `PromiseKept`. `TotalReached` needs only that between its two statements a list has
  counted no rows that are not there (`Counting`), since no row goes away or changes hands.
* `JobsAreFound` needs `Owned`: a request past `Auth` has the id its key has *now*, which
  holds because an id once there is never replaced, and no two keys share one.
* `NoJobIsMissed` counts the rows that are newer than a job. Rows are only inserted, so there are
  never fewer of them, and of a job not yet seen there are as many as the next page's offset
  (`Ahead`): it is not before that page. Of a job already seen there are fewer, unless newer
  ones have come since (`Behind`), which is `RepeatsHaveCause`. `PageCut` relates both to what
  LIMIT and OFFSET cut.
* The page's theorems add to `OneInterval` and `ShownIsOwn` that only jobs that exist are polled,
  that a callback polls the job its interval was started for, and that a result is
  shown while nothing ticks (`PolledExist`, `PolledIsOwn`, `ShownIsQuiet`).

Only model-checked: the liveness properties (`DeliverReturns`, `EveryJobSettles`,
`CancelledStops`, `ResultArrives`, `ButtonComesBack`). They need fairness and ENABLED, which
are out of the prover's reach; `DeliverComesToAnEnd` and `JobComesToAnEnd` are what is
proved towards the first three.

## 5. Abstractions, and what is not modelled

* Time is a choice: a deadline, a timeout, an expiry or a backoff may end at any
  moment; only `RateLimiter`, where durations matter, has a clock.
* A document and its schema are one content; `contentHash` is taken to be
  injective on the contents of an instance (`CacheKey`).
* The COMMIT of a claim is not among the statements that execute after their caller gave up:
  the row stays locked until then, so that such a COMMIT is a `Claim` followed by `LoseAck` or `Crash`.
* A failing download, text extraction, LLM call or cache access is always
  possible and loses nothing but the stage it is in. In `Worker` a chunk either
  answers or does not; `LLMRouter` says how.
* Prompts, JSON, HMAC signatures, costs and tokens carry no control. A negative
  `MaxRetries` is excluded.
* Chunk lengths are those before `finalizeChunk` trims. `splitParagraphs` and
  `splitSentences` give the chunker its input and are not modelled: any lengths are.
* `RateLimiter` has one tenant: tenants have keys of their own.
* A key stands for its hash: SHA-256 is taken to be injective on the keys of an instance. The
  limits of a tenant are those of `RateLimiter`.
* `Polling` leaves out the presets, the tabs, drag and drop and the test of the key, which
  share nothing with the polling.
* The extractors, configuration, migrations and logging are not modelled: they keep no
  state that two parties could disagree about, or do nothing but I/O.

## 6. Plan

Done, in this order: the queue and the worker, the deliverer, the lifecycle the
workers implement, the router, the chunker, the merger, the rate limiter, submission
and paging with the tenants, the page's polling; the proofs of section 4.

Next, in this order:

1. **Composition** of Chunker, LLMRouter and Merger as the middle of `processJob`:
   what overlap does to array fields.
2. **Webhook handlers** step by step: a hook is registered with two statements' worth of checks
   and is an action of the environment in `Worker` so far.
