------------------------------ MODULE JobStore ------------------------------
(***************************************************************************)
(* The jobs table and the SQL statements of database.JobStore that change  *)
(* it.  A statement or a transaction step is atomic; who sends it, what    *)
(* happens to its reply and in which order statements arrive belong to the *)
(* module that composes this one (Worker).                                 *)
(*                                                                         *)
(* A row keeps the columns the properties tell apart: the status, the      *)
(* result (whose document it was extracted from, and from which of its     *)
(* chunks), the kind of confidence scores stored with it and whether       *)
(* error_message is set.  model_used, cost_usd and completed_at are        *)
(* written together with the result and carry no control.                  *)
(***************************************************************************)
EXTENDS Naturals

CONSTANTS
  Workers,      \* worker processes, each with transactions of its own
  Jobs,         \* job ids
  Contents,     \* (document bytes, schema) pairs, up to contentHash
  CreatedAt,    \* [Jobs -> Nat], the created_at column
  MaxChunks,    \* bound on the chunks of a document
  None          \* SQL NULL, Go nil

ASSUME CreatedAtAssumption == CreatedAt \in [Jobs -> Nat]
ASSUME MaxChunksAssumption == MaxChunks \in Nat
ASSUME NoneAssumption == None \notin Workers \cup Jobs

VARIABLES
  jobs,         \* the table, with status "absent" for a row not yet inserted
  lock,         \* the worker whose open transaction holds the row lock
  claims        \* history: how many claims of the row were ever committed

storeVars == <<jobs, lock, claims>>

InFlight == {"ingesting", "chunking", "extracting", "assembling"}
Terminal == {"completed", "failed"}
Written == InFlight \cup Terminal           \* what a worker writes to status
Statuses == {"absent", "pending"} \cup Written

\* What can be told of a result: the content it came from, the chunks in it.
ChunkSets == SUBSET (1 .. MaxChunks)
Extractions == [content : Contents, chunks : ChunkSets]

ASSUME NoneIsNoExtraction == None \notin Extractions

Confidences == {"none", "fields", "cache_hit"}

Rows == [status : Statuses, result : Extractions \cup {None},
         confidence : Confidences, error : BOOLEAN]

Blank(s) == [status |-> s, result |-> None, confidence |-> "none", error |-> FALSE]

StoreInit ==
  /\ jobs = [j \in Jobs |-> Blank("absent")]
  /\ lock = [j \in Jobs |-> None]
  /\ claims = [j \in Jobs |-> 0]

StoreTypeOK ==
  /\ jobs \in [Jobs -> Rows]
  /\ lock \in [Jobs -> Workers \cup {None}]
  /\ claims \in [Jobs -> Nat]

\* INSERT INTO jobs: the row appears with status 'pending'.
Create(j) ==
  /\ jobs[j].status = "absent"
  /\ jobs' = [jobs EXCEPT ![j] = Blank("pending")]
  /\ UNCHANGED <<lock, claims>>

\* Mutant: the SELECT does not lock what it finds, nor skip what is locked.
PendingRows == {j \in Jobs : jobs[j].status = "pending"}

\* The rows SELECT ... FOR UPDATE SKIP LOCKED may look at.
Claimable == {j \in Jobs : jobs[j].status = "pending" /\ lock[j] = None}

\* ORDER BY created_at ASC LIMIT 1: an oldest claimable row, locked until the
\* transaction ends.
LockOldest(w, j) ==
  /\ j \in Claimable
  /\ \A k \in Claimable : CreatedAt[j] <= CreatedAt[k]
  /\ lock' = [lock EXCEPT ![j] = w]
  /\ UNCHANGED <<jobs, claims>>

Rollback(j) ==
  /\ lock' = [lock EXCEPT ![j] = None]
  /\ UNCHANGED <<jobs, claims>>

\* UPDATE ... 'ingesting' and COMMIT: visible, and the lock gone, in one step.
CommitClaim(j) ==
  /\ jobs' = [jobs EXCEPT ![j].status = "ingesting"]
  /\ lock' = [lock EXCEPT ![j] = None]
  /\ claims' = [claims EXCEPT ![j] = @ + 1]

\* The row after UpdateStatus, Complete or Fail: none of them looks at the
\* status it overwrites, and Fail leaves an earlier result where it is.
Updated(row, s, result, confidence) ==
  CASE s = "completed" -> [row EXCEPT !.status = s, !.result = result,
                                      !.confidence = confidence]
    [] s = "failed"    -> [row EXCEPT !.status = s, !.error = TRUE]
    [] OTHER           -> [row EXCEPT !.status = s]

Update(j, s, result, confidence) ==
  /\ jobs' = [jobs EXCEPT ![j] = Updated(@, s, result, confidence)]
  /\ UNCHANGED <<lock, claims>>
=============================================================================
