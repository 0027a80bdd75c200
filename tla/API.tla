-------------------------------- MODULE API ---------------------------------
(***************************************************************************)
(* The HTTP API's HandleExtract and HandleListJobs.  A request uploads a   *)
(* document, inserts a row and is answered; clients retry by sending       *)
(* another request, which gets a job id of its own.  The process may be    *)
(* told to stop or die at any moment, a client may go away, and each call  *)
(* may fail before or after it took effect.  Meanwhile a client walks      *)
(* through the pages of its tenant's jobs.  Tenants are created by the     *)
(* seed script and, for the key of the development mode, at every start.   *)
(*                                                                         *)
(* A request stands for the job it creates: the id is fresh, and so is the *)
(* storage key it is a part of.  A key stands for its hash.                *)
(***************************************************************************)
EXTENDS Naturals, FiniteSets

CONSTANTS
  Requests,     \* POST /v1/extract requests
  Keys,         \* API keys
  KeyOf,        \* [Requests -> Keys]
  DevKey,       \* DEV_API_KEY
  Reader,       \* the key of the client that lists its jobs
  Tenants,      \* tenant ids
  None,
  Limit         \* the limit parameter, after HandleListJobs has looked at it

ASSUME RequestsAssumption == IsFiniteSet(Requests)
ASSUME KeysAssumption == KeyOf \in [Requests -> Keys] /\ {DevKey, Reader} \subseteq Keys
ASSUME NoneAssumption == None \notin Tenants
ASSUME LimitAssumption == Limit \in 1 .. 100

VARIABLES
  server,       \* the API process
  tenants,      \* the tenants table: by the hash of its key, the id that is found
  pc,           \* per request, its handler's position
  disk,         \* per request, the file at its storage key
  owner,        \* per request, the tenant Auth has found, the tenant_id of the row
  created,      \* per request, the created_at its handler has read from the clock
  table,        \* the requests whose row is in the jobs table
  late,         \* INSERTs given up on that the database may still execute
  told,         \* per request, the answer that reached the client
  walk          \* the client listing Reader's jobs

handlerVars == <<pc, disk, owner, created, table, late, told>>
vars == <<server, tenants, handlerVars, walk>>

Active == {"received", "storing", "inserting", "responding"}

\* A walk is at the page that begins at offset; total and page are what the
\* response says, until the page is turned.  The set of jobs there at its
\* beginning, of those listed and of those listed twice are history.
TenantsOrNone == Tenants \cup {None}
Walks == [pc : {"idle", "count", "list", "page", "done"},
          tenant : TenantsOrNone, offset : Nat, total : Nat, page : SUBSET Requests,
          start : SUBSET Requests, seen : SUBSET Requests, again : SUBSET Requests]

TypeOK ==
  /\ server \in {"up", "draining", "down"}
  /\ tenants \in [Keys -> TenantsOrNone]
  /\ pc \in [Requests -> {"none", "closed"} \cup Active]
  /\ owner \in [Requests -> TenantsOrNone]
  /\ disk \in [Requests -> {"none", "partial", "whole"}]
  /\ created \in [Requests -> Nat]
  /\ table \subseteq Requests
  /\ late \subseteq Requests \ table
  /\ told \in [Requests -> {"none", "accepted", "refused", "error"}]
  /\ walk \in Walks

Init ==
  /\ server = "down"
  /\ tenants = [k \in Keys |-> None]
  /\ pc = [r \in Requests |-> "none"]
  /\ owner = [r \in Requests |-> None]
  /\ disk = [r \in Requests |-> "none"]
  /\ created = [r \in Requests |-> 0]
  /\ table = {}
  /\ late = {}
  /\ told = [r \in Requests |-> "none"]
  /\ walk = [pc |-> "idle", tenant |-> None, offset |-> 0, total |-> 0, page |-> {},
             start |-> {}, seen |-> {}, again |-> {}]

-----------------------------------------------------------------------------
(* Tenants *)

\* A new UUID is nobody's.
NewIds == Tenants \ ({tenants[k] : k \in Keys} \cup {owner[r] : r \in Requests})

\* The seed script: GenerateAPIKey gives a key that has no tenant.
Seed(k) ==
  /\ k # DevKey
  /\ tenants[k] = None
  /\ \E t \in NewIds : tenants' = [tenants EXCEPT ![k] = t]
  /\ UNCHANGED <<server, handlerVars, walk>>

\* Mutant: api_key_hash is not UNIQUE; there is a second row, which is found.
SecondRow(k, t) == t

\* ON CONFLICT (api_key_hash) DO NOTHING; no tenant is ever removed, so that the
\* foreign key of a job's tenant_id always holds.
Kept(k, t) == IF tenants[k] = None THEN t ELSE tenants[k]

\* seedDevTenant; an error is only logged.
SeedDevTenant ==
  \/ \E t \in NewIds : tenants' = [tenants EXCEPT ![DevKey] = Kept(DevKey, t)]
  \/ UNCHANGED tenants

-----------------------------------------------------------------------------
(* HandleExtract *)

At(r, here) == server # "down" /\ pc[r] = here
GoTo(r, there) == pc' = [pc EXCEPT ![r] = there]

\* The handler returns; its answer reaches the client, if that is still there.
Return(r, answer) ==
  /\ GoTo(r, "closed")
  /\ \/ told' = [told EXCEPT ![r] = answer]
     \/ UNCHANGED told

\* Auth finds the key's tenant.
Receive(r) ==
  /\ server = "up"
  /\ pc[r] = "none"
  /\ tenants[KeyOf[r]] # None
  /\ owner' = [owner EXCEPT ![r] = tenants[KeyOf[r]]]
  /\ GoTo(r, "received")
  /\ UNCHANGED <<server, tenants, disk, created, table, late, told, walk>>

\* It finds none, or the lookup fails.
Unauthorized(r) ==
  /\ server = "up"
  /\ pc[r] = "none"
  /\ Return(r, "refused")
  /\ UNCHANGED <<server, tenants, disk, owner, created, table, late, walk>>

\* Mutant: the format is looked at after the upload.
CheckedLate == {"received", "storing"}

\* Where a request may still be refused.
Checked == {"received"}

\* Over the rate limit, a malformed form, no document or schema, a
\* schema that is not usable, an unknown format.
Refuse(r) ==
  /\ \E here \in Checked : At(r, here)
  /\ Return(r, "refused")
  /\ UNCHANGED <<server, tenants, disk, owner, created, table, late, walk>>

\* Upload opens the file; until it returns there is a part of the document.
OpenFile(r) ==
  /\ At(r, "received")
  /\ GoTo(r, "storing")
  /\ disk' = [disk EXCEPT ![r] = "partial"]
  /\ UNCHANGED <<server, tenants, owner, created, table, late, told, walk>>

\* Mutant: a short write goes unnoticed.
WrittenSomehow == {"partial", "whole"}

\* What a write without an error leaves.
Written == {"whole"}

\* The clock does not go back, and may not have moved since the last row.
Latest == {n \in {created[r] : r \in Requests} :
             \A r \in Requests : created[r] <= n}
Now == UNION {{n, n + 1} : n \in Latest}

\* Upload returns, the job is built with time.Now(), and the INSERT is sent.
StoreFile(r) ==
  /\ At(r, "storing")
  /\ \E d \in Written : disk' = [disk EXCEPT ![r] = d]
  /\ \E n \in Now : created' = [created EXCEPT ![r] = n]
  /\ GoTo(r, "inserting")
  /\ UNCHANGED <<server, tenants, owner, table, late, told, walk>>

\* The directory cannot be made, or the file not opened or not written.
UploadFails(r) ==
  /\ At(r, "received") \/ At(r, "storing")
  /\ Return(r, "error")
  /\ UNCHANGED <<server, tenants, disk, owner, created, table, late, walk>>

Insert(r) ==
  /\ At(r, "inserting")
  /\ r \notin table
  /\ table' = table \cup {r}
  /\ UNCHANGED <<server, tenants, pc, disk, owner, created, late, told, walk>>

\* Mutant: the error of Create is only logged.
AnyResult(r) == TRUE

Created(r) == r \in table

CreateReturns(r) ==
  /\ At(r, "inserting")
  /\ Created(r)
  /\ GoTo(r, "responding")
  /\ UNCHANGED <<server, tenants, disk, owner, created, table, late, told, walk>>

\* Mutant: a statement may execute twice.
ExecutedOrNot(R) == R

\* Their callers stop waiting for some INSERTs, which the database may still
\* execute, unless it has.
Unexecuted(R) == R \ table
GiveUp(R) == \E S \in SUBSET Unexecuted(R) : late' = late \cup S

\* Create fails: the statement has executed, or will, or never does.
CreateFails(r) ==
  /\ At(r, "inserting")
  /\ Return(r, "error")
  /\ GiveUp({r})
  /\ UNCHANGED <<server, tenants, disk, owner, created, table, walk>>

Respond(r) ==
  /\ At(r, "responding")
  /\ Return(r, "accepted")
  /\ UNCHANGED <<server, tenants, disk, owner, created, table, late, walk>>

ExecuteLate(r) ==
  /\ r \in late
  /\ table' = table \cup {r}
  /\ late' = late \ {r}
  /\ UNCHANGED <<server, tenants, pc, disk, owner, created, told, walk>>

-----------------------------------------------------------------------------
(* The process *)

\* Its handlers are gone, whatever they were doing.
Die ==
  /\ server' = "down"
  /\ pc' = [r \in Requests |-> IF pc[r] \in Active THEN "closed" ELSE pc[r]]
  /\ GiveUp({r \in Requests : pc[r] = "inserting"})
  /\ UNCHANGED <<tenants, disk, owner, created, table, told, walk>>

\* A signal: Shutdown takes no new request and waits for the handlers.
Signal ==
  /\ server = "up"
  /\ server' = "draining"
  /\ UNCHANGED <<tenants, handlerVars, walk>>

\* They have returned, or 30 seconds have passed.
Exit == server = "draining" /\ Die

Crash == server # "down" /\ Die

Start ==
  /\ server = "down"
  /\ server' = "up"
  /\ SeedDevTenant
  /\ UNCHANGED <<handlerVars, walk>>

-----------------------------------------------------------------------------
(* HandleListJobs, and a client that asks for page after page until one is  *)
(* not full.  Count and List are two statements.                            *)

\* Mutant: the rows of every tenant are counted.
CountAll(t) == Cardinality(table)

RowsOf(t) == {r \in table : owner[r] = t}
Count(t) == Cardinality(RowsOf(t))

Least(m, n) == IF m < n THEN m ELSE n

\* Mutant: without ORDER BY.
Unordered(R, S) == TRUE

\* ORDER BY created_at DESC puts R before S; rows of one moment have no order.
Before(R, S) == \A r \in R, q \in S : created[r] >= created[q]

\* The pages LIMIT and OFFSET may cut from some rows.
PagesOf(rows, offset) ==
  {page \in SUBSET rows :
     \E skipped \in SUBSET (rows \ page) :
       /\ Cardinality(skipped) = Least(offset, Cardinality(rows))
       /\ Cardinality(page) = Least(Limit, Cardinality(rows) - Cardinality(skipped))
       /\ Before(skipped, rows \ skipped)
       /\ Before(page, (rows \ skipped) \ page)}

Listed == RowsOf(tenants[Reader])

BeginWalk ==
  /\ walk.pc = "idle"
  /\ walk' = [walk EXCEPT !.pc = "count", !.start = Listed]
  /\ UNCHANGED <<server, tenants, handlerVars>>

CountJobs ==
  /\ server # "down"
  /\ walk.pc = "count"
  /\ tenants[Reader] # None
  /\ walk' = [walk EXCEPT !.pc = "list", !.tenant = tenants[Reader],
                          !.total = Count(tenants[Reader])]
  /\ UNCHANGED <<server, tenants, handlerVars>>

ListJobs ==
  /\ server # "down"
  /\ walk.pc = "list"
  /\ \E page \in PagesOf(RowsOf(walk.tenant), walk.offset) :
       walk' = [walk EXCEPT !.pc = "page", !.page = page, !.seen = @ \cup page,
                            !.again = @ \cup (walk.seen \cap page)]
  /\ UNCHANGED <<server, tenants, handlerVars>>

\* Either statement failed, or the process is gone: the client asks again.
AskAgain ==
  /\ walk.pc = "list"
  /\ walk' = [walk EXCEPT !.pc = "count", !.tenant = None, !.total = 0]
  /\ UNCHANGED <<server, tenants, handlerVars>>

TurnPage ==
  /\ walk.pc = "page"
  /\ LET turned == [walk EXCEPT !.tenant = None, !.total = 0, !.page = {}] IN
       walk' = IF Cardinality(walk.page) < Limit
               THEN [turned EXCEPT !.pc = "done"]
               ELSE [turned EXCEPT !.pc = "count", !.offset = @ + Limit]
  /\ UNCHANGED <<server, tenants, handlerVars>>

-----------------------------------------------------------------------------
Extract(r) ==
  \/ Receive(r) \/ Unauthorized(r) \/ Refuse(r) \/ OpenFile(r) \/ StoreFile(r) \/ UploadFails(r)
  \/ Insert(r) \/ CreateReturns(r) \/ CreateFails(r) \/ Respond(r) \/ ExecuteLate(r)

Process == Signal \/ Exit \/ Crash \/ Start

Walk == BeginWalk \/ CountJobs \/ ListJobs \/ AskAgain \/ TurnPage

Next ==
  \/ \E r \in Requests : Extract(r)
  \/ \E k \in Keys : Seed(k)
  \/ Process \/ Walk

Spec == Init /\ [][Next]_vars

-----------------------------------------------------------------------------
\* A worker that claims a row finds the whole document: the row never comes
\* before the file, nor after a write that failed (the order of Upload and
\* Create, and the return between them).
RowHasDocument == \A r \in table : disk[r] = "whole"

\* A refused request leaves nothing behind, and never will: neither a file that
\* no row names, nor an INSERT that executes later (the checks come before the
\* upload).
RefusedLeavesNothing ==
  \A r \in Requests :
    told[r] = "refused" => disk[r] = "none" /\ r \notin table \cup late

\* A job is found with the key it was submitted with and with no other one:
\* starts in between seed their tenant again and must not hide it, while
\* handlers and late INSERTs carry the id that Auth once found (CreateIfNotExists).
FoundByItsKey ==
  \A r \in table : \A k \in Keys : tenants[k] = owner[r] <=> k = KeyOf[r]

\* An accepted request has its job and keeps it, a refused one never gets it,
\* and an answer is the only one: whatever fails, dies or executes late,
\* HandleExtract is Intake.
Promise == INSTANCE Intake WITH job <- table, answer <- told
ImplementsIntake == Promise!Spec

\* A walk misses no job that was there when it began, although rows are inserted
\* ahead of it between any two pages and between Count and List, unless
\* another row has the same created_at (List's ORDER BY has no second key).
SameMoment(r) == \E q \in Listed \ {r} : created[q] = created[r]
NoneMissed ==
  walk.pc = "done" => \A r \in walk.start : r \in walk.seen \/ SameMoment(r)

\* It lists a job twice only if a newer one was inserted since it began, or for
\* the same reason.
RepeatsExplained ==
  \A r \in walk.again :
    \/ SameMoment(r)
    \/ \E q \in Listed \ walk.start : created[q] > created[r]

\* The total of a response is of the same tenant and no younger than its page:
\* a page that is not full is the last one by its total, too.
TotalReached ==
  walk.pc = "page" =>
    Least(walk.total, walk.offset + Limit) <= walk.offset + Cardinality(walk.page)
=============================================================================
