------------------------------ MODULE APIProofs ------------------------------
(***************************************************************************)
(* For any number of requests, tenants and rows to a page: a row has its   *)
(* document, a refused request leaves nothing, HandleExtract keeps the     *)
(* promise Intake makes, a job is found with the key it came with, the     *)
(* total of a list reaches its page, and a walk misses no job.             *)
(***************************************************************************)
EXTENDS API, FiniteSetTheorems, TLAPS

\* How far a request's file, row and answer can be where its handler is.  A row
\* or a statement left behind is of a handler that got to its INSERT, an answer
\* of one that has returned.
Placed ==
  \A r \in Requests :
    /\ pc[r] \in {"none", "received"} => disk[r] = "none"
    /\ pc[r] \in {"inserting", "responding"} => disk[r] = "whole"
    /\ pc[r] = "responding" => r \in table
    /\ told[r] # "none" => pc[r] = "closed"
    /\ r \in table => pc[r] \in {"inserting", "responding", "closed"} /\ disk[r] = "whole"
    /\ r \in late => pc[r] = "closed" /\ disk[r] = "whole"
    /\ told[r] = "refused" => disk[r] = "none" /\ r \notin table \cup late

\* Between its two statements a list has counted no rows that are not there.
Counting == walk.pc = "list" => walk.total <= Count(walk.tenant)

\* A request that has gone past Auth has the tenant that its key has, and no
\* two keys have the same.
Owned ==
  /\ \A r \in Requests :
       /\ owner[r] # None => owner[r] = tenants[KeyOf[r]]
       /\ pc[r] \in Active \/ r \in table \cup late => owner[r] # None
  /\ \A j, k \in Keys : tenants[j] = tenants[k] => j = k \/ tenants[j] = None

HandlerInv == TypeOK /\ Placed
ListInv == HandlerInv /\ Counting /\ TotalReached

\* What a step of the handlers or the process is to the client of a request.
Promised == Promise!Next \/ UNCHANGED <<table, told>>

\* A handler that returns has an answer that nobody had before.
LEMMA ReturnType ==
  ASSUME HandlerInv, NEW r \in Requests, pc[r] # "closed",
         NEW a \in {"accepted", "refused", "error"}, Return(r, a)
  PROVE  /\ pc' = [pc EXCEPT ![r] = "closed"]
         /\ told' \in [Requests -> {"none", "accepted", "refused", "error"}]
         /\ told[r] = "none"
         /\ told' = [told EXCEPT ![r] = a] \/ told' = told
         /\ \A q \in Requests \ {r} : pc'[q] = pc[q] /\ told'[q] = told[q]
         /\ pc'[r] = "closed" /\ told'[r] \in {"none", a}
         /\ pc' \in [Requests -> {"none", "closed"} \cup Active]
<1>1. told[r] = "none"
      BY DEF HandlerInv, Placed
<1>2. pc' = [pc EXCEPT ![r] = "closed"] /\ (told' = [told EXCEPT ![r] = a] \/ told' = told)
      BY DEF Return, GoTo
<1> QED BY <1>1, <1>2 DEF HandlerInv, TypeOK

\* An answer is one of Intake's, or nothing to the client.
LEMMA AnswerIsPromised ==
  ASSUME HandlerInv, NEW r \in Requests, told[r] = "none",
         NEW a \in {"accepted", "refused", "error"},
         told' = [told EXCEPT ![r] = a] \/ told' = told, UNCHANGED table,
         a = "accepted" => r \in table, a = "refused" => r \notin table
  PROVE  Promised
<1>1. CASE told' = told
      BY <1>1 DEF Promised
<1>2. CASE told' = [told EXCEPT ![r] = a]
  <2>1. Promise!Answer(r)
        BY <1>2 DEF Promise!Answer, Promise!Answers
  <2> QED BY <2>1 DEF Promised, Promise!Next
<1> QED BY <1>1, <1>2

\* Nothing has happened yet.
LEMMA HandlerInit == Init => HandlerInv /\ Promise!Init
<1> SUFFICES ASSUME Init PROVE HandlerInv /\ Promise!Init
    OBVIOUS
<1>1. TypeOK
      BY DEF Init, TypeOK, Walks, TenantsOrNone
<1>2. Placed
      BY DEF Init, Placed
<1>3. Promise!Init
      BY DEF Init, Promise!Init
<1> QED BY <1>1, <1>2, <1>3 DEF HandlerInv

\* The way to the INSERT: no row, no statement and no answer yet.
LEMMA BeforeInsert ==
  ASSUME HandlerInv, NEW r \in Requests, Receive(r) \/ OpenFile(r) \/ StoreFile(r)
  PROVE  HandlerInv' /\ Promised
<1>1. CASE Receive(r)
  <2> USE <1>1 DEF Receive, GoTo, HandlerInv
  <2>1. TypeOK'
        BY KeysAssumption DEF TypeOK, Active
  <2>2. Placed'
        BY DEF TypeOK, Placed
  <2> QED BY <2>1, <2>2 DEF Promised
<1>2. CASE OpenFile(r)
  <2> USE <1>2 DEF OpenFile, At, GoTo, HandlerInv
  <2>1. TypeOK'
        BY DEF TypeOK, Active
  <2>2. Placed'
        BY DEF TypeOK, Placed
  <2> QED BY <2>1, <2>2 DEF Promised
<1>3. CASE StoreFile(r)
  <2> USE <1>3 DEF StoreFile, At, GoTo, HandlerInv
  <2>1. Now \subseteq Nat
        BY DEF TypeOK, Now, Latest
  <2>2. TypeOK'
        BY <2>1 DEF TypeOK, Active, Written
  <2>3. Placed'
        BY DEF TypeOK, Placed, Written
  <2> QED BY <2>2, <2>3 DEF Promised
<1> QED BY <1>1, <1>2, <1>3

\* A refusal and a failed upload: the handler returns before there is a row.
LEMMA WithoutRow ==
  ASSUME HandlerInv, NEW r \in Requests, Unauthorized(r) \/ Refuse(r) \/ UploadFails(r)
  PROVE  HandlerInv' /\ Promised
<1>1. PICK a \in {"refused", "error"} :
        /\ Return(r, a)
        /\ pc[r] \in {"none", "received", "storing"}
        /\ a = "refused" => pc[r] \in {"none", "received"}
        /\ UNCHANGED <<server, tenants, disk, owner, created, table, late, walk>>
      BY DEF Unauthorized, Refuse, UploadFails, Checked, At
<1>2. /\ told[r] = "none"
      /\ told' = [told EXCEPT ![r] = a] \/ told' = told
      /\ \A q \in Requests \ {r} : pc'[q] = pc[q] /\ told'[q] = told[q]
      /\ pc'[r] = "closed" /\ told'[r] \in {"none", a}
      /\ pc' \in [Requests -> {"none", "closed"} \cup Active]
      /\ told' \in [Requests -> {"none", "accepted", "refused", "error"}]
      BY <1>1, ReturnType
<1>3. r \notin table \cup late /\ (a = "refused" => disk[r] = "none")
      BY <1>1 DEF HandlerInv, Placed
<1>4. TypeOK'
      BY <1>1, <1>2 DEF HandlerInv, TypeOK
<1>5. Placed'
      BY <1>1, <1>2, <1>3 DEF HandlerInv, Placed
<1>6. Promised
      BY <1>1, <1>2, <1>3, AnswerIsPromised
<1> QED BY <1>4, <1>5, <1>6 DEF HandlerInv

\* The statement executes for a handler that waits for it, or for one that does
\* so no longer: Intake admits the job of a request that was not refused.
LEMMA RowAppears ==
  ASSUME HandlerInv, NEW r \in Requests, Insert(r) \/ ExecuteLate(r)
  PROVE  HandlerInv' /\ Promised
<1>1. /\ r \notin table /\ told[r] # "refused"
      /\ pc[r] \in {"inserting", "closed"} /\ disk[r] = "whole"
      BY DEF HandlerInv, TypeOK, Placed, Insert, ExecuteLate, At
<1>2. /\ table' = table \cup {r}
      /\ late' \subseteq late
      /\ r \in late' => r \in late /\ pc[r] = "inserting"
      /\ UNCHANGED <<server, tenants, pc, disk, owner, created, told, walk>>
      BY DEF Insert, ExecuteLate, At
<1>3. r \notin late'
      BY <1>2 DEF HandlerInv, Placed
<1>4. TypeOK'
      BY <1>2, <1>3 DEF HandlerInv, TypeOK
<1>5. Placed'
      BY <1>1, <1>2 DEF HandlerInv, Placed
<1>6. Promise!Admit(r)
      BY <1>1, <1>2 DEF Promise!Admit
<1> QED BY <1>4, <1>5, <1>6 DEF HandlerInv, Promised, Promise!Next

\* Create returns, and the response is written.
LEMMA AfterInsert ==
  ASSUME HandlerInv, NEW r \in Requests, CreateReturns(r) \/ Respond(r)
  PROVE  HandlerInv' /\ Promised
<1>1. CASE CreateReturns(r)
  <2> USE <1>1 DEF CreateReturns, Created, At, GoTo, HandlerInv
  <2>1. TypeOK'
        BY DEF TypeOK, Active
  <2>2. Placed'
        BY DEF TypeOK, Placed
  <2> QED BY <2>1, <2>2 DEF Promised
<1>2. CASE Respond(r)
  <2>1. /\ Return(r, "accepted") /\ pc[r] = "responding"
        /\ UNCHANGED <<server, tenants, disk, owner, created, table, late, walk>>
        BY <1>2 DEF Respond, At
  <2>2. /\ told[r] = "none"
        /\ told' = [told EXCEPT ![r] = "accepted"] \/ told' = told
        /\ \A q \in Requests \ {r} : pc'[q] = pc[q] /\ told'[q] = told[q]
        /\ pc'[r] = "closed" /\ told'[r] \in {"none", "accepted"}
        /\ pc' \in [Requests -> {"none", "closed"} \cup Active]
        /\ told' \in [Requests -> {"none", "accepted", "refused", "error"}]
        BY <2>1, ReturnType
  <2>3. r \in table
        BY <2>1 DEF HandlerInv, Placed
  <2>4. TypeOK'
        BY <2>1, <2>2 DEF HandlerInv, TypeOK
  <2>5. Placed'
        BY <2>1, <2>2 DEF HandlerInv, Placed
  <2>6. Promised
        BY <2>1, <2>2, <2>3, AnswerIsPromised
  <2> QED BY <2>4, <2>5, <2>6 DEF HandlerInv
<1> QED BY <1>1, <1>2

\* An INSERT that is given up is of a handler that is gone by then.
LEMMA InsertFails ==
  ASSUME HandlerInv, NEW r \in Requests, CreateFails(r)
  PROVE  HandlerInv' /\ Promised
<1>1. /\ Return(r, "error") /\ pc[r] = "inserting"
      /\ UNCHANGED <<server, tenants, disk, owner, created, table, walk>>
      BY DEF CreateFails, At
<1>2. PICK S \in SUBSET ({r} \ table) : late' = late \cup S
      BY DEF CreateFails, GiveUp, Unexecuted
<1>3. /\ told[r] = "none"
      /\ told' = [told EXCEPT ![r] = "error"] \/ told' = told
      /\ \A q \in Requests \ {r} : pc'[q] = pc[q] /\ told'[q] = told[q]
      /\ pc'[r] = "closed" /\ told'[r] \in {"none", "error"}
      /\ pc' \in [Requests -> {"none", "closed"} \cup Active]
      /\ told' \in [Requests -> {"none", "accepted", "refused", "error"}]
      BY <1>1, ReturnType
<1>4. TypeOK'
      BY <1>1, <1>2, <1>3 DEF HandlerInv, TypeOK
<1>5. Placed'
      BY <1>1, <1>2, <1>3 DEF HandlerInv, Placed
<1>6. Promised
      BY <1>1, <1>3, AnswerIsPromised
<1> QED BY <1>4, <1>5, <1>6 DEF HandlerInv

\* A start or the seed script gives an id that nobody has to a key that has none,
\* or does nothing.
LEMMA NewTenant ==
  ASSUME HandlerInv, SeedDevTenant \/ \E k \in Keys : Seed(k)
  PROVE  /\ tenants' \in [Keys -> TenantsOrNone]
         /\ \/ tenants' = tenants
            \/ \E k \in Keys : /\ tenants[k] = None
                              /\ tenants'[k] \notin {tenants[j] : j \in Keys}
                              /\ \A j \in Keys \ {k} : tenants'[j] = tenants[j]
<1>1. tenants \in [Keys -> TenantsOrNone] /\ DevKey \in Keys
      BY KeysAssumption DEF HandlerInv, TypeOK
<1>2. NewIds \subseteq TenantsOrNone \ {tenants[j] : j \in Keys}
      BY DEF NewIds, TenantsOrNone
<1>3. CASE \E k \in Keys : Seed(k)
  <2>1. PICK k \in Keys : Seed(k)
        BY <1>3
  <2>2. PICK t \in NewIds : tenants[k] = None /\ tenants' = [tenants EXCEPT ![k] = t]
        BY <2>1 DEF Seed
  <2> QED BY <1>1, <1>2, <2>2
<1>4. CASE UNCHANGED tenants
      BY <1>1, <1>4
<1>5. CASE \E t \in NewIds : tenants' = [tenants EXCEPT ![DevKey] = Kept(DevKey, t)]
  <2>1. PICK t \in NewIds : tenants' = [tenants EXCEPT ![DevKey] = Kept(DevKey, t)]
        BY <1>5
  <2>2. CASE tenants[DevKey] = None
        BY <1>1, <1>2, <2>1, <2>2 DEF Kept
  <2>3. CASE tenants[DevKey] # None
        BY <1>1, <2>1, <2>3 DEF Kept
  <2> QED BY <2>2, <2>3
<1> QED BY <1>3, <1>4, <1>5 DEF SeedDevTenant

\* So is every one that the process leaves behind when it dies.
LEMMA ProcessStep ==
  ASSUME HandlerInv, Process
  PROVE  HandlerInv' /\ Promised
<1>1. CASE Signal \/ Start
  <2>1. server' \in {"up", "draining"} /\ UNCHANGED <<handlerVars, walk>>
        BY <1>1 DEF Signal, Start
  <2>2. tenants' \in [Keys -> TenantsOrNone]
        BY <1>1, NewTenant DEF Signal, Start, HandlerInv, TypeOK
  <2> QED BY <2>1, <2>2 DEF HandlerInv, TypeOK, Placed, Promised, handlerVars
<1>2. CASE Exit \/ Crash
  <2>1. /\ server' = "down"
        /\ pc' = [r \in Requests |-> IF pc[r] \in Active THEN "closed" ELSE pc[r]]
        /\ UNCHANGED <<tenants, disk, owner, created, table, told, walk>>
        BY <1>2 DEF Exit, Crash, Die
  <2>2. PICK S \in SUBSET ({r \in Requests : pc[r] = "inserting"} \ table) : late' = late \cup S
        BY <1>2 DEF Exit, Crash, Die, GiveUp, Unexecuted
  <2>3. TypeOK'
        BY <2>1, <2>2 DEF HandlerInv, TypeOK
  <2>4. Placed'
    <3> SUFFICES ASSUME NEW r \in Requests
                 PROVE  /\ pc'[r] \in {"none", "received"} => disk[r] = "none"
                        /\ pc'[r] \notin {"inserting", "responding"}
                        /\ told[r] # "none" => pc'[r] = "closed"
                        /\ r \in table => pc'[r] = "closed" /\ disk[r] = "whole"
                        /\ r \in late' => pc'[r] = "closed" /\ disk[r] = "whole"
                        /\ told[r] = "refused" => disk[r] = "none" /\ r \notin table \cup late'
        BY <2>1 DEF Placed
    <3>1. /\ pc[r] \in Active => pc'[r] = "closed"
          /\ pc[r] \notin Active => pc'[r] = pc[r]
          BY <2>1
    <3>2. r \in late' => r \in late \/ pc[r] = "inserting"
          BY <2>2
    <3> QED BY <3>1, <3>2 DEF HandlerInv, Placed, Active
  <2>5. Promised
        BY <2>1 DEF Promised
  <2> QED BY <2>3, <2>4, <2>5 DEF HandlerInv
<1> QED BY <1>1, <1>2 DEF Process

-----------------------------------------------------------------------------
(* The list *)

\* No row goes away or changes hands.
RowsStay == table \subseteq table' /\ \A r \in table : owner'[r] = owner[r]

\* Rows of a tenant are finitely many, and there are no fewer later.
LEMMA RowsCounted ==
  ASSUME HandlerInv, NEW t
  PROVE  IsFiniteSet(RowsOf(t)) /\ Count(t) \in Nat
<1>1. RowsOf(t) \subseteq Requests
      BY DEF HandlerInv, TypeOK, RowsOf
<1>2. IsFiniteSet(RowsOf(t))
      BY <1>1, RequestsAssumption, FS_Subset
<1> QED BY <1>2, FS_CardinalityType DEF Count

LEMMA CountGrows ==
  ASSUME HandlerInv, HandlerInv', RowsStay, UNCHANGED walk
  PROVE  Count(walk.tenant)' \in Nat /\ Count(walk.tenant) <= Count(walk.tenant)'
<1>1. RowsOf(walk.tenant) \subseteq RowsOf(walk.tenant)'
      BY DEF RowsOf, RowsStay
<1>2. IsFiniteSet(RowsOf(walk.tenant)')
  <2>1. RowsOf(walk.tenant)' \subseteq Requests
        BY DEF HandlerInv, TypeOK, RowsOf
  <2> QED BY <2>1, RequestsAssumption, FS_Subset
<1> QED BY <1>1, <1>2, FS_Subset, FS_CardinalityType DEF Count

\* The handlers and the process leave a list alone, and take no row away.
LEMMA ListUndisturbed ==
  ASSUME ListInv, HandlerInv', UNCHANGED walk, RowsStay
  PROVE  ListInv'
<1>1. /\ Count(walk.tenant) \in Nat /\ Count(walk.tenant)' \in Nat
      /\ Count(walk.tenant) <= Count(walk.tenant)'
      BY RowsCounted, CountGrows DEF ListInv
<1>2. walk.total \in Nat
      BY DEF ListInv, HandlerInv, TypeOK, Walks
<1>3. Counting'
      BY <1>1, <1>2 DEF ListInv, Counting
<1> QED BY <1>3 DEF ListInv, TotalReached

\* What a page has, by the counts of what it was cut from.
LEMMA PageSize ==
  ASSUME HandlerInv, NEW t, NEW page \in PagesOf(RowsOf(t), walk.offset)
  PROVE  /\ page \subseteq RowsOf(t)
         /\ Cardinality(page) \in Nat
         /\ Least(Count(t), walk.offset + Limit) <= walk.offset + Cardinality(page)
<1>1. PICK skipped \in SUBSET (RowsOf(t) \ page) :
        /\ Cardinality(skipped) = Least(walk.offset, Count(t))
        /\ Cardinality(page) = Least(Limit, Count(t) - Cardinality(skipped))
      BY DEF PagesOf, Count
<1>2. Count(t) \in Nat /\ walk.offset \in Nat /\ Limit \in Nat
      BY RowsCounted, LimitAssumption DEF HandlerInv, TypeOK, Walks
<1>3. page \subseteq RowsOf(t)
      BY DEF PagesOf
<1> QED BY <1>1, <1>2, <1>3 DEF Least

\* Every step of the client keeps the walk's type and the bound of the total.
LEMMA WalkStep ==
  ASSUME ListInv, Walk
  PROVE  ListInv' /\ Promised
<1> USE DEF ListInv
<1>1. UNCHANGED <<server, tenants, handlerVars>>
      BY DEF Walk, BeginWalk, CountJobs, ListJobs, AskAgain, TurnPage
<1>2. walk \in Walks /\ tenants[Reader] \in TenantsOrNone /\ table \subseteq Requests
      BY KeysAssumption DEF HandlerInv, TypeOK
<1>3. /\ walk' \in Walks
      /\ walk'.pc = "list" => walk'.total <= Count(walk'.tenant)
      /\ walk'.pc = "page" =>
           Least(walk'.total, walk'.offset + Limit) <= walk'.offset + Cardinality(walk'.page)
  <2>1. CASE BeginWalk
    <3>1. Listed \subseteq Requests
          BY <1>2 DEF Listed, RowsOf
    <3> QED BY <1>2, <2>1, <3>1 DEF BeginWalk, Walks
  <2>2. CASE CountJobs
    <3> DEFINE t == tenants[Reader]
    <3>1. walk' = [walk EXCEPT !.pc = "list", !.tenant = t, !.total = Count(t)]
          BY <2>2 DEF CountJobs
    <3>2. Count(t) \in Nat
          BY RowsCounted
    <3>3. /\ walk' \in Walks /\ walk'.pc = "list"
          /\ walk'.tenant = t /\ walk'.total = Count(t)
          BY <1>2, <3>1, <3>2 DEF Walks
    <3> QED BY <3>2, <3>3
  <2>3. CASE ListJobs
    <3> DEFINE t == walk.tenant
    <3>1. PICK page \in PagesOf(RowsOf(t), walk.offset) :
            walk' = [walk EXCEPT !.pc = "page", !.page = page, !.seen = @ \cup page,
                                 !.again = @ \cup (walk.seen \cap page)]
          BY <2>3 DEF ListJobs
    <3>2. /\ page \subseteq RowsOf(t) /\ Cardinality(page) \in Nat
          /\ Least(Count(t), walk.offset + Limit) <= walk.offset + Cardinality(page)
          BY PageSize
    <3>3. page \subseteq Requests
          BY <1>2, <3>2 DEF RowsOf
    <3>4. walk' \in Walks
          BY <1>2, <3>1, <3>3 DEF Walks
    <3>5. /\ walk'.pc = "page" /\ walk'.page = page
          /\ walk'.total = walk.total /\ walk'.offset = walk.offset
          BY <1>2, <3>1 DEF Walks
    <3>6. /\ walk.total <= Count(t) /\ Count(t) \in Nat
          /\ walk.total \in Nat /\ walk.offset \in Nat /\ Limit \in Nat
          BY <1>2, <2>3, RowsCounted, LimitAssumption DEF Counting, ListJobs, Walks
    <3>7. Least(walk.total, walk.offset + Limit) <= walk.offset + Cardinality(page)
          BY <3>2, <3>6 DEF Least
    <3> QED BY <3>4, <3>5, <3>7
  <2>4. CASE AskAgain
        BY <1>2, <2>4 DEF AskAgain, Walks, TenantsOrNone
  <2>5. CASE TurnPage
    <3>1. walk.offset + Limit \in Nat
          BY <1>2, LimitAssumption DEF Walks
    <3>2. CASE Cardinality(walk.page) < Limit
      <4>1. walk' = [walk EXCEPT !.tenant = None, !.total = 0, !.page = {}, !.pc = "done"]
            BY <2>5, <3>2 DEF TurnPage
      <4> QED BY <1>2, <4>1 DEF Walks, TenantsOrNone
    <3>3. CASE ~(Cardinality(walk.page) < Limit)
      <4>1. walk' = [walk EXCEPT !.tenant = None, !.total = 0, !.page = {}, !.pc = "count",
                                 !.offset = @ + Limit]
            BY <2>5, <3>3 DEF TurnPage
      <4> QED BY <1>2, <3>1, <4>1 DEF Walks, TenantsOrNone
    <3> QED BY <3>2, <3>3
  <2> QED BY <2>1, <2>2, <2>3, <2>4, <2>5 DEF Walk
<1>4. HandlerInv'
      BY <1>1, <1>3 DEF HandlerInv, TypeOK, Placed, handlerVars
<1>5. Counting' /\ TotalReached'
      BY <1>1, <1>3 DEF Counting, TotalReached, Count, RowsOf, handlerVars
<1>6. Promised
      BY <1>1 DEF Promised, handlerVars
<1> QED BY <1>4, <1>5, <1>6

-----------------------------------------------------------------------------
(* Tenants *)

\* The seed script is nothing to the handlers.
LEMMA SeedStep ==
  ASSUME HandlerInv, NEW k \in Keys, Seed(k)
  PROVE  HandlerInv' /\ Promised
<1>1. UNCHANGED <<server, handlerVars, walk>> /\ tenants' \in [Keys -> TenantsOrNone]
      BY NewTenant DEF Seed
<1> QED BY <1>1 DEF HandlerInv, TypeOK, Placed, Promised, handlerVars

\* No handler but Receive gives a request a tenant, and none starts, inserts or
\* leaves a statement behind without one.
LEMMA OwnerKept ==
  ASSUME HandlerInv, Owned, UNCHANGED owner,
         \A r \in Requests :
           pc'[r] \in Active \/ r \in table' \cup late' => pc[r] \in Active \/ r \in table \cup late,
         \/ tenants' = tenants
         \/ \E k \in Keys : /\ tenants[k] = None
                            /\ tenants'[k] \notin {tenants[j] : j \in Keys}
                            /\ \A j \in Keys \ {k} : tenants'[j] = tenants[j]
  PROVE  Owned'
<1>1. \A k \in Keys : tenants[k] # None => tenants'[k] = tenants[k]
      OBVIOUS
<1>2. \A j, k \in Keys : tenants'[j] = tenants'[k] => j = k \/ tenants'[j] = None
      BY DEF Owned
<1>3. \A r \in Requests : KeyOf[r] \in Keys
      BY KeysAssumption
<1>4. \A r \in Requests : owner[r] # None => owner[r] = tenants'[KeyOf[r]]
      BY <1>1, <1>3 DEF Owned
<1> QED BY <1>2, <1>4 DEF Owned

\* A request has the tenant of its key from Auth on.
LEMMA OwnedStep == HandlerInv /\ Owned /\ [Next]_vars => Owned'
<1> SUFFICES ASSUME HandlerInv, Owned, [Next]_vars PROVE Owned'
    OBVIOUS
<1>1. CASE \E r \in Requests : Receive(r)
  <2>1. PICK r \in Requests : Receive(r)
        BY <1>1
  <2>2. /\ pc' = [pc EXCEPT ![r] = "received"] /\ tenants[KeyOf[r]] # None
        /\ owner' = [owner EXCEPT ![r] = tenants[KeyOf[r]]]
        /\ UNCHANGED <<tenants, table, late>>
        BY <2>1 DEF Receive, GoTo
  <2> QED BY <2>2 DEF HandlerInv, TypeOK, Owned
<1>2. CASE \E r \in Requests :
             \/ Unauthorized(r) \/ Refuse(r) \/ OpenFile(r) \/ StoreFile(r) \/ UploadFails(r)
             \/ Insert(r) \/ CreateReturns(r) \/ CreateFails(r) \/ Respond(r) \/ ExecuteLate(r)
  <2>1. PICK r \in Requests :
             \/ Unauthorized(r) \/ Refuse(r) \/ OpenFile(r) \/ StoreFile(r) \/ UploadFails(r)
             \/ Insert(r) \/ CreateReturns(r) \/ CreateFails(r) \/ Respond(r) \/ ExecuteLate(r)
        BY <1>2
  <2>2. UNCHANGED <<tenants, owner>>
        BY <2>1 DEF Unauthorized, Refuse, OpenFile, StoreFile, UploadFails, Insert,
                    CreateReturns, CreateFails, Respond, ExecuteLate
  <2>3. \A q \in Requests :
          pc'[q] \in Active \/ q \in table' \cup late' => pc[q] \in Active \/ q \in table \cup late
    <3> USE DEF HandlerInv, TypeOK, Active
    <3>1. CASE Unauthorized(r) \/ Refuse(r) \/ UploadFails(r) \/ Respond(r)
          BY <3>1 DEF Unauthorized, Refuse, UploadFails, Respond, Return, GoTo
    <3>2. CASE OpenFile(r) \/ StoreFile(r) \/ CreateReturns(r)
          BY <3>2 DEF OpenFile, StoreFile, CreateReturns, GoTo, At
    <3>3. CASE Insert(r) \/ ExecuteLate(r)
          BY <3>3 DEF Insert, ExecuteLate, At
    <3>4. CASE CreateFails(r)
      <4>1. late' \subseteq late \cup {r} /\ pc[r] = "inserting" /\ pc' = [pc EXCEPT ![r] = "closed"]
            /\ UNCHANGED table
            BY <3>4 DEF CreateFails, Return, GoTo, At, GiveUp, Unexecuted
      <4> QED BY <4>1
    <3> QED BY <2>1, <3>1, <3>2, <3>3, <3>4
  <2> QED BY <2>2, <2>3, OwnerKept
<1>3. CASE Exit \/ Crash
  <2>1. /\ pc' = [r \in Requests |-> IF pc[r] \in Active THEN "closed" ELSE pc[r]]
        /\ late' \subseteq late \cup {r \in Requests : pc[r] = "inserting"}
        /\ UNCHANGED <<tenants, owner, table>>
        BY <1>3 DEF Exit, Crash, Die, GiveUp, Unexecuted
  <2>2. \A q \in Requests :
          pc'[q] \in Active \/ q \in table' \cup late' => pc[q] \in Active \/ q \in table \cup late
        BY <2>1 DEF Active
  <2> QED BY <2>1, <2>2, OwnerKept
<1>4. CASE Start \/ \E k \in Keys : Seed(k)
  <2>1. UNCHANGED handlerVars /\ (SeedDevTenant \/ \E k \in Keys : Seed(k))
        BY <1>4 DEF Start, Seed
  <2> QED BY <2>1, NewTenant, OwnerKept DEF handlerVars
<1>5. CASE Signal \/ Walk \/ UNCHANGED vars
  <2>1. UNCHANGED <<tenants, handlerVars>>
        BY <1>5 DEF Signal, Walk, BeginWalk, CountJobs, ListJobs, AskAgain, TurnPage, vars
  <2> QED BY <2>1 DEF Owned, handlerVars
<1> QED BY <1>1, <1>2, <1>3, <1>4, <1>5 DEF Next, Extract, Process

-----------------------------------------------------------------------------
\* Every step keeps the invariant and the promise.
LEMMA APIStep == ListInv /\ [Next]_vars => ListInv' /\ Promised
<1> SUFFICES ASSUME ListInv, [Next]_vars PROVE ListInv' /\ Promised
    OBVIOUS
<1> USE DEF ListInv
<1>1. CASE Walk
      BY <1>1, WalkStep
<1>2. CASE Process
  <2>1. UNCHANGED <<walk, table, owner>>
        BY <1>2 DEF Process, Signal, Exit, Crash, Start, Die, handlerVars
  <2> QED BY <1>2, <2>1, ProcessStep, ListUndisturbed DEF RowsStay
<1>3. CASE \E k \in Keys : Seed(k)
  <2>1. UNCHANGED <<walk, table, owner>>
        BY <1>3 DEF Seed, handlerVars
  <2> QED BY <1>3, <2>1, SeedStep, ListUndisturbed DEF RowsStay
<1>4. CASE \E r \in Requests : Extract(r)
  <2>1. PICK r \in Requests : Extract(r)
        BY <1>4
  <2>2. UNCHANGED walk /\ table \subseteq table'
        BY <2>1 DEF Extract, Receive, Unauthorized, Refuse, OpenFile, StoreFile, UploadFails,
                    Insert, CreateReturns, CreateFails, Respond, ExecuteLate
  <2>3. \A q \in table : owner'[q] = owner[q]
    <3>1. CASE Receive(r)
      <4>1. r \notin table
            BY <3>1 DEF Receive, HandlerInv, Placed
      <4> QED BY <3>1, <4>1 DEF Receive, HandlerInv, TypeOK
    <3>2. CASE ~Receive(r)
          BY <2>1, <3>2 DEF Extract, Unauthorized, Refuse, OpenFile, StoreFile, UploadFails,
                            Insert, CreateReturns, CreateFails, Respond, ExecuteLate
    <3> QED BY <3>1, <3>2
  <2>4. HandlerInv' /\ Promised
        BY <2>1, BeforeInsert, WithoutRow, RowAppears, AfterInsert, InsertFails DEF Extract
  <2> QED BY <2>2, <2>3, <2>4, ListUndisturbed DEF RowsStay
<1>5. CASE UNCHANGED vars
  <2>1. HandlerInv'
        BY <1>5 DEF HandlerInv, TypeOK, Placed, vars, handlerVars
  <2>2. UNCHANGED <<walk, table, owner, told>>
        BY <1>5 DEF vars, handlerVars
  <2> QED BY <2>1, <2>2, ListUndisturbed DEF Promised, RowsStay
<1> QED BY <1>1, <1>2, <1>3, <1>4, <1>5 DEF Next

LEMMA ListInit == Init => ListInv /\ Owned
<1> SUFFICES ASSUME Init PROVE ListInv /\ Owned
    OBVIOUS
<1>1. Counting /\ TotalReached
      BY DEF Init, Counting, TotalReached
<1>2. Owned
      BY KeysAssumption DEF Init, Owned, Active
<1> QED BY <1>1, <1>2, HandlerInit DEF ListInv

LEMMA ListAlways == Spec => []ListInv
<1> QED BY ListInit, APIStep, PTL DEF Spec

LEMMA OwnedAlways == Spec => []Owned
<1>1. ListInv /\ Owned /\ [Next]_vars => Owned'
      BY OwnedStep DEF ListInv
<1> QED BY <1>1, ListInit, ListAlways, PTL DEF Spec

-----------------------------------------------------------------------------
\* Every variable of the API keeps its type; no statement left behind is of a
\* row that is there already.
THEOREM APITypeCorrect == Spec => []TypeOK
<1>1. ListInv => TypeOK
      BY DEF ListInv, HandlerInv
<1> QED BY <1>1, ListAlways, PTL

\* Whatever fails, dies or executes late, a row in the jobs table names a file
\* that is there and whole.
THEOREM RowsHaveDocuments == Spec => []RowHasDocument
<1>1. ListInv => RowHasDocument
  <2>1. ListInv => \A r \in Requests : r \in table => disk[r] = "whole"
        BY DEF ListInv, HandlerInv, Placed
  <2> QED BY <2>1 DEF ListInv, HandlerInv, TypeOK, RowHasDocument
<1> QED BY <1>1, ListAlways, PTL

\* A request that was refused has no file, no row and no statement that may
\* still insert one.
THEOREM RefusalsLeaveNothing == Spec => []RefusedLeavesNothing
<1>1. ListInv => RefusedLeavesNothing
      BY DEF ListInv, HandlerInv, Placed, RefusedLeavesNothing
<1> QED BY <1>1, ListAlways, PTL

\* HandleExtract, with its files, statements and process, implements Intake.
THEOREM PromiseKept == Spec => ImplementsIntake
<1>1. Init => Promise!Init
      BY HandlerInit
<1>2. ListInv /\ [Next]_vars => [Promise!Next]_<<table, told>>
      BY APIStep DEF Promised
<1> QED BY <1>1, <1>2, ListAlways, PTL DEF Spec, ImplementsIntake, Promise!Spec

\* A page and the total above it agree on whether there are more, although
\* rows are inserted between the two statements.
THEOREM TotalsReachTheirPage == Spec => []TotalReached
<1>1. ListInv => TotalReached
      BY DEF ListInv
<1> QED BY <1>1, ListAlways, PTL
\* A job is found with its own key and with no other one, however often the
\* process starts and whatever is seeded in between.
THEOREM JobsAreFound == Spec => []FoundByItsKey
<1>1. ListInv /\ Owned => FoundByItsKey
  <2> SUFFICES ASSUME ListInv, Owned, NEW r \in table, NEW k \in Keys
               PROVE  tenants[k] = owner[r] <=> k = KeyOf[r]
      BY DEF FoundByItsKey
  <2>1. r \in Requests /\ KeyOf[r] \in Keys
        BY KeysAssumption DEF ListInv, HandlerInv, TypeOK
  <2>2. owner[r] # None /\ owner[r] = tenants[KeyOf[r]]
        BY <2>1 DEF Owned
  <2> QED BY <2>1, <2>2 DEF Owned
<1> QED BY <1>1, ListAlways, OwnedAlways, PTL

-----------------------------------------------------------------------------
(* The walk *)

\* The rows a list has before r.
Newer(r) == {q \in Listed : created[q] > created[r]}

\* A newer row than r has come since the walk began.
Inserted(r) == \E q \in Listed \ walk.start : created[q] > created[r]

\* Where the next page begins, if there is one.
Reached == IF walk.pc = "page" THEN walk.offset + Limit ELSE walk.offset

WalkOfReader ==
  /\ walk.start \cup walk.seen \subseteq Listed
  /\ walk.again \subseteq walk.seen
  /\ walk.pc = "idle" => walk.offset = 0 /\ walk.seen = {}
  /\ walk.pc = "list" => walk.tenant = tenants[Reader] /\ walk.tenant # None

\* What the walk has not seen is still to come: it is not before the next page,
Ahead ==
  \A r \in walk.start \ walk.seen :
    \/ SameMoment(r)
    \/ /\ walk.pc # "done"
       /\ Reached <= Cardinality(Newer(r))
       /\ walk.pc = "page" => Cardinality(walk.page) >= Limit

\* and what it has seen is, but for rows that have come since.
Behind ==
  \A r \in walk.seen :
    \/ SameMoment(r) \/ Inserted(r)
    \/ walk.pc = "done"
    \/ Cardinality(Newer(r)) < Reached

WalkInv == WalkOfReader /\ Ahead /\ Behind /\ RepeatsExplained

LEMMA ListedFinite ==
  ASSUME HandlerInv
  PROVE  /\ Listed \subseteq Requests /\ IsFiniteSet(Listed) /\ Cardinality(Listed) \in Nat
         /\ \A r \in Requests : IsFiniteSet(Newer(r)) /\ Cardinality(Newer(r)) \in Nat
         /\ \A r \in Requests : created[r] \in Nat
<1>1. IsFiniteSet(Listed) /\ Listed \subseteq Requests
      BY RowsCounted DEF Listed, RowsOf, HandlerInv, TypeOK
<1>2. ASSUME NEW r \in Requests PROVE IsFiniteSet(Newer(r)) /\ Cardinality(Newer(r)) \in Nat
  <2>1. Newer(r) \subseteq Listed
        BY DEF Newer
  <2> QED BY <1>1, <2>1, FS_Subset, FS_CardinalityType
<1> QED BY <1>1, <1>2, FS_CardinalityType DEF HandlerInv, TypeOK

\* Where a row without a twin is, by the page that is cut: within the page if
\* it is on it, beyond a full page if it was not before it.
LEMMA PageCut ==
  ASSUME HandlerInv, NEW r \in Listed, ~SameMoment(r),
         NEW page \in PagesOf(Listed, walk.offset)
  PROVE  /\ r \in page => /\ walk.offset <= Cardinality(Newer(r))
                          /\ Cardinality(Newer(r)) < walk.offset + Limit
         /\ r \notin page /\ walk.offset <= Cardinality(Newer(r)) =>
              Cardinality(page) >= Limit /\ walk.offset + Limit <= Cardinality(Newer(r))
<1> DEFINE N == Newer(r)
           C == Cardinality(Listed)
<1>1. PICK S \in SUBSET (Listed \ page) :
        /\ Cardinality(S) = Least(walk.offset, C)
        /\ Cardinality(page) = Least(Limit, C - Cardinality(S))
        /\ Before(S, Listed \ S)
        /\ Before(page, (Listed \ S) \ page)
      BY DEF PagesOf
<1>2. page \subseteq Listed
      BY DEF PagesOf
<1>3. /\ IsFiniteSet(Listed) /\ C \in Nat /\ IsFiniteSet(N) /\ Cardinality(N) \in Nat
      /\ \A q \in Listed : created[q] \in Nat
      /\ walk.offset \in Nat /\ Limit \in Nat \ {0}
      BY ListedFinite, LimitAssumption DEF HandlerInv, TypeOK, Walks
<1>4. \A q \in Listed : q # r => created[q] # created[r]
      BY DEF SameMoment
<1>5. N \subseteq Listed /\ r \notin N
      BY <1>3 DEF Newer
<1>6. /\ IsFiniteSet(S) /\ Cardinality(S) \in Nat /\ Cardinality(S) <= C
      /\ IsFiniteSet(page) /\ Cardinality(page) \in Nat
      BY <1>2, <1>3, FS_Subset, FS_CardinalityType
<1>7. IsFiniteSet(S \cup page) /\ Cardinality(S \cup page) = Cardinality(S) + Cardinality(page)
  <2>1. S \cap page = {} /\ Cardinality({}) = 0
        BY FS_EmptySet
  <2>2. /\ IsFiniteSet(S \cup page)
        /\ Cardinality(S \cup page)
             = Cardinality(S) + Cardinality(page) - Cardinality(S \cap page)
        BY <1>6, FS_Union
  <2> QED BY <1>6, <2>1, <2>2
<1>8. ASSUME r \in S PROVE Cardinality(N) < walk.offset
  <2>1. N \subseteq S \ {r}
        BY <1>1, <1>3, <1>5, <1>8 DEF Newer, Before
  <2>2. IsFiniteSet(S \ {r}) /\ Cardinality(S \ {r}) = Cardinality(S) - 1
        BY <1>6, <1>8, FS_RemoveElement
  <2>3. Cardinality(N) <= Cardinality(S) - 1
        BY <2>1, <2>2, FS_Subset
  <2> QED BY <1>1, <1>3, <1>6, <2>3 DEF Least
<1>9. ASSUME r \notin S PROVE S \subseteq N
      BY <1>1, <1>2, <1>3, <1>4, <1>9 DEF Newer, Before
<1>10. ASSUME r \in page
       PROVE  walk.offset <= Cardinality(N) /\ Cardinality(N) < walk.offset + Limit
  <2>1. S \subseteq N
        BY <1>9, <1>10
  <2>2. Cardinality(S) <= Cardinality(N)
        BY <1>3, <2>1, FS_Subset
  <2> DEFINE U == S \cup page
  <2>3. N \subseteq U \ {r}
        BY <1>1, <1>3, <1>5, <1>10 DEF Newer, Before
  <2>4. IsFiniteSet(U) /\ r \in U /\ Cardinality(U) = Cardinality(S) + Cardinality(page)
        BY <1>7, <1>10
  <2> HIDE DEF U
  <2>5. Cardinality(N) <= Cardinality(S) + Cardinality(page) - 1
    <3>1. IsFiniteSet(U \ {r}) /\ Cardinality(U \ {r}) = Cardinality(U) - 1
          BY <2>4, FS_RemoveElement
    <3>2. Cardinality(N) <= Cardinality(U \ {r})
          BY <2>3, <3>1, FS_Subset
    <3> QED BY <1>3, <1>6, <2>4, <3>1, <3>2
  <2>6. Cardinality(page) >= 1
    <3>1. {r} \subseteq page /\ Cardinality({r}) = 1
          BY <1>10, FS_Singleton
    <3> QED BY <1>6, <3>1, FS_Subset
  <2>7. Cardinality(S) = walk.offset
        BY <1>1, <1>3, <1>6, <2>6 DEF Least
  <2> QED BY <1>1, <1>3, <1>6, <2>2, <2>5, <2>7 DEF Least
<1>11. ASSUME r \notin page, walk.offset <= Cardinality(N)
       PROVE  Cardinality(page) >= Limit /\ walk.offset + Limit <= Cardinality(N)
  <2>1. r \notin S
        BY <1>3, <1>8, <1>11
  <2>2. S \cup page \subseteq N
    <3>1. page \subseteq N
          BY <1>1, <1>2, <1>3, <1>4, <1>11, <2>1 DEF Newer, Before
    <3> QED BY <1>9, <2>1, <3>1
  <2>3. Cardinality(S) + Cardinality(page) <= Cardinality(N)
        BY <1>3, <1>7, <2>2, FS_Subset
  <2>4. Cardinality(N) < C
    <3>1. N \subseteq Listed \ {r}
          BY <1>5
    <3>2. IsFiniteSet(Listed \ {r}) /\ Cardinality(Listed \ {r}) = C - 1
          BY <1>3, FS_RemoveElement
    <3>3. Cardinality(N) <= C - 1
          BY <3>1, <3>2, FS_Subset
    <3> QED BY <1>3, <3>3
  <2> QED BY <1>1, <1>3, <1>6, <2>3, <2>4 DEF Least
<1> QED BY <1>10, <1>11

\* No step of the handlers, the seed script or the process takes a row of the
\* reader away, or its created_at back.
ListedStays ==
  /\ Listed \subseteq Listed'
  /\ \A r \in Listed : created'[r] = created[r]
  /\ tenants[Reader] # None => tenants'[Reader] = tenants[Reader]

LEMMA RowsKept ==
  ASSUME HandlerInv, Owned, [Next]_vars
  PROVE  ListedStays
<1>1. \A r \in table : r \in table' /\ owner'[r] = owner[r] /\ created'[r] = created[r]
  <2>1. CASE \E r \in Requests : Receive(r)
    <3>1. PICK r \in Requests : Receive(r)
          BY <2>1
    <3>2. r \notin table
          BY <3>1 DEF Receive, HandlerInv, Placed
    <3> QED BY <3>1, <3>2 DEF Receive, HandlerInv, TypeOK
  <2>2. CASE \E r \in Requests : StoreFile(r)
    <3>1. PICK r \in Requests : StoreFile(r)
          BY <2>2
    <3>2. r \notin table
          BY <3>1 DEF StoreFile, At, HandlerInv, Placed
    <3> QED BY <3>1, <3>2 DEF StoreFile, HandlerInv, TypeOK
  <2>3. CASE \E r \in Requests :
               \/ Unauthorized(r) \/ Refuse(r) \/ OpenFile(r) \/ UploadFails(r)
               \/ Insert(r) \/ CreateReturns(r) \/ CreateFails(r) \/ Respond(r) \/ ExecuteLate(r)
        BY <2>3 DEF Unauthorized, Refuse, OpenFile, UploadFails, Insert, CreateReturns,
                    CreateFails, Respond, ExecuteLate
  <2>4. CASE Process
        BY <2>4 DEF Process, Signal, Exit, Crash, Start, Die, handlerVars
  <2>5. CASE Walk \/ UNCHANGED vars \/ \E k \in Keys : Seed(k)
        BY <2>5 DEF Walk, BeginWalk, CountJobs, ListJobs, AskAgain, TurnPage, Seed, vars,
                    handlerVars
  <2> QED BY <2>1, <2>2, <2>3, <2>4, <2>5 DEF Next, Extract
<1>2. tenants[Reader] # None => tenants'[Reader] = tenants[Reader]
  <2>1. CASE SeedDevTenant \/ \E k \in Keys : Seed(k)
        BY <2>1, NewTenant, KeysAssumption
  <2>2. CASE UNCHANGED tenants
        BY <2>2
  <2>3. SeedDevTenant \/ (\E k \in Keys : Seed(k)) \/ UNCHANGED tenants
        BY DEF Next, Extract, Receive, Unauthorized, Refuse, OpenFile, StoreFile, UploadFails,
               Insert, CreateReturns, CreateFails, Respond, ExecuteLate, Process, Signal, Exit,
               Crash, Start, Die, Walk, BeginWalk, CountJobs, ListJobs, AskAgain, TurnPage, vars
  <2> QED BY <2>1, <2>2, <2>3
<1>3. tenants[Reader] = None => Listed = {}
      BY DEF Listed, RowsOf, Owned, HandlerInv, TypeOK
<1> QED BY <1>1, <1>2, <1>3 DEF ListedStays, Listed, RowsOf

\* Then the walk is where it was, and its rows no further ahead.
LEMMA WalkUndisturbed ==
  ASSUME HandlerInv, HandlerInv', WalkInv, ListedStays, UNCHANGED walk
  PROVE  WalkInv'
<1> USE DEF WalkInv, ListedStays
<1>1. walk.start \cup walk.seen \subseteq Listed /\ walk.again \subseteq walk.seen
      BY DEF WalkOfReader
<1>2. WalkOfReader'
      BY DEF WalkOfReader
<1>3. /\ Listed \subseteq Requests /\ Listed' \subseteq Requests
      /\ \A r \in Requests : IsFiniteSet(Newer(r)) /\ Cardinality(Newer(r)) \in Nat
      /\ \A r \in Requests : IsFiniteSet(Newer(r)') /\ Cardinality(Newer(r)') \in Nat
  <2>1. Listed' \subseteq Requests
        BY DEF Listed, RowsOf, HandlerInv, TypeOK
  <2>2. \A r \in Requests : Newer(r)' \subseteq Requests
        BY <2>1 DEF Newer
  <2>3. \A r \in Requests : IsFiniteSet(Newer(r)') /\ Cardinality(Newer(r)') \in Nat
        BY <2>2, RequestsAssumption, FS_Subset, FS_CardinalityType
  <2> QED BY <2>1, <2>3, ListedFinite
<1>4. \A r \in Listed : (SameMoment(r) => SameMoment(r)') /\ (Inserted(r) => Inserted(r)')
      BY DEF SameMoment, Inserted
<1>5. ASSUME NEW r \in Listed PROVE Cardinality(Newer(r)) <= Cardinality(Newer(r)')
  <2>1. Newer(r) \subseteq Newer(r)'
        BY DEF Newer
  <2> QED BY <1>3, <2>1, FS_Subset
<1>6. ASSUME NEW r \in Listed, ~Inserted(r)' PROVE Newer(r)' = Newer(r)
      BY <1>1, <1>6 DEF Newer, Inserted
<1>7. Reached' = Reached /\ Reached \in Nat
      BY LimitAssumption DEF Reached, HandlerInv, TypeOK, Walks
<1>8. Ahead'
  <2> SUFFICES ASSUME NEW r \in walk.start \ walk.seen, ~SameMoment(r)'
               PROVE  /\ walk.pc # "done"
                      /\ Reached' <= Cardinality(Newer(r)')
                      /\ walk.pc = "page" => Cardinality(walk.page) >= Limit
      BY DEF Ahead
  <2>1. r \in Listed /\ r \in Requests
        BY <1>1, <1>3
  <2>2. /\ walk.pc # "done" /\ Reached <= Cardinality(Newer(r))
        /\ walk.pc = "page" => Cardinality(walk.page) >= Limit
        BY <1>4, <2>1 DEF Ahead
  <2>3. Cardinality(Newer(r)) <= Cardinality(Newer(r)')
        BY <1>5, <2>1
  <2> QED BY <1>3, <1>7, <2>1, <2>2, <2>3
<1>9. Behind'
  <2> SUFFICES ASSUME NEW r \in walk.seen, ~SameMoment(r)', ~Inserted(r)', walk.pc # "done"
               PROVE  Cardinality(Newer(r)') < Reached'
      BY DEF Behind
  <2>1. r \in Listed
        BY <1>1
  <2>2. Cardinality(Newer(r)) < Reached
        BY <1>4, <2>1 DEF Behind
  <2> QED BY <1>6, <1>7, <2>1, <2>2
<1>10. RepeatsExplained'
  <2>1. \A r \in walk.again : SameMoment(r)' \/ Inserted(r)'
        BY <1>1, <1>4 DEF RepeatsExplained, Inserted
  <2> QED BY <2>1 DEF RepeatsExplained, Inserted
<1> QED BY <1>2, <1>8, <1>9, <1>10

\* Every step of the client goes on where the last page ended.
LEMMA WalkGoesOn ==
  ASSUME HandlerInv, WalkInv, Walk
  PROVE  WalkInv'
<1> USE DEF WalkInv
<1>1. UNCHANGED <<server, tenants, handlerVars>>
      BY DEF Walk, BeginWalk, CountJobs, ListJobs, AskAgain, TurnPage
<1>2. Listed' = Listed /\ \A r : SameMoment(r)' = SameMoment(r) /\ Newer(r)' = Newer(r)
      BY <1>1 DEF Listed, RowsOf, SameMoment, Newer, handlerVars
<1>3. walk \in Walks /\ walk.offset \in Nat /\ Limit \in Nat \ {0}
      BY LimitAssumption DEF HandlerInv, TypeOK, Walks
<1>4. /\ Listed \subseteq Requests
      /\ \A r \in Requests : Cardinality(Newer(r)) \in Nat
      BY ListedFinite
<1>c. created' = created
      BY <1>1 DEF handlerVars
<1>5. CASE BeginWalk
  <2>1. /\ walk.pc = "idle" /\ walk'.pc = "count" /\ walk'.start = Listed
        /\ walk'.seen = {} /\ walk'.offset = 0 /\ walk'.again = {}
        BY <1>3, <1>5 DEF BeginWalk, Walks, WalkOfReader
  <2>2. Ahead'
        BY <1>2, <1>4, <2>1 DEF Ahead, Reached
  <2> QED BY <1>2, <2>1, <2>2 DEF WalkOfReader, Behind, RepeatsExplained
<1>6. CASE CountJobs \/ AskAgain
  <2>1. /\ walk.pc \in {"count", "list"} /\ walk'.pc \in {"count", "list"}
        /\ walk'.start = walk.start /\ walk'.seen = walk.seen /\ walk'.again = walk.again
        /\ walk'.offset = walk.offset
        /\ walk'.pc = "list" => walk'.tenant = tenants[Reader] /\ walk'.tenant # None
        BY <1>3, <1>6 DEF CountJobs, AskAgain, Walks
  <2>2. WalkOfReader'
        BY <1>1, <1>2, <2>1 DEF WalkOfReader
  <2>3. Ahead'
        BY <1>2, <2>1 DEF Ahead, Reached
  <2>4. Behind'
        BY <1>2, <1>c, <2>1 DEF Behind, Reached, Inserted
  <2>5. RepeatsExplained'
        BY <1>2, <1>c, <2>1 DEF RepeatsExplained
  <2> QED BY <2>2, <2>3, <2>4, <2>5
<1>7. CASE ListJobs
  <2>1. PICK page \in PagesOf(Listed, walk.offset) :
          walk' = [walk EXCEPT !.pc = "page", !.page = page, !.seen = @ \cup page,
                               !.again = @ \cup (walk.seen \cap page)]
        BY <1>7 DEF ListJobs, WalkOfReader, Listed
  <2>2. /\ walk.pc = "list" /\ walk'.pc = "page" /\ walk'.page = page
        /\ walk'.seen = walk.seen \cup page
        /\ walk'.again = walk.again \cup (walk.seen \cap page)
        /\ walk'.start = walk.start /\ walk'.offset = walk.offset
        BY <1>3, <1>7, <2>1 DEF ListJobs, Walks
  <2>3. page \subseteq Listed
        BY DEF PagesOf
  <2>4. WalkOfReader'
        BY <1>2, <2>2, <2>3 DEF WalkOfReader
  <2>5. ASSUME NEW r \in Listed, ~SameMoment(r)
        PROVE  /\ r \in page => /\ walk.offset <= Cardinality(Newer(r))
                                /\ Cardinality(Newer(r)) < walk.offset + Limit
               /\ r \notin page /\ walk.offset <= Cardinality(Newer(r)) =>
                    Cardinality(page) >= Limit /\ walk.offset + Limit <= Cardinality(Newer(r))
        BY <2>5, PageCut
  <2>6. Reached = walk.offset /\ Reached' = walk.offset + Limit
        BY <2>2 DEF Reached
  <2>7. Ahead'
    <3> SUFFICES ASSUME NEW r \in walk.start \ (walk.seen \cup page), ~SameMoment(r)
                 PROVE  walk.offset + Limit <= Cardinality(Newer(r)) /\ Cardinality(page) >= Limit
        BY <1>2, <2>2, <2>6 DEF Ahead
    <3>1. r \in Listed /\ walk.offset <= Cardinality(Newer(r))
          BY <2>6 DEF Ahead, WalkOfReader
    <3> QED BY <2>5, <3>1
  <2>8. \A r \in Listed : Inserted(r)' = Inserted(r)
        BY <1>2, <1>c, <2>2 DEF Inserted
  <2>9. Behind'
    <3> SUFFICES ASSUME NEW r \in walk.seen \cup page, ~SameMoment(r), ~Inserted(r)
                 PROVE  Cardinality(Newer(r)) < walk.offset + Limit
        BY <1>2, <2>2, <2>3, <2>6, <2>8 DEF Behind, WalkOfReader
    <3>1. r \in Listed /\ Cardinality(Newer(r)) \in Nat
          BY <1>4, <2>3 DEF WalkOfReader
    <3>2. CASE r \in page
          BY <2>5, <3>1, <3>2
    <3>3. CASE r \in walk.seen
      <4>1. Cardinality(Newer(r)) < walk.offset
            BY <2>2, <2>6, <3>3 DEF Behind
      <4> QED BY <1>3, <3>1, <4>1
    <3> QED BY <3>2, <3>3
  <2>10. RepeatsExplained'
    <3> SUFFICES ASSUME NEW r \in walk.again \cup (walk.seen \cap page), ~SameMoment(r)
                 PROVE  Inserted(r)
        BY <1>2, <1>c, <2>2 DEF RepeatsExplained, Inserted
    <3>1. CASE r \in walk.again
          BY <3>1 DEF RepeatsExplained, Inserted
    <3>2. CASE r \in walk.seen \cap page
      <4>1. walk.offset <= Cardinality(Newer(r)) /\ Cardinality(Newer(r)) \in Nat
            BY <1>4, <2>3, <2>5, <3>2
      <4>2. Inserted(r) \/ Cardinality(Newer(r)) < walk.offset
            BY <2>2, <2>6, <3>2 DEF Behind
      <4> QED BY <1>3, <4>1, <4>2
    <3> QED BY <3>1, <3>2
  <2> QED BY <2>4, <2>7, <2>9, <2>10
<1>8. CASE TurnPage
  <2>1. /\ walk.pc = "page"
        /\ walk'.start = walk.start /\ walk'.seen = walk.seen /\ walk'.again = walk.again
        /\ IF Cardinality(walk.page) < Limit
           THEN walk'.pc = "done" /\ walk'.offset = walk.offset
           ELSE walk'.pc = "count" /\ walk'.offset = walk.offset + Limit
        BY <1>3, <1>8 DEF TurnPage, Walks
  <2>2. WalkOfReader'
        BY <1>2, <2>1 DEF WalkOfReader
  <2>3. RepeatsExplained'
        BY <1>2, <1>c, <2>1 DEF RepeatsExplained
  <2>4. Ahead' /\ Behind'
    <3>1. CASE Cardinality(walk.page) < Limit
      <4>1. Cardinality(walk.page) \in Nat
        <5>1. walk.page \subseteq Requests
              BY <1>3 DEF Walks
        <5> QED BY <5>1, RequestsAssumption, FS_Subset, FS_CardinalityType
      <4>2. \A r \in walk.start \ walk.seen : SameMoment(r)
            BY <1>3, <2>1, <3>1, <4>1 DEF Ahead
      <4> QED BY <1>2, <2>1, <3>1, <4>2 DEF Ahead, Behind
    <3>2. CASE ~(Cardinality(walk.page) < Limit)
      <4>1. walk'.pc = "count" /\ Reached' = Reached
            BY <2>1, <3>2 DEF Reached
      <4>2. Ahead'
            BY <1>2, <2>1, <4>1 DEF Ahead
      <4>3. Behind'
            BY <1>2, <1>c, <2>1, <4>1 DEF Behind, Inserted
      <4> QED BY <4>2, <4>3
    <3> QED BY <3>1, <3>2
  <2> QED BY <2>2, <2>3, <2>4
<1> QED BY <1>5, <1>6, <1>7, <1>8 DEF Walk

LEMMA WalkAlways == Spec => []WalkInv
<1>1. Init => WalkInv
      BY DEF Init, WalkInv, WalkOfReader, Ahead, Behind, RepeatsExplained
<1>2. ListInv /\ ListInv' /\ Owned /\ WalkInv /\ [Next]_vars => WalkInv'
  <2> SUFFICES ASSUME HandlerInv, HandlerInv', Owned, WalkInv, [Next]_vars PROVE WalkInv'
      BY DEF ListInv
  <2>1. CASE Walk
        BY <2>1, WalkGoesOn
  <2>2. CASE UNCHANGED walk
        BY <2>2, RowsKept, WalkUndisturbed
  <2>3. Walk \/ UNCHANGED walk
        BY DEF Next, Extract, Receive, Unauthorized, Refuse, OpenFile, StoreFile, UploadFails,
               Insert, CreateReturns, CreateFails, Respond, ExecuteLate, Process, Signal, Exit,
               Crash, Start, Die, Seed, handlerVars, vars
  <2> QED BY <2>1, <2>2, <2>3
<1> QED BY <1>1, <1>2, ListAlways, OwnedAlways, PTL DEF Spec

\* A client that reads page after page until one is not full has seen every job
\* that was there when it began, unless another has the same created_at.
THEOREM NoJobIsMissed == Spec => []NoneMissed
<1>1. WalkInv => NoneMissed
      BY DEF WalkInv, Ahead, NoneMissed
<1> QED BY <1>1, WalkAlways, PTL

\* It has seen a job twice only if a newer one was inserted meanwhile, or for
\* the same reason.
THEOREM RepeatsHaveCause == Spec => []RepeatsExplained
<1>1. WalkInv => RepeatsExplained
      BY DEF WalkInv
<1> QED BY <1>1, WalkAlways, PTL
=============================================================================
