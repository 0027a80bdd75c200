------------------------------ MODULE MCWorker ------------------------------
(***************************************************************************)
(* Instances of Worker for TLC.  The jobs of an instance are members of    *)
(* 1..3: job 1 is the oldest, jobs 2 and 3 were created in the same        *)
(* instant; jobs 1 and 2 are one document submitted twice, with a single   *)
(* chunk, and job 3 is another one, with MaxChunks of them.                *)
(***************************************************************************)
EXTENDS Worker, TLC

MCCreatedAt == [j \in Jobs |-> IF j = 1 THEN 1 ELSE 2]
MCContentOf == [j \in Jobs |-> IF j <= 2 THEN "twice" ELSE "once"]
MCContents == {ContentOf[j] : j \in Jobs}
MCChunksOf == [c \in Contents |-> IF c = "twice" THEN 1 ELSE MaxChunks]

\* The hooks of an instance are members of {11, 12}; job 3 and hook 12 belong
\* to a second tenant.
MCTenants == {"t1", "t2"}
MCTenantOf == [x \in Jobs \cup Hooks |-> IF x \in {3, 12} THEN "t2" ELSE "t1"]

WorkerSymmetry == Permutations(Workers)
=============================================================================
