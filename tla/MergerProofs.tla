---------------------------- MODULE MergerProofs ----------------------------
(***************************************************************************)
(* What mergeResults computes, for any number of answers, any fields and   *)
(* any order in which their fields are visited.                            *)
(***************************************************************************)
EXTENDS Merger, FiniteSetTheorems, WellFoundedInduction, TLAPS

-----------------------------------------------------------------------------
(* The arrays joined up to an answer *)

\* Every set of numbers that has a member has a least one.
LEMMA LeastOf ==
  ASSUME NEW T \in SUBSET Nat, T # {}
  PROVE  \E m \in T : \A n \in T : m <= n
<1>1. IsWellFoundedOn(OpToRel(<, Nat), Nat)
  BY NatLessThanWellFounded
<1>2. PICK m \in T : \A n \in T : ~(<<n, m>> \in OpToRel(<, Nat))
  BY <1>1, WFMin
<1>3. \A n \in T : ~(n < m)
  BY <1>2 DEF OpToRel
<1> QED BY <1>3

\* The equation of Joined, for a function f that may solve it.
JoinedUpTo(values, f, n) ==
  IF n = 0 THEN <<>>
  ELSE IF values[n].kind = "array" THEN f[n - 1] \o values[n].items
  ELSE f[n - 1]

\* It has a solution up to every number, or up to a least one not.
LEMMA JoinedExists ==
  ASSUME NEW values, NEW N \in Nat
  PROVE  \E f : f = [n \in 0 .. N |-> JoinedUpTo(values, f, n)]
<1> DEFINE T == {m \in Nat : ~ \E f : f = [n \in 0 .. m |-> JoinedUpTo(values, f, n)]}
<1>1. SUFFICES ASSUME T # {} PROVE FALSE
  BY <1>1
<1> HIDE DEF T
<1>2. T \in SUBSET Nat
  BY DEF T
<1>3. PICK m \in T : \A n \in T : m <= n
  BY <1>1, <1>2, LeastOf
<1>4. CASE m = 0
  <2> DEFINE f == [n \in 0 .. 0 |-> <<>>]
  <2>1. f = [n \in 0 .. 0 |-> JoinedUpTo(values, f, n)]
    BY DEF JoinedUpTo
  <2> QED
    BY <1>3, <1>4, <2>1 DEF T
<1>5. CASE m # 0
  <2>1. m \in Nat /\ m - 1 \in Nat /\ m - 1 \notin T
    BY <1>2, <1>3, <1>5
  <2>2. PICK f : f = [n \in 0 .. m - 1 |-> JoinedUpTo(values, f, n)]
    BY <2>1 DEF T
  <2> DEFINE g == [n \in 0 .. m |-> IF n = m THEN JoinedUpTo(values, f, m) ELSE f[n]]
  <2>3. ASSUME NEW n \in 0 .. m PROVE g[n] = JoinedUpTo(values, g, n)
    <3>1. CASE n = m
      BY <2>1, <3>1 DEF JoinedUpTo
    <3>2. CASE n # m
      <4>1. n \in 0 .. m - 1
        BY <2>1, <3>2
      <4>2. g[n] = f[n] /\ f[n] = JoinedUpTo(values, f, n)
        BY <4>1, <2>1, <2>2
      <4> QED
        BY <4>1, <4>2, <2>1 DEF JoinedUpTo
    <3> QED
      BY <3>1, <3>2
  <2>4. g = [n \in 0 .. m |-> JoinedUpTo(values, g, n)]
    BY <2>3
  <2> QED
    BY <1>3, <2>4 DEF T
<1> QED
  BY <1>4, <1>5

\* Nothing is joined before the first value, and a value adds its items if it
\* is an array.
LEMMA JoinedSteps ==
  ASSUME NEW values, Len(values) \in Nat
  PROVE  /\ Joined(values)[0] = <<>>
         /\ \A n \in 1 .. Len(values) :
              Joined(values)[n] = IF values[n].kind = "array"
                                  THEN Joined(values)[n - 1] \o values[n].items
                                  ELSE Joined(values)[n - 1]
<1>1. PICK f : f = [n \in 0 .. Len(values) |-> JoinedUpTo(values, f, n)]
  BY JoinedExists
<1>2. Joined(values) = [n \in 0 .. Len(values) |-> JoinedUpTo(values, Joined(values), n)]
  BY <1>1 DEF Joined, JoinedUpTo
<1>3. Joined(values)[0] = JoinedUpTo(values, Joined(values), 0)
  BY <1>2
<1>4. \A n \in 1 .. Len(values) : Joined(values)[n] = JoinedUpTo(values, Joined(values), n)
  BY <1>2
<1> QED
  BY <1>3, <1>4 DEF JoinedUpTo

-----------------------------------------------------------------------------
(* The inductive invariant *)

\* How many answers have been merged, as far as a field is concerned.
Visited(k) == IF results = <<>> THEN 0 ELSE IF k \in todo THEN i - 1 ELSE i

GivenTo(k, n) == {r \in Given(k) : r <= n}

\* A field is what the definition over the whole list says of its first n answers.
MergedTo(k, n) ==
  /\ sources[k] = Cardinality(GivenTo(k, n))
  /\ GivenTo(k, n) = {} => merged[k] = Absent /\ Joined(AnswersTo(k))[n] = <<>>
  /\ GivenTo(k, n) # {} =>
       \E f \in GivenTo(k, n) :
         /\ \A r \in GivenTo(k, n) : f <= r
         /\ merged[k] = IF k \in Arrays /\ results[f][k].kind = "array"
                        THEN Array(Joined(AnswersTo(k))[n]) ELSE results[f][k]

MergerTypeOK ==
  /\ results \in Seq([Keys -> Values])
  /\ i \in Nat \ {0}
  /\ results # <<>> => i <= Len(results)
  /\ todo \subseteq IF results = <<>> THEN {} ELSE FieldsOf(results[i])
  /\ DOMAIN merged = Keys
  /\ DOMAIN sources = Keys
  /\ pc \in {"merge", "done"}

PrefixMerged == \A k \in Keys : MergedTo(k, Visited(k))

Finished == pc = "done" => todo = {} /\ i >= Len(results)

MergerInv == MergerTypeOK /\ PrefixMerged /\ Finished /\ ScoredAsMerged

-----------------------------------------------------------------------------
(* One answer more *)

\* The answers given to a field are some of the results, hence finitely many.
LEMMA GivenFinite ==
  ASSUME MergerTypeOK, NEW k \in Keys, NEW n \in Nat
  PROVE  /\ Given(k) \subseteq 1 .. Len(results)
         /\ GivenTo(k, n) \subseteq 1 .. Len(results)
         /\ IsFiniteSet(GivenTo(k, n))
         /\ Cardinality(GivenTo(k, n)) \in Nat
<1>1. Len(results) \in Nat /\ DOMAIN results = 1 .. Len(results)
  BY DEF MergerTypeOK
<1>2. Given(k) \subseteq 1 .. Len(results) /\ GivenTo(k, n) \subseteq 1 .. Len(results)
  BY <1>1 DEF Given, GivenTo
<1>3. IsFiniteSet(1 .. Len(results))
  BY <1>1, FS_Interval
<1>4. IsFiniteSet(GivenTo(k, n))
  BY <1>2, <1>3, FS_Subset
<1> QED
  BY <1>2, <1>4, FS_CardinalityType

\* What is joined of a field's answers, one answer further.
LEMMA JoinedNext ==
  ASSUME MergerTypeOK, NEW k \in Keys, NEW n \in 1 .. Len(results)
  PROVE  Joined(AnswersTo(k))[n] = IF results[n][k].kind = "array"
                                   THEN Joined(AnswersTo(k))[n - 1] \o results[n][k].items
                                   ELSE Joined(AnswersTo(k))[n - 1]
<1>1. Len(results) \in Nat /\ DOMAIN results = 1 .. Len(results)
  BY DEF MergerTypeOK
<1>2. Len(AnswersTo(k)) = Len(results)
  BY <1>1 DEF AnswersTo
<1>3. AnswersTo(k)[n] = results[n][k]
  BY <1>1 DEF AnswersTo
<1> QED
  BY <1>1, <1>2, <1>3, JoinedSteps

\* The answers given up to n are those up to n - 1 and, unless it is none, the n-th.
LEMMA GivenNext ==
  ASSUME MergerTypeOK, NEW k \in Keys, NEW n \in 1 .. Len(results)
  PROVE  GivenTo(k, n) = IF results[n][k] \in {Null, Absent} THEN GivenTo(k, n - 1)
                         ELSE GivenTo(k, n - 1) \cup {n}
<1>1. Len(results) \in Nat /\ DOMAIN results = 1 .. Len(results)
  BY DEF MergerTypeOK
<1>2. \A r \in 1 .. Len(results) : r <= n <=> r <= n - 1 \/ r = n
  BY <1>1
<1>3. n \in Given(k) <=> results[n][k] \notin {Null, Absent}
  BY <1>1 DEF Given
<1>4. ~(n <= n - 1)
  BY <1>1
<1> QED
  BY <1>1, <1>2, <1>3, <1>4 DEF Given, GivenTo

\* A null or a missing field changes nothing of what a field is to be.
LEMMA SkipKeeps ==
  ASSUME MergerTypeOK, NEW k \in Keys, NEW n \in 1 .. Len(results),
         results[n][k] \in {Null, Absent}, MergedTo(k, n - 1)
  PROVE  MergedTo(k, n)
<1>1. GivenTo(k, n) = GivenTo(k, n - 1)
  BY GivenNext
<1>2. Joined(AnswersTo(k))[n] = Joined(AnswersTo(k))[n - 1]
  BY JoinedNext DEF Null, Absent
<1> QED
  BY <1>1, <1>2 DEF MergedTo

\* A value is its kind and its items.
LEMMA ValueKinds ==
  ASSUME NEW v \in Values
  PROVE  v = [kind |-> v.kind, items |-> v.items] /\ v.items \in Seq(Items)
BY DEF Values

\* A field keeps what the definition says of it when nothing it depends on changes.
LEMMA MergedStays ==
  ASSUME NEW k \in Keys, NEW n \in Nat, MergedTo(k, n), UNCHANGED results,
         merged'[k] = merged[k], sources'[k] = sources[k]
  PROVE  MergedTo(k, n)'
BY DEF MergedTo, GivenTo, Given, AnswersTo

\* So do all fields while the loops stand still.
LEMMA PrefixStays ==
  ASSUME MergerTypeOK, PrefixMerged, UNCHANGED <<results, i, todo, merged, sources>>
  PROVE  PrefixMerged'
<1>1. SUFFICES ASSUME NEW k \in Keys PROVE MergedTo(k, Visited(k))'
  BY DEF PrefixMerged
<1>2. Visited(k)' = Visited(k) /\ Visited(k) \in Nat
  BY DEF Visited, MergerTypeOK
<1>3. \A n \in Nat : MergedTo(k, n) => MergedTo(k, n)'
  BY MergedStays
<1>4. MergedTo(k, Visited(k))
  BY DEF PrefixMerged
<1> QED
  BY <1>2, <1>3, <1>4 DEF MergedTo

\* The first answer to a field is kept, and of an array its items are joined.
LEMMA FirstKept ==
  ASSUME MergerTypeOK, NEW k \in Keys, NEW n \in 1 .. Len(results),
         results[n][k] \notin {Null, Absent}, MergedTo(k, n - 1), GivenTo(k, n - 1) = {}
  PROVE  \E f \in GivenTo(k, n) :
           /\ \A r \in GivenTo(k, n) : f <= r
           /\ Combined(k, merged[k], results[n][k]) =
                IF k \in Arrays /\ results[f][k].kind = "array"
                THEN Array(Joined(AnswersTo(k))[n]) ELSE results[f][k]
<1>1. GivenTo(k, n) = {n} /\ n \in Nat
  BY GivenNext DEF MergerTypeOK
<1>2. Combined(k, merged[k], results[n][k]) = results[n][k]
  BY DEF MergedTo, Combined, Absent
<1>3. ASSUME k \in Arrays, results[n][k].kind = "array"
      PROVE  results[n][k] = Array(Joined(AnswersTo(k))[n])
  <2>1. results[n][k] \in Values
    BY DEF MergerTypeOK
  <2>2. results[n][k] = Array(results[n][k].items) /\ results[n][k].items \in Seq(Items)
    BY <2>1, <1>3, ValueKinds DEF Array
  <2>3. Joined(AnswersTo(k))[n] = <<>> \o results[n][k].items
    BY <1>3, JoinedNext DEF MergedTo
  <2>4. <<>> \o results[n][k].items = results[n][k].items
    BY <2>2
  <2> QED
    BY <2>2, <2>3, <2>4
<1>4. n <= n
  BY <1>1
<1> QED
  BY <1>1, <1>2, <1>3, <1>4

\* A later answer adds its items, if it and the first one are arrays, and
\* nothing otherwise.
LEMMA LaterJoined ==
  ASSUME MergerTypeOK, NEW k \in Keys, NEW n \in 1 .. Len(results),
         results[n][k] \notin {Null, Absent}, MergedTo(k, n - 1), GivenTo(k, n - 1) # {}
  PROVE  \E f \in GivenTo(k, n) :
           /\ \A r \in GivenTo(k, n) : f <= r
           /\ Combined(k, merged[k], results[n][k]) =
                IF k \in Arrays /\ results[f][k].kind = "array"
                THEN Array(Joined(AnswersTo(k))[n]) ELSE results[f][k]
<1>1. PICK f \in GivenTo(k, n - 1) :
        /\ \A r \in GivenTo(k, n - 1) : f <= r
        /\ merged[k] = IF k \in Arrays /\ results[f][k].kind = "array"
                       THEN Array(Joined(AnswersTo(k))[n - 1]) ELSE results[f][k]
  BY DEF MergedTo
<1>2. f \in 1 .. Len(results) /\ results[f][k] \notin {Null, Absent} /\ f <= n - 1
  BY DEF GivenTo, Given, MergerTypeOK
<1>3. f \in GivenTo(k, n) /\ \A r \in GivenTo(k, n) : f <= r
  BY <1>1, <1>2, GivenNext DEF MergerTypeOK
<1>4. CASE k \in Arrays /\ results[f][k].kind = "array"
  <2>1. merged[k] = Array(Joined(AnswersTo(k))[n - 1])
    BY <1>1, <1>4
  <2>2. merged[k].kind = "array" /\ merged[k].items = Joined(AnswersTo(k))[n - 1]
    BY <2>1 DEF Array
  <2>3. merged[k] # Absent
    BY <2>2 DEF Absent
  <2>4. CASE results[n][k].kind = "array"
    BY <1>3, <1>4, <2>2, <2>3, <2>4, JoinedNext DEF Combined
  <2>5. CASE results[n][k].kind # "array"
    BY <1>3, <1>4, <2>1, <2>3, <2>5, JoinedNext DEF Combined
  <2> QED
    BY <2>4, <2>5
<1>5. CASE ~(k \in Arrays /\ results[f][k].kind = "array")
  <2>1. merged[k] = results[f][k]
    BY <1>1, <1>5
  <2>2. Combined(k, merged[k], results[n][k]) = merged[k]
    BY <1>2, <1>5, <2>1 DEF Combined
  <2> QED
    BY <1>3, <1>5, <2>1, <2>2
<1> QED
  BY <1>4, <1>5

\* An answer is counted and merged.
LEMMA AnswerMerged ==
  ASSUME MergerTypeOK, NEW k \in Keys, NEW n \in 1 .. Len(results),
         results[n][k] \notin {Null, Absent}, MergedTo(k, n - 1), UNCHANGED results,
         sources'[k] = sources[k] + 1, merged'[k] = Combined(k, merged[k], results[n][k])
  PROVE  MergedTo(k, n)'
<1>1. n \in Nat /\ n - 1 \in Nat
  BY DEF MergerTypeOK
<1>2. GivenTo(k, n) = GivenTo(k, n - 1) \cup {n} /\ n \notin GivenTo(k, n - 1)
  BY <1>1, GivenNext DEF GivenTo
<1>3. Cardinality(GivenTo(k, n)) = Cardinality(GivenTo(k, n - 1)) + 1
  BY <1>1, <1>2, GivenFinite, FS_AddElement
<1>4. sources'[k] = Cardinality(GivenTo(k, n))
  BY <1>3 DEF MergedTo
<1>5. \E f \in GivenTo(k, n) :
           /\ \A r \in GivenTo(k, n) : f <= r
           /\ merged'[k] = IF k \in Arrays /\ results[f][k].kind = "array"
                           THEN Array(Joined(AnswersTo(k))[n]) ELSE results[f][k]
  BY FirstKept, LaterJoined
<1>6. GivenTo(k, n) # {}
  BY <1>2
<1>7. GivenTo(k, n)' = GivenTo(k, n) /\ AnswersTo(k)' = AnswersTo(k)
  BY DEF GivenTo, Given, AnswersTo
<1> QED
  BY <1>4, <1>5, <1>6, <1>7 DEF MergedTo

-----------------------------------------------------------------------------
(* Every step preserves the invariant *)

\* Nothing is merged when the loops begin.
LEMMA MergerInit == ASSUME Init PROVE MergerInv
<1>1. results \in Seq([Keys -> Values])
  BY InputsAssumption DEF Init
<1>2. results # <<>> => 1 <= Len(results)
  BY <1>1
<1>3. MergerTypeOK
  BY <1>1, <1>2 DEF Init, MergerTypeOK, FieldsOf
<1>4. ASSUME NEW k \in Keys PROVE MergedTo(k, Visited(k))
  <2>1. CASE Visited(k) = 0
    <3>1. GivenTo(k, 0) = {}
      BY <1>3 DEF GivenTo, Given, MergerTypeOK
    <3>2. Cardinality(GivenTo(k, 0)) = 0
      BY <3>1, FS_EmptySet
    <3>3. Len(AnswersTo(k)) \in Nat
      BY <1>1 DEF AnswersTo
    <3>4. Joined(AnswersTo(k))[0] = <<>>
      BY <3>3, JoinedSteps
    <3> QED
      BY <2>1, <3>1, <3>2, <3>4 DEF MergedTo, Init
  <2>2. CASE Visited(k) # 0
    <3>1. Visited(k) = 1 /\ results # <<>> /\ k \notin todo
      BY <2>2 DEF Visited, Init
    <3>2. 1 \in 1 .. Len(results) /\ results[1][k] = Absent
      BY <1>1, <1>2, <3>1 DEF Init, FieldsOf
    <3>3. GivenTo(k, 0) = {}
      BY <1>3 DEF GivenTo, Given, MergerTypeOK
    <3>4. Cardinality(GivenTo(k, 0)) = 0
      BY <3>3, FS_EmptySet
    <3>5. Len(AnswersTo(k)) \in Nat
      BY <1>1 DEF AnswersTo
    <3>6. Joined(AnswersTo(k))[0] = <<>>
      BY <3>5, JoinedSteps
    <3>7. MergedTo(k, 1 - 1)
      BY <3>3, <3>4, <3>6 DEF MergedTo, Init
    <3> QED
      BY <1>3, <3>1, <3>2, <3>7, SkipKeeps
  <2> QED
    BY <2>1, <2>2
<1> QED
  BY <1>3, <1>4 DEF MergerInv, PrefixMerged, Finished, ScoredAsMerged, Init

\* A field is visited at most once per answer, whenever its turn comes.
LEMMA VisitInv == ASSUME MergerInv, NEW k \in Keys, Visit(k) PROVE MergerInv'
<1> USE DEF MergerInv
<1>1. results # <<>> /\ i \in 1 .. Len(results) /\ results[i][k] # Absent
  BY DEF Visit, MergerTypeOK, FieldsOf
<1>2. MergerTypeOK'
  BY DEF Visit, MergerTypeOK, FieldsOf
<1>3. ASSUME NEW q \in Keys, q # k PROVE MergedTo(q, Visited(q))'
  <2>1. Visited(q)' = Visited(q) /\ Visited(q) \in Nat
    BY <1>1, <1>3 DEF Visit, Visited, MergerTypeOK
  <2>2. merged'[q] = merged[q] /\ sources'[q] = sources[q]
    BY <1>3 DEF Visit, MergerTypeOK
  <2>3. MergedTo(q, Visited(q))
    BY DEF PrefixMerged
  <2>4. \A n \in Nat : MergedTo(q, n) => MergedTo(q, n)'
    BY <2>2, MergedStays DEF Visit
  <2> QED
    BY <2>1, <2>3, <2>4 DEF MergedTo
<1>4. MergedTo(k, Visited(k))'
  <2>1. Visited(k) = i - 1 /\ Visited(k)' = i
    BY <1>1 DEF Visit, Visited
  <2>2. MergedTo(k, i - 1)
    BY <2>1 DEF PrefixMerged
  <2>3. CASE results[i][k] = Null
    <3>1. MergedTo(k, i)
      BY <1>1, <2>2, <2>3, SkipKeeps
    <3>2. UNCHANGED <<results, merged, sources>> /\ i \in Nat
      BY <2>3 DEF Visit, MergerTypeOK
    <3>3. \A n \in Nat : MergedTo(k, n) => MergedTo(k, n)'
      BY <3>2, MergedStays
    <3> QED
      BY <2>1, <3>1, <3>2, <3>3 DEF MergedTo
  <2>4. CASE results[i][k] # Null
    <3>1. /\ sources'[k] = sources[k] + 1
          /\ merged'[k] = Combined(k, merged[k], results[i][k])
          /\ UNCHANGED results
      BY <2>4 DEF Visit, MergerTypeOK
    <3>2. \A n \in 1 .. Len(results) :
            results[n][k] \notin {Null, Absent} /\ MergedTo(k, n - 1)
            /\ merged'[k] = Combined(k, merged[k], results[n][k]) => MergedTo(k, n)'
      BY <3>1, AnswerMerged
    <3> QED
      BY <1>1, <2>1, <2>2, <2>4, <3>1, <3>2 DEF MergedTo
  <2> QED
    BY <2>3, <2>4
<1>5. PrefixMerged'
  BY <1>3, <1>4 DEF PrefixMerged
<1> QED
  BY <1>2, <1>5 DEF Visit, Finished, ScoredAsMerged

\* The next answer is begun when all fields of the last one have been visited.
LEMMA NextResultInv == ASSUME MergerInv, NextResult PROVE MergerInv'
<1> USE DEF MergerInv
<1>1. results # <<>> /\ i + 1 \in 1 .. Len(results) /\ i \in Nat /\ Len(results) \in Nat
  BY DEF NextResult, MergerTypeOK
<1>2. MergerTypeOK'
  BY <1>1 DEF NextResult, MergerTypeOK, FieldsOf
<1>3. ASSUME NEW k \in Keys PROVE MergedTo(k, Visited(k))'
  <2>1. MergedTo(k, i)
    BY <1>1 DEF PrefixMerged, Visited, NextResult
  <2>2. UNCHANGED <<results, merged, sources>>
    BY DEF NextResult
  <2>3. \A n \in Nat : MergedTo(k, n) => MergedTo(k, n)'
    BY <2>2, MergedStays
  <2>4. CASE k \in todo'
    <3>1. Visited(k)' = i
      BY <1>1, <2>2, <2>4 DEF NextResult, Visited
    <3> QED
      BY <1>1, <2>1, <2>3, <3>1 DEF MergedTo
  <2>5. CASE k \notin todo'
    <3>1. Visited(k)' = i + 1 /\ results[i + 1][k] = Absent
      BY <1>1, <2>2, <2>5 DEF NextResult, Visited, FieldsOf
    <3>2. MergedTo(k, i + 1)
      BY <1>1, <2>1, <3>1, SkipKeeps
    <3> QED
      BY <1>1, <2>3, <3>1, <3>2 DEF MergedTo
  <2> QED
    BY <2>4, <2>5
<1>4. PrefixMerged'
  BY <1>3 DEF PrefixMerged
<1> QED
  BY <1>2, <1>4 DEF NextResult, Finished, ScoredAsMerged

\* When all answers are merged every one of a field's is counted, and no field
\* that has one is absent.
LEMMA AllMerged ==
  ASSUME MergerInv, todo = {}, i >= Len(results), NEW k \in Keys
  PROVE  /\ MergedTo(k, Len(results))
         /\ GivenTo(k, Len(results)) = Given(k)
         /\ merged[k] = Absent <=> Given(k) = {}
<1> USE DEF MergerInv
<1>1. DOMAIN results = 1 .. Len(results)
  BY DEF MergerTypeOK
<1>2. /\ Len(results) \in Nat /\ i \in Nat
      /\ results = <<>> => Len(results) = 0
  BY DEF MergerTypeOK
<1>3. Visited(k) = IF results = <<>> THEN 0 ELSE i
  BY DEF Visited
<1>4. ASSUME results # <<>> PROVE i = Len(results)
  <2>1. i <= Len(results)
    BY <1>4 DEF MergerTypeOK
  <2> QED
    BY <1>2, <2>1
<1>5. MergedTo(k, Len(results))
  BY <1>2, <1>3, <1>4 DEF PrefixMerged
<1>6. GivenTo(k, Len(results)) = Given(k)
  BY <1>1, <1>2 DEF GivenTo, Given
<1>7. ASSUME Given(k) # {} PROVE merged[k] # Absent
  <2>1. PICK f \in Given(k) :
          merged[k] = IF k \in Arrays /\ results[f][k].kind = "array"
                      THEN Array(Joined(AnswersTo(k))[Len(results)]) ELSE results[f][k]
    BY <1>5, <1>6, <1>7 DEF MergedTo
  <2> QED
    BY <2>1 DEF Given, Array, Absent
<1> QED
  BY <1>5, <1>6, <1>7 DEF MergedTo

\* The scores are those of what was counted.
LEMMA ScoreInv == ASSUME MergerInv, Score PROVE MergerInv'
<1> USE DEF MergerInv
<1>1. UNCHANGED <<results, i, todo, merged, sources>> /\ pc' = "done" /\ pc = "merge"
  BY DEF Score
<1>2. MergerTypeOK' /\ Finished'
  BY <1>1 DEF Score, MergerTypeOK, Finished, FieldsOf
<1>3. PrefixMerged'
  BY <1>1, PrefixStays
<1>4. ScoredAsMerged'
  <2>1. SUFFICES ASSUME NEW k \in Arrays \cup Others
                 PROVE  /\ confidence'[k] = 0 <=> merged[k] = Absent
                        /\ confidence'[k] = 100 <=> Cardinality(Given(k)) > 1
    <3>1. DOMAIN confidence' = Arrays \cup Others
      BY DEF Score
    <3>2. \A k \in Keys : Given(k)' = Given(k) /\ merged'[k] = merged[k]
      BY <1>1 DEF Given
    <3> QED
      BY <3>1, <3>2, <2>1, KeysAssumption DEF ScoredAsMerged
  <2>2. k \in Keys /\ Len(results) \in Nat
    BY KeysAssumption DEF MergerTypeOK
  <2>3. MergedTo(k, Len(results)) /\ GivenTo(k, Len(results)) = Given(k)
        /\ (merged[k] = Absent <=> Given(k) = {})
    BY <2>2, AllMerged DEF Score
  <2>4. sources[k] = Cardinality(Given(k)) /\ Cardinality(Given(k)) \in Nat
    BY <2>2, <2>3, GivenFinite DEF MergedTo
  <2>5. Given(k) = {} => Cardinality(Given(k)) = 0
    BY FS_EmptySet
  <2>6. confidence'[k] = CASE merged[k] = Absent   -> 0
                           [] Repeated(sources[k]) -> 100
                           [] OTHER                -> 75
    BY DEF Score
  <2>7. CASE merged[k] = Absent
    <3>1. Cardinality(Given(k)) = 0 /\ ~Repeated(sources[k])
      BY <2>3, <2>4, <2>5, <2>7 DEF Repeated
    <3> QED
      BY <2>6, <2>7, <3>1
  <2>8. CASE merged[k] # Absent
    BY <2>4, <2>6, <2>8 DEF Repeated
  <2> QED
    BY <2>7, <2>8
<1> QED
  BY <1>2, <1>3, <1>4

\* The invariant is inductive.
LEMMA MergerStep == ASSUME MergerInv, [Next]_vars PROVE MergerInv'
<1>1. ASSUME NEW k \in Keys, Visit(k) PROVE MergerInv'
  BY <1>1, VisitInv
<1>2. CASE NextResult
  BY <1>2, NextResultInv
<1>3. CASE Score
  BY <1>3, ScoreInv
<1>4. CASE UNCHANGED vars
  <2> USE <1>4 DEF vars, MergerInv
  <2>1. MergerTypeOK' /\ Finished'
    BY DEF MergerTypeOK, FieldsOf, Finished
  <2>2. PrefixMerged'
    BY PrefixStays
  <2>3. ScoredAsMerged'
    BY DEF ScoredAsMerged, Given
  <2> QED
    BY <2>1, <2>2, <2>3
<1> QED
  BY <1>1, <1>2, <1>3, <1>4 DEF Next, Done

\* When merging is done the invariant is what the definition asks for.
LEMMA MergerInvDefines == ASSUME MergerInv PROVE MergedAsDefined
<1> USE DEF MergerInv
<1>1. SUFFICES ASSUME pc = "done", NEW k \in Keys
               PROVE  merged[k] =
                        CASE Given(k) = {} -> Absent
                          [] Given(k) # {} /\ k \in Arrays
                             /\ results[First(k)][k].kind = "array" ->
                               Array(Joined(AnswersTo(k))[Len(results)])
                          [] OTHER -> results[First(k)][k]
  BY DEF MergedAsDefined
<1>2. MergedTo(k, Len(results)) /\ GivenTo(k, Len(results)) = Given(k)
  BY <1>1, AllMerged DEF Finished
<1>3. CASE Given(k) = {}
  BY <1>2, <1>3 DEF MergedTo
<1>4. CASE Given(k) # {}
  <2>1. PICK f \in Given(k) :
          /\ \A r \in Given(k) : f <= r
          /\ merged[k] = IF k \in Arrays /\ results[f][k].kind = "array"
                         THEN Array(Joined(AnswersTo(k))[Len(results)]) ELSE results[f][k]
    BY <1>2, <1>4 DEF MergedTo
  <2>2. First(k) \in Given(k) /\ \A r \in Given(k) : First(k) <= r
    BY <2>1 DEF First
  <2>3. Given(k) \subseteq Nat
    BY DEF Given, MergerTypeOK
  <2>4. First(k) = f
    BY <2>1, <2>2, <2>3
  <2> QED
    BY <1>4, <2>1, <2>4
<1> QED
  BY <1>3, <1>4

-----------------------------------------------------------------------------
(* The theorems *)

LEMMA MergerInvariant == Spec => []MergerInv
<1>1. Init => MergerInv
  BY MergerInit
<1>2. MergerInv /\ [Next]_vars => MergerInv'
  BY MergerStep
<1> QED
  BY <1>1, <1>2, PTL DEF Spec

\* Whatever order Go visits a map in, the merged result is the one the
\* definition over the list of answers gives.
THEOREM MergeIsDefined == Spec => []MergedAsDefined
<1>1. MergerInv => MergedAsDefined
  BY MergerInvDefines
<1> QED
  BY <1>1, MergerInvariant, PTL

\* A declared field scores nothing iff it is missing from the result, and full
\* marks iff at least two chunks answered it with something.
THEOREM ScoresAreJustified == Spec => []ScoredAsMerged
<1>1. MergerInv => ScoredAsMerged
  BY DEF MergerInv
<1> QED
  BY <1>1, MergerInvariant, PTL
=============================================================================
