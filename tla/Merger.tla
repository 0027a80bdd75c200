------------------------------- MODULE Merger -------------------------------
(***************************************************************************)
(* jobs.mergeResults: the answers of a document's chunks, in chunk order,  *)
(* become one result with a confidence per declared field.  The fields of  *)
(* an answer are a Go map, visited in any order.                           *)
(***************************************************************************)
EXTENDS Naturals, Sequences, FiniteSets

CONSTANTS
  Keys,         \* field names
  Items,        \* what a scalar is and an array has
  Arrays,       \* those the schema declares as arrays
  Others,       \* those it declares as something else
  Inputs        \* the sequences of answers, each [Keys -> values], that may be merged

Scalar(x) == [kind |-> "scalar", items |-> <<x>>]
Array(xs) == [kind |-> "array", items |-> xs]
Null == [kind |-> "null", items |-> <<>>]
Absent == [kind |-> "absent", items |-> <<>>]

Values == [kind : {"scalar", "array", "null", "absent"}, items : Seq(Items)]

ASSUME KeysAssumption == Arrays \cup Others \subseteq Keys /\ Arrays \cap Others = {}
ASSUME InputsAssumption == Inputs \subseteq Seq([Keys -> Values])

VARIABLES
  results,      \* the argument: the chunks' answers
  i, todo,      \* the answer being merged, and its fields not visited yet
  merged, sources, confidence,
  pc

vars == <<results, i, todo, merged, sources, confidence, pc>>

FieldsOf(answer) == {k \in Keys : answer[k] # Absent}

Init ==
  /\ results \in Inputs
  /\ i = 1
  /\ todo = IF results = <<>> THEN {} ELSE FieldsOf(results[1])
  /\ merged = [k \in Keys |-> Absent]
  /\ sources = [k \in Keys |-> 0]
  /\ confidence = [k \in Arrays \cup Others |-> 0]
  /\ pc = "merge"

\* Mutant: the last value wins.
KeepLast(k, old, new) == new

\* The first value is kept; a declared array grows, if both are arrays.
Combined(k, old, new) ==
  CASE old = Absent -> new
    [] k \in Arrays /\ old.kind = "array" /\ new.kind = "array" -> Array(old.items \o new.items)
    [] OTHER -> old

Visit(k) ==
  LET value == results[i][k] IN
  /\ pc = "merge"
  /\ k \in todo
  /\ todo' = todo \ {k}
  /\ IF value = Null THEN UNCHANGED <<merged, sources>>
     ELSE /\ sources' = [sources EXCEPT ![k] = @ + 1]
          /\ merged' = [merged EXCEPT ![k] = Combined(k, @, value)]
  /\ UNCHANGED <<results, i, confidence, pc>>

NextResult ==
  /\ pc = "merge"
  /\ todo = {}
  /\ i < Len(results)
  /\ i' = i + 1
  /\ todo' = FieldsOf(results[i + 1])
  /\ UNCHANGED <<results, merged, sources, confidence, pc>>

\* Mutant: one answer is enough.
SureOfOne(n) == n >= 1

Repeated(n) == n > 1

\* In hundredths.  Only the declared fields have a score.
Score ==
  /\ pc = "merge"
  /\ todo = {}
  /\ i >= Len(results)
  /\ confidence' = [k \in Arrays \cup Others |->
       CASE merged[k] = Absent   -> 0
         [] Repeated(sources[k]) -> 100
         [] OTHER                -> 75]
  /\ pc' = "done"
  /\ UNCHANGED <<results, i, todo, merged, sources>>

Done == pc = "done" /\ UNCHANGED vars

Next == (\E k \in Keys : Visit(k)) \/ NextResult \/ Score \/ Done

Spec == Init /\ [][Next]_vars

-----------------------------------------------------------------------------
\* The chunks that answered a field, a null being no answer.
Given(k) == {r \in DOMAIN results : results[r][k] \notin {Null, Absent}}

First(k) == CHOOSE r \in Given(k) : \A q \in Given(k) : r <= q

\* The items of all arrays among the values, up to each of them.
Joined(values) ==
  LET joined[n \in 0 .. Len(values)] ==
        IF n = 0 THEN <<>>
        ELSE IF values[n].kind = "array" THEN joined[n - 1] \o values[n].items
        ELSE joined[n - 1]
  IN  joined

AnswersTo(k) == [r \in DOMAIN results |-> results[r][k]]

\* The result does not depend on the order a map is visited in: a field is the
\* first answer there is, and an array field the items of all arrays, in chunk
\* order, unless its first answer is no array.
MergedAsDefined ==
  pc = "done" =>
    \A k \in Keys :
      LET first == results[First(k)][k] IN
      merged[k] =
        CASE Given(k) = {} -> Absent
          [] Given(k) # {} /\ k \in Arrays /\ first.kind = "array" ->
               Array(Joined(AnswersTo(k))[Len(results)])
          [] OTHER -> first

\* A declared field scores nothing iff it is missing from the result, and full
\* marks iff two chunks had it: a null is no answer.
ScoredAsMerged ==
  pc = "done" =>
    \A k \in DOMAIN confidence :
      /\ confidence[k] = 0 <=> merged[k] = Absent
      /\ confidence[k] = 100 <=> Cardinality(Given(k)) > 1
=============================================================================
