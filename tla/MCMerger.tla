------------------------------ MODULE MCMerger ------------------------------
(***************************************************************************)
(* Up to MaxResults answers with an array field, a scalar one and one the  *)
(* schema does not declare; the array field may be answered with a scalar. *)
(***************************************************************************)
EXTENDS Merger, SequencesExt

CONSTANT MaxResults

MCKeys == {"list", "name", "extra"}

AnyItem == CHOOSE x \in Items : TRUE
MCAnswers ==
  {a \in [MCKeys -> {Absent, Null, Array(<<>>)} \cup
                    {Scalar(x) : x \in Items} \cup {Array(<<x>>) : x \in Items}] :
     /\ a["name"].kind \in {"null", "scalar"}
     /\ a["extra"] \in {Absent, Scalar(AnyItem)}
     /\ a["list"].kind # "absent"}

MCInputs == SeqOf(MCAnswers, MaxResults)
=============================================================================
