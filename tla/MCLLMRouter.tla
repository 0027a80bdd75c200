---------------------------- MODULE MCLLMRouter -----------------------------
(***************************************************************************)
(* Every schema over three fields, at and over both thresholds.            *)
(***************************************************************************)
EXTENDS LLMRouter

MCSchemas ==
  {s \in [fields : SUBSET Fields, required : SUBSET Fields, nested : BOOLEAN] :
     s.nested => s.fields # {}}
MCChunkLengths == {LongChunk, LongChunk + 1}
=============================================================================
