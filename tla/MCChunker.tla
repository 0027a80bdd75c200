----------------------------- MODULE MCChunker ------------------------------
(***************************************************************************)
(* Every text of at most MaxParagraphs of these paragraphs, for a limit of *)
(* 6 and an overlap of 2: paragraphs that fit together, that just fit or   *)
(* just do not, and long ones of short sentences, of sentences shorter     *)
(* than an overlap, and of one too long for a chunk.                       *)
(***************************************************************************)
EXTENDS Chunker, FiniteSetsExt, SequencesExt

CONSTANT MaxParagraphs

MCParagraphs ==
  {[length |-> 1, sentences |-> <<1>>],
   [length |-> 3, sentences |-> <<1, 1>>],
   [length |-> 6, sentences |-> <<6>>],
   [length |-> 7, sentences |-> <<1, 1, 3>>],
   [length |-> 8, sentences |-> <<5, 2>>],
   [length |-> 9, sentences |-> <<9>>]}

\* The paragraphs and the two newlines between each two of them.
LengthOf(paras) ==
  MapThenSumSet(LAMBDA i : paras[i].length + 2, DOMAIN paras) - (IF paras = <<>> THEN 0 ELSE 2)

\* A text is that long, or longer when it ends in blank lines.
MCTexts ==
  {[length |-> LengthOf(paras) + blank, paragraphs |-> paras] :
     paras \in SeqOf(MCParagraphs, MaxParagraphs), blank \in {0, MaxChunkSize + 1}}
=============================================================================
