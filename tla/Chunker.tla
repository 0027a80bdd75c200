------------------------------ MODULE Chunker -------------------------------
(***************************************************************************)
(* extraction.Chunker: one text cut into the chunks the router is asked    *)
(* about.  A text is its length and its paragraphs, a paragraph its length *)
(* and the lengths of its sentences; which characters they are does not    *)
(* matter, except that getOverlap may start the overlap anywhere in the    *)
(* last OverlapSize ones (after a sentence end or a space, if any).        *)
(*                                                                         *)
(* A chunk remembers the sentences it has whole.  Lengths are those before *)
(* finalizeChunk trims the spaces an overlap may begin with.               *)
(***************************************************************************)
EXTENDS Naturals, Sequences

CONSTANTS
  Texts,          \* the texts a job may have
  MaxChunkSize, OverlapSize, MaxChunks    \* ChunkConfig

ASSUME ConfigAssumption ==
  MaxChunkSize \in Nat \ {0} /\ OverlapSize \in Nat /\ MaxChunks \in Nat \ {0}

\* splitParagraphs keeps no empty paragraph, so that splitSentences finds one.
Paragraphs == [length : Nat \ {0}, sentences : Seq(Nat \ {0})]

ASSUME TextsAssumption ==
  /\ Texts \subseteq [length : Nat, paragraphs : Seq(Paragraphs)]
  /\ \A t \in Texts : \A p \in DOMAIN t.paragraphs :
       LET para == t.paragraphs[p] IN
       /\ Len(para.sentences) > 0
       /\ \A s \in DOMAIN para.sentences : para.sentences[s] <= para.length

VARIABLES
  text,           \* the argument
  pc,             \* where Chunk is
  p, s,           \* the next paragraph, and the next sentence of a long one
  seq,            \* the number the next chunk gets
  current,        \* the strings.Builder
  chunks          \* the result

vars == <<text, pc, p, s, seq, current, chunks>>

Sentences == Nat \X Nat
Builders == [length : Nat, whole : SUBSET Sentences]
Empty == [length |-> 0, whole |-> {}]
Chunks == [seq : Nat, length : Nat, whole : SUBSET Sentences]

TypeOK ==
  /\ text \in Texts
  /\ pc \in {"start", "paragraph", "add", "sentence", "addsentence", "done"}
  /\ p \in 1 .. Len(text.paragraphs) + 1
  /\ s \in Nat \ {0}
  /\ seq \in Nat
  /\ current \in Builders
  /\ chunks \in Seq(Chunks)

Init ==
  /\ text \in Texts
  /\ pc = "start"
  /\ p = 1
  /\ s = 1
  /\ seq = 0
  /\ current = Empty
  /\ chunks = <<>>

Paragraph == text.paragraphs[p]
SentencesOf(q) == {<<q, r>> : r \in DOMAIN text.paragraphs[q].sentences}
SentencesBefore(q) == UNION {SentencesOf(r) : r \in 1 .. q - 1}

\* finalizeChunk, append and seq++.
Chunk(n, b) == [seq |-> n, length |-> b.length, whole |-> b.whole]
Finalize ==
  /\ chunks' = Append(chunks, Chunk(seq, current))
  /\ seq' = seq + 1

\* Mutant: everything written so far is carried over.
KeepAll(b) == {b}

SentenceLength(x) == text.paragraphs[x[1]].sentences[x[2]]

\* getOverlap, written to an empty builder: a short text whole, the end of a
\* long one (never nothing, unless OverlapSize is 0: no text ends with a space),
\* which may have sentences whole that are short enough.
Overlaps(b) ==
  IF b.length <= OverlapSize THEN {b}
  ELSE {o \in [length : (IF OverlapSize = 0 THEN 0 ELSE 1) .. OverlapSize,
               whole : SUBSET b.whole] :
          \A x \in o.whole : SentenceLength(x) \in 1 .. o.length}

\* Both loops count one separator, though paragraphs are joined by two.
Overflows(length) == current.length > 0 /\ current.length + length + 1 > MaxChunkSize

\* WriteString of a separator, unless the builder is empty, and of a piece.
Extended(b, separator, length, whole) ==
  [length |-> (IF b.length > 0 THEN b.length + separator ELSE 0) + length,
   whole  |-> b.whole \cup whole]

-----------------------------------------------------------------------------
Fits ==
  /\ pc = "start"
  /\ text.length <= MaxChunkSize
  /\ chunks' = <<Chunk(0, [length |-> text.length,
                           whole |-> SentencesBefore(Len(text.paragraphs) + 1)])>>
  /\ pc' = "done"
  /\ UNCHANGED <<text, p, s, seq, current>>

Split ==
  /\ pc = "start"
  /\ text.length > MaxChunkSize
  /\ pc' = "paragraph"
  /\ UNCHANGED <<text, p, s, seq, current, chunks>>

\* The paragraph does not fit any more: the chunk is complete.  At the cap the
\* loop breaks, and the last chunk is not appended.
CutParagraph ==
  /\ pc = "paragraph"
  /\ p <= Len(text.paragraphs)
  /\ Overflows(Paragraph.length)
  /\ Finalize
  /\ IF Len(chunks') >= MaxChunks
     THEN pc' = "done" /\ UNCHANGED current
     ELSE pc' = "add" /\ current' \in Overlaps(current)
  /\ UNCHANGED <<text, p, s>>

KeepParagraph ==
  /\ pc = "paragraph"
  /\ p <= Len(text.paragraphs)
  /\ ~Overflows(Paragraph.length)
  /\ pc' = "add"
  /\ UNCHANGED <<text, p, s, seq, current, chunks>>

Long == Paragraph.length > MaxChunkSize

AddParagraph ==
  /\ pc = "add"
  /\ ~Long
  /\ current' = Extended(current, 2, Paragraph.length, SentencesOf(p))
  /\ p' = p + 1
  /\ pc' = "paragraph"
  /\ UNCHANGED <<text, s, seq, chunks>>

\* What is in the builder becomes a chunk, and splitLongParagraph begins with
\* an empty one of its own.
EnterLong ==
  /\ pc = "add"
  /\ Long
  /\ IF current.length > 0 THEN Finalize ELSE UNCHANGED <<seq, chunks>>
  /\ current' = Empty
  /\ s' = 1
  /\ pc' = "sentence"
  /\ UNCHANGED <<text, p>>

CutSentence ==
  /\ pc = "sentence"
  /\ s <= Len(Paragraph.sentences)
  /\ Overflows(Paragraph.sentences[s])
  /\ Finalize
  /\ current' \in Overlaps(current)
  /\ pc' = "addsentence"
  /\ UNCHANGED <<text, p, s>>

KeepSentence ==
  /\ pc = "sentence"
  /\ s <= Len(Paragraph.sentences)
  /\ ~Overflows(Paragraph.sentences[s])
  /\ pc' = "addsentence"
  /\ UNCHANGED <<text, p, s, seq, current, chunks>>

AddSentence ==
  /\ pc = "addsentence"
  /\ current' = Extended(current, 1, Paragraph.sentences[s], {<<p, s>>})
  /\ s' = s + 1
  /\ pc' = "sentence"
  /\ UNCHANGED <<text, p, seq, chunks>>

\* Mutants: the rest of a long paragraph is dropped; its number is used again.
DropRest == UNCHANGED <<seq, chunks>>
NumberAgain == chunks' = Append(chunks, Chunk(seq, current)) /\ UNCHANGED seq

FinalizeRest == IF current.length > 0 THEN Finalize ELSE UNCHANGED <<seq, chunks>>

\* Mutant: without the Reset before splitLongParagraph, what was in the builder
\* is there when it returns.
Unreset == current

\* The builder of the paragraphs, when a long one is done.
AfterLong == Empty

LeaveLong ==
  /\ pc = "sentence"
  /\ s > Len(Paragraph.sentences)
  /\ FinalizeRest
  /\ current' = AfterLong
  /\ p' = p + 1
  /\ pc' = "paragraph"
  /\ UNCHANGED <<text, s>>

\* Mutant: the last chunk is forgotten.
ForgetLast == UNCHANGED <<seq, chunks>>

\* The last chunk, if there is something left and room for it.
FinalizeLast ==
  IF current.length > 0 /\ Len(chunks) < MaxChunks THEN Finalize ELSE UNCHANGED <<seq, chunks>>

EndChunk ==
  /\ pc = "paragraph"
  /\ p > Len(text.paragraphs)
  /\ FinalizeLast
  /\ pc' = "done"
  /\ UNCHANGED <<text, p, s, current>>

Done == pc = "done" /\ UNCHANGED vars

Next ==
  \/ Fits \/ Split
  \/ CutParagraph \/ KeepParagraph \/ AddParagraph
  \/ EnterLong \/ CutSentence \/ KeepSentence \/ AddSentence \/ LeaveLong
  \/ EndChunk \/ Done

Spec == Init /\ [][Next]_vars

-----------------------------------------------------------------------------
WholeIn(cs) == UNION {cs[i].whole : i \in DOMAIN cs}
Chunked == WholeIn(chunks)

\* A chunk's number is its place, whichever of the two loops made it (seq is
\* passed to splitLongParagraph by reference).
SequenceIsIndex == \A i \in DOMAIN chunks : chunks[i].seq = i - 1

\* Everything the loops have passed is in a chunk or in the builder, and
\* nothing else is: no sentence is lost at a cut, in an overlap or between the
\* two loops.
Passed ==
  IF pc \in {"sentence", "addsentence"}
  THEN SentencesBefore(p) \cup {<<p, r>> : r \in 1 .. s - 1}
  ELSE SentencesBefore(p)
NoGap == pc \notin {"start", "done"} => Chunked \cup current.whole = Passed

\* What Chunk returns has every sentence of the text, or the cap was reached;
\* then it has those of the first paragraphs, and only later ones are missing.
NothingLost ==
  pc = "done" =>
    \E q \in 1 .. Len(text.paragraphs) + 1 :
      /\ Chunked = SentencesBefore(q)
      /\ q <= Len(text.paragraphs) => Len(chunks) >= MaxChunks

\* How large a chunk can get: by the overlap and the separator beyond the limit,
\* or beyond a sentence that is longer than the limit.
SizeBounded ==
  \A i \in DOMAIN chunks :
    \/ chunks[i].length <= MaxChunkSize + OverlapSize + 2
    \/ \E q \in DOMAIN text.paragraphs :
         \E r \in DOMAIN text.paragraphs[q].sentences :
           chunks[i].length <= text.paragraphs[q].sentences[r] + OverlapSize + 1

\* A sentence that two chunks have is short enough to be an overlap, and all the
\* chunks between them have it: what the prompt of a chunk repeats is the end of
\* the one before, never an older or a longer piece.
RepeatsAreOverlap ==
  \A k \in DOMAIN chunks : \A i \in 1 .. k - 1 :
    \A x \in chunks[i].whole \cap chunks[k].whole :
      /\ SentenceLength(x) <= OverlapSize
      /\ \A j \in i .. k : x \in chunks[j].whole

\* No call to the model is spent on what the chunks before have, unless it is an
\* overlap that a long paragraph left behind, or a text of blanks.
EveryChunkAdds ==
  \A k \in DOMAIN chunks :
    \/ \E x \in chunks[k].whole : \A i \in 1 .. k - 1 : x \notin chunks[i].whole
    \/ chunks[k].length <= OverlapSize
    \/ text.paragraphs = <<>>
=============================================================================
