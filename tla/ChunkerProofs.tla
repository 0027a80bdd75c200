---------------------------- MODULE ChunkerProofs ---------------------------
(***************************************************************************)
(* The chunks of every text, for every configuration, are numbered by      *)
(* their place, lose no sentence before the cap, exceed the limit by an    *)
(* overlap at most and repeat nothing else.                                *)
(***************************************************************************)
EXTENDS Chunker, SequenceTheorems, TLAPS

\* A paragraph has a length and as many sentence lengths as it says.
LEMMA ParagraphType ==
  ASSUME NEW t \in Texts, NEW q \in 1 .. Len(t.paragraphs)
  PROVE  /\ t.paragraphs[q].length \in Nat \ {0}
         /\ t.paragraphs[q].sentences \in Seq(Nat \ {0})
         /\ Len(t.paragraphs[q].sentences) \in Nat \ {0}
<1>1. t.paragraphs \in Seq(Paragraphs)
      BY TextsAssumption
<1>2. t.paragraphs[q] \in Paragraphs /\ q \in DOMAIN t.paragraphs
      BY <1>1
<1>3. t.paragraphs[q].sentences \in Seq(Nat \ {0})
      BY <1>2 DEF Paragraphs
<1> QED BY <1>2, <1>3, TextsAssumption DEF Paragraphs

\* Appending a chunk adds the sentences it has whole, and no others.
LEMMA AppendWhole ==
  ASSUME NEW cs \in Seq(Chunks), NEW c \in Chunks
  PROVE  /\ Append(cs, c) \in Seq(Chunks)
         /\ Len(Append(cs, c)) = Len(cs) + 1
         /\ Append(cs, c)[Len(cs) + 1] = c
         /\ \A i \in DOMAIN cs : Append(cs, c)[i] = cs[i]
         /\ WholeIn(Append(cs, c)) = WholeIn(cs) \cup c.whole
<1>1. /\ Append(cs, c) \in Seq(Chunks)
      /\ Len(Append(cs, c)) = Len(cs) + 1
      /\ Append(cs, c)[Len(cs) + 1] = c
      /\ \A i \in DOMAIN cs : Append(cs, c)[i] = cs[i]
      OBVIOUS
<1>2. DOMAIN Append(cs, c) = DOMAIN cs \cup {Len(cs) + 1}
      BY <1>1
<1>3. WholeIn(Append(cs, c)) = WholeIn(cs) \cup c.whole
  <2> DEFINE ds == Append(cs, c)
  <2>1. /\ DOMAIN ds = DOMAIN cs \cup {Len(cs) + 1}
        /\ ds[Len(cs) + 1] = c
        /\ \A i \in DOMAIN cs : ds[i] = cs[i]
        BY <1>1, <1>2
  <2> HIDE DEF ds
  <2>2. \A x : x \in UNION {ds[i].whole : i \in DOMAIN ds}
                 <=> \E i \in DOMAIN cs \cup {Len(cs) + 1} : x \in ds[i].whole
        BY <2>1
  <2>3. \A x : x \in UNION {cs[i].whole : i \in DOMAIN cs} <=> \E i \in DOMAIN cs : x \in cs[i].whole
        OBVIOUS
  <2>4. \A x : x \in WholeIn(ds) <=> x \in WholeIn(cs) \/ x \in c.whole
        BY <2>1, <2>2, <2>3 DEF WholeIn
  <2> QED BY <2>4 DEF ds
<1> QED BY <1>1, <1>3

\* The sentences before the next paragraph are those before this one and its own.
LEMMA BeforeNext ==
  ASSUME NEW q \in Nat \ {0}
  PROVE  SentencesBefore(q + 1) = SentencesBefore(q) \cup SentencesOf(q)
<1>1. 1 .. (q + 1) - 1 = (1 .. q - 1) \cup {q}
      OBVIOUS
<1>2. \A x : x \in SentencesBefore(q + 1) <=> \E r \in 1 .. (q + 1) - 1 : x \in SentencesOf(r)
      BY DEF SentencesBefore
<1>3. \A x : x \in SentencesBefore(q) <=> \E r \in 1 .. q - 1 : x \in SentencesOf(r)
      BY DEF SentencesBefore
<1> QED BY <1>1, <1>2, <1>3

\* A sentence is a pair of numbers.
LEMMA SentencesOfType ==
  ASSUME text \in Texts, NEW q \in 1 .. Len(text.paragraphs)
  PROVE  SentencesOf(q) \in SUBSET Sentences
<1>1. DOMAIN text.paragraphs[q].sentences \subseteq Nat
      BY ParagraphType
<1>2. q \in Nat
      OBVIOUS
<1> QED BY <1>1, <1>2 DEF SentencesOf, Sentences

\* An overlap is a builder that has no sentence its text had not, and none if it
\* is empty.
LEMMA OverlapType ==
  ASSUME NEW b \in Builders, b.length = 0 => b.whole = {}, NEW c \in Overlaps(b)
  PROVE  /\ c \in Builders
         /\ c.whole \subseteq b.whole
         /\ c.length = 0 => c.whole = {}
<1>1. CASE b.length <= OverlapSize
      BY <1>1 DEF Overlaps
<1>2. CASE ~(b.length <= OverlapSize)
  <2>1. /\ c \in [length : (IF OverlapSize = 0 THEN 0 ELSE 1) .. OverlapSize, whole : SUBSET b.whole]
        /\ \A x \in c.whole : SentenceLength(x) \in 1 .. c.length
        BY <1>2 DEF Overlaps
  <2>2. c.length \in Nat
        BY <2>1, ConfigAssumption
  <2>3. c \in Builders
        BY <2>1, <2>2 DEF Builders
  <2>4. c.length = 0 => 1 .. c.length = {}
        BY <2>2
  <2> QED BY <2>1, <2>3, <2>4
<1> QED BY <1>1, <1>2

-----------------------------------------------------------------------------
\* The loop variables stay within the text.
Position ==
  /\ pc = "start" => p = 1 /\ chunks = <<>> /\ current = Empty
  /\ pc \in {"add", "sentence", "addsentence"} => p \in 1 .. Len(text.paragraphs)
  /\ pc = "sentence" => s \in 1 .. Len(Paragraph.sentences) + 1
  /\ pc = "addsentence" => s \in 1 .. Len(Paragraph.sentences)

\* What the numbering and the two tests for an empty builder rest on.
Counted ==
  /\ pc # "done" => seq = Len(chunks)
  /\ current.length = 0 => current.whole = {}

\* Between long paragraphs a cut is always before a paragraph.
CutAtParagraph ==
  pc \in {"paragraph", "add"} => \E q \in 1 .. p : Chunked = SentencesBefore(q)

Shape == TypeOK /\ Position /\ Counted
ChunkerInv == Shape /\ SequenceIsIndex /\ NoGap /\ CutAtParagraph /\ NothingLost

\* finalizeChunk numbers the chunk by its place and takes what the builder has.
LEMMA FinalizeStep ==
  ASSUME TypeOK, Counted, pc # "done", SequenceIsIndex, Finalize
  PROVE  /\ chunks' \in Seq(Chunks)
         /\ seq' \in Nat
         /\ seq' = Len(chunks')
         /\ SequenceIsIndex'
         /\ Chunked' = Chunked \cup current.whole
<1> DEFINE c == Chunk(seq, current)
<1>1. c \in Chunks /\ c.whole = current.whole /\ c.seq = seq /\ chunks \in Seq(Chunks)
      BY DEF TypeOK, Chunk, Chunks, Builders
<1>2. chunks' = Append(chunks, c) /\ seq' = seq + 1 /\ seq = Len(chunks) /\ seq \in Nat
      BY DEF Finalize, Counted, TypeOK
<1> HIDE DEF c
<1>3. /\ Append(chunks, c) \in Seq(Chunks)
      /\ Len(Append(chunks, c)) = Len(chunks) + 1
      /\ Append(chunks, c)[Len(chunks) + 1] = c
      /\ \A i \in DOMAIN chunks : Append(chunks, c)[i] = chunks[i]
      /\ WholeIn(Append(chunks, c)) = WholeIn(chunks) \cup c.whole
      BY <1>1, AppendWhole
<1>4. chunks' \in Seq(Chunks) /\ seq' \in Nat /\ seq' = Len(chunks')
      BY <1>2, <1>3
<1>5. Chunked' = Chunked \cup current.whole
      BY <1>1, <1>2, <1>3 DEF Chunked
<1>6. ASSUME NEW i \in DOMAIN chunks' PROVE chunks'[i].seq = i - 1
  <2>1. CASE i \in DOMAIN chunks
        BY <1>2, <1>3, <2>1 DEF SequenceIsIndex
  <2>2. CASE i \notin DOMAIN chunks
    <3>1. i = Len(chunks) + 1
          BY <1>1, <1>2, <1>3, <2>2
    <3> QED BY <1>1, <1>2, <1>3, <3>1
  <2> QED BY <2>1, <2>2
<1>7. SequenceIsIndex'
      BY <1>6 DEF SequenceIsIndex
<1> QED BY <1>4, <1>5, <1>7

\* A builder that a piece was written to is not empty.
LEMMA ExtendedType ==
  ASSUME NEW b \in Builders, NEW sep \in Nat, NEW n \in Nat \ {0}, NEW W \in SUBSET Sentences
  PROVE  /\ Extended(b, sep, n, W) \in Builders
         /\ Extended(b, sep, n, W).length # 0
         /\ Extended(b, sep, n, W).whole = b.whole \cup W
<1> QED BY DEF Extended, Builders

\* The sentences of a text are pairs of numbers.
LEMMA BeforeType ==
  ASSUME text \in Texts, NEW q \in 1 .. Len(text.paragraphs) + 1
  PROVE  SentencesBefore(q) \in SUBSET Sentences
<1>1. \A r \in 1 .. q - 1 : SentencesOf(r) \in SUBSET Sentences
  <2>1. TAKE r \in 1 .. q - 1
  <2>2. Len(text.paragraphs) \in Nat
        BY TextsAssumption
  <2>3. r \in 1 .. Len(text.paragraphs)
        BY <2>2
  <2> QED BY <2>3, SentencesOfType
<1> QED BY <1>1 DEF SentencesBefore

\* It holds when Chunk is entered.
LEMMA ChunkerInvInit == Init => ChunkerInv
<1> SUFFICES ASSUME Init PROVE ChunkerInv
    OBVIOUS
<1> USE DEF Init
<1>1. text.paragraphs \in Seq(Paragraphs) /\ Len(text.paragraphs) \in Nat
      BY TextsAssumption
<1>2. TypeOK
      BY <1>1 DEF TypeOK, Empty, Builders
<1>3. Position /\ Counted /\ SequenceIsIndex /\ NoGap /\ CutAtParagraph /\ NothingLost
      BY DEF Position, Counted, SequenceIsIndex, NoGap, CutAtParagraph, NothingLost, Empty
<1> QED BY <1>2, <1>3 DEF ChunkerInv, Shape

\* A short text is one chunk.
LEMMA FitsInv == ChunkerInv /\ Fits => ChunkerInv'
<1> SUFFICES ASSUME ChunkerInv, Fits PROVE ChunkerInv'
    OBVIOUS
<1> USE DEF ChunkerInv, Shape, Fits
<1> DEFINE n == Len(text.paragraphs) + 1
           c == Chunk(0, [length |-> text.length, whole |-> SentencesBefore(n)])
<1>1. text \in Texts /\ text.length \in Nat /\ Len(text.paragraphs) \in Nat
      BY TextsAssumption DEF TypeOK
<1>2. SentencesBefore(n) \in SUBSET Sentences
      BY <1>1, BeforeType
<1>3. c \in Chunks /\ c.seq = 0 /\ c.whole = SentencesBefore(n)
      BY <1>1, <1>2 DEF Chunk, Chunks
<1>4. chunks' = <<c>> /\ n \in 1 .. Len(text.paragraphs) + 1
      BY <1>1
<1>5. text' = text /\ SentencesBefore(n)' = SentencesBefore(n) /\ Len(text.paragraphs)' = n - 1
      BY <1>1 DEF SentencesBefore, SentencesOf
<1> HIDE DEF c, n
<1>6. TypeOK' /\ Position' /\ Counted' /\ SequenceIsIndex' /\ NoGap' /\ CutAtParagraph'
      BY <1>1, <1>3, <1>4
      DEF TypeOK, Position, Counted, SequenceIsIndex, NoGap, CutAtParagraph
<1>7. Chunked' = c.whole
  <2>1. DOMAIN chunks' = {1} /\ chunks'[1] = c
        BY <1>4
  <2> QED BY <2>1 DEF Chunked, WholeIn
<1>8. NothingLost'
      BY <1>1, <1>3, <1>4, <1>5, <1>7 DEF NothingLost, n
<1> QED BY <1>6, <1>8

\* A longer one begins with nothing passed and nothing written.
LEMMA SplitInv == ChunkerInv /\ Split => ChunkerInv'
<1> SUFFICES ASSUME ChunkerInv, Split PROVE ChunkerInv'
    OBVIOUS
<1> USE DEF ChunkerInv, Shape, Split
<1>1. p = 1 /\ chunks = <<>> /\ current = Empty
      BY DEF Position
<1>2. TypeOK' /\ Position' /\ Counted' /\ SequenceIsIndex' /\ NothingLost'
      BY <1>1 DEF TypeOK, Position, Counted, SequenceIsIndex, NothingLost
<1>3. Chunked' = {} /\ SentencesBefore(p)' = {} /\ current'.whole = {}
  <2>1. Chunked' = {}
        BY <1>1 DEF Chunked, WholeIn
  <2>2. SentencesBefore(p)' = {}
        BY <1>1 DEF SentencesBefore
  <2> QED BY <1>1, <2>1, <2>2 DEF Empty
<1>4. p' = 1 /\ pc' = "paragraph"
      BY <1>1
<1>5. NoGap'
      BY <1>3, <1>4 DEF NoGap, Passed
<1>6. CutAtParagraph'
  <2>1. p' \in 1 .. p' /\ Chunked' = SentencesBefore(p)'
        BY <1>3, <1>4
  <2> QED BY <2>1 DEF CutAtParagraph
<1> QED BY <1>2, <1>5, <1>6

\* The paragraph flow: a cut passes nothing and loses nothing.
LEMMA CutParagraphInv == ChunkerInv /\ CutParagraph => ChunkerInv'
<1> SUFFICES ASSUME ChunkerInv, CutParagraph PROVE ChunkerInv'
    OBVIOUS
<1> USE DEF ChunkerInv, Shape, CutParagraph
<1>1. /\ chunks' \in Seq(Chunks) /\ seq' \in Nat /\ seq' = Len(chunks')
      /\ SequenceIsIndex'
      /\ Chunked' = Chunked \cup current.whole
      BY FinalizeStep
<1>2. /\ text' = text /\ p' = p /\ s' = s /\ current \in Builders /\ Len(text.paragraphs) \in Nat
      /\ p \in 1 .. Len(text.paragraphs)
      /\ SentencesBefore(p)' = SentencesBefore(p)
      BY TextsAssumption DEF TypeOK, SentencesBefore, SentencesOf
<1>3. Chunked' = SentencesBefore(p)'
      BY <1>1, <1>2 DEF NoGap, Passed
<1>4. CASE Len(chunks') >= MaxChunks
  <2>1. pc' = "done" /\ current' = current
        BY <1>4
  <2>2. TypeOK' /\ Position' /\ Counted' /\ NoGap' /\ CutAtParagraph'
        BY <1>1, <1>2, <2>1 DEF TypeOK, Position, Counted, NoGap, CutAtParagraph
  <2>3. NothingLost'
        BY <1>2, <1>3, <1>4 DEF NothingLost
  <2> QED BY <1>1, <2>2, <2>3
<1>5. CASE ~(Len(chunks') >= MaxChunks)
  <2>1. pc' = "add" /\ current' \in Overlaps(current)
        BY <1>5
  <2>2. /\ current' \in Builders
        /\ current'.whole \subseteq current.whole
        /\ current'.length = 0 => current'.whole = {}
        BY <1>2, <2>1, OverlapType DEF Counted
  <2>3. TypeOK' /\ Position' /\ Counted' /\ NothingLost'
        BY <1>1, <1>2, <2>1, <2>2 DEF TypeOK, Position, Counted, NothingLost
  <2>4. NoGap' /\ CutAtParagraph'
        BY <1>1, <1>2, <1>3, <2>1, <2>2 DEF NoGap, Passed, CutAtParagraph
  <2> QED BY <1>1, <2>3, <2>4
<1> QED BY <1>4, <1>5

\* A paragraph that fits is looked at next.
LEMMA KeepParagraphInv == ChunkerInv /\ KeepParagraph => ChunkerInv'
<1> SUFFICES ASSUME ChunkerInv, KeepParagraph PROVE ChunkerInv'
    OBVIOUS
<1> USE DEF ChunkerInv, Shape, KeepParagraph
<1>1. p \in 1 .. Len(text.paragraphs)
      BY TextsAssumption DEF TypeOK
<1>2. TypeOK' /\ Position' /\ Counted' /\ SequenceIsIndex' /\ NothingLost'
      BY <1>1 DEF TypeOK, Position, Counted, SequenceIsIndex, NothingLost
<1>3. /\ Chunked' = Chunked
      /\ \A q : SentencesBefore(q)' = SentencesBefore(q)
      BY DEF Chunked, WholeIn, SentencesBefore, SentencesOf
<1>4. NoGap' /\ CutAtParagraph'
      BY <1>3 DEF NoGap, Passed, CutAtParagraph
<1> QED BY <1>2, <1>4

\* It is passed as a whole.
LEMMA AddParagraphInv == ChunkerInv /\ AddParagraph => ChunkerInv'
<1> SUFFICES ASSUME ChunkerInv, AddParagraph PROVE ChunkerInv'
    OBVIOUS
<1> USE DEF ChunkerInv, Shape, AddParagraph
<1>1. /\ text \in Texts /\ p \in 1 .. Len(text.paragraphs) /\ Len(text.paragraphs) \in Nat
      /\ current \in Builders
      BY TextsAssumption DEF TypeOK, Position
<1>2. /\ Paragraph.length \in Nat \ {0}
      /\ SentencesOf(p) \in SUBSET Sentences
      BY <1>1, ParagraphType, SentencesOfType DEF Paragraph
<1>3. /\ current' \in Builders
      /\ current'.length # 0
      /\ current'.whole = current.whole \cup SentencesOf(p)
  <2>1. 2 \in Nat /\ current' = Extended(current, 2, Paragraph.length, SentencesOf(p))
        OBVIOUS
  <2> HIDE DEF AddParagraph
  <2> QED BY <1>1, <1>2, <2>1, ExtendedType
<1>4. TypeOK' /\ Position' /\ Counted' /\ SequenceIsIndex' /\ NothingLost'
      BY <1>1, <1>3 DEF TypeOK, Position, Counted, SequenceIsIndex, NothingLost
<1>5. /\ Chunked' = Chunked
      /\ \A q : SentencesBefore(q)' = SentencesBefore(q)
      BY DEF Chunked, WholeIn, SentencesBefore, SentencesOf
<1>6. SentencesBefore(p + 1) = SentencesBefore(p) \cup SentencesOf(p)
      BY <1>1, BeforeNext
<1>7. NoGap' /\ CutAtParagraph'
  <2>1. SentencesBefore(p)' = SentencesBefore(p + 1)
        BY DEF SentencesBefore, SentencesOf
  <2>2. NoGap'
        BY <1>3, <1>5, <1>6, <2>1 DEF NoGap, Passed
  <2>3. CutAtParagraph'
        BY <1>1, <1>5 DEF CutAtParagraph
  <2> QED BY <2>2, <2>3
<1> QED BY <1>4, <1>7

\* A long paragraph begins with everything before it in chunks.
LEMMA EnterLongInv == ChunkerInv /\ EnterLong => ChunkerInv'
<1> SUFFICES ASSUME ChunkerInv, EnterLong PROVE ChunkerInv'
    OBVIOUS
<1> USE DEF ChunkerInv, Shape, EnterLong
<1>1. /\ text \in Texts /\ p \in 1 .. Len(text.paragraphs) /\ Len(text.paragraphs) \in Nat
      /\ current \in Builders /\ chunks \in Seq(Chunks) /\ seq \in Nat
      BY TextsAssumption DEF TypeOK, Position
<1>2. /\ chunks' \in Seq(Chunks) /\ seq' \in Nat /\ seq' = Len(chunks')
      /\ SequenceIsIndex'
      /\ Chunked' = Chunked \cup current.whole
  <2>1. CASE current.length > 0
        BY <2>1, FinalizeStep
  <2>2. CASE ~(current.length > 0)
    <3>1. UNCHANGED <<seq, chunks>> /\ current.whole = {}
          BY <1>1, <2>2 DEF Counted, Builders
    <3> QED BY <1>1, <3>1 DEF Counted, SequenceIsIndex, Chunked, WholeIn
  <2> QED BY <2>1, <2>2
<1>3. Len(Paragraph.sentences) \in Nat /\ Paragraph' = Paragraph
      BY <1>1, ParagraphType DEF Paragraph
<1>4. current' \in Builders /\ current'.whole = {}
      BY DEF Empty, Builders
<1>5. TypeOK' /\ Position' /\ Counted' /\ CutAtParagraph' /\ NothingLost'
      BY <1>1, <1>2, <1>3, <1>4 DEF TypeOK, Position, Counted, CutAtParagraph, NothingLost
<1>6. NoGap'
  <2>1. SentencesBefore(p)' = SentencesBefore(p)
        BY DEF SentencesBefore, SentencesOf
  <2>2. {<<p, r>> : r \in 1 .. s - 1}' = {}
        OBVIOUS
  <2> QED BY <1>2, <1>4, <2>1, <2>2 DEF NoGap, Passed
<1> QED BY <1>2, <1>5, <1>6

\* The sentence flow: a cut passes nothing and loses nothing.
LEMMA CutSentenceInv == ChunkerInv /\ CutSentence => ChunkerInv'
<1> SUFFICES ASSUME ChunkerInv, CutSentence PROVE ChunkerInv'
    OBVIOUS
<1> USE DEF ChunkerInv, Shape, CutSentence
<1>1. /\ chunks' \in Seq(Chunks) /\ seq' \in Nat /\ seq' = Len(chunks')
      /\ SequenceIsIndex'
      /\ Chunked' = Chunked \cup current.whole
      BY FinalizeStep
<1>2. /\ text \in Texts /\ p \in 1 .. Len(text.paragraphs) /\ current \in Builders
      /\ Paragraph' = Paragraph
      BY DEF TypeOK, Position, Paragraph
<1>3. s \in 1 .. Len(Paragraph.sentences)
      BY <1>2, ParagraphType DEF Paragraph, TypeOK
<1>4. /\ current' \in Builders
      /\ current'.whole \subseteq current.whole
      /\ current'.length = 0 => current'.whole = {}
      BY <1>2, OverlapType DEF Counted
<1>5. TypeOK' /\ Position' /\ Counted' /\ CutAtParagraph' /\ NothingLost'
      BY <1>1, <1>2, <1>3, <1>4 DEF TypeOK, Position, Counted, CutAtParagraph, NothingLost
<1>6. NoGap'
  <2>1. Passed' = Passed
        BY DEF Passed, SentencesBefore, SentencesOf
  <2> QED BY <1>1, <1>4, <2>1 DEF NoGap
<1> QED BY <1>1, <1>5, <1>6

\* A sentence that fits is looked at next.
LEMMA KeepSentenceInv == ChunkerInv /\ KeepSentence => ChunkerInv'
<1> SUFFICES ASSUME ChunkerInv, KeepSentence PROVE ChunkerInv'
    OBVIOUS
<1> USE DEF ChunkerInv, Shape, KeepSentence
<1>1. /\ text \in Texts /\ p \in 1 .. Len(text.paragraphs) /\ Paragraph' = Paragraph
      BY DEF TypeOK, Position, Paragraph
<1>2. s \in 1 .. Len(Paragraph.sentences)
      BY <1>1, ParagraphType DEF Paragraph, TypeOK
<1>3. TypeOK' /\ Position' /\ Counted' /\ SequenceIsIndex' /\ CutAtParagraph' /\ NothingLost'
      BY <1>1, <1>2
      DEF TypeOK, Position, Counted, SequenceIsIndex, CutAtParagraph, NothingLost
<1>4. Passed' = Passed /\ Chunked' = Chunked
      BY DEF Passed, SentencesBefore, SentencesOf, Chunked, WholeIn
<1>5. NoGap'
      BY <1>4 DEF NoGap
<1> QED BY <1>3, <1>5

\* It is passed.
LEMMA AddSentenceInv == ChunkerInv /\ AddSentence => ChunkerInv'
<1> SUFFICES ASSUME ChunkerInv, AddSentence PROVE ChunkerInv'
    OBVIOUS
<1> USE DEF ChunkerInv, Shape, AddSentence
<1>1. /\ text \in Texts /\ p \in 1 .. Len(text.paragraphs) /\ Len(text.paragraphs) \in Nat
      /\ current \in Builders
      /\ s \in 1 .. Len(Paragraph.sentences)
      /\ Paragraph' = Paragraph
      BY TextsAssumption DEF TypeOK, Position, Paragraph
<1>2. Paragraph.sentences \in Seq(Nat \ {0}) /\ Len(Paragraph.sentences) \in Nat
      BY <1>1, ParagraphType DEF Paragraph
<1>3. Paragraph.sentences[s] \in Nat \ {0} /\ {<<p, s>>} \in SUBSET Sentences
      BY <1>1, <1>2 DEF Sentences
<1>4. /\ current' \in Builders
      /\ current'.length # 0
      /\ current'.whole = current.whole \cup {<<p, s>>}
  <2>1. 1 \in Nat /\ current' = Extended(current, 1, Paragraph.sentences[s], {<<p, s>>})
        OBVIOUS
  <2> HIDE DEF AddSentence
  <2> QED BY <1>1, <1>3, <2>1, ExtendedType
<1>5. TypeOK' /\ Position' /\ Counted' /\ SequenceIsIndex' /\ CutAtParagraph' /\ NothingLost'
      BY <1>1, <1>2, <1>4
      DEF TypeOK, Position, Counted, SequenceIsIndex, CutAtParagraph, NothingLost
<1>6. NoGap'
  <2>1. Chunked' = Chunked /\ SentencesBefore(p)' = SentencesBefore(p)
        BY DEF Chunked, WholeIn, SentencesBefore, SentencesOf
  <2>2. 1 .. s' - 1 = (1 .. s - 1) \cup {s}
        BY <1>1, <1>2
  <2>3. {<<p, r>> : r \in 1 .. s - 1}' = {<<p, r>> : r \in 1 .. s - 1} \cup {<<p, s>>}
        BY <2>2
  <2>4. Passed' = Passed \cup {<<p, s>>}
        BY <2>1, <2>3 DEF Passed
  <2> QED BY <1>4, <2>1, <2>4 DEF NoGap
<1> QED BY <1>5, <1>6

\* A long paragraph ends with all its sentences in chunks.
LEMMA LeaveLongInv == ChunkerInv /\ LeaveLong => ChunkerInv'
<1> SUFFICES ASSUME ChunkerInv, LeaveLong PROVE ChunkerInv'
    OBVIOUS
<1> USE DEF ChunkerInv, Shape, LeaveLong, AfterLong
<1>1. /\ text \in Texts /\ p \in 1 .. Len(text.paragraphs) /\ Len(text.paragraphs) \in Nat
      /\ current \in Builders /\ chunks \in Seq(Chunks) /\ seq \in Nat
      BY TextsAssumption DEF TypeOK, Position
<1>2. /\ chunks' \in Seq(Chunks) /\ seq' \in Nat /\ seq' = Len(chunks')
      /\ SequenceIsIndex'
      /\ Chunked' = Chunked \cup current.whole
  <2>1. CASE current.length > 0
        BY <2>1, FinalizeStep DEF FinalizeRest
  <2>2. CASE ~(current.length > 0)
    <3>1. UNCHANGED <<seq, chunks>> /\ current.whole = {}
          BY <1>1, <2>2 DEF Counted, Builders, FinalizeRest
    <3> QED BY <1>1, <3>1 DEF Counted, SequenceIsIndex, Chunked, WholeIn
  <2> QED BY <2>1, <2>2
<1>3. /\ Paragraph.sentences \in Seq(Nat \ {0}) /\ Len(Paragraph.sentences) \in Nat
      /\ s = Len(Paragraph.sentences) + 1
  <2>1. Paragraph.sentences \in Seq(Nat \ {0}) /\ Len(Paragraph.sentences) \in Nat
        BY <1>1, ParagraphType DEF Paragraph
  <2>2. s \in 1 .. Len(Paragraph.sentences) + 1 /\ s > Len(Paragraph.sentences)
        BY DEF Position
  <2> QED BY <2>1, <2>2
<1>4. {<<p, r>> : r \in 1 .. s - 1} = SentencesOf(p)
  <2>1. 1 .. s - 1 = DOMAIN text.paragraphs[p].sentences
        BY <1>3 DEF Paragraph
  <2> QED BY <2>1 DEF SentencesOf
<1>5. SentencesBefore(p)' = SentencesBefore(p) \cup SentencesOf(p)
  <2>1. SentencesBefore(p)' = SentencesBefore(p + 1)
        BY DEF SentencesBefore, SentencesOf
  <2> QED BY <1>1, <2>1, BeforeNext
<1>6. Chunked' = SentencesBefore(p)' /\ current'.whole = {} /\ current' \in Builders
  <2>1. Chunked \cup current.whole = SentencesBefore(p) \cup {<<p, r>> : r \in 1 .. s - 1}
        BY DEF NoGap, Passed
  <2> QED BY <1>2, <1>4, <1>5, <2>1 DEF Empty, Builders
<1>7. TypeOK' /\ Position' /\ Counted' /\ NothingLost'
      BY <1>1, <1>2, <1>6 DEF TypeOK, Position, Counted, NothingLost
<1>8. NoGap'
      BY <1>6 DEF NoGap, Passed
<1>9. CutAtParagraph'
  <2>1. p' \in 1 .. p'
        BY <1>1
  <2> QED BY <1>6, <2>1 DEF CutAtParagraph
<1> QED BY <1>2, <1>7, <1>8, <1>9

\* The last chunk has what is left, unless there is no room for it.
LEMMA LastInv == ChunkerInv /\ EndChunk => ChunkerInv'
<1> SUFFICES ASSUME ChunkerInv, EndChunk PROVE ChunkerInv'
    OBVIOUS
<1> USE DEF ChunkerInv, Shape, EndChunk
<1>1. /\ text \in Texts /\ p = Len(text.paragraphs) + 1 /\ Len(text.paragraphs) \in Nat
      /\ current \in Builders /\ chunks \in Seq(Chunks) /\ seq \in Nat
      /\ text' = text /\ p' = p
  <2>1. text \in Texts /\ Len(text.paragraphs) \in Nat
        BY TextsAssumption DEF TypeOK
  <2>2. p \in 1 .. Len(text.paragraphs) + 1 /\ p > Len(text.paragraphs)
        BY DEF TypeOK
  <2> QED BY <2>1, <2>2 DEF TypeOK
<1>2. \A q : SentencesBefore(q)' = SentencesBefore(q)
      BY DEF SentencesBefore, SentencesOf
<1>3. Chunked \cup current.whole = SentencesBefore(p)
      BY DEF NoGap, Passed
<1>4. /\ chunks' \in Seq(Chunks) /\ seq' \in Nat /\ SequenceIsIndex'
      /\ \E q \in 1 .. p : Chunked' = SentencesBefore(q) /\ (q < p => Len(chunks') >= MaxChunks)
  <2>1. CASE current.length > 0 /\ Len(chunks) < MaxChunks
    <3>1. /\ chunks' \in Seq(Chunks) /\ seq' \in Nat /\ SequenceIsIndex'
          /\ Chunked' = Chunked \cup current.whole
          BY <2>1, FinalizeStep DEF FinalizeLast
    <3> QED BY <1>1, <1>3, <3>1
  <2>2. CASE ~(current.length > 0)
    <3>1. UNCHANGED <<seq, chunks>> /\ current.whole = {}
          BY <1>1, <2>2 DEF Counted, Builders, FinalizeLast
    <3>2. Chunked' = Chunked /\ SequenceIsIndex'
          BY <3>1 DEF Chunked, WholeIn, SequenceIsIndex
    <3> QED BY <1>1, <1>3, <3>1, <3>2
  <2>3. CASE Len(chunks) >= MaxChunks
    <3>1. UNCHANGED <<seq, chunks>>
          BY <1>1, <2>3, ConfigAssumption DEF FinalizeLast
    <3>2. Chunked' = Chunked /\ SequenceIsIndex'
          BY <3>1 DEF Chunked, WholeIn, SequenceIsIndex
    <3>3. PICK q \in 1 .. p : Chunked = SentencesBefore(q)
          BY DEF CutAtParagraph
    <3> QED BY <1>1, <2>3, <3>1, <3>2, <3>3
  <2> QED BY <1>1, <2>1, <2>2, <2>3, ConfigAssumption
<1>5. TypeOK' /\ Position' /\ Counted' /\ NoGap' /\ CutAtParagraph'
      BY <1>1, <1>4 DEF TypeOK, Position, Counted, NoGap, CutAtParagraph
<1>6. NothingLost'
  <2>1. PICK q \in 1 .. p : Chunked' = SentencesBefore(q) /\ (q < p => Len(chunks') >= MaxChunks)
        BY <1>4
  <2>2. q \in 1 .. Len(text'.paragraphs) + 1 /\ (q <= Len(text'.paragraphs) => Len(chunks') >= MaxChunks)
        BY <1>1, <2>1
  <2>3. Chunked' = SentencesBefore(q)'
        BY <1>2, <2>1
  <2> QED BY <2>2, <2>3 DEF NothingLost
<1> QED BY <1>4, <1>5, <1>6

\* Every step keeps the invariant.
LEMMA ChunkerInvNext == ChunkerInv /\ [Next]_vars => ChunkerInv'
<1> SUFFICES ASSUME ChunkerInv, [Next]_vars PROVE ChunkerInv'
    OBVIOUS
<1>1. CASE UNCHANGED vars
  <2> USE <1>1 DEF ChunkerInv, Shape, vars
  <2>1. TypeOK' /\ Position' /\ Counted' /\ SequenceIsIndex'
        BY DEF TypeOK, Position, Counted, SequenceIsIndex, Paragraph
  <2>2. /\ Chunked' = Chunked /\ Passed' = Passed
        /\ \A q : SentencesBefore(q)' = SentencesBefore(q)
        BY DEF Chunked, WholeIn, Passed, SentencesBefore, SentencesOf
  <2>3. NoGap' /\ CutAtParagraph' /\ NothingLost'
        BY <2>2 DEF NoGap, CutAtParagraph, NothingLost
  <2> QED BY <2>1, <2>3
<1> QED BY <1>1, FitsInv, SplitInv, CutParagraphInv, KeepParagraphInv, AddParagraphInv,
           EnterLongInv, CutSentenceInv, KeepSentenceInv, AddSentenceInv, LeaveLongInv,
           LastInv DEF Next, Done

\* Chunks are numbered by their place.
THEOREM NumberedByPlace == Spec => []SequenceIsIndex
<1>1. Spec => []ChunkerInv
      BY ChunkerInvInit, ChunkerInvNext, PTL DEF Spec
<1>2. ChunkerInv => SequenceIsIndex
      BY DEF ChunkerInv
<1> QED BY <1>1, <1>2, PTL

\* At every moment what was passed is in a chunk or in the builder.
THEOREM NoSentenceSkipped == Spec => []NoGap
<1>1. Spec => []ChunkerInv
      BY ChunkerInvInit, ChunkerInvNext, PTL DEF Spec
<1>2. ChunkerInv => NoGap
      BY DEF ChunkerInv
<1> QED BY <1>1, <1>2, PTL

\* The result has the whole text, or the cap cut it off after a paragraph.
THEOREM AllChunked == Spec => []NothingLost
<1>1. Spec => []ChunkerInv
      BY ChunkerInvInit, ChunkerInvNext, PTL DEF Spec
<1>2. ChunkerInv => NothingLost
      BY DEF ChunkerInv
<1> QED BY <1>1, <1>2, PTL

-----------------------------------------------------------------------------
(* How large a chunk gets *)

WithinSize(t, n) ==
  \/ n <= MaxChunkSize + OverlapSize + 2
  \/ \E q \in DOMAIN t.paragraphs :
       \E r \in DOMAIN t.paragraphs[q].sentences :
         n <= t.paragraphs[q].sentences[r] + OverlapSize + 1

\* Before a piece is written the builder has an overlap or room for it.
RoomFor(n) == current.length <= OverlapSize \/ current.length + n + 1 <= MaxChunkSize

BuilderSized ==
  /\ pc \in {"paragraph", "sentence"} => WithinSize(text, current.length)
  /\ pc = "add" => RoomFor(Paragraph.length)
  /\ pc = "addsentence" => RoomFor(Paragraph.sentences[s])

SizeInv == ChunkerInv /\ SizeBounded /\ BuilderSized

\* An overlap is no longer than OverlapSize.
LEMMA OverlapSized ==
  ASSUME NEW b \in Builders, NEW o \in Overlaps(b)
  PROVE  o.length \in Nat /\ o.length <= OverlapSize
<1>1. b.length \in Nat
      BY DEF Builders
<1>2. CASE b.length <= OverlapSize
      BY <1>1, <1>2 DEF Overlaps
<1>3. CASE ~(b.length <= OverlapSize)
  <2>1. o \in [length : (IF OverlapSize = 0 THEN 0 ELSE 1) .. OverlapSize, whole : SUBSET b.whole]
        BY <1>3 DEF Overlaps
  <2>2. o.length \in (IF OverlapSize = 0 THEN 0 ELSE 1) .. OverlapSize
        BY <2>1
  <2> QED BY <2>2, ConfigAssumption
<1> QED BY <1>2, <1>3

\* A chunk is as long as what the builder had.
LEMMA FinalizeSized ==
  ASSUME SizeInv, UNCHANGED text, Finalize, WithinSize(text, current.length)
  PROVE  SizeBounded'
<1>1. chunks \in Seq(Chunks) /\ chunks' = Append(chunks, Chunk(seq, current))
      BY DEF SizeInv, ChunkerInv, Shape, TypeOK, Finalize
<1>2. ASSUME NEW i \in DOMAIN chunks' PROVE WithinSize(text, chunks'[i].length)
  <2>1. CASE i \in DOMAIN chunks
    <3>1. chunks'[i] = chunks[i]
          BY <1>1, <2>1
    <3> QED BY <2>1, <3>1 DEF SizeInv, SizeBounded, WithinSize
  <2>2. CASE i \notin DOMAIN chunks
    <3>1. i = Len(chunks) + 1 /\ chunks'[i] = Chunk(seq, current)
          BY <1>1, <1>2, <2>2
    <3> QED BY <3>1 DEF Chunk
  <2> QED BY <2>1, <2>2
<1> QED BY <1>2 DEF SizeBounded, WithinSize

\* Every step keeps to the bound.
LEMMA SizeNext == SizeInv /\ [Next]_vars => SizeInv'
<1> SUFFICES ASSUME SizeInv, [Next]_vars PROVE SizeBounded' /\ BuilderSized'
    BY ChunkerInvNext DEF SizeInv
<1>t. /\ text \in Texts /\ current \in Builders /\ current.length \in Nat
      /\ MaxChunkSize \in Nat /\ OverlapSize \in Nat
      BY ConfigAssumption DEF SizeInv, ChunkerInv, Shape, TypeOK, Builders
<1>p. ASSUME pc \in {"add", "sentence", "addsentence"}
      PROVE  /\ p \in 1 .. Len(text.paragraphs) /\ Paragraph.length \in Nat
             /\ Paragraph.sentences \in Seq(Nat \ {0})
      BY <1>p, <1>t, ParagraphType DEF SizeInv, ChunkerInv, Shape, Position, Paragraph
<1>1. CASE Fits
  <2>1. chunks' = <<[seq |-> 0, length |-> text.length,
                     whole |-> SentencesBefore(Len(text.paragraphs) + 1)]>>
        BY <1>1 DEF Fits, Chunk
  <2>2. text.length \in Nat /\ text.length <= MaxChunkSize
        BY <1>1, <1>t, TextsAssumption DEF Fits
  <2>3. \A i \in DOMAIN chunks' : chunks'[i].length <= MaxChunkSize + OverlapSize + 2
        BY <1>t, <2>1, <2>2
  <2> QED BY <1>1, <2>3 DEF SizeBounded, BuilderSized, Fits
<1>2. CASE Split
  <2>1. current.length = 0 /\ WithinSize(text, current.length)
        BY <1>2, <1>t DEF Split, SizeInv, ChunkerInv, Shape, Position, Empty, WithinSize
  <2> QED BY <1>2, <2>1 DEF Split, SizeInv, SizeBounded, BuilderSized
<1>3. CASE CutParagraph
  <2>1. SizeBounded'
        BY <1>3, FinalizeSized DEF CutParagraph, SizeInv, BuilderSized
  <2>2. pc' = "add" => current'.length <= OverlapSize
        BY <1>3, <1>t, OverlapSized DEF CutParagraph
  <2> QED BY <1>3, <2>1, <2>2 DEF CutParagraph, BuilderSized, RoomFor
<1>4. CASE KeepParagraph
  <2>1. /\ pc' = "add" /\ UNCHANGED <<text, p, s, seq, current, chunks>>
        /\ p \in 1 .. Len(text.paragraphs)
        BY <1>4, <1>t, TextsAssumption DEF KeepParagraph, SizeInv, ChunkerInv, Shape, TypeOK
  <2>2. Paragraph.length \in Nat
        BY <1>t, <2>1, ParagraphType DEF Paragraph
  <2>3. RoomFor(Paragraph.length)
        BY <1>4, <1>t, <2>2 DEF KeepParagraph, Overflows, RoomFor
  <2> QED BY <2>1, <2>3 DEF SizeInv, SizeBounded, BuilderSized, RoomFor, Paragraph
<1>5. CASE AddParagraph
  <2>1. /\ current'.length = (IF current.length > 0 THEN current.length + 2 ELSE 0) + Paragraph.length
        /\ Paragraph.length \in Nat /\ Paragraph.length <= MaxChunkSize
        /\ RoomFor(Paragraph.length)
        BY <1>5, <1>p, <1>t DEF AddParagraph, Extended, Long, SizeInv, BuilderSized
  <2>2. current'.length <= MaxChunkSize + OverlapSize + 2
        BY <1>t, <2>1 DEF RoomFor
  <2> QED BY <1>5, <2>2 DEF AddParagraph, SizeInv, SizeBounded, BuilderSized, WithinSize
<1>6. CASE EnterLong
  <2>1. WithinSize(text, current.length)
        BY <1>6, <1>p, <1>t DEF EnterLong, SizeInv, BuilderSized, RoomFor, WithinSize
  <2>2. SizeBounded'
    <3>1. CASE current.length > 0
          BY <1>6, <2>1, <3>1, FinalizeSized DEF EnterLong
    <3>2. CASE ~(current.length > 0)
          BY <1>6, <3>2 DEF EnterLong, SizeInv, SizeBounded
    <3> QED BY <3>1, <3>2
  <2> QED BY <1>6, <1>t, <2>2 DEF EnterLong, BuilderSized, Empty, WithinSize
<1>7. CASE CutSentence
  <2>1. SizeBounded'
        BY <1>7, FinalizeSized DEF CutSentence, SizeInv, BuilderSized
  <2>2. current'.length <= OverlapSize
        BY <1>7, <1>t, OverlapSized DEF CutSentence
  <2> QED BY <1>7, <2>1, <2>2 DEF CutSentence, BuilderSized, RoomFor
<1>8. CASE KeepSentence
  <2>1. /\ pc' = "addsentence" /\ UNCHANGED <<text, p, s, seq, current, chunks>>
        /\ s \in 1 .. Len(Paragraph.sentences)
        BY <1>8, <1>p DEF KeepSentence, SizeInv, ChunkerInv, Shape, TypeOK
  <2>2. Paragraph.sentences[s] \in Nat
        BY <1>8, <1>p, <2>1 DEF KeepSentence
  <2>3. RoomFor(Paragraph.sentences[s])
        BY <1>8, <1>t, <2>2 DEF KeepSentence, Overflows, RoomFor
  <2> QED BY <2>1, <2>3 DEF SizeInv, SizeBounded, BuilderSized, RoomFor, Paragraph
<1>9. CASE AddSentence
  <2> DEFINE n == Paragraph.sentences[s]
  <2>1. /\ p \in DOMAIN text.paragraphs /\ s \in DOMAIN text.paragraphs[p].sentences
        /\ n \in Nat
    <3>1. s \in 1 .. Len(Paragraph.sentences)
          BY <1>9 DEF AddSentence, SizeInv, ChunkerInv, Shape, Position
    <3>2. p \in 1 .. Len(text.paragraphs) /\ Paragraph.sentences \in Seq(Nat \ {0})
          BY <1>9, <1>p DEF AddSentence
    <3>3. text.paragraphs \in Seq(Paragraphs)
          BY <1>t, TextsAssumption
    <3> QED BY <3>1, <3>2, <3>3 DEF Paragraph
  <2>2. /\ current'.length = (IF current.length > 0 THEN current.length + 1 ELSE 0) + n
        /\ RoomFor(n)
        BY <1>9 DEF AddSentence, Extended, SizeInv, BuilderSized
  <2> HIDE DEF n
  <2>3. current'.length <= MaxChunkSize + OverlapSize + 2 \/ current'.length <= n + OverlapSize + 1
        BY <1>t, <2>1, <2>2 DEF RoomFor
  <2>4. WithinSize(text, current'.length)
        BY <2>1, <2>3 DEF WithinSize, Paragraph, n
  <2> QED BY <1>9, <2>4 DEF AddSentence, SizeInv, SizeBounded, BuilderSized
<1>10. CASE LeaveLong
  <2>1. SizeBounded'
    <3>1. CASE current.length > 0
          BY <1>10, <3>1, FinalizeSized DEF LeaveLong, FinalizeRest, SizeInv, BuilderSized
    <3>2. CASE ~(current.length > 0)
          BY <1>10, <3>2 DEF LeaveLong, FinalizeRest, SizeInv, SizeBounded
    <3> QED BY <3>1, <3>2
  <2> QED BY <1>10, <1>t, <2>1 DEF LeaveLong, BuilderSized, AfterLong, Empty, WithinSize
<1>11. CASE EndChunk
  <2>1. SizeBounded'
    <3>1. CASE current.length > 0 /\ Len(chunks) < MaxChunks
          BY <1>11, <3>1, FinalizeSized DEF EndChunk, FinalizeLast, SizeInv, BuilderSized
    <3>2. CASE ~(current.length > 0 /\ Len(chunks) < MaxChunks)
          BY <1>11, <3>2 DEF EndChunk, FinalizeLast, SizeInv, SizeBounded
    <3> QED BY <3>1, <3>2
  <2> QED BY <1>11, <2>1 DEF EndChunk, BuilderSized
<1>12. CASE UNCHANGED vars
       BY <1>12 DEF vars, SizeInv, SizeBounded, BuilderSized, WithinSize, RoomFor, Paragraph
<1> QED BY <1>1, <1>2, <1>3, <1>4, <1>5, <1>6, <1>7, <1>8, <1>9, <1>10, <1>11, <1>12
        DEF Next, Done

\* No chunk is longer than the limit by more than an overlap and the separator,
\* or than one long sentence by more than an overlap and a space.
THEOREM SizesAreBounded == Spec => []SizeBounded
<1>1. Init => SizeBounded /\ BuilderSized
      BY DEF Init, SizeBounded, BuilderSized
<1>2. Init => SizeInv
      BY <1>1, ChunkerInvInit DEF SizeInv
<1>3. SizeInv => SizeBounded
      BY DEF SizeInv
<1> QED BY <1>2, <1>3, SizeNext, PTL DEF Spec

-----------------------------------------------------------------------------
(* What chunks repeat, and what they add *)

\* A builder is as long as a sentence it has whole,
WholeFits == \A x \in current.whole : SentenceLength(x) \in 1 .. current.length

\* what it repeats is an overlap that all the chunks since then have,
BuilderRepeats ==
  \A i \in DOMAIN chunks : \A x \in chunks[i].whole \cap current.whole :
    /\ SentenceLength(x) <= OverlapSize
    /\ \A j \in i .. Len(chunks) : x \in chunks[j].whole

\* and it has something new, or is an overlap.
BuilderAdds ==
  \/ current.length <= OverlapSize
  \/ \E x \in current.whole : \A i \in DOMAIN chunks : x \notin chunks[i].whole

BuilderInv == WholeFits /\ BuilderRepeats /\ BuilderAdds
RepeatInv ==
  ChunkerInv /\ RepeatsAreOverlap /\ EveryChunkAdds /\ (pc # "done" => BuilderInv)

\* The chunk made of the builder repeats and adds what the builder does.
LEMMA FinalizeRepeats ==
  ASSUME RepeatInv, pc # "done", UNCHANGED text, Finalize
  PROVE  /\ RepeatsAreOverlap' /\ EveryChunkAdds'
         /\ Len(chunks) \in Nat /\ DOMAIN chunks' = 1 .. Len(chunks')
         /\ Len(chunks') = Len(chunks) + 1 /\ DOMAIN chunks = 1 .. Len(chunks)
         /\ \A i \in DOMAIN chunks : chunks'[i] = chunks[i]
         /\ chunks'[Len(chunks')].whole = current.whole
<1> DEFINE n == Len(chunks)
<1>1. chunks \in Seq(Chunks) /\ chunks' = Append(chunks, Chunk(seq, current))
      BY DEF RepeatInv, ChunkerInv, Shape, TypeOK, Finalize
<1>2. /\ n \in Nat /\ Len(chunks') = n + 1
      /\ DOMAIN chunks = 1 .. n /\ DOMAIN chunks' = 1 .. n + 1
      /\ \A i \in 1 .. n : chunks'[i] = chunks[i]
      /\ chunks'[n + 1] = Chunk(seq, current)
      BY <1>1
<1>3. chunks'[n + 1].whole = current.whole /\ chunks'[n + 1].length = current.length
      BY <1>2 DEF Chunk
<1>4. \A x : SentenceLength(x)' = SentenceLength(x)
      BY DEF SentenceLength
<1>5. BuilderRepeats /\ BuilderAdds
      BY DEF RepeatInv, BuilderInv
<1> HIDE DEF n
<1>6. RepeatsAreOverlap'
  <2> SUFFICES ASSUME NEW k \in 1 .. n + 1, NEW i \in 1 .. k - 1,
                      NEW x \in chunks'[i].whole \cap chunks'[k].whole
               PROVE  /\ SentenceLength(x) <= OverlapSize
                      /\ \A j \in i .. k : x \in chunks'[j].whole
      BY <1>2, <1>4 DEF RepeatsAreOverlap
  <2>1. CASE k \in 1 .. n
    <3>1. /\ i \in 1 .. n /\ x \in chunks[i].whole \cap chunks[k].whole
          /\ \A j \in i .. k : j \in 1 .. n
          BY <1>2, <2>1
    <3> QED BY <1>2, <2>1, <3>1 DEF RepeatInv, RepeatsAreOverlap
  <2>2. CASE k = n + 1
    <3>1. i \in 1 .. n /\ x \in chunks[i].whole \cap current.whole
          BY <1>2, <1>3, <2>2
    <3>2. SentenceLength(x) <= OverlapSize /\ \A j \in i .. n : x \in chunks[j].whole
          BY <1>2, <1>5, <3>1 DEF BuilderRepeats, n
    <3>3. ASSUME NEW j \in i .. k PROVE x \in chunks'[j].whole
          BY <1>2, <1>3, <2>2, <3>1, <3>2
    <3> QED BY <3>2, <3>3
  <2> QED BY <1>2, <2>1, <2>2
<1>7. EveryChunkAdds'
  <2> SUFFICES ASSUME NEW k \in 1 .. n + 1
               PROVE  \/ \E x \in chunks'[k].whole : \A i \in 1 .. k - 1 : x \notin chunks'[i].whole
                      \/ chunks'[k].length <= OverlapSize
                      \/ text.paragraphs = <<>>
      BY <1>2 DEF EveryChunkAdds
  <2>1. CASE k \in 1 .. n
    <3>1. \A i \in 1 .. k - 1 : chunks'[i] = chunks[i]
          BY <1>2, <2>1
    <3> QED BY <1>2, <2>1, <3>1 DEF RepeatInv, EveryChunkAdds
  <2>2. CASE k = n + 1
    <3>1. \A i \in 1 .. k - 1 : i \in DOMAIN chunks /\ chunks'[i] = chunks[i]
          BY <1>2, <2>2
    <3> QED BY <1>3, <1>5, <2>2, <3>1 DEF BuilderAdds
  <2> QED BY <1>2, <2>1, <2>2
<1> QED BY <1>2, <1>3, <1>6, <1>7 DEF n

\* The overlap carried over is of the last chunk, and short.
LEMMA OverlapRepeats ==
  ASSUME RepeatInv, pc # "done", UNCHANGED text, Finalize, current' \in Overlaps(current)
  PROVE  BuilderInv'
<1>1. /\ Len(chunks) \in Nat /\ DOMAIN chunks' = 1 .. Len(chunks')
      /\ Len(chunks') = Len(chunks) + 1 /\ DOMAIN chunks = 1 .. Len(chunks)
      /\ \A i \in DOMAIN chunks : chunks'[i] = chunks[i]
      /\ chunks'[Len(chunks')].whole = current.whole
      BY FinalizeRepeats
<1>2. /\ current \in Builders /\ current.length \in Nat /\ OverlapSize \in Nat
      /\ WholeFits /\ BuilderRepeats
      BY ConfigAssumption DEF RepeatInv, BuilderInv, ChunkerInv, Shape, TypeOK, Builders
<1>3. \A x : SentenceLength(x)' = SentenceLength(x)
      BY DEF SentenceLength
<1>4. /\ current'.length \in Nat /\ current'.length <= OverlapSize
      /\ current'.whole \subseteq current.whole
      /\ \A x \in current'.whole : SentenceLength(x) \in 1 .. current'.length
  <2>1. current'.length \in Nat /\ current'.length <= OverlapSize
        BY <1>2, OverlapSized
  <2>2. CASE current.length <= OverlapSize
        BY <1>2, <2>1, <2>2 DEF Overlaps, WholeFits
  <2>3. CASE ~(current.length <= OverlapSize)
        BY <2>1, <2>3 DEF Overlaps
  <2> QED BY <2>1, <2>2, <2>3
<1>5. WholeFits' /\ BuilderAdds'
      BY <1>3, <1>4 DEF WholeFits, BuilderAdds
<1>6. BuilderRepeats'
  <2> SUFFICES ASSUME NEW i \in 1 .. Len(chunks'), NEW x \in chunks'[i].whole \cap current'.whole
               PROVE  /\ SentenceLength(x) <= OverlapSize
                      /\ \A j \in i .. Len(chunks') : x \in chunks'[j].whole
      BY <1>1, <1>3 DEF BuilderRepeats
  <2>1. SentenceLength(x) <= OverlapSize
        BY <1>2, <1>4
  <2>2. x \in chunks'[Len(chunks')].whole
        BY <1>1, <1>4
  <2>3. CASE i \in 1 .. Len(chunks)
    <3>1. \A j \in i .. Len(chunks) : x \in chunks[j].whole
          BY <1>1, <1>2, <1>4, <2>3 DEF BuilderRepeats
    <3> QED BY <1>1, <2>1, <2>2, <2>3, <3>1
  <2>4. CASE i = Len(chunks')
        BY <1>1, <2>1, <2>2, <2>4
  <2> QED BY <1>1, <2>3, <2>4
<1> QED BY <1>5, <1>6 DEF BuilderInv

\* What is written to the builder is in no chunk yet.
LEMMA PieceAdds ==
  ASSUME RepeatInv, pc # "done", UNCHANGED <<text, chunks>>,
         NEW sep \in Nat, NEW n \in Nat \ {0}, NEW W, W # {}, W \cap Chunked = {},
         \A x \in W : SentenceLength(x) \in 1 .. n,
         current' = Extended(current, sep, n, W)
  PROVE  BuilderInv'
<1>1. current \in Builders /\ current.length \in Nat /\ BuilderInv
      BY DEF RepeatInv, ChunkerInv, Shape, TypeOK, Builders
<1>2. /\ current'.whole = current.whole \cup W
      /\ current'.length \in Nat /\ current'.length >= n /\ current'.length >= current.length
      BY <1>1 DEF Extended
<1>3. \A x : SentenceLength(x)' = SentenceLength(x)
      BY DEF SentenceLength
<1>4. \A i \in DOMAIN chunks : \A x \in W : x \notin chunks[i].whole
      BY DEF Chunked, WholeIn
<1>5. WholeFits'
      BY <1>1, <1>2, <1>3 DEF WholeFits, BuilderInv
<1>6. BuilderRepeats'
      BY <1>1, <1>2, <1>3, <1>4 DEF BuilderRepeats, BuilderInv
<1>7. BuilderAdds'
      BY <1>2, <1>4 DEF BuilderAdds
<1> QED BY <1>5, <1>6, <1>7 DEF BuilderInv

LEMMA EmptyAdds == ASSUME current = Empty PROVE BuilderInv
<1> QED BY ConfigAssumption DEF BuilderInv, WholeFits, BuilderRepeats, BuilderAdds, Empty

\* Every step repeats overlaps only.
LEMMA RepeatNext == RepeatInv /\ [Next]_vars => RepeatInv'
<1> SUFFICES ASSUME RepeatInv, [Next]_vars
             PROVE  RepeatsAreOverlap' /\ EveryChunkAdds' /\ (pc' # "done" => BuilderInv')
    BY ChunkerInvNext DEF RepeatInv
<1>t. /\ text \in Texts /\ Len(text.paragraphs) \in Nat /\ text.paragraphs \in Seq(Paragraphs)
      BY TextsAssumption DEF RepeatInv, ChunkerInv, Shape, TypeOK
<1>e. ASSUME current' = Empty PROVE BuilderInv'
      BY <1>e, ConfigAssumption
      DEF BuilderInv, WholeFits, BuilderRepeats, BuilderAdds, Empty
<1>u. ASSUME UNCHANGED <<text, chunks>>
      PROVE  RepeatsAreOverlap' /\ EveryChunkAdds' /\ (UNCHANGED current => BuilderInv' = BuilderInv)
      BY <1>u DEF RepeatInv, RepeatsAreOverlap, EveryChunkAdds, BuilderInv, WholeFits,
                  BuilderRepeats, BuilderAdds, SentenceLength
<1>1. CASE Fits
  <2> DEFINE n == Len(text.paragraphs) + 1
  <2>1. /\ DOMAIN chunks' = {1} /\ chunks'[1].whole = SentencesBefore(n)
        /\ pc' = "done" /\ text' = text
        BY <1>1 DEF Fits, Chunk
  <2>2. text.paragraphs = <<>> \/ \E x : x \in SentencesBefore(n)
    <3>1. CASE Len(text.paragraphs) > 0
      <4>1. 1 \in 1 .. n - 1 /\ 1 \in DOMAIN text.paragraphs
            BY <1>t, <3>1
      <4>2. 1 \in DOMAIN text.paragraphs[1].sentences
            BY <1>t, <4>1, TextsAssumption, ParagraphType
      <4>3. <<1, 1>> \in SentencesOf(1)
            BY <4>2 DEF SentencesOf
      <4> QED BY <4>1, <4>3 DEF SentencesBefore
    <3>2. CASE ~(Len(text.paragraphs) > 0)
          BY <1>t, <3>2
    <3> QED BY <3>1, <3>2
  <2> HIDE DEF n
  <2> QED BY <2>1, <2>2 DEF RepeatsAreOverlap, EveryChunkAdds
<1>2. CASE Split \/ KeepParagraph \/ KeepSentence
  <2>1. UNCHANGED <<text, chunks, current>> /\ pc # "done"
        BY <1>2 DEF Split, KeepParagraph, KeepSentence
  <2> QED BY <1>u, <2>1 DEF RepeatInv
<1>3. CASE CutParagraph
      BY <1>3, FinalizeRepeats, OverlapRepeats DEF CutParagraph
<1>4. CASE AddParagraph
  <2>1. p \in 1 .. Len(text.paragraphs) /\ Paragraph.length \in Nat \ {0}
        BY <1>4, <1>t, ParagraphType
        DEF AddParagraph, RepeatInv, ChunkerInv, Shape, Position, Paragraph
  <2>2. SentencesOf(p) # {} /\ \A x \in SentencesOf(p) : SentenceLength(x) \in 1 .. Paragraph.length
    <3>1. /\ Paragraph.sentences \in Seq(Nat \ {0}) /\ Len(Paragraph.sentences) > 0
          /\ \A r \in DOMAIN Paragraph.sentences : Paragraph.sentences[r] <= Paragraph.length
      <4>1. p \in DOMAIN text.paragraphs
            BY <1>t, <2>1
      <4>2. /\ Len(Paragraph.sentences) > 0
            /\ \A r \in DOMAIN Paragraph.sentences : Paragraph.sentences[r] <= Paragraph.length
            BY <1>t, <4>1, TextsAssumption DEF Paragraph
      <4> QED BY <1>t, <2>1, <4>2, ParagraphType DEF Paragraph
    <3>2. \A r \in DOMAIN Paragraph.sentences : Paragraph.sentences[r] \in 1 .. Paragraph.length
          BY <2>1, <3>1
    <3>3. 1 \in DOMAIN Paragraph.sentences
          BY <3>1
    <3>4. <<p, 1>> \in SentencesOf(p)
          BY <3>3 DEF SentencesOf, Paragraph
    <3>5. ASSUME NEW r \in DOMAIN Paragraph.sentences
          PROVE  SentenceLength(<<p, r>>) \in 1 .. Paragraph.length
          BY <3>2 DEF SentenceLength, Paragraph
    <3> QED BY <3>4, <3>5 DEF SentencesOf, Paragraph
  <2>3. SentencesOf(p) \cap Chunked = {}
    <3>1. Chunked \subseteq SentencesBefore(p)
          BY <1>4 DEF AddParagraph, RepeatInv, ChunkerInv, NoGap, Passed
    <3>2. SentencesOf(p) \cap SentencesBefore(p) = {}
          BY <2>1 DEF SentencesBefore, SentencesOf
    <3> QED BY <3>1, <3>2
  <2>4. /\ UNCHANGED <<text, chunks>> /\ pc # "done"
        /\ current' = Extended(current, 2, Paragraph.length, SentencesOf(p))
        BY <1>4 DEF AddParagraph
  <2>5. BuilderInv'
        BY <2>1, <2>2, <2>3, <2>4, PieceAdds
  <2> QED BY <1>u, <2>4, <2>5
<1>5. CASE EnterLong
  <2>1. current' = Empty /\ pc # "done" /\ text' = text
        BY <1>5 DEF EnterLong
  <2>2. RepeatsAreOverlap' /\ EveryChunkAdds'
        BY <1>5, <1>u, <2>1, FinalizeRepeats DEF EnterLong
  <2> QED BY <1>e, <2>1, <2>2
<1>6. CASE CutSentence
      BY <1>6, FinalizeRepeats, OverlapRepeats DEF CutSentence
<1>7. CASE AddSentence
  <2> DEFINE x == <<p, s>>
  <2>1. /\ p \in 1 .. Len(text.paragraphs) /\ s \in 1 .. Len(Paragraph.sentences)
        /\ Paragraph.sentences \in Seq(Nat \ {0})
        BY <1>7, <1>t, ParagraphType
        DEF AddSentence, RepeatInv, ChunkerInv, Shape, Position, Paragraph
  <2>2. /\ Paragraph.sentences[s] \in Nat \ {0}
        /\ SentenceLength(x) = Paragraph.sentences[s]
        BY <2>1 DEF SentenceLength, Paragraph
  <2>3. {x} \cap Chunked = {}
    <3>1. Chunked \subseteq SentencesBefore(p) \cup {<<p, r>> : r \in 1 .. s - 1}
          BY <1>7 DEF AddSentence, RepeatInv, ChunkerInv, NoGap, Passed
    <3>2. x \notin SentencesBefore(p)
          BY <2>1 DEF SentencesBefore, SentencesOf
    <3>3. x \notin {<<p, r>> : r \in 1 .. s - 1}
          BY <2>1
    <3> QED BY <3>1, <3>2, <3>3
  <2>4. /\ UNCHANGED <<text, chunks>> /\ pc # "done"
        /\ current' = Extended(current, 1, Paragraph.sentences[s], {x})
        BY <1>7 DEF AddSentence
  <2>5. \A y \in {x} : SentenceLength(y) \in 1 .. Paragraph.sentences[s]
        BY <2>2
  <2>6. BuilderInv'
        BY <2>2, <2>3, <2>4, <2>5, PieceAdds
  <2> QED BY <1>u, <2>4, <2>6
<1>8. CASE LeaveLong
  <2>1. current' = Empty /\ pc # "done" /\ text' = text
        BY <1>8 DEF LeaveLong, AfterLong
  <2>2. RepeatsAreOverlap' /\ EveryChunkAdds'
        BY <1>8, <1>u, <2>1, FinalizeRepeats DEF LeaveLong, FinalizeRest
  <2> QED BY <1>e, <2>1, <2>2
<1>9. CASE EndChunk
  <2>1. pc' = "done" /\ pc # "done" /\ text' = text
        BY <1>9 DEF EndChunk
  <2> QED BY <1>9, <1>u, <2>1, FinalizeRepeats DEF EndChunk, FinalizeLast
<1>10. CASE UNCHANGED vars
  <2>1. UNCHANGED <<text, chunks, current, pc>>
        BY <1>10 DEF vars
  <2> QED BY <1>u, <2>1 DEF RepeatInv
<1> QED BY <1>1, <1>2, <1>3, <1>4, <1>5, <1>6, <1>7, <1>8, <1>9, <1>10 DEF Next, Done

LEMMA RepeatInit == Init => RepeatInv
<1>1. Init => RepeatsAreOverlap /\ EveryChunkAdds
      BY DEF Init, RepeatsAreOverlap, EveryChunkAdds
<1>2. Init => BuilderInv
      BY EmptyAdds DEF Init
<1> QED BY <1>1, <1>2, ChunkerInvInit DEF RepeatInv

\* What a chunk repeats is the end of the one before it, and no longer than an
\* overlap.
THEOREM OnlyOverlapsRepeat == Spec => []RepeatsAreOverlap
<1>1. RepeatInv => RepeatsAreOverlap
      BY DEF RepeatInv
<1> QED BY <1>1, RepeatInit, RepeatNext, PTL DEF Spec

\* Every chunk has a sentence that no earlier one has, or is an overlap.
THEOREM ChunksAdd == Spec => []EveryChunkAdds
<1>1. RepeatInv => EveryChunkAdds
      BY DEF RepeatInv
<1> QED BY <1>1, RepeatInit, RepeatNext, PTL DEF Spec
=============================================================================
