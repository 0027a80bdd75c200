---------------------------- MODULE PollingProofs ----------------------------
(***************************************************************************)
(* The page has one interval, a button that comes back and no result but   *)
(* its own, for any number of jobs and of polls that are out together.     *)
(***************************************************************************)
EXTENDS Polling, TLAPS

\* Only jobs that have a row are polled for.
PolledExist == \A j \in live \cup JobsOut : row[j] # "absent"

\* A poll is of the job polled last or was out when its polling began, and so
\* is what the page shows.
PolledIsOwn ==
  /\ JobsOut \subseteq {pollTimer} \cup overtaken
  /\ {result, error} \subseteq {None, pollTimer} \cup overtaken

\* Once a result is shown undisturbed, nothing can change the label any more.
ShownIsQuiet ==
  SomethingShown /\ ~overlap /\ overtaken = {} =>
    Out = {} /\ live = {} /\ label \in Final

PageInv ==
  TypeOK /\ OneInterval /\ ButtonNotStuck /\ PolledExist /\ PolledIsOwn /\ ShownIsQuiet

\* A poll that ends is out no more; the others are as before.
LEMMA PollEnds ==
  ASSUME TypeOK, NEW x \in Polls, poll' = [poll EXCEPT ![x] = Idle]
  PROVE  /\ poll' \in [Polls -> PollStates]
         /\ Out' = Out \ {x}
         /\ JobsOut' \subseteq JobsOut
<1>1. poll' \in [Polls -> PollStates] /\ poll'[x] = Idle
      BY DEF TypeOK, PollStates
<1>2. \A y \in Polls \ {x} : poll'[y] = poll[y]
      BY DEF TypeOK
<1>3. Out' = Out \ {x}
      BY <1>1, <1>2 DEF Out
<1> QED BY <1>1, <1>2, <1>3 DEF JobsOut

\* A poll that has its answer is still out, for the same job.
LEMMA PollHasAnswer ==
  ASSUME TypeOK, NEW x \in Polls, poll[x].answer = "asked",
         NEW status \in {"refused", "running"} \cup Final,
         poll' = [poll EXCEPT ![x].answer = status]
  PROVE  /\ poll' \in [Polls -> PollStates]
         /\ Out' = Out
         /\ JobsOut' = JobsOut
<1>1. poll[x] \in PollStates /\ poll[x] # Idle
      BY DEF TypeOK, Idle
<1>2. poll[x] \in [job : Jobs, answer : {"asked", "refused", "running"} \cup Final]
      BY <1>1 DEF PollStates
<1>3. poll'[x] = [poll[x] EXCEPT !.answer = status]
      BY DEF TypeOK
<1>4. /\ poll'[x] \in [job : Jobs, answer : {"asked", "refused", "running"} \cup Final]
      /\ poll'[x].job = poll[x].job
      /\ poll'[x].answer = status
      BY <1>2, <1>3
<1>5. status # "none"
      BY DEF Final
<1>6. poll'[x] # Idle
      BY <1>4, <1>5 DEF Idle
<1>7. \A y \in Polls \ {x} : poll'[y] = poll[y]
      BY DEF TypeOK
<1>8. poll' \in [Polls -> PollStates]
      BY <1>4, <1>7 DEF TypeOK, PollStates
<1>9. Out' = Out
      BY <1>1, <1>6, <1>7 DEF Out
<1> QED BY <1>4, <1>7, <1>8, <1>9 DEF JobsOut, Out

\* A poll that is sent is out.
LEMMA PollBegins ==
  ASSUME TypeOK, NEW x \in Polls, NEW j \in Jobs,
         poll' = [poll EXCEPT ![x] = [job |-> j, answer |-> "asked"]]
  PROVE  /\ poll' \in [Polls -> PollStates]
         /\ JobsOut' \subseteq JobsOut \cup {j}
<1> DEFINE asked == [job |-> j, answer |-> "asked"]
<1>1. asked \in PollStates /\ poll'[x] = asked
      BY DEF TypeOK, PollStates
<1>2. \A y \in Polls \ {x} : poll'[y] = poll[y]
      BY DEF TypeOK
<1>3. poll' \in [Polls -> PollStates]
      BY <1>1 DEF TypeOK
<1> QED BY <1>1, <1>2, <1>3 DEF JobsOut, Out

\* A poll that is out asks about a job.
LEMMA OutHasJob ==
  ASSUME TypeOK, NEW x \in Polls, poll[x] # Idle
  PROVE  /\ poll[x].job \in Jobs
         /\ poll[x].job \in JobsOut
         /\ poll[x].answer \in {"asked", "refused", "running"} \cup Final
<1>1. poll[x] \in [job : Jobs, answer : {"asked", "refused", "running"} \cup Final]
      BY DEF TypeOK, PollStates
<1> QED BY <1>1 DEF JobsOut, Out

-----------------------------------------------------------------------------
\* At first nothing is polled for or shown.
LEMMA PageInit == Init => PageInv
<1> SUFFICES ASSUME Init PROVE PageInv
    OBVIOUS
<1> USE DEF Init
<1>1. Out = {} /\ JobsOut = {}
      BY DEF Out, JobsOut
<1>2. TypeOK
      BY DEF TypeOK, JobsOrNone, PollStates
<1>3. ~SomethingShown
      BY DEF SomethingShown, Shown
<1> QED BY <1>1, <1>2, <1>3
        DEF PageInv, OneInterval, ButtonNotStuck, PolledExist, PolledIsOwn, ShownIsQuiet

\* The server changes rows, and no job loses its row.
LEMMA RowStep ==
  ASSUME PageInv, NEW j \in Jobs, Create(j) \/ Finish(j)
  PROVE  PageInv'
<1>1. /\ row' \in [Jobs -> {"absent", "running"} \cup Final]
      /\ \A k \in Jobs : row[k] # "absent" => row'[k] # "absent"
      /\ UNCHANGED <<posting, poll, pageVars>>
      BY DEF PageInv, TypeOK, Create, Finish, Final
<1>2. Out' = Out /\ JobsOut' = JobsOut /\ (SomethingShown <=> SomethingShown')
      BY <1>1 DEF Out, JobsOut, SomethingShown, Shown, pageVars
<1>3. live \cup JobsOut \subseteq Jobs
  <2>1. \A x \in Out : poll[x].job \in Jobs
        BY OutHasJob DEF PageInv, Out
  <2> QED BY <2>1 DEF PageInv, TypeOK, JobsOut
<1>4. TypeOK'
      BY <1>1 DEF PageInv, TypeOK, pageVars
<1>5. PolledExist'
      BY <1>1, <1>2, <1>3 DEF PageInv, PolledExist, pageVars
<1> QED BY <1>1, <1>2, <1>4, <1>5
        DEF PageInv, OneInterval, ButtonNotStuck, PolledIsOwn, ShownIsQuiet, pageVars

\* The answer to a poll is the status of a row that exists, or none.
LEMMA AnswerStep ==
  ASSUME PageInv, NEW x \in Polls, Serve(x) \/ Deny(x)
  PROVE  PageInv'
<1>1. poll[x].answer = "asked" /\ UNCHANGED <<row, posting, pageVars>>
      BY DEF Serve, Deny
<1>2. poll[x].job \in Jobs /\ poll[x].job \in JobsOut
      BY <1>1, OutHasJob DEF PageInv, Idle
<1>3. row[poll[x].job] \in {"running"} \cup Final
      BY <1>2 DEF PageInv, PolledExist, TypeOK
<1>4. PICK status \in {"refused", "running"} \cup Final :
        poll' = [poll EXCEPT ![x].answer = status]
      BY <1>3 DEF Serve, Deny
<1>5. poll' \in [Polls -> PollStates] /\ Out' = Out /\ JobsOut' = JobsOut
      BY <1>1, <1>4, PollHasAnswer DEF PageInv
<1>6. SomethingShown <=> SomethingShown'
      BY <1>1 DEF SomethingShown, Shown, pageVars
<1> QED BY <1>1, <1>5, <1>6
        DEF PageInv, TypeOK, OneInterval, ButtonNotStuck, PolledExist, PolledIsOwn,
            ShownIsQuiet, pageVars

\* A lost poll changes nothing else.
LEMMA PollFailsStep ==
  ASSUME PageInv, NEW x \in Polls, PollFails(x)
  PROVE  PageInv'
<1>1. /\ poll' \in [Polls -> PollStates]
      /\ Out' = Out \ {x}
      /\ JobsOut' \subseteq JobsOut
      BY PollEnds DEF PageInv, PollFails
<1>2. SomethingShown <=> SomethingShown'
      BY DEF SomethingShown, Shown, PollFails, pageVars
<1> QED BY <1>1, <1>2
        DEF PageInv, TypeOK, OneInterval, ButtonNotStuck, PolledExist, PolledIsOwn,
            ShownIsQuiet, PollFails, pageVars

\* An answer that ends the interval enables the button and shows its own job,
\* and it was the last one or is remembered as overlapping; another one finds
\* its own poll out, so that nothing is quiet.
LEMMA AnswerArrives ==
  ASSUME PageInv, NEW x \in Polls, Answer(x)
  PROVE  PageInv'
<1> DEFINE j == poll[x].job
           status == poll[x].answer
<1>1. /\ poll[x] # Idle
      /\ status # "asked"
      /\ label' = status
      /\ UNCHANGED <<row, posting, pollTimer, visible, overtaken>>
      BY DEF Answer
<1>2. /\ j \in Jobs /\ j \in JobsOut
      /\ status \in {"refused", "running"} \cup Final
      BY <1>1, OutHasJob DEF PageInv
<1>3. /\ poll' \in [Polls -> PollStates]
      /\ Out' = Out \ {x}
      /\ JobsOut' \subseteq JobsOut
      BY PollEnds DEF PageInv, Answer
<1>4. x \in Out
      BY <1>1 DEF Out
<1>5. CASE status \in Final
  <2>1. /\ live' = live \ {pollTimer}
        /\ enabled' = TRUE
        /\ result' \in {result, j}
        /\ error' \in {error, j}
        /\ overlap' = (overlap \/ Out # {x})
        BY <1>5 DEF Answer, IsFinal, Cleared, EnabledAfter
  <2>2. live' = {}
        BY <2>1 DEF PageInv, OneInterval
  <2>3. TypeOK'
        BY <1>1, <1>2, <1>3, <2>1, <2>2 DEF PageInv, TypeOK, JobsOrNone
  <2>4. PolledIsOwn'
        BY <1>1, <1>2, <1>3, <2>1 DEF PageInv, PolledIsOwn
  <2>5. ShownIsQuiet'
        BY <1>1, <1>3, <1>4, <1>5, <2>1, <2>2 DEF ShownIsQuiet
  <2> QED BY <1>1, <1>3, <2>1, <2>2, <2>3, <2>4, <2>5
          DEF PageInv, OneInterval, ButtonNotStuck, PolledExist
<1>6. CASE status \notin Final
  <2>1. UNCHANGED <<live, enabled, result, error, overlap>>
        BY <1>6 DEF Answer, IsFinal
  <2>2. TypeOK'
        BY <1>1, <1>2, <1>3, <2>1 DEF PageInv, TypeOK, JobsOrNone
  <2>3. SomethingShown <=> SomethingShown'
        BY <1>1, <2>1 DEF SomethingShown, Shown
  <2>4. ShownIsQuiet'
        BY <1>1, <1>4, <2>1, <2>3 DEF PageInv, ShownIsQuiet
  <2> QED BY <1>1, <1>3, <2>1, <2>2, <2>4
          DEF PageInv, OneInterval, ButtonNotStuck, PolledExist, PolledIsOwn
<1> QED BY <1>5, <1>6

\* An interval polls for the job pollTimer names.
LEMMA TickStep ==
  ASSUME PageInv, NEW j \in Jobs, Tick(j)
  PROVE  PageInv'
<1>1. j \in live /\ j = pollTimer /\ UNCHANGED <<row, posting, pageVars>>
      BY DEF PageInv, OneInterval, Tick
<1>2. PICK x \in Polls : poll' = [poll EXCEPT ![x] = [job |-> j, answer |-> "asked"]]
      BY DEF Tick
<1>3. poll' \in [Polls -> PollStates] /\ JobsOut' \subseteq JobsOut \cup {j}
      BY <1>2, PollBegins DEF PageInv
<1>4. SomethingShown <=> SomethingShown'
      BY <1>1 DEF SomethingShown, Shown, pageVars
<1>5. ShownIsQuiet'
      BY <1>1, <1>4 DEF PageInv, ShownIsQuiet, pageVars
<1> QED BY <1>1, <1>3, <1>5
        DEF PageInv, TypeOK, OneInterval, ButtonNotStuck, PolledExist, PolledIsOwn, pageVars

\* A submission that begins disables the button and is out; one that fails
\* enables it.
LEMMA SubmitStep ==
  ASSUME PageInv, NEW j \in Jobs, Submit(j) \/ SubmitFails(j)
  PROVE  PageInv'
<1>1. /\ UNCHANGED <<row, poll, live, pollTimer, visible, result, error, label, overtaken, overlap>>
      /\ posting' \subseteq Jobs
      /\ enabled' \in BOOLEAN
      BY DEF PageInv, TypeOK, Submit, SubmitFails
<1>2. ButtonNotStuck'
      BY DEF ButtonNotStuck, Submit, SubmitFails
<1>3. Out' = Out /\ JobsOut' = JobsOut /\ (SomethingShown <=> SomethingShown')
      BY <1>1 DEF Out, JobsOut, SomethingShown, Shown
<1> QED BY <1>1, <1>2, <1>3
        DEF PageInv, TypeOK, OneInterval, PolledExist, PolledIsOwn, ShownIsQuiet

\* An accepted one replaces the interval and hides what was shown.
LEMMA SubmitAcceptedStep ==
  ASSUME PageInv, NEW j \in Jobs, SubmitAccepted(j)
  PROVE  PageInv'
<1>1. /\ row[j] # "absent"
      /\ posting' = posting \ {j}
      /\ visible' = TRUE /\ result' = None /\ error' = None
      /\ live' = (live \ {pollTimer}) \cup {j}
      /\ pollTimer' = j /\ overtaken' = JobsOut /\ overlap' = FALSE
      /\ UNCHANGED <<row, poll, enabled, label>>
      BY DEF SubmitAccepted, Responded, Cleared
<1>2. live' = {j}
      BY <1>1 DEF PageInv, OneInterval
<1>3. Out' = Out /\ JobsOut' = JobsOut
      BY <1>1 DEF Out, JobsOut
<1>4. JobsOut \subseteq Jobs
      BY OutHasJob DEF PageInv, JobsOut, Out
<1>5. TypeOK'
      BY <1>1, <1>2, <1>4 DEF PageInv, TypeOK, JobsOrNone
<1>6. ~SomethingShown'
      BY <1>1, NoneAssumption DEF SomethingShown, Shown
<1> QED BY <1>1, <1>2, <1>3, <1>5, <1>6
        DEF PageInv, OneInterval, ButtonNotStuck, PolledExist, PolledIsOwn, ShownIsQuiet

\* The reset button stops the interval and hides the section.
LEMMA ResetStep ==
  ASSUME PageInv, Reset
  PROVE  PageInv'
<1>1. /\ live' = live \ {pollTimer} /\ visible' = FALSE /\ enabled' = TRUE
      /\ UNCHANGED <<row, posting, poll, pollTimer, result, error, label, overtaken, overlap>>
      BY DEF Reset, Cleared
<1>2. Out' = Out /\ JobsOut' = JobsOut /\ ~SomethingShown'
      BY <1>1 DEF Out, JobsOut, SomethingShown, Shown
<1> QED BY <1>1, <1>2
        DEF PageInv, TypeOK, OneInterval, ButtonNotStuck, PolledExist, PolledIsOwn, ShownIsQuiet

\* Every step keeps the invariant.
LEMMA PageStep == PageInv /\ [Next]_vars => PageInv'
<1> SUFFICES ASSUME PageInv, [Next]_vars PROVE PageInv'
    OBVIOUS
<1>1. CASE \E j \in Jobs : Create(j) \/ Finish(j)
      BY <1>1, RowStep
<1>2. CASE \E x \in Polls : Serve(x) \/ Deny(x)
      BY <1>2, AnswerStep
<1>3. CASE \E j \in Jobs : Submit(j) \/ SubmitFails(j)
      BY <1>3, SubmitStep
<1>4. CASE \E j \in Jobs : SubmitAccepted(j)
      BY <1>4, SubmitAcceptedStep
<1>5. CASE \E j \in Jobs : Tick(j)
      BY <1>5, TickStep
<1>6. CASE \E x \in Polls : PollFails(x)
      BY <1>6, PollFailsStep
<1>7. CASE \E x \in Polls : Answer(x)
      BY <1>7, AnswerArrives
<1>8. CASE Reset
      BY <1>8, ResetStep
<1>9. CASE UNCHANGED vars
  <2>1. Out' = Out /\ JobsOut' = JobsOut /\ (SomethingShown <=> SomethingShown')
        BY <1>9 DEF vars, pageVars, Out, JobsOut, SomethingShown, Shown
  <2> QED BY <1>9, <2>1
          DEF PageInv, TypeOK, OneInterval, ButtonNotStuck, PolledExist, PolledIsOwn,
              ShownIsQuiet, vars, pageVars
<1> QED BY <1>1, <1>2, <1>3, <1>4, <1>5, <1>6, <1>7, <1>8, <1>9 DEF Next, Server, Page

LEMMA PageAlways == Spec => []PageInv
<1> QED BY PageInit, PageStep, PTL DEF Spec

-----------------------------------------------------------------------------
\* Every variable of the page keeps its type; in particular a poll is never
\* answered for a job that has no row (HandleExtract answers after Create).
THEOREM PageTypeCorrect == Spec => []TypeOK
<1>1. PageInv => TypeOK
      BY DEF PageInv
<1> QED BY <1>1, PageAlways, PTL

\* However submissions, answers and clicks interleave, at most one interval
\* ticks and pollTimer names it, so that the next clearInterval stops it.
THEOREM IntervalIsOne == Spec => []OneInterval
<1>1. PageInv => OneInterval
      BY DEF PageInv
<1> QED BY <1>1, PageAlways, PTL

\* A disabled button always has something to wait for.
THEOREM ButtonWaits == Spec => []ButtonNotStuck
<1>1. PageInv => ButtonNotStuck
      BY DEF PageInv
<1> QED BY <1>1, PageAlways, PTL

\* What the page shows is of the job polled last or of one whose poll was out
\* when polling began, and it is over if nothing overlapped.
THEOREM ShownIsItsOwn == Spec => []ShownIsOwn
<1>1. PageInv => ShownIsOwn
  <2> SUFFICES ASSUME PageInv PROVE ShownIsOwn
      OBVIOUS
  <2>1. \A j \in Jobs : Shown(j) => j \in {pollTimer} \cup overtaken
        BY NoneAssumption DEF PageInv, PolledIsOwn, Shown
  <2>2. SomethingShown /\ ~overlap /\ overtaken = {} => label \in Final
        BY DEF PageInv, ShownIsQuiet
  <2> QED BY <2>1, <2>2 DEF ShownIsOwn
<1> QED BY <1>1, PageAlways, PTL
=============================================================================
