------------------------------ MODULE Polling -------------------------------
(***************************************************************************)
(* The page's script: submitJob, pollJob, showResult and resetForm, which  *)
(* share the variable pollTimer and the elements of the page.  The script  *)
(* runs one callback at a time, up to its next await; between two, the     *)
(* user clicks, intervals tick, and answers arrive in any order.  A poll   *)
(* is not cancelled by the end of its interval, and several may be out.    *)
(*                                                                         *)
(* Jobs are named by the id their submission gets.  A click with no key,   *)
(* file or valid schema does nothing and is left out; so is what a result  *)
(* looks like.                                                             *)
(***************************************************************************)
EXTENDS Naturals, FiniteSets

CONSTANTS
  Jobs,         \* job ids, one per submission
  Polls,        \* polls that may be out at the same time
  None

ASSUME NoneAssumption == None \notin Jobs

VARIABLES
  row,          \* the jobs table: the status HandleGetJob reads
  posting,      \* the submissions submitJob awaits
  enabled,      \* the submit button
  live,         \* the jobs whose interval is ticking
  pollTimer,    \* the interval pollTimer names
  poll,         \* per poll, the job it asks about and its answer so far
  visible,      \* resultSection
  result,       \* the job whose result resultContent shows, if it is not hidden
  error,        \* the job whose error errorContent shows, if it is not hidden
  label,        \* what the status label says
  overtaken,    \* history: the jobs of the polls that were out when polling began
  overlap       \* history: a poll was out when a result was shown

pageVars == <<enabled, live, pollTimer, visible, result, error, label, overtaken, overlap>>
vars == <<row, posting, poll, pageVars>>

Final == {"completed", "failed"}
JobsOrNone == Jobs \cup {None}

\* "refused" stands for an answer without a status: not found, over the limit.
Idle == [job |-> None, answer |-> "none"]
PollStates == {Idle} \cup
  [job : Jobs, answer : {"asked", "refused", "running"} \cup Final]

TypeOK ==
  /\ row \in [Jobs -> {"absent", "running"} \cup Final]
  /\ posting \subseteq Jobs
  /\ enabled \in BOOLEAN
  /\ live \subseteq Jobs
  /\ pollTimer \in JobsOrNone
  /\ poll \in [Polls -> PollStates]
  /\ visible \in BOOLEAN
  /\ result \in JobsOrNone
  /\ error \in JobsOrNone
  /\ label \in {"none", "refused", "running"} \cup Final
  /\ overtaken \subseteq Jobs
  /\ overlap \in BOOLEAN

Init ==
  /\ row = [j \in Jobs |-> "absent"]
  /\ posting = {}
  /\ enabled = TRUE
  /\ live = {}
  /\ pollTimer = None
  /\ poll = [x \in Polls |-> Idle]
  /\ visible = FALSE
  /\ result = None
  /\ error = None
  /\ label = "none"
  /\ overtaken = {}
  /\ overlap = FALSE

-----------------------------------------------------------------------------
(* The API and the workers *)

\* The request of a submission creates its job.
Create(j) ==
  /\ j \in posting
  /\ row[j] = "absent"
  /\ row' = [row EXCEPT ![j] = "running"]
  /\ UNCHANGED <<posting, poll, pageVars>>

Finish(j) ==
  /\ row[j] = "running"
  /\ \E status \in Final : row' = [row EXCEPT ![j] = status]
  /\ UNCHANGED <<posting, poll, pageVars>>

\* HandleGetJob reads the row.
Serve(x) ==
  /\ poll[x].answer = "asked"
  /\ poll' = [poll EXCEPT ![x].answer = row[poll[x].job]]
  /\ UNCHANGED <<row, posting, pageVars>>

\* The rate limiter, a failing query ("job not found") or a failing lookup of
\* the key answer instead.
Deny(x) ==
  /\ poll[x].answer = "asked"
  /\ poll' = [poll EXCEPT ![x].answer = "refused"]
  /\ UNCHANGED <<row, posting, pageVars>>

-----------------------------------------------------------------------------
(* submitJob *)

Submit(j) ==
  /\ enabled
  /\ row[j] = "absent"
  /\ j \notin posting
  /\ posting' = posting \cup {j}
  /\ enabled' = FALSE
  /\ UNCHANGED <<row, poll, live, pollTimer, visible, result, error, label, overtaken, overlap>>

\* An error response, or none at all.
SubmitFails(j) ==
  /\ j \in posting
  /\ posting' = posting \ {j}
  /\ enabled' = TRUE
  /\ UNCHANGED <<row, poll, live, pollTimer, visible, result, error, label, overtaken, overlap>>

\* Mutant: pollJob lets the interval before it tick on.
KeepTimer(timers) == timers

\* clearInterval(pollTimer): whichever interval pollTimer names by now.
Cleared(timers) == timers \ {pollTimer}

Out == {x \in Polls : poll[x] # Idle}
JobsOut == {poll[x].job : x \in Out}

\* Mutant: the 202 is sent before the row is inserted.
AnsweredEarly(j) == TRUE

\* The request has created its job.
Responded(j) == row[j] # "absent"

\* The 202 arrives: the section is shown without its old contents, and pollJob
\* replaces the interval.
SubmitAccepted(j) ==
  /\ j \in posting
  /\ Responded(j)
  /\ posting' = posting \ {j}
  /\ visible' = TRUE
  /\ result' = None
  /\ error' = None
  /\ live' = Cleared(live) \cup {j}
  /\ pollTimer' = j
  /\ overtaken' = JobsOut
  /\ overlap' = FALSE
  /\ UNCHANGED <<row, poll, enabled, label>>

-----------------------------------------------------------------------------
(* pollJob *)

Tick(j) ==
  /\ j \in live
  /\ \E x \in Polls :
       /\ poll[x] = Idle
       /\ poll' = [poll EXCEPT ![x] = [job |-> j, answer |-> "asked"]]
  /\ UNCHANGED <<row, posting, pageVars>>

\* The request or its answer is lost and the callback's catch ends it: the
\* interval ticks on.
PollFails(x) ==
  /\ poll[x].answer = "asked"
  /\ poll' = [poll EXCEPT ![x] = Idle]
  /\ UNCHANGED <<row, posting, pageVars>>

\* Mutants: the interval stops at the first answer; the button stays disabled
\* when a job has failed.
Ends(status) == TRUE
Reenabled(status) == enabled \/ status = "completed"

IsFinal(status) == status \in Final
EnabledAfter(status) == TRUE

\* A callback goes on: updateStatus, and for a final status the end of the
\* interval pollTimer names and showResult, which hides nothing.
Answer(x) ==
  LET j == poll[x].job
      status == poll[x].answer IN
  /\ poll[x] # Idle
  /\ status # "asked"
  /\ poll' = [poll EXCEPT ![x] = Idle]
  /\ label' = status
  /\ live' = IF IsFinal(status) THEN Cleared(live) ELSE live
  /\ IF status \in Final
     THEN /\ enabled' = EnabledAfter(status)
          /\ result' = IF status = "failed" THEN result ELSE j
          /\ error' = IF status = "failed" THEN j ELSE error
          /\ overlap' = (overlap \/ Out # {x})
     ELSE UNCHANGED <<enabled, result, error, overlap>>
  /\ UNCHANGED <<row, posting, pollTimer, visible, overtaken>>

-----------------------------------------------------------------------------
(* resetForm: its two buttons are in resultContent and errorContent. *)

Shown(j) == visible /\ (result = j \/ error = j)
SomethingShown == \E j \in Jobs : Shown(j)

Reset ==
  /\ SomethingShown
  /\ live' = Cleared(live)
  /\ visible' = FALSE
  /\ enabled' = TRUE
  /\ UNCHANGED <<row, posting, poll, pollTimer, result, error, label, overtaken, overlap>>

-----------------------------------------------------------------------------
Server == (\E j \in Jobs : Create(j) \/ Finish(j)) \/ (\E x \in Polls : Serve(x) \/ Deny(x))

Page ==
  \/ \E j \in Jobs : Submit(j) \/ SubmitFails(j) \/ SubmitAccepted(j) \/ Tick(j)
  \/ \E x \in Polls : PollFails(x) \/ Answer(x)
  \/ Reset

Next == Server \/ Page

Spec == Init /\ [][Next]_vars

\* Submissions are answered or fail, intervals tick, callbacks run, and a job
\* comes to an end.  Of polls that are sent again and again, some get the row.
Fairness ==
  /\ \A j \in Jobs : WF_vars(Create(j) \/ SubmitAccepted(j) \/ SubmitFails(j))
  /\ \A j \in Jobs : WF_vars(Finish(j)) /\ WF_vars(Tick(j))
  /\ \A x \in Polls : SF_vars(Serve(x)) /\ WF_vars(Answer(x))

FairSpec == Spec /\ Fairness

-----------------------------------------------------------------------------
\* There is one interval at most, and pollTimer names it, although two
\* submissions may be out at once: a late answer, or the reset button that the
\* last result still shows, enables the button while one is (pollJob clears the
\* interval before it sets another).
OneInterval == live \subseteq {pollTimer}

\* The page does not hang: a disabled button waits for an answer to a submission
\* or for an interval that still ticks, although any answer may clear it
\* (showResult enables the button before it looks at the status).
ButtonNotStuck == ~enabled => posting # {} \/ live # {}

\* What is shown is the job polled last, unless an older one's poll was out when
\* its polling began; and under a result the label says that the job is over,
\* unless a poll was out when the result was shown.
ShownIsOwn ==
  /\ \A j \in Jobs : Shown(j) => j \in {pollTimer} \cup overtaken
  /\ SomethingShown /\ ~overlap /\ overtaken = {} => label \in Final

\* The job polled last is shown at last, if no answer of another is still to
\* come: lost, denied and overlapping polls do not stop its interval.
Undisturbed(j) == j \in live /\ JobsOut \subseteq {j}
ResultArrives ==
  \A j \in Jobs : Undisturbed(j) ~> Shown(j) \/ pollTimer # j

\* The button comes back after every submission, however it ends.
ButtonComesBack == ~enabled ~> enabled
=============================================================================
