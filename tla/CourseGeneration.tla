--------------------------- MODULE CourseGeneration ---------------------------
(***************************************************************************)
(* One course generation job of the hosted service: the database row, the  *)
(* HTTP handlers that change it, the background tasks that carry it out    *)
(* and the recovery a starting worker process performs.                    *)
(*                                                                         *)
(* Every repository call is an UPDATE or SELECT of its own, so a handler   *)
(* or a task that reads the row and writes it later is two steps.  Only    *)
(* the columns that decide anything are kept; progress, messages, cached   *)
(* chapter text and time stamps are left out (a retry of cached text and   *)
(* a retry that generates the text again end in the same push).            *)
(*                                                                         *)
(* A dispatched task reaches its try block before any handler finishes two *)
(* database round trips, so a task is never cancelled before it started.   *)
(***************************************************************************)
EXTENDS Naturals, FiniteSets

CONSTANTS Procs,        \* worker processes of the service
          Handlers,     \* HTTP requests in flight at once
          MaxTasks,     \* background tasks alive at once
          Chapters,     \* chapter indexes of the outline
          Deps,         \* dependsOn of every chapter
          Requests,     \* expand requests a teacher may send
          MaxCourses,   \* course shells the LMS may create
          MaxExpand, MaxCancel, MaxResume, MaxRetry, MaxCrash,
          MaxEvents     \* requests and crashes of these five kinds together

ASSUME CourseAssumption ==
    /\ Chapters \subseteq Nat /\ IsFiniteSet(Chapters)
    /\ Deps \in [Chapters -> SUBSET Nat]
    /\ Requests \subseteq [approved: SUBSET Chapters, course: Nat]
    /\ \A r \in Requests : r.approved # {} /\ r.course \notin 1..MaxCourses
    /\ MaxTasks \in Nat /\ MaxCourses \in Nat
    /\ MaxExpand \in Nat /\ MaxCancel \in Nat /\ MaxResume \in Nat
    /\ MaxRetry \in Nat /\ MaxCrash \in Nat /\ MaxEvents \in Nat

VARIABLES job,      \* the row of course_generation_jobs
          file,     \* the uploaded document still exists
          task,     \* background tasks by slot
          handler,  \* HTTP handlers that have read the row and not yet answered
          proc,     \* worker processes: down, with a claimed job, or up
          claimed,  \* the request in the row a process has claimed
          shells,   \* course shells the LMS has created
          lms,      \* chapters the LMS has accepted, by course
          calls     \* how often each bounded event has happened

vars == <<job, file, task, handler, proc, claimed, shells, lms, calls>>

Active == {"CONVERTING", "EXPANDING", "RECOVERING_OUTLINE", "RECOVERING_EXPANDING"}
Terminal == {"COMPLETED", "FAILED", "CANCELLED"}
Phases == Active \cup Terminal \cup {"OUTLINE_READY"}

NoRequest == [approved |-> {}, course |-> 0]
NoJob == [phase |-> "NONE", cancel |-> FALSE, outline |-> FALSE, request |-> NoRequest,
          course |-> 0, completed |-> {}, failed |-> {}, fresh |-> FALSE]
NoTask == [kind |-> "none", proc |-> CHOOSE p \in Procs : TRUE, pc |-> "end",
           req |-> NoRequest, course |-> 0, done |-> {}, todo |-> {}, wave |-> {},
           completed |-> {}, failed |-> {}, chapter |-> 0, phase |-> "NONE"]
NoHandler == [op |-> "none", proc |-> CHOOSE p \in Procs : TRUE, seen |-> NoJob]

Tasks == 1..MaxTasks
Running(kinds) == {t \in Tasks : task[t].kind \in kinds}
FreeTasks == Running({"none"})
FirstFree == CHOOSE t \in FreeTasks : \A u \in FreeTasks : t <= u

Budget == [expand |-> MaxExpand, cancel |-> MaxCancel, resume |-> MaxResume,
           retry |-> MaxRetry, crash |-> MaxCrash]
Events == calls.expand + calls.cancel + calls.resume + calls.retry + calls.crash
Count(op) == /\ calls[op] < Budget[op] /\ Events < MaxEvents
             /\ calls' = [calls EXCEPT ![op] = @ + 1]

Dispatch(kind, p, req, ch) ==
    /\ FreeTasks # {}
    /\ task' = [task EXCEPT ![FirstFree] =
          [NoTask EXCEPT !.kind = kind, !.proc = p, !.pc = "begin", !.req = req, !.chapter = ch]]

\* What a task does next, with the fields it changes in its own frame.
Goto(t, pc) == task' = [task EXCEPT ![t].pc = pc]
End(t) == task' = [task EXCEPT ![t] = NoTask]

At(t, kind, pc) == task[t].kind = kind /\ task[t].pc = pc

\* Mutant: all chapters in one wave.
NextWaveAll(done, todo) == todo

(***************************************************************************)
(* The next wave: chapters whose dependencies have run in earlier waves of *)
(* this expansion, or the smallest chapter left when there is none.        *)
(***************************************************************************)
NextWave(done, todo) ==
    LET ready == {c \in todo : Deps[c] \subseteq done}
    IN  IF ready # {} THEN ready ELSE {CHOOSE c \in todo : \A d \in todo : c <= d}

Init ==
    /\ job = NoJob /\ file = FALSE
    /\ task = [t \in Tasks |-> NoTask]
    /\ handler = [h \in Handlers |-> NoHandler]
    /\ proc = [p \in Procs |-> "down"] /\ claimed = [p \in Procs |-> NoRequest]
    /\ shells = 0 /\ lms = {}
    /\ calls = [op \in DOMAIN Budget |-> 0]

-----------------------------------------------------------------------------
(* HTTP handlers.                                                          *)

GenerateOutline(p) ==
    /\ proc[p] = "up" /\ job.phase = "NONE"
    /\ file' = TRUE
    /\ job' = [NoJob EXCEPT !.phase = "CONVERTING"]
    /\ Dispatch("outline", p, NoRequest, 0)
    /\ UNCHANGED <<handler, proc, claimed, shells, lms, calls>>

\* Mutant: expand does not look at the phase of the job.
AcceptsAnyPhase(op) ==
    CASE op = "expand" -> job.phase # "NONE"
      [] op = "cancel" -> job.phase \in Active \cup {"OUTLINE_READY"}
      [] op = "resume" -> job.phase \in Terminal

\* The read and the early returns of expand, cancel and resume; a request that
\* is refused changes nothing.
Accepts(op) ==
    CASE op = "expand" -> job.phase = "OUTLINE_READY"
      [] op = "cancel" -> job.phase \in Active \cup {"OUTLINE_READY"}
      [] op = "resume" -> job.phase \in Terminal

ReadJob(h, p, op) ==
    /\ proc[p] = "up" /\ handler[h].op = "none"
    /\ Accepts(op)
    /\ Count(op)
    /\ handler' = [handler EXCEPT ![h] = [op |-> op, proc |-> p, seen |-> job]]
    /\ UNCHANGED <<job, file, task, proc, claimed, shells, lms>>

ExpandApply(h, req) ==
    /\ handler[h].op = "expand"
    /\ job' = [job EXCEPT !.phase = "EXPANDING", !.request = req, !.cancel = FALSE]
    /\ Dispatch("expand", handler[h].proc, req, 0)
    /\ handler' = [handler EXCEPT ![h] = NoHandler]
    /\ UNCHANGED <<file, proc, claimed, shells, lms, calls>>

CancelApply(h) ==
    /\ handler[h].op = "cancel"
    /\ \/ /\ handler[h].seen.phase = "OUTLINE_READY"
          /\ job' = [job EXCEPT !.phase = "CANCELLED", !.cancel = TRUE]
          /\ handler' = [handler EXCEPT ![h] = NoHandler]
       \/ /\ handler[h].seen.phase # "OUTLINE_READY"
          /\ job' = [job EXCEPT !.cancel = TRUE]
          /\ handler' = [handler EXCEPT ![h].op = "kill"]
    /\ UNCHANGED <<file, task, proc, claimed, shells, lms, calls>>

\* task.cancel() reaches only the tasks of the handler's own process.  The next
\* thing such a task does is to run its except clause, or to leave it.
InHandler(t) == task[t].pc \in {"unwinding", "failing", "ewrite", "ephase"}

CancelKill(h) ==
    /\ handler[h].op = "kill"
    /\ task' = [t \in Tasks |->
          IF task[t].kind = "none" \/ task[t].proc # handler[h].proc THEN task[t]
          ELSE IF InHandler(t) THEN NoTask ELSE [task[t] EXCEPT !.pc = "unwinding"]]
    /\ handler' = [handler EXCEPT ![h] = NoHandler]
    /\ UNCHANGED <<job, file, proc, claimed, shells, lms, calls>>

ResumeApply(h) ==
    LET seen == handler[h].seen
    IN
    /\ handler[h].op = "resume"
    /\ \/ /\ ~seen.outline /\ ~file
          /\ job' = [job EXCEPT !.cancel = FALSE]
          /\ UNCHANGED task
       \/ /\ ~seen.outline /\ file
          /\ job' = [job EXCEPT !.cancel = FALSE, !.phase = "CONVERTING"]
          /\ Dispatch("outline", handler[h].proc, NoRequest, 0)
       \/ /\ seen.outline /\ seen.request = NoRequest
          /\ job' = [job EXCEPT !.cancel = FALSE, !.phase = "OUTLINE_READY"]
          /\ UNCHANGED task
       \/ /\ seen.outline /\ seen.request # NoRequest
          /\ job' = [job EXCEPT !.cancel = FALSE, !.phase = "EXPANDING", !.request = seen.request]
          /\ Dispatch("expand", handler[h].proc, seen.request, 0)
    /\ handler' = [handler EXCEPT ![h] = NoHandler]
    /\ UNCHANGED <<file, proc, claimed, shells, lms, calls>>

\* The retry handler dispatches without another await after its read.
RetryChapter(p, ch) ==
    /\ proc[p] = "up" /\ job.phase \in {"COMPLETED", "EXPANDING"} /\ ch \in job.failed
    /\ Count("retry")
    /\ Dispatch("retry", p, NoRequest, ch)
    /\ UNCHANGED <<job, file, handler, proc, claimed, shells, lms>>

-----------------------------------------------------------------------------
(* Endings common to the tasks.  A cancellation, delivered at an await or  *)
(* found in the row, and an exception both lead to one more UPDATE; a      *)
(* cancellation delivered during that UPDATE ends the task without it.     *)

Unwound(t) ==
    /\ task[t].pc = "unwinding"
    /\ job' = [job EXCEPT !.phase = "CANCELLED", !.cancel = TRUE,
                          !.request = IF task[t].kind = "expand" THEN task[t].req ELSE @]
    /\ End(t)
    /\ UNCHANGED <<file, handler, proc, claimed, shells, lms, calls>>

PhaseFailed(t) ==
    /\ \/ At(t, "outline", "failing") \/ At(t, "expand", "failing")
    /\ job' = [job EXCEPT !.phase = "FAILED",
                          !.request = IF task[t].kind = "expand" THEN task[t].req ELSE @]
    /\ End(t)
    /\ UNCHANGED <<file, handler, proc, claimed, shells, lms, calls>>

-----------------------------------------------------------------------------
(* The outline task.                                                       *)

OutlineBegin(t) ==
    /\ At(t, "outline", "begin")
    /\ job' = [job EXCEPT !.phase = "CONVERTING", !.cancel = FALSE]
    /\ Goto(t, "convert")
    /\ UNCHANGED <<file, handler, proc, claimed, shells, lms, calls>>

\* A cancellation check followed by work that may raise.
OutlineWork(t, from, to) ==
    /\ At(t, "outline", from)
    /\ \/ job.cancel /\ Goto(t, "unwinding")
       \/ ~job.cancel /\ (from = "convert" => file) /\ Goto(t, to)
       \/ ~job.cancel /\ Goto(t, "failing")
    /\ UNCHANGED <<job, file, handler, proc, claimed, shells, lms, calls>>

OutlineSave(t) ==
    /\ At(t, "outline", "save")
    /\ job' = [job EXCEPT !.phase = "OUTLINE_READY", !.outline = TRUE, !.cancel = FALSE]
    /\ file' = FALSE
    /\ End(t)
    /\ UNCHANGED <<handler, proc, claimed, shells, lms, calls>>

-----------------------------------------------------------------------------
(* The expand task.                                                        *)

ExpandBegin(t) ==
    /\ At(t, "expand", "begin")
    /\ job' = [job EXCEPT !.phase = "EXPANDING", !.request = task[t].req, !.cancel = FALSE]
    /\ Goto(t, "shell")
    /\ UNCHANGED <<file, handler, proc, claimed, shells, lms, calls>>

\* The course comes from the request or is created in the LMS; the answer of a
\* creation that happened may be lost.
ExpandShell(t) ==
    LET given == task[t].req.course
    IN
    /\ At(t, "expand", "shell")
    /\ \/ job.cancel /\ Goto(t, "unwinding") /\ UNCHANGED shells
       \/ /\ ~job.cancel /\ Goto(t, "failing")
          /\ shells' \in IF given = 0 THEN {shells, shells + 1} ELSE {shells}
       \/ /\ ~job.cancel
          /\ shells' = IF given = 0 THEN shells + 1 ELSE shells
          /\ task' = [task EXCEPT ![t].pc = "course",
                                  ![t].course = IF given = 0 THEN shells' ELSE given]
    /\ shells' <= MaxCourses
    /\ UNCHANGED <<job, file, handler, proc, claimed, lms, calls>>

\* Mutant: the id of the new course stays in the task.
ExpandCourseUnsaved(t) ==
    /\ At(t, "expand", "course")
    /\ job' = [job EXCEPT !.phase = "EXPANDING"]
    /\ Goto(t, "plan")
    /\ UNCHANGED <<file, handler, proc, claimed, shells, lms, calls>>

ExpandCourse(t) ==
    /\ At(t, "expand", "course")
    /\ job' = [job EXCEPT !.phase = "EXPANDING", !.course = task[t].course]
    /\ Goto(t, "plan")
    /\ UNCHANGED <<file, handler, proc, claimed, shells, lms, calls>>

\* The chapters still to do, from the row as it is now; the task keeps its own
\* copy of both chapter lists from here on.
ExpandPlan(t) ==
    LET todo == task[t].req.approved \ job.completed
    IN
    /\ At(t, "expand", "plan")
    /\ IF job.cancel THEN Goto(t, "unwinding")
       ELSE task' = [task EXCEPT ![t].pc = IF todo = {} THEN "finish" ELSE "wave",
                                 ![t].todo = todo, ![t].done = {},
                                 ![t].completed = job.completed, ![t].failed = job.failed \ todo]
    /\ UNCHANGED <<job, file, handler, proc, claimed, shells, lms, calls>>

ExpandWave(t) ==
    /\ At(t, "expand", "wave")
    /\ IF job.cancel THEN Goto(t, "unwinding")
       ELSE task' = [task EXCEPT ![t].pc = "chapters",
                                 ![t].wave = NextWave(task[t].done, task[t].todo)]
    /\ UNCHANGED <<job, file, handler, proc, claimed, shells, lms, calls>>

\* Mutant: a push that was not answered counts as accepted.
PushChapterAssumed(t, ch, ok) ==
    \/ ~job.cancel /\ lms' = lms \cup {<<task[t].course, ch>>}
    \/ UNCHANGED lms

\* The chapters of a wave run concurrently.  One that finds the job cancelled,
\* whose text cannot be generated or whose push is not answered has failed; an
\* unanswered push may have been accepted.
PushChapter(t, ch, ok) ==
    \/ ok /\ ~job.cancel /\ lms' = lms \cup {<<task[t].course, ch>>}
    \/ ~ok /\ UNCHANGED lms
    \/ ~ok /\ ~job.cancel /\ lms' = lms \cup {<<task[t].course, ch>>}

ExpandChapter(t, ch) ==
    /\ At(t, "expand", "chapters") /\ ch \in task[t].wave
    /\ \E ok \in BOOLEAN :
         /\ PushChapter(t, ch, ok)
         /\ task' = [task EXCEPT ![t].wave = @ \ {ch},
                       ![t].completed = IF ok THEN @ \cup {ch} ELSE @,
                       ![t].failed = IF ok THEN @ ELSE @ \cup {ch}]
    /\ UNCHANGED <<job, file, handler, proc, claimed, shells, calls>>

\* Mutant: only the completed chapters are written back.
ExpandMergeCompleted(t) ==
    LET wave == NextWave(task[t].done, task[t].todo)
        left == task[t].todo \ wave
    IN
    /\ At(t, "expand", "chapters") /\ task[t].wave = {}
    /\ job' = [job EXCEPT !.completed = task[t].completed]
    /\ task' = [task EXCEPT ![t].done = @ \cup wave, ![t].todo = left,
                            ![t].pc = IF left = {} THEN "finish" ELSE "wave"]
    /\ UNCHANGED <<file, handler, proc, claimed, shells, lms, calls>>

ExpandMerge(t) ==
    LET wave == NextWave(task[t].done, task[t].todo)
        left == task[t].todo \ wave
    IN
    /\ At(t, "expand", "chapters") /\ task[t].wave = {}
    /\ job' = [job EXCEPT !.completed = task[t].completed, !.failed = task[t].failed]
    /\ task' = [task EXCEPT ![t].done = @ \cup wave, ![t].todo = left,
                            ![t].pc = IF left = {} THEN "finish" ELSE "wave"]
    /\ UNCHANGED <<file, handler, proc, claimed, shells, lms, calls>>

ExpandFinish(t) ==
    /\ At(t, "expand", "finish")
    /\ job' = [job EXCEPT !.phase = "COMPLETED", !.request = task[t].req]
    /\ End(t)
    /\ UNCHANGED <<file, handler, proc, claimed, shells, lms, calls>>

-----------------------------------------------------------------------------
(* The retry task.                                                         *)

RetryBegin(t) ==
    /\ At(t, "retry", "begin")
    /\ IF job.cancel THEN Goto(t, "unwinding")
       ELSE task' = [task EXCEPT ![t].pc = "lookup", ![t].course = job.course]
    /\ UNCHANGED <<job, file, handler, proc, claimed, shells, lms, calls>>

RetryLookup(t) ==
    /\ At(t, "retry", "lookup")
    /\ Goto(t, IF task[t].chapter \in job.failed /\ task[t].course # 0 THEN "push" ELSE "failing")
    /\ UNCHANGED <<job, file, handler, proc, claimed, shells, lms, calls>>

\* done is non-empty when the LMS answered the push.
RetryPush(t) ==
    /\ At(t, "retry", "push")
    /\ \E ok \in BOOLEAN :
         /\ \/ lms' = lms \cup {<<task[t].course, task[t].chapter>>}
            \/ ~ok /\ UNCHANGED lms
         /\ task' = [task EXCEPT ![t].pc = "check",
                                 ![t].done = IF ok THEN {task[t].chapter} ELSE {}]
    /\ UNCHANGED <<job, file, handler, proc, claimed, shells, calls>>

RetryCheck(t) ==
    /\ At(t, "retry", "check")
    /\ Goto(t, IF job.cancel THEN "unwinding" ELSE "reread")
    /\ UNCHANGED <<job, file, handler, proc, claimed, shells, lms, calls>>

RetryReread(t) ==
    LET ch == {task[t].chapter}
    IN
    /\ At(t, "retry", "reread")
    /\ task' = [task EXCEPT ![t].pc = "write",
                  ![t].completed = job.completed \cup task[t].done,
                  ![t].failed = IF task[t].done = ch THEN job.failed \ ch ELSE job.failed \cup ch]
    /\ UNCHANGED <<job, file, handler, proc, claimed, shells, lms, calls>>

\* The error path reads the row once and writes both the lists and the phase
\* from that copy.
RetryFailing(t) ==
    /\ At(t, "retry", "failing")
    /\ task' = [task EXCEPT ![t].pc = "ewrite", ![t].phase = job.phase,
                            ![t].completed = job.completed,
                            ![t].failed = job.failed \cup {task[t].chapter}]
    /\ UNCHANGED <<job, file, handler, proc, claimed, shells, lms, calls>>

RetryWrite(t, from, to) ==
    /\ At(t, "retry", from)
    /\ job' = [job EXCEPT !.completed = task[t].completed, !.failed = task[t].failed]
    /\ Goto(t, to)
    /\ UNCHANGED <<file, handler, proc, claimed, shells, lms, calls>>

RetryReadPhase(t) ==
    /\ At(t, "retry", "latest")
    /\ task' = [task EXCEPT ![t].pc = "phase", ![t].phase = job.phase]
    /\ UNCHANGED <<job, file, handler, proc, claimed, shells, lms, calls>>

\* update_phase with the phase read a step earlier.
RetryPhase(t) ==
    /\ \/ At(t, "retry", "phase") \/ At(t, "retry", "ephase")
    /\ job' = [job EXCEPT !.phase = task[t].phase]
    /\ End(t)
    /\ UNCHANGED <<file, handler, proc, claimed, shells, lms, calls>>

-----------------------------------------------------------------------------
(* Processes: a start claims the job for recovery, then dispatches it.     *)

Recovering == {"RECOVERING_OUTLINE", "RECOVERING_EXPANDING"}
\* Mutant: only outlines are recovered.
ClaimableOutline == job.phase \in {"CONVERTING", "RECOVERING_OUTLINE"} /\ ~job.cancel /\ ~job.fresh
Claimable == /\ job.phase \in Active /\ ~job.cancel
             /\ job.phase \in Recovering => ~job.fresh

Start(p) ==
    LET phase == IF job.phase \in {"CONVERTING", "RECOVERING_OUTLINE"}
                 THEN "RECOVERING_OUTLINE" ELSE "RECOVERING_EXPANDING"
    IN
    /\ proc[p] = "down"
    /\ \/ /\ ~Claimable
          /\ proc' = [proc EXCEPT ![p] = "up"]
          /\ UNCHANGED <<job, claimed>>
       \/ /\ Claimable
          /\ proc' = [proc EXCEPT ![p] = phase]
          /\ claimed' = [claimed EXCEPT ![p] = job.request]
          /\ job' = [job EXCEPT !.fresh = TRUE, !.phase = phase]
    /\ UNCHANGED <<file, task, handler, shells, lms, calls>>

\* The claimed copy decides, whatever the row says by now.
Recover(p) ==
    LET outline == proc[p] = "RECOVERING_OUTLINE"
        missing == IF outline THEN ~file ELSE claimed[p] = NoRequest
    IN
    /\ proc[p] \in Recovering
    /\ \/ /\ missing
          /\ job' = [job EXCEPT !.phase = "FAILED"]
          /\ UNCHANGED task
       \/ /\ ~missing
          /\ Dispatch(IF outline THEN "outline" ELSE "expand", p,
                      IF outline THEN NoRequest ELSE claimed[p], 0)
          /\ UNCHANGED job
    /\ proc' = [proc EXCEPT ![p] = "up"]
    /\ claimed' = [claimed EXCEPT ![p] = NoRequest]
    /\ UNCHANGED <<file, handler, shells, lms, calls>>

Crash(p) ==
    /\ proc[p] # "down" /\ Count("crash")
    /\ proc' = [proc EXCEPT ![p] = "down"]
    /\ claimed' = [claimed EXCEPT ![p] = NoRequest]
    /\ task' = [t \in Tasks |-> IF task[t].proc = p THEN NoTask ELSE task[t]]
    /\ handler' = [h \in Handlers |-> IF handler[h].proc = p THEN NoHandler ELSE handler[h]]
    /\ UNCHANGED <<job, file, shells, lms>>

\* Sixty seconds pass without an UPDATE of a row being recovered.
Age == /\ job.fresh /\ job' = [job EXCEPT !.fresh = FALSE]
       /\ UNCHANGED <<file, task, handler, proc, claimed, shells, lms, calls>>

-----------------------------------------------------------------------------
HandlerStep(h) == \/ \E req \in Requests : ExpandApply(h, req)
                  \/ CancelApply(h) \/ CancelKill(h) \/ ResumeApply(h)

TaskStep(t) ==
    \/ Unwound(t) \/ PhaseFailed(t)
    \/ OutlineBegin(t) \/ OutlineWork(t, "convert", "llm") \/ OutlineWork(t, "llm", "save")
    \/ OutlineSave(t)
    \/ ExpandBegin(t) \/ ExpandShell(t) \/ ExpandCourse(t) \/ ExpandPlan(t) \/ ExpandWave(t)
    \/ (\E ch \in Chapters : ExpandChapter(t, ch)) \/ ExpandMerge(t) \/ ExpandFinish(t)
    \/ RetryBegin(t) \/ RetryLookup(t) \/ RetryPush(t) \/ RetryCheck(t) \/ RetryReread(t)
    \/ RetryFailing(t)
    \/ RetryWrite(t, "write", "latest") \/ RetryWrite(t, "ewrite", "ephase")
    \/ RetryReadPhase(t) \/ RetryPhase(t)

Next ==
    \/ \E p \in Procs : GenerateOutline(p) \/ Start(p) \/ Recover(p) \/ Crash(p)
    \/ \E h \in Handlers, p \in Procs, op \in {"expand", "cancel", "resume"} : ReadJob(h, p, op)
    \/ \E p \in Procs, ch \in Chapters : RetryChapter(p, ch)
    \/ \E h \in Handlers : HandlerStep(h)
    \/ \E t \in Tasks : TaskStep(t)
    \/ Age

Spec == Init /\ [][Next]_vars

\* The event loop resumes every handler and task whose await has ended, every
\* await has a timeout, and a process that is down is started again.
Fairness == /\ \A h \in Handlers : WF_vars(HandlerStep(h))
            /\ \A t \in Tasks : WF_vars(TaskStep(t))
            /\ \A p \in Procs : WF_vars(Start(p) \/ Recover(p))

FairSpec == Spec /\ Fairness

-----------------------------------------------------------------------------
(* Properties.                                                             *)

\* The row, the tasks and the handlers hold what the columns, the frames and
\* the locals of the code can hold.
TypeOK ==
    /\ job.phase \in Phases \cup {"NONE"} /\ job.course \in Nat
    /\ job.completed \cup job.failed \subseteq Chapters
    /\ shells \in 0..MaxCourses
    /\ \A t \in Tasks : task[t].kind \in {"none", "outline", "expand", "retry"}
    /\ \A h \in Handlers : handler[h].op \in {"none", "expand", "cancel", "resume", "kill"}

\* A chapter the row records as completed has been accepted by the LMS,
\* whichever tasks raced to write the chapter lists and whichever pushes lost
\* their answer (update_chapters).
CompletedWasAccepted ==
    \A ch \in job.completed : \E pushed \in lms : pushed[2] = ch

\* The expansions of the job have followed one another: there is one worker, and
\* one request at most, or an expansion and a resume without a cancellation that
\* the resume overtakes.  Two expansions at once write the chapter lists from
\* copies of their own, and so does a retry.
OneAfterAnother ==
    /\ (\A p, q \in Procs : p = q) /\ calls.retry = 0
    /\ \/ calls.expand + calls.resume <= 1
       \/ calls.cancel = 0 /\ calls.expand <= 1 /\ calls.resume <= 1

\* A job that says COMPLETED, with nothing still working on it, accounts for
\* every approved chapter: each is in the completed or in the failed list, so
\* none is lost without a way to retry it, also when a crash interrupted the
\* expansion and the recovery planned it again (run_expand_phase_impl).
NoChapterForgotten ==
    job.phase = "COMPLETED" /\ Running({"expand", "retry"}) = {} /\ OneAfterAnother =>
        job.request.approved \subseteq job.completed \cup job.failed

\* One request to work on a job leads to at most one background task at a time
\* that carries out its outline or expansion, whatever cancellations, crashes
\* and recoveries come between (claim_jobs_for_recovery).  Two requests that
\* read the row before either changes it are both dispatched.
NoDuplicateWork ==
    calls.expand + calls.resume + calls.retry <= 1 =>
        Cardinality(Running({"outline", "expand"})) <= 1

\* A finished job whose approved chapters are all recorded as completed names
\* a course that contains all of them (run_expand_phase_impl).  An expansion
\* that is resumed or recovered creates another shell and pushes only what is
\* left, and a request may name another course, so this is promised while the
\* one shell is the only course.
CourseIsWhole ==
    /\ job.phase = "COMPLETED" /\ job.request.approved \subseteq job.completed
    /\ shells = 1 /\ \A r \in Requests : r.course = 0
    => \A ch \in job.request.approved : <<job.course, ch>> \in lms

\* A crash between the claim of a job and its dispatch, followed by a restart
\* within a minute: the claimed row is too young to be claimed again, recovery
\* runs only at the start of a process, and so nobody works on the job.
LeftRecovering ==
    /\ job.phase \in Recovering /\ \A p \in Procs : proc[p] = "up"
    /\ Running({"outline", "expand"}) = {}

\* A job in an active phase reaches a phase from which it can be continued: it
\* finishes, fails or waits for the teacher's approval, across crashes that
\* interrupt its work, its recovery or the recovery of that
\* (recover_course_generation_jobs_impl).  The code does not keep this in the
\* case above, nor after a cancellation or a retry, which each have a way to
\* leave the phase active for ever.
ActiveSettles ==
    job.phase \in Active ~> \/ job.phase \notin Active
                            \/ LeftRecovering
                            \/ calls.cancel > 0 \/ calls.retry > 0

\* The chapters have an order that the dependencies allow.
Orderable(s) ==
    /\ \A c \in s : Deps[c] \subseteq s
    /\ \A left \in SUBSET s : left # {} => \E c \in left : Deps[c] \cap left = {}

\* A chapter is generated only after the chapters it depends on, as long as
\* these are approved too and the dependencies have no cycle
\* (compute_execution_waves).  A second expansion leaves out what is completed
\* already, and then chapters that depend on it are no longer ordered among
\* each other.
WavesRespectDependencies ==
    \A t \in Running({"expand"}) :
        task[t].done \cup task[t].todo = task[t].req.approved /\ Orderable(task[t].req.approved) =>
            \A c \in task[t].wave : Deps[c] \subseteq task[t].done

=============================================================================
