------------------------ MODULE CourseGenerationProofs ------------------------
(***************************************************************************)
(* What a course generation job keeps to, for any number of chapters,      *)
(* workers, handlers, tasks and requests and any bounds on events.  The    *)
(* first part follows what is in the row, the task frames and the LMS; the *)
(* second follows which tasks and handlers can be under way together.      *)
(***************************************************************************)
EXTENDS CourseGeneration, FiniteSetTheorems, WellFoundedInduction, TLAPS

-----------------------------------------------------------------------------
(* Types.                                                                  *)

Worker == Procs \cup {NoTask.proc}
Lists == SUBSET Chapters
Asked == Requests \cup {NoRequest}
Kinds == {"none", "outline", "expand", "retry"}
Ops == {"none", "expand", "cancel", "resume", "kill"}
Places == {"end", "begin", "convert", "llm", "save", "unwinding", "failing", "shell", "course",
           "plan", "wave", "chapters", "finish", "lookup", "push", "check", "reread", "write", "latest",
           "phase", "ewrite", "ephase"}
JobPhases == Phases \cup {"NONE"}
Jobs == [phase: JobPhases, cancel: BOOLEAN, outline: BOOLEAN, request: Asked, course: Nat,
         completed: Lists, failed: Lists, fresh: BOOLEAN]
Frames == [kind: Kinds, proc: Worker, pc: Places, req: Asked, course: Nat, done: Lists, todo: Lists,
           wave: Lists, completed: Lists, failed: Lists, chapter: Nat, phase: JobPhases]
Frontends == [op: Ops, proc: Worker, seen: Jobs]
Counted == {"expand", "cancel", "resume", "retry", "crash"}

FramesTyped ==
    /\ task \in [Tasks -> Frames]
    /\ \A t \in Tasks : /\ task[t].kind = "none" => task[t].pc = "end"
                        /\ task[t].kind = "retry" => task[t].chapter \in Chapters

Typed ==
    /\ job \in Jobs /\ file \in BOOLEAN
    /\ FramesTyped
    /\ handler \in [Handlers -> Frontends]
    /\ proc \in [Procs -> {"down", "up", "RECOVERING_OUTLINE", "RECOVERING_EXPANDING"}]
    /\ claimed \in [Procs -> Asked]
    /\ shells \in 0 .. MaxCourses /\ lms \subseteq Nat \X Chapters
    /\ calls \in [Counted -> Nat]

-----------------------------------------------------------------------------
(* What is recorded has been done.                                         *)

Accepted(ch) == \E pushed \in lms : pushed[2] = ch

\* Every copy of the completed list, in the row and in the frames, holds only
\* chapters the LMS has accepted; so does the answer a retry has in its hands.
FrameAccepted(f) ==
    /\ \A ch \in f.completed : Accepted(ch)
    /\ f.kind = "retry" => \A ch \in f.done : Accepted(ch)

CopiesAccepted == CompletedWasAccepted /\ \A t \in Tasks : FrameAccepted(task[t])

\* As long as requests ask for a new course: courses are shells, chapters are
\* pushed to a course only, and one that has been pushed to is in the row.
FrameInShell(f) ==
    /\ f.course <= shells
    /\ f.kind = "expand" /\ f.pc \in {"course", "plan", "wave", "chapters"} => f.course # 0
    /\ f.kind = "expand" /\ f.pc \in {"plan", "wave", "chapters"} => job.course # 0
    /\ f.kind = "retry" /\ f.pc = "push" => f.course # 0
    /\ f.kind = "retry" /\ f.course # 0 => job.course # 0

CoursesAreShells ==
    (\A r \in Requests : r.course = 0) =>
        /\ job.course <= shells
        /\ \A pushed \in lms : pushed[1] \in 1 .. shells
        /\ lms # {} => job.course # 0
        /\ \A t \in Tasks : FrameInShell(task[t])

\* What a frame knows of its chapters: none is in a wave before the waves begin,
\* there is one to do when a wave is asked for, and none is left out of the lists,
\* the current wave and the waves to come.
FrameAccounts(f) ==
    f.kind = "expand" =>
        /\ f.pc \in {"begin", "shell", "course", "plan"} => f.wave = {}
        /\ f.pc = "wave" => /\ f.todo # {}
                            /\ f.req.approved \subseteq f.completed \cup f.failed \cup f.todo
        /\ f.pc = "chapters" =>
             /\ f.todo # {}
             /\ f.req.approved \subseteq
                  f.completed \cup f.failed \cup f.wave \cup (f.todo \ NextWave(f.done, f.todo))

\* WavesRespectDependencies, of one frame.
FrameOrdered(f) ==
    f.kind = "expand" /\ f.done \cup f.todo = f.req.approved /\ Orderable(f.req.approved) =>
        \A c \in f.wave : Deps[c] \subseteq f.done

FramesAccount == \A t \in Tasks : FrameAccounts(task[t]) /\ FrameOrdered(task[t])

\* Before the job is created there is nothing, and nothing will write that there
\* is no job.
JobExists ==
    /\ job.phase = "NONE" => /\ job = NoJob
                             /\ \A t \in Tasks : task[t].kind = "none"
                             /\ \A h \in Handlers : handler[h].op = "none"
                             /\ \A p \in Procs : proc[p] \notin Recovering
    /\ \A t \in Tasks : task[t].kind = "retry" /\ task[t].pc \in {"phase", "ewrite", "ephase"} =>
                          task[t].phase # "NONE"

Recorded == Typed /\ JobExists /\ CopiesAccepted /\ CoursesAreShells /\ FramesAccount

-----------------------------------------------------------------------------
(* What can be under way together, with one worker.                        *)

Working == Running({"outline", "expand"})
Waiting == {h \in Handlers : handler[h].op \in {"expand", "resume"}}
Quiet == Terminal \cup {"OUTLINE_READY"}

\* No request to work on the job has been read, or they follow one another.
Alone == calls.expand + calls.resume = 0 \/ OneAfterAnother

\* A request or a task exists only if it has been counted, and in a worker that
\* is up.
Accounted ==
    /\ calls.expand = 0 => \A h \in Handlers : handler[h].op # "expand"
    /\ calls.resume = 0 => \A h \in Handlers : handler[h].op # "resume"
    /\ calls.cancel = 0 => \A h \in Handlers : handler[h].op \notin {"cancel", "kill"}
    /\ calls.retry = 0 => \A t \in Tasks : task[t].kind # "retry"
    /\ \A p \in Procs : proc[p] # "up" => /\ \A t \in Tasks : task[t].kind = "none"
                                          /\ \A h \in Handlers : handler[h].op = "none"
    /\ \A p \in Procs : proc[p] \in Recovering => job.phase = proc[p]

\* While nothing has been cancelled, or nothing been asked for, a job that rests
\* has no task; neither has one that is finished.
RestMeansIdle ==
    OneAfterAnother =>
        /\ job.phase = "COMPLETED" => Working = {}
        /\ (calls.cancel = 0 \/ calls.expand + calls.resume = 0) /\ job.phase \in Quiet => Working = {}

\* A handler that will dispatch a task is the only one, finds no task, and, if
\* nothing is cancelled, the phase it has read.
HandlersAlone ==
    /\ Alone => /\ Waiting # {} => Working = {}
                /\ \A g, h \in Waiting : g = h
                /\ calls.cancel = 0 => \A h \in Handlers :
                     /\ handler[h].op = "expand" => job.phase = "OUTLINE_READY"
                     /\ handler[h].op = "resume" => job.phase \in Terminal
    /\ OneAfterAnother /\ calls.expand + calls.resume = 0 =>
         \A h \in Handlers : handler[h].op = "cancel" /\ handler[h].seen.phase = "OUTLINE_READY" =>
                               Working = {}

TasksAlone == Alone => \A t, u \in Working : t = u

\* The row of a finished job accounts for all chapters, and already does so when
\* the task is about to say that it is finished.
RowAccounts ==
    OneAfterAnother =>
        /\ job.phase = "COMPLETED" => job.request.approved \subseteq job.completed \cup job.failed
        /\ \A t \in Tasks : At(t, "expand", "finish") =>
             task[t].req.approved \subseteq job.completed \cup job.failed

SingleWorker ==
    (\A p, q \in Procs : p = q) =>
        Accounted /\ RestMeansIdle /\ HandlersAlone /\ TasksAlone /\ RowAccounts

IInv == Recorded /\ SingleWorker

-----------------------------------------------------------------------------
(* Steps as the invariants see them.                                       *)

\* The constant records are of their types (create_job, dispatch).
LEMMA ConstantTypes == NoJob \in Jobs /\ NoTask \in Frames /\ NoHandler \in Frontends
<1>1. NoJob \in Jobs
  BY DEF NoJob, Jobs, JobPhases, Asked, Lists
<1>2. NoTask \in Frames
  BY DEF NoTask, Frames, Kinds, Worker, Places, Asked, Lists, JobPhases
<1>3. NoHandler \in Frontends
  BY <1>1 DEF NoHandler, NoTask, Frontends, Ops, Worker
<1> QED
  BY <1>1, <1>2, <1>3

\* A new task is a frame, and its slot is the only one that changes
\* (dispatch_course_generation_task).
LEMMA DispatchShape ==
    ASSUME Typed, NEW kind \in Kinds \ {"none"}, NEW p \in Worker, NEW req \in Asked, NEW ch \in Nat,
           kind = "retry" => ch \in Chapters, Dispatch(kind, p, req, ch)
    PROVE  \E n \in Frames :
             /\ n.kind = kind /\ n.pc = "begin" /\ n.req = req /\ n.chapter = ch /\ n.course = 0
             /\ n.wave = {} /\ n.done = {} /\ n.completed = {}
             /\ FramesTyped'
             /\ \A t \in Tasks : task'[t] = task[t] \/ (task'[t] = n /\ t = FirstFree)
<1> DEFINE n == [NoTask EXCEPT !.kind = kind, !.proc = p, !.pc = "begin", !.req = req, !.chapter = ch]
<1>1. /\ n \in Frames /\ n.kind = kind /\ n.pc = "begin" /\ n.req = req /\ n.chapter = ch /\ n.course = 0
      /\ n.wave = {} /\ n.done = {} /\ n.completed = {}
  BY ConstantTypes DEF NoTask, Frames, Places
<1>2. task' = [task EXCEPT ![FirstFree] = n]
  BY DEF Dispatch
<1> HIDE DEF n
<1>3. /\ task' \in [Tasks -> Frames]
      /\ \A t \in Tasks : task'[t] = task[t] \/ (task'[t] = n /\ t = FirstFree)
  BY <1>1, <1>2 DEF Typed, FramesTyped
<1>4. FramesTyped'
  BY <1>1, <1>3 DEF Typed, FramesTyped
<1> QED
  BY <1>1, <1>3, <1>4

\* The next wave is made of chapters (compute_execution_waves).
LEMMA WaveTyped ==
    ASSUME NEW done, NEW todo \in Lists, todo # {}
    PROVE  NextWave(done, todo) \subseteq todo /\ NextWave(done, todo) # {}
<1> DEFINE R == OpToRel(LAMBDA x, y : x < y, Nat)
           ready == {c \in todo : Deps[c] \subseteq done}
<1>1. IsWellFoundedOn(R, Nat)
  BY NatLessThanWellFounded
<1>2. todo \subseteq Nat
  BY CourseAssumption DEF Lists
<1>3. PICK x \in todo : \A y \in todo : ~ (<<y, x>> \in R)
  BY <1>1, <1>2, WFMin
<1>4. \A y \in todo : ~ (y < x)
  BY <1>2, <1>3 DEF OpToRel
<1>5. \A y \in todo : x <= y
  BY <1>2, <1>4
<1>6. (CHOOSE c \in todo : \A d \in todo : c <= d) \in todo
  BY <1>5
<1> QED
  BY <1>6 DEF NextWave

\* A task that takes a step is there; it leaves the handlers, the processes, the
\* counters and the other tasks alone, and stays of its kind or ends.
TaskShape(t) ==
    /\ task[t].kind # "none"
    /\ task'[t].kind = task[t].kind \/ task'[t] = NoTask
    /\ \A u \in Tasks : u # t => task'[u] = task[u]
    /\ UNCHANGED <<handler, proc, claimed, calls>>

\* A step that replaces the frame of one task by another of its kind, or ends it,
\* and keeps the row, the file and the shells of their types.
LEMMA SlotTyped ==
    ASSUME Typed, NEW t \in Tasks, NEW n \in Frames, task' = [task EXCEPT ![t] = n],
           task[t].kind # "none",
           (n.kind = task[t].kind /\ n.chapter = task[t].chapter) \/ n = NoTask,
           job' \in Jobs, file' \in BOOLEAN, shells' \in 0 .. MaxCourses, lms' \subseteq Nat \X Chapters,
           UNCHANGED <<handler, proc, claimed, calls>>
    PROVE  Typed' /\ TaskShape(t)
<1>1. task' \in [Tasks -> Frames] /\ task'[t] = n /\ \A u \in Tasks : u # t => task'[u] = task[u]
  BY DEF Typed, FramesTyped
<1>2. (n.kind = "retry" => n.chapter \in Chapters) /\ (n.kind = "none" => n.pc = "end")
  BY DEF Typed, FramesTyped, NoTask
<1>3. \A u \in Tasks : /\ task'[u].kind = "none" => task'[u].pc = "end"
                       /\ task'[u].kind = "retry" => task'[u].chapter \in Chapters
  BY <1>1, <1>2 DEF Typed, FramesTyped
<1> QED
  BY <1>1, <1>3 DEF Typed, FramesTyped, TaskShape

\* Moving on, and ending, keep a frame a frame.
LEMMA GotoFrame ==
    ASSUME Typed, NEW t \in Tasks, NEW pc \in Places, Goto(t, pc)
    PROVE  \E n \in Frames : /\ task' = [task EXCEPT ![t] = n]
                             /\ n = [task[t] EXCEPT !.pc = pc]
                             /\ n.kind = task[t].kind /\ n.chapter = task[t].chapter
<1>1. task[t] \in Frames
  BY DEF Typed, FramesTyped
<1> DEFINE n == [task[t] EXCEPT !.pc = pc]
<1>2. n \in Frames /\ n.kind = task[t].kind /\ n.chapter = task[t].chapter
  BY <1>1 DEF Frames
<1>3. task' = [task EXCEPT ![t] = n]
  BY DEF Goto
<1> QED
  BY <1>2, <1>3

\* The names of the phases.
LEMMA PhaseNames ==
    /\ {"NONE", "CONVERTING", "EXPANDING", "RECOVERING_OUTLINE", "RECOVERING_EXPANDING", "COMPLETED",
        "FAILED", "CANCELLED", "OUTLINE_READY"} = JobPhases
    /\ Recovering \subseteq Active /\ Active \cap Terminal = {}
    /\ "OUTLINE_READY" \notin Active \cup Terminal
BY DEF JobPhases, Phases, Active, Terminal, Recovering

\* A step of a task keeps the types and has this shape.
LEMMA TaskTyped ==
    ASSUME Typed, FramesAccount, NEW t \in Tasks, TaskStep(t)
    PROVE  Typed' /\ TaskShape(t)
<1>f. /\ task[t] \in Frames /\ job \in Jobs /\ file \in BOOLEAN /\ shells \in 0 .. MaxCourses
      /\ lms \subseteq Nat \X Chapters
      /\ task[t].req \in Asked /\ task[t].course \in Nat /\ task[t].done \in Lists
      /\ task[t].todo \in Lists /\ task[t].wave \in Lists /\ task[t].completed \in Lists
      /\ task[t].failed \in Lists /\ task[t].chapter \in Nat /\ task[t].phase \in JobPhases
      /\ task[t].kind \in Kinds /\ task[t].pc \in Places
      /\ job.phase \in JobPhases /\ job.request \in Asked /\ job.course \in Nat
      /\ job.completed \in Lists /\ job.failed \in Lists
      /\ task[t].kind = "none" => task[t].pc = "end"
      /\ task[t].kind = "retry" => task[t].chapter \in Chapters
  BY DEF Typed, FramesTyped, Frames, Jobs
<1>n. ASSUME task[t].kind # "none", job' \in Jobs, file' \in BOOLEAN, shells' \in 0 .. MaxCourses,
             lms' \subseteq Nat \X Chapters,
             UNCHANGED <<handler, proc, claimed, calls>>,
             \/ End(t)
             \/ \E pc \in Places : Goto(t, pc)
             \/ \E n \in Frames : /\ task' = [task EXCEPT ![t] = n]
                                  /\ n.kind = task[t].kind /\ n.chapter = task[t].chapter
      PROVE  Typed' /\ TaskShape(t)
  <2>1. NoTask \in Frames
    BY ConstantTypes
  <2>2. PICK n \in Frames : /\ task' = [task EXCEPT ![t] = n]
                            /\ (n.kind = task[t].kind /\ n.chapter = task[t].chapter) \/ n = NoTask
    <3>1. CASE End(t)
      BY <2>1, <3>1 DEF End
    <3>2. CASE \E pc \in Places : Goto(t, pc)
      <4>1. PICK pc \in Places : Goto(t, pc)
        BY <3>2
      <4> QED
        BY <4>1, GotoFrame
    <3> QED
      BY <1>n, <3>1, <3>2
  <2> QED
    BY <1>n, <2>2, SlotTyped
<1>1. CASE Unwound(t)
  <2>1. job' \in Jobs
    BY <1>1, <1>f, PhaseNames DEF Unwound, Jobs
  <2> QED
    BY <1>1, <2>1, <1>f, <1>n DEF Unwound
<1>2. CASE PhaseFailed(t)
  <2>1. job' \in Jobs
    BY <1>2, <1>f, PhaseNames DEF PhaseFailed, Jobs
  <2> QED
    BY <1>2, <2>1, <1>f, <1>n DEF PhaseFailed, At
<1>3. CASE OutlineBegin(t)
  <2>1. job' \in Jobs
    BY <1>3, <1>f, PhaseNames DEF OutlineBegin, Jobs
  <2> QED
    BY <1>3, <2>1, <1>f, <1>n DEF OutlineBegin, At, Places
<1>4. CASE OutlineWork(t, "convert", "llm") \/ OutlineWork(t, "llm", "save")
  BY <1>4, <1>f, <1>n DEF OutlineWork, At, Places
<1>5. CASE OutlineSave(t)
  <2>1. job' \in Jobs
    BY <1>5, <1>f, PhaseNames DEF OutlineSave, Jobs
  <2> QED
    BY <1>5, <2>1, <1>f, <1>n DEF OutlineSave, At
<1>6. CASE ExpandBegin(t)
  <2>1. job' \in Jobs
    BY <1>6, <1>f, PhaseNames DEF ExpandBegin, Jobs
  <2> QED
    BY <1>6, <2>1, <1>f, <1>n DEF ExpandBegin, At, Places
<1>7. CASE ExpandShell(t)
  <2> DEFINE given == task[t].req.course
             n == [task[t] EXCEPT !.pc = "course", !.course = IF given = 0 THEN shells' ELSE given]
  <2>1. /\ job' = job /\ file' = file /\ lms' = lms /\ task[t].kind # "none"
        /\ UNCHANGED <<handler, proc, claimed, calls>>
    BY <1>7 DEF ExpandShell, At
  <2>2. given \in Nat
    BY <1>f, CourseAssumption DEF Asked, NoRequest
  <2>3. shells' \in 0 .. MaxCourses
    BY <1>7, <1>f, CourseAssumption DEF ExpandShell
  <2>4. \/ Goto(t, "unwinding") \/ Goto(t, "failing") \/ task' = [task EXCEPT ![t] = n]
    BY <1>7 DEF ExpandShell
  <2>5. (IF given = 0 THEN shells' ELSE given) \in Nat
    BY <2>2, <2>3, CourseAssumption
  <2>6. n \in Frames /\ n.kind = task[t].kind /\ n.chapter = task[t].chapter
    BY <1>f, <2>5 DEF Frames, Places
  <2> QED
    BY <1>f, <1>n, <2>1, <2>3, <2>4, <2>6 DEF Places
<1>8. CASE ExpandCourse(t)
  <2>1. job' \in Jobs
    BY <1>8, <1>f, PhaseNames DEF ExpandCourse, Jobs
  <2> QED
    BY <1>8, <2>1, <1>f, <1>n DEF ExpandCourse, At, Places
<1>9. CASE ExpandPlan(t)
  <2> DEFINE todo == task[t].req.approved \ job.completed
             n == [task[t] EXCEPT !.pc = IF todo = {} THEN "finish" ELSE "wave", !.todo = todo,
                       !.done = {}, !.completed = job.completed, !.failed = job.failed \ todo]
  <2>1. /\ job' = job /\ file' = file /\ shells' = shells /\ lms' = lms /\ task[t].kind # "none"
        /\ UNCHANGED <<handler, proc, claimed, calls>>
        /\ Goto(t, "unwinding") \/ task' = [task EXCEPT ![t] = n]
    BY <1>9 DEF ExpandPlan, At
  <2>2. todo \in Lists
    BY <1>f, CourseAssumption DEF Asked, NoRequest, Lists
  <2>3. n \in Frames /\ n.kind = task[t].kind /\ n.chapter = task[t].chapter
    BY <1>f, <2>2 DEF Frames, Places, Lists
  <2> QED
    BY <1>f, <1>n, <2>1, <2>3 DEF Places
<1>10. CASE ExpandWave(t)
  <2> DEFINE n == [task[t] EXCEPT !.pc = "chapters", !.wave = NextWave(task[t].done, task[t].todo)]
  <2>1. /\ job' = job /\ file' = file /\ shells' = shells /\ lms' = lms /\ task[t].kind # "none"
        /\ UNCHANGED <<handler, proc, claimed, calls>>
        /\ Goto(t, "unwinding") \/ task' = [task EXCEPT ![t] = n]
    BY <1>10 DEF ExpandWave, At
  <2>2. task[t].todo # {}
    BY <1>10 DEF ExpandWave, At, FramesAccount, FrameAccounts
  <2>3. NextWave(task[t].done, task[t].todo) \in Lists
    BY <1>f, <2>2, WaveTyped DEF Lists
  <2>4. n \in Frames /\ n.kind = task[t].kind /\ n.chapter = task[t].chapter
    BY <1>f, <2>3 DEF Frames, Places
  <2> QED
    BY <1>f, <1>n, <2>1, <2>4 DEF Places
<1>11. CASE \E ch \in Chapters : ExpandChapter(t, ch)
  <2>1. PICK ch \in Chapters : ExpandChapter(t, ch)
    BY <1>11
  <2>2. PICK ok \in BOOLEAN : task' = [task EXCEPT ![t].wave = @ \ {ch},
                       ![t].completed = IF ok THEN @ \cup {ch} ELSE @,
                       ![t].failed = IF ok THEN @ ELSE @ \cup {ch}]
    BY <2>1 DEF ExpandChapter
  <2> DEFINE n == [task[t] EXCEPT !.wave = @ \ {ch}, !.completed = IF ok THEN @ \cup {ch} ELSE @,
                                  !.failed = IF ok THEN @ ELSE @ \cup {ch}]
  <2>3. /\ job' = job /\ file' = file /\ shells' = shells /\ task[t].kind # "none"
        /\ UNCHANGED <<handler, proc, claimed, calls>> /\ task' = [task EXCEPT ![t] = n]
    BY <2>1, <2>2 DEF ExpandChapter, At
  <2>4. n \in Frames /\ n.kind = task[t].kind /\ n.chapter = task[t].chapter
    BY <1>f DEF Frames, Lists
  <2>5. lms' \subseteq Nat \X Chapters
    BY <2>1, <1>f DEF ExpandChapter, PushChapter
  <2> QED
    BY <1>f, <1>n, <2>3, <2>4, <2>5
<1>12. CASE ExpandMerge(t)
  <2> DEFINE wave == NextWave(task[t].done, task[t].todo)
             left == task[t].todo \ wave
             n == [task[t] EXCEPT !.done = @ \cup wave, !.todo = left,
                                  !.pc = IF left = {} THEN "finish" ELSE "wave"]
  <2>1. /\ file' = file /\ shells' = shells /\ lms' = lms /\ task[t].kind # "none"
        /\ UNCHANGED <<handler, proc, claimed, calls>> /\ task' = [task EXCEPT ![t] = n]
    BY <1>12 DEF ExpandMerge, At
  <2>2. job' \in Jobs
    BY <1>12, <1>f DEF ExpandMerge, Jobs
  <2>3. task[t].todo # {}
    BY <1>12 DEF ExpandMerge, At, FramesAccount, FrameAccounts
  <2>4. wave \in Lists
    BY <1>f, <2>3, WaveTyped DEF Lists
  <2>5. n \in Frames /\ n.kind = task[t].kind /\ n.chapter = task[t].chapter
    BY <1>f, <2>4 DEF Frames, Places, Lists
  <2> QED
    BY <1>f, <1>n, <2>1, <2>2, <2>5
<1>13. CASE ExpandFinish(t)
  <2>1. job' \in Jobs
    BY <1>13, <1>f, PhaseNames DEF ExpandFinish, Jobs
  <2> QED
    BY <1>13, <2>1, <1>f, <1>n DEF ExpandFinish, At
<1>14. CASE RetryBegin(t)
  <2> DEFINE n == [task[t] EXCEPT !.pc = "lookup", !.course = job.course]
  <2>1. /\ job' = job /\ file' = file /\ shells' = shells /\ lms' = lms /\ task[t].kind # "none"
        /\ UNCHANGED <<handler, proc, claimed, calls>>
        /\ Goto(t, "unwinding") \/ task' = [task EXCEPT ![t] = n]
    BY <1>14 DEF RetryBegin, At
  <2>2. n \in Frames /\ n.kind = task[t].kind /\ n.chapter = task[t].chapter
    BY <1>f DEF Frames, Places
  <2> QED
    BY <1>f, <1>n, <2>1, <2>2 DEF Places
<1>15. CASE RetryLookup(t) \/ RetryCheck(t)
  BY <1>15, <1>f, <1>n DEF RetryLookup, RetryCheck, At, Places
<1>16. CASE RetryPush(t)
  <2>1. PICK ok \in BOOLEAN : task' = [task EXCEPT ![t].pc = "check",
                                 ![t].done = IF ok THEN {task[t].chapter} ELSE {}]
    BY <1>16 DEF RetryPush
  <2> DEFINE n == [task[t] EXCEPT !.pc = "check", !.done = IF ok THEN {task[t].chapter} ELSE {}]
  <2>2. /\ job' = job /\ file' = file /\ shells' = shells /\ task[t].kind # "none"
        /\ UNCHANGED <<handler, proc, claimed, calls>> /\ task' = [task EXCEPT ![t] = n]
    BY <1>16, <2>1 DEF RetryPush, At
  <2>3. n \in Frames /\ n.kind = task[t].kind /\ n.chapter = task[t].chapter
    BY <1>16, <1>f DEF RetryPush, At, Frames, Places, Lists
  <2>4. lms' \subseteq Nat \X Chapters
    BY <1>16, <1>f DEF RetryPush, At
  <2> QED
    BY <1>f, <1>n, <2>2, <2>3, <2>4
<1>17. CASE RetryReread(t)
  <2> DEFINE ch == {task[t].chapter}
             n == [task[t] EXCEPT !.pc = "write", !.completed = job.completed \cup task[t].done,
                       !.failed = IF task[t].done = ch THEN job.failed \ ch ELSE job.failed \cup ch]
  <2>1. /\ job' = job /\ file' = file /\ shells' = shells /\ lms' = lms /\ task[t].kind # "none"
        /\ UNCHANGED <<handler, proc, claimed, calls>> /\ task[t].chapter \in Chapters
        /\ Goto(t, "unwinding") \/ task' = [task EXCEPT ![t] = n]
    BY <1>17, <1>f DEF RetryReread, At
  <2>2. n \in Frames /\ n.kind = task[t].kind /\ n.chapter = task[t].chapter
    BY <1>f, <2>1 DEF Frames, Places, Lists
  <2> QED
    BY <1>f, <1>n, <2>1, <2>2 DEF Places
<1>18. CASE RetryFailing(t)
  <2> DEFINE n == [task[t] EXCEPT !.pc = "ewrite", !.phase = job.phase,
                       !.completed = job.completed, !.failed = job.failed \cup {task[t].chapter}]
  <2>1. /\ job' = job /\ file' = file /\ shells' = shells /\ lms' = lms /\ task[t].kind # "none"
        /\ UNCHANGED <<handler, proc, claimed, calls>> /\ task[t].chapter \in Chapters
        /\ task' = [task EXCEPT ![t] = n]
    BY <1>18, <1>f DEF RetryFailing, At
  <2>2. n \in Frames /\ n.kind = task[t].kind /\ n.chapter = task[t].chapter
    BY <1>f, <2>1 DEF Frames, Places, Lists
  <2> QED
    BY <1>f, <1>n, <2>1, <2>2
<1>19. CASE RetryWrite(t, "write", "latest") \/ RetryWrite(t, "ewrite", "ephase")
  <2>1. job' \in Jobs
    BY <1>19, <1>f DEF RetryWrite, Jobs
  <2> QED
    BY <1>19, <2>1, <1>f, <1>n DEF RetryWrite, At, Places
<1>20. CASE RetryReadPhase(t)
  <2> DEFINE n == [task[t] EXCEPT !.pc = "phase", !.phase = job.phase]
  <2>1. /\ job' = job /\ file' = file /\ shells' = shells /\ lms' = lms /\ task[t].kind # "none"
        /\ UNCHANGED <<handler, proc, claimed, calls>> /\ task' = [task EXCEPT ![t] = n]
    BY <1>20, <1>f DEF RetryReadPhase, At
  <2>2. n \in Frames /\ n.kind = task[t].kind /\ n.chapter = task[t].chapter
    BY <1>f DEF Frames, Places
  <2> QED
    BY <1>f, <1>n, <2>1, <2>2
<1>21. CASE RetryPhase(t)
  <2>1. job' \in Jobs
    BY <1>21, <1>f DEF RetryPhase, Jobs
  <2> QED
    BY <1>21, <2>1, <1>f, <1>n DEF RetryPhase, At
<1> QED
  BY <1>1, <1>2, <1>3, <1>4, <1>5, <1>6, <1>7, <1>8, <1>9, <1>10, <1>11, <1>12, <1>13, <1>14, <1>15,
     <1>16, <1>17, <1>18, <1>19, <1>20, <1>21 DEF TaskStep

\* A counted request counts.
LEMMA CountTyped ==
    ASSUME Typed, NEW op \in Counted, Count(op)
    PROVE  /\ calls' \in [Counted -> Nat] /\ calls'[op] = calls[op] + 1
           /\ \A o \in Counted : o # op => calls'[o] = calls[o]
BY DEF Typed, Count

\* A frame that is reset is still one.
LEMMA ResetTyped ==
    ASSUME Typed, task' \in [Tasks -> Frames],
           \A t \in Tasks : \/ task'[t] = task[t] \/ task'[t] = NoTask
                            \/ /\ task'[t].kind = task[t].kind /\ task'[t].chapter = task[t].chapter
                               /\ task[t].kind # "none"
    PROVE  FramesTyped'
<1>1. NoTask.kind = "none" /\ NoTask.pc = "end"
  BY DEF NoTask
<1> QED
  BY <1>1 DEF Typed, FramesTyped

\* A step keeps the types.
LEMMA TypeStep ==
    ASSUME Typed, FramesAccount, [Next]_vars
    PROVE  Typed'
<1>f. /\ job \in Jobs /\ job.request \in Asked /\ job.phase \in JobPhases /\ file \in BOOLEAN
      /\ NoRequest \in Asked /\ 0 \in Nat /\ Procs \subseteq Worker /\ Requests \subseteq Asked
      /\ \A h \in Handlers : handler[h].proc \in Worker /\ handler[h].seen \in Jobs
      /\ \A h \in Handlers : handler[h].seen.request \in Asked
      /\ \A p \in Procs : claimed[p] \in Asked
  BY DEF Typed, Jobs, Frontends, Asked, Worker
<1>g. NoHandler \in Frontends /\ \A h \in Handlers : [handler EXCEPT ![h] = NoHandler] \in [Handlers -> Frontends]
  BY ConstantTypes DEF Typed
<1>1. ASSUME NEW p \in Procs, GenerateOutline(p) PROVE Typed'
  <2>1. job' \in Jobs
    BY <1>1, ConstantTypes, PhaseNames DEF GenerateOutline, Jobs
  <2>2. FramesTyped'
    BY <1>1, <1>f, DispatchShape DEF GenerateOutline, Kinds
  <2> QED
    BY <1>1, <2>1, <2>2 DEF GenerateOutline, Typed
<1>2. ASSUME NEW p \in Procs, Start(p) PROVE Typed'
  <2>1. job' \in Jobs
    BY <1>2, <1>f, PhaseNames DEF Start, Jobs
  <2>2. task' = task
    BY <1>2 DEF Start
  <2>3. proc' \in [Procs -> {"down", "up", "RECOVERING_OUTLINE", "RECOVERING_EXPANDING"}]
    BY <1>2 DEF Start, Typed
  <2>4. claimed' \in [Procs -> Asked]
    BY <1>2, <1>f DEF Start, Typed
  <2> QED
    BY <1>2, <2>1, <2>2, <2>3, <2>4 DEF Start, Typed, FramesTyped
<1>3. ASSUME NEW p \in Procs, Recover(p) PROVE Typed'
  <2>1. job' \in Jobs
    BY <1>3, <1>f, PhaseNames DEF Recover, Jobs
  <2>2. FramesTyped'
    <3> DEFINE kind == IF proc[p] = "RECOVERING_OUTLINE" THEN "outline" ELSE "expand"
               req == IF proc[p] = "RECOVERING_OUTLINE" THEN NoRequest ELSE claimed[p]
    <3>1. kind \in Kinds \ {"none"} /\ kind # "retry" /\ req \in Asked
      BY <1>f DEF Kinds
    <3>2. task' = task \/ Dispatch(kind, p, req, 0)
      BY <1>3 DEF Recover
    <3> QED
      BY <1>f, <3>1, <3>2, DispatchShape DEF Typed, FramesTyped
  <2>3. proc' \in [Procs -> {"down", "up", "RECOVERING_OUTLINE", "RECOVERING_EXPANDING"}]
    BY <1>3 DEF Recover, Typed
  <2>4. claimed' \in [Procs -> Asked]
    BY <1>3, <1>f DEF Recover, Typed
  <2> QED
    BY <1>3, <2>1, <2>2, <2>3, <2>4 DEF Recover, Typed
<1>4. ASSUME NEW p \in Procs, Crash(p) PROVE Typed'
  <2>1. task' \in [Tasks -> Frames] /\ \A t \in Tasks : task'[t] = task[t] \/ task'[t] = NoTask
    BY <1>4, ConstantTypes DEF Crash, Typed, FramesTyped
  <2>2. handler' \in [Handlers -> Frontends]
    BY <1>4, ConstantTypes DEF Crash, Typed
  <2>3. calls' \in [Counted -> Nat]
    BY <1>4, CountTyped DEF Crash, Counted
  <2>4. proc' \in [Procs -> {"down", "up", "RECOVERING_OUTLINE", "RECOVERING_EXPANDING"}]
    BY <1>4 DEF Crash, Typed
  <2>5. claimed' \in [Procs -> Asked]
    BY <1>4, <1>f DEF Crash, Typed
  <2> QED
    BY <1>4, <2>1, <2>2, <2>3, <2>4, <2>5, ResetTyped DEF Crash, Typed
<1>5. ASSUME NEW h \in Handlers, NEW p \in Procs, NEW op \in {"expand", "cancel", "resume"}, ReadJob(h, p, op)
      PROVE  Typed'
  <2>1. [op |-> op, proc |-> p, seen |-> job] \in Frontends
    BY <1>f DEF Frontends, Ops
  <2>2. handler' \in [Handlers -> Frontends]
    BY <1>5, <2>1 DEF ReadJob, Typed
  <2>3. calls' \in [Counted -> Nat]
    BY <1>5, CountTyped DEF ReadJob, Counted
  <2> QED
    BY <1>5, <2>2, <2>3 DEF ReadJob, Typed, FramesTyped
<1>6. ASSUME NEW p \in Procs, NEW ch \in Chapters, RetryChapter(p, ch) PROVE Typed'
  <2>1. FramesTyped'
    BY <1>6, <1>f, DispatchShape, CourseAssumption DEF RetryChapter, Kinds
  <2>2. calls' \in [Counted -> Nat]
    BY <1>6, CountTyped DEF RetryChapter, Counted
  <2> QED
    BY <1>6, <2>1, <2>2 DEF RetryChapter, Typed
<1>7. ASSUME NEW h \in Handlers, NEW req \in Requests, ExpandApply(h, req) PROVE Typed'
  <2>1. job' \in Jobs
    BY <1>7, <1>f, PhaseNames DEF ExpandApply, Jobs
  <2>2. FramesTyped'
    BY <1>7, <1>f, DispatchShape DEF ExpandApply, Kinds
  <2> QED
    BY <1>7, <1>g, <2>1, <2>2 DEF ExpandApply, Typed
<1>8. ASSUME NEW h \in Handlers, CancelApply(h) PROVE Typed'
  <2>1. job' \in Jobs
    BY <1>8, <1>f, PhaseNames DEF CancelApply, Jobs
  <2>2. [handler[h] EXCEPT !.op = "kill"] \in Frontends
    BY DEF Typed, Frontends, Ops
  <2>3. handler' \in [Handlers -> Frontends]
    BY <1>8, <1>g, <2>2 DEF CancelApply, Typed
  <2> QED
    BY <1>8, <2>1, <2>3 DEF CancelApply, Typed, FramesTyped
<1>9. ASSUME NEW h \in Handlers, CancelKill(h) PROVE Typed'
  <2>1. ASSUME NEW t \in Tasks
        PROVE  LET n == [task[t] EXCEPT !.pc = "unwinding"]
               IN  n \in Frames /\ n.kind = task[t].kind /\ n.chapter = task[t].chapter
    BY DEF Typed, FramesTyped, Frames, Places
  <2>2. task' \in [Tasks -> Frames]
    BY <1>9, <2>1, ConstantTypes DEF CancelKill, Typed, FramesTyped
  <2>3. \A t \in Tasks : \/ task'[t] = task[t] \/ task'[t] = NoTask
                         \/ /\ task'[t].kind = task[t].kind /\ task'[t].chapter = task[t].chapter
                            /\ task[t].kind # "none"
    BY <1>9, <2>1 DEF CancelKill
  <2> QED
    BY <1>9, <1>g, <2>2, <2>3, ResetTyped DEF CancelKill, Typed
<1>10. ASSUME NEW h \in Handlers, ResumeApply(h) PROVE Typed'
  <2>1. job' \in Jobs
    BY <1>10, <1>f, PhaseNames DEF ResumeApply, Jobs
  <2>2. \/ task' = task \/ Dispatch("outline", handler[h].proc, NoRequest, 0)
        \/ Dispatch("expand", handler[h].proc, handler[h].seen.request, 0)
    BY <1>10 DEF ResumeApply
  <2>3. FramesTyped'
    BY <1>f, <2>2, DispatchShape DEF Kinds, Typed, FramesTyped
  <2> QED
    BY <1>10, <1>g, <2>1, <2>3 DEF ResumeApply, Typed
<1>11. CASE Age
  <2>1. job' \in Jobs
    BY <1>11, <1>f DEF Age, Jobs
  <2> QED
    BY <1>11, <2>1 DEF Age, Typed, FramesTyped
<1>12. CASE UNCHANGED vars
  BY <1>12 DEF vars, Typed, FramesTyped
<1>13. ASSUME NEW t \in Tasks, TaskStep(t) PROVE Typed'
  BY <1>13, TaskTyped
<1> QED
  BY <1>1, <1>2, <1>3, <1>4, <1>5, <1>6, <1>7, <1>8, <1>9, <1>10, <1>11, <1>12, <1>13 DEF Next, HandlerStep

-----------------------------------------------------------------------------
(* What a step of a task does to what is recorded.                         *)

\* The next wave of an expansion that has all its chapters before it or behind it
\* holds only chapters whose dependencies are behind it, if there is an order
\* (compute_execution_waves).
LEMMA WaveOrdered ==
    ASSUME NEW done \in Lists, NEW todo \in Lists, todo # {}, Orderable(done \cup todo)
    PROVE  \A c \in NextWave(done, todo) : Deps[c] \subseteq done
<1>1. PICK c \in todo : Deps[c] \cap todo = {}
  BY DEF Orderable
<1>2. Deps[c] \subseteq done \cup todo
  BY <1>1 DEF Orderable
<1>3. c \in {d \in todo : Deps[d] \subseteq done}
  BY <1>1, <1>2
<1> QED
  BY <1>3 DEF NextWave

\* A step of a task accounts for its chapters and keeps their order
\* (run_expand_phase_impl).
LEMMA TaskAccounts ==
    ASSUME Typed, FramesAccount, NEW t \in Tasks, TaskStep(t)
    PROVE  FrameAccounts(task'[t]) /\ FrameOrdered(task'[t])
<1> DEFINE f == task[t]
           g == task'[t]
<1>f. /\ f \in Frames /\ FrameAccounts(f) /\ FrameOrdered(f) /\ task \in [Tasks -> Frames]
      /\ f.req \in Asked /\ f.done \in Lists /\ f.todo \in Lists /\ f.wave \in Lists
      /\ f.completed \in Lists /\ f.failed \in Lists
      /\ job.completed \in Lists /\ job.failed \in Lists
  BY DEF Typed, FramesTyped, FramesAccount, Frames, Jobs
<1>s. TaskShape(t)
  BY TaskTyped
<1>n. ASSUME g.kind # "expand" PROVE FrameAccounts(g) /\ FrameOrdered(g)
  BY <1>n DEF FrameAccounts, FrameOrdered
<1>e. ASSUME End(t) PROVE FrameAccounts(g) /\ FrameOrdered(g)
  <2>1. g = NoTask
    BY <1>e, <1>f DEF End
  <2> QED
    BY <1>n, <2>1 DEF NoTask
<1>k. ASSUME f.kind # "expand" PROVE FrameAccounts(g) /\ FrameOrdered(g)
  <2>1. g.kind # "expand"
    BY <1>k, <1>s DEF TaskShape, NoTask
  <2> QED
    BY <1>n, <2>1
<1>g. ASSUME NEW pc \in Places, Goto(t, pc), pc \notin {"wave", "chapters"},
             pc \in {"shell", "plan"} => f.wave = {}, pc \notin {"begin", "course"}
      PROVE  FrameAccounts(g) /\ FrameOrdered(g)
  <2>1. g = [f EXCEPT !.pc = pc]
    BY <1>g, <1>f DEF Goto
  <2>2. /\ g.pc = pc /\ g.kind = f.kind /\ g.req = f.req /\ g.done = f.done /\ g.todo = f.todo
        /\ g.wave = f.wave
    BY <2>1, <1>f DEF Frames
  <2>3. FrameAccounts(g)
    BY <1>g, <2>2 DEF FrameAccounts
  <2> QED
    BY <2>2, <2>3, <1>f DEF FrameOrdered
<1>6. CASE ExpandBegin(t)
  BY <1>6, <1>f, <1>g DEF ExpandBegin, At, Places, FrameAccounts
<1>7. CASE ExpandShell(t)
  <2>1. CASE Goto(t, "unwinding") \/ Goto(t, "failing")
    BY <2>1, <1>g DEF Places
  <2>2. CASE task' = [task EXCEPT ![t].pc = "course",
                        ![t].course = IF f.req.course = 0 THEN shells' ELSE f.req.course]
    <3>1. /\ g.pc = "course" /\ g.kind = f.kind /\ g.req = f.req /\ g.done = f.done
          /\ g.todo = f.todo /\ g.wave = f.wave
      BY <2>2, <1>f DEF Frames
    <3>2. FrameAccounts(g)
      BY <1>7, <3>1, <1>f DEF FrameAccounts, ExpandShell, At
    <3> QED
      BY <3>1, <3>2, <1>f DEF FrameOrdered
  <2> QED
    BY <1>7, <2>1, <2>2 DEF ExpandShell
<1>8. CASE ExpandCourse(t)
  BY <1>8, <1>f, <1>g DEF ExpandCourse, At, Places, FrameAccounts
<1>9. CASE ExpandPlan(t)
  <2> DEFINE todo == f.req.approved \ job.completed
  <2>1. CASE Goto(t, "unwinding")
    BY <2>1, <1>g DEF Places
  <2>2. CASE task' = [task EXCEPT ![t].pc = IF todo = {} THEN "finish" ELSE "wave",
                                  ![t].todo = todo, ![t].done = {},
                                  ![t].completed = job.completed, ![t].failed = job.failed \ todo]
    <3>1. /\ g.pc = (IF todo = {} THEN "finish" ELSE "wave") /\ g.req = f.req /\ g.todo = todo
          /\ g.wave = f.wave /\ g.completed = job.completed
      BY <2>2, <1>f DEF Frames
    <3>2. f.wave = {}
      BY <1>9, <1>f DEF FrameAccounts, ExpandPlan, At
    <3>3. FrameAccounts(g)
      BY <3>1 DEF FrameAccounts
    <3> QED
      BY <3>1, <3>2, <3>3 DEF FrameOrdered
  <2> QED
    BY <1>9, <2>1, <2>2 DEF ExpandPlan
<1>10. CASE ExpandWave(t)
  <2> DEFINE wave == NextWave(f.done, f.todo)
  <2>1. CASE Goto(t, "unwinding")
    BY <2>1, <1>g DEF Places
  <2>2. CASE task' = [task EXCEPT ![t].pc = "chapters", ![t].wave = wave]
    <3> HIDE DEF wave
    <3>1. /\ g.pc = "chapters" /\ g.kind = f.kind /\ g.req = f.req /\ g.done = f.done
          /\ g.todo = f.todo /\ g.wave = wave /\ g.completed = f.completed /\ g.failed = f.failed
      BY <2>2, <1>f DEF Frames
    <3> USE DEF wave
    <3>2. f.todo # {} /\ f.req.approved \subseteq f.completed \cup f.failed \cup f.todo
      BY <1>10, <1>f DEF FrameAccounts, ExpandWave, At
    <3>3. FrameAccounts(g)
      BY <3>1, <3>2 DEF FrameAccounts
    <3>4. FrameOrdered(g)
      BY <3>1, <3>2, <1>f, WaveOrdered DEF FrameOrdered
    <3> QED
      BY <3>3, <3>4
  <2> QED
    BY <1>10, <2>1, <2>2 DEF ExpandWave
<1>11. CASE \E ch \in Chapters : ExpandChapter(t, ch)
  <2>1. PICK ch \in Chapters : ExpandChapter(t, ch)
    BY <1>11
  <2>2. PICK ok \in BOOLEAN : task' = [task EXCEPT ![t].wave = @ \ {ch},
                       ![t].completed = IF ok THEN @ \cup {ch} ELSE @,
                       ![t].failed = IF ok THEN @ ELSE @ \cup {ch}]
    BY <2>1 DEF ExpandChapter
  <2>3. /\ g.pc = f.pc /\ g.kind = f.kind /\ g.req = f.req /\ g.done = f.done
        /\ g.todo = f.todo /\ g.wave = f.wave \ {ch}
        /\ g.completed = (IF ok THEN f.completed \cup {ch} ELSE f.completed)
        /\ g.failed = (IF ok THEN f.failed ELSE f.failed \cup {ch})
    BY <2>2, <1>f DEF Frames
  <2>4. f.kind = "expand" /\ f.pc = "chapters"
    BY <2>1 DEF ExpandChapter, At
  <2>5. FrameAccounts(g)
    BY <2>3, <2>4, <1>f DEF FrameAccounts
  <2> QED
    BY <2>3, <2>5, <1>f DEF FrameOrdered
<1>12. CASE ExpandMerge(t)
  <2> DEFINE wave == NextWave(f.done, f.todo)
             left == f.todo \ wave
  <2>1. task' = [task EXCEPT ![t].done = @ \cup wave, ![t].todo = left,
                             ![t].pc = IF left = {} THEN "finish" ELSE "wave"]
    BY <1>12 DEF ExpandMerge
  <2>2. f.kind = "expand" /\ f.pc = "chapters" /\ f.wave = {}
    BY <1>12 DEF ExpandMerge, At
  <2>3. f.req.approved \subseteq f.completed \cup f.failed \cup left
    BY <2>2, <1>f DEF FrameAccounts
  <2> HIDE DEF wave, left
  <2>4. /\ g.pc = (IF left = {} THEN "finish" ELSE "wave") /\ g.req = f.req /\ g.todo = left
        /\ g.wave = f.wave /\ g.completed = f.completed /\ g.failed = f.failed
    BY <2>1, <1>f DEF Frames
  <2>5. FrameAccounts(g)
    BY <2>2, <2>3, <2>4 DEF FrameAccounts
  <2> QED
    BY <2>2, <2>4, <2>5 DEF FrameOrdered
<1>13. CASE Unwound(t) \/ PhaseFailed(t) \/ ExpandFinish(t) \/ OutlineSave(t) \/ RetryPhase(t)
  BY <1>13, <1>e DEF Unwound, PhaseFailed, ExpandFinish, OutlineSave, RetryPhase
<1>14. CASE f.kind # "expand"
  BY <1>14, <1>k
<1> QED
  BY <1>6, <1>7, <1>8, <1>9, <1>10, <1>11, <1>12, <1>13, <1>14
     DEF TaskStep, At, OutlineBegin, OutlineWork, RetryBegin, RetryLookup, RetryPush, RetryCheck, RetryReread,
         RetryFailing, RetryWrite, RetryReadPhase

\* A step of a task writes down only what the LMS has accepted (update_chapters).
LEMMA TaskAccepts ==
    ASSUME Typed, FramesAccount, CopiesAccepted, NEW t \in Tasks, TaskStep(t)
    PROVE  CopiesAccepted'
<1> DEFINE f == task[t]
           g == task'[t]
<1>f. /\ f \in Frames /\ task \in [Tasks -> Frames] /\ job \in Jobs
      /\ FrameAccepted(f) /\ \A ch \in job.completed : Accepted(ch)
  BY DEF Typed, FramesTyped, CopiesAccepted, CompletedWasAccepted, Accepted
<1>s. TaskShape(t)
  BY TaskTyped
<1>m. lms \subseteq lms'
  BY DEF TaskStep, Unwound, PhaseFailed, OutlineBegin, OutlineWork, OutlineSave, ExpandBegin,
         ExpandShell, ExpandCourse, ExpandPlan, ExpandWave, ExpandChapter, PushChapter, ExpandMerge,
         ExpandFinish, RetryBegin, RetryLookup, RetryPush, RetryCheck, RetryReread, RetryFailing, RetryWrite,
         RetryReadPhase, RetryPhase
<1>a. \A ch : Accepted(ch) => Accepted(ch)'
  BY <1>m DEF Accepted
<1>p. ASSUME \A ch \in job'.completed : Accepted(ch)', \A ch \in g.completed : Accepted(ch)',
             g.kind = "retry" => \A ch \in g.done : Accepted(ch)'
      PROVE  CopiesAccepted'
  <2>1. \A u \in Tasks : u # t => FrameAccepted(task[u])'
    BY <1>s, <1>a DEF TaskShape, CopiesAccepted, FrameAccepted
  <2>2. FrameAccepted(task[t])'
    BY <1>p DEF FrameAccepted
  <2>3. CompletedWasAccepted'
    BY <1>p DEF CompletedWasAccepted, Accepted
  <2> QED
    BY <2>1, <2>2, <2>3 DEF CopiesAccepted
<1>k. ASSUME job'.completed \in {job.completed, f.completed},
             \/ g = NoTask
             \/ /\ g.completed \in {job.completed, f.completed} /\ g.kind = f.kind
                /\ g.kind = "retry" => g.done = f.done
      PROVE  CopiesAccepted'
  <2>1. \A ch \in job'.completed : Accepted(ch)'
    BY <1>k, <1>f, <1>a DEF FrameAccepted
  <2>2. \A ch \in g.completed : Accepted(ch)'
    BY <1>k, <1>f, <1>a DEF FrameAccepted, NoTask
  <2>3. g.kind = "retry" => \A ch \in g.done : Accepted(ch)'
    BY <1>k, <1>f, <1>a DEF FrameAccepted, NoTask
  <2> QED
    BY <2>1, <2>2, <2>3, <1>p
<1>g. ASSUME NEW pc \in Places, Goto(t, pc)
      PROVE  g.completed = f.completed /\ g.kind = f.kind /\ g.done = f.done
  BY <1>g, <1>f DEF Goto, Frames
<1>e. ASSUME End(t) PROVE g = NoTask
  BY <1>e, <1>f DEF End
<1>1. CASE Unwound(t) \/ PhaseFailed(t) \/ ExpandFinish(t) \/ OutlineSave(t) \/ RetryPhase(t)
  BY <1>1, <1>e, <1>f, <1>k DEF Unwound, PhaseFailed, ExpandFinish, OutlineSave, RetryPhase, Jobs
<1>2. CASE OutlineBegin(t) \/ ExpandBegin(t) \/ ExpandCourse(t)
  <2>1. job'.completed = job.completed
    BY <1>2, <1>f DEF OutlineBegin, ExpandBegin, ExpandCourse, Jobs
  <2> QED
    BY <1>2, <2>1, <1>g, <1>k DEF OutlineBegin, ExpandBegin, ExpandCourse, Places
<1>3. CASE OutlineWork(t, "convert", "llm") \/ OutlineWork(t, "llm", "save") \/ RetryLookup(t)
        \/ RetryCheck(t)
  BY <1>3, <1>g, <1>k DEF OutlineWork, RetryLookup, RetryCheck, Places
<1>4. CASE ExpandShell(t)
  <2>1. job' = job
    BY <1>4 DEF ExpandShell
  <2>2. CASE Goto(t, "unwinding") \/ Goto(t, "failing")
    BY <2>1, <2>2, <1>g, <1>k DEF Places
  <2>3. CASE task' = [task EXCEPT ![t].pc = "course",
                        ![t].course = IF f.req.course = 0 THEN shells' ELSE f.req.course]
    <3>1. g.completed = f.completed /\ g.kind = f.kind /\ g.done = f.done
      BY <2>3, <1>f DEF Frames
    <3> QED
      BY <2>1, <3>1, <1>k
  <2> QED
    BY <1>4, <2>2, <2>3 DEF ExpandShell
<1>5. CASE ExpandPlan(t)
  <2> DEFINE todo == f.req.approved \ job.completed
  <2>1. job' = job /\ f.kind = "expand"
    BY <1>5 DEF ExpandPlan, At
  <2>2. CASE Goto(t, "unwinding")
    BY <2>1, <2>2, <1>g, <1>k DEF Places
  <2>3. CASE task' = [task EXCEPT ![t].pc = IF todo = {} THEN "finish" ELSE "wave",
                                  ![t].todo = todo, ![t].done = {},
                                  ![t].completed = job.completed, ![t].failed = job.failed \ todo]
    <3>1. g.completed = job.completed /\ g.kind = f.kind
      BY <2>3, <1>f DEF Frames
    <3> QED
      BY <2>1, <3>1, <1>k
  <2> QED
    BY <1>5, <2>2, <2>3 DEF ExpandPlan
<1>6. CASE ExpandWave(t)
  <2>1. job' = job
    BY <1>6 DEF ExpandWave
  <2>2. CASE Goto(t, "unwinding")
    BY <2>1, <2>2, <1>g, <1>k DEF Places
  <2>3. CASE task' = [task EXCEPT ![t].pc = "chapters", ![t].wave = NextWave(f.done, f.todo)]
    <3>1. g.completed = f.completed /\ g.kind = f.kind /\ g.done = f.done
      BY <2>3, <1>f DEF Frames
    <3> QED
      BY <2>1, <3>1, <1>k
  <2> QED
    BY <1>6, <2>2, <2>3 DEF ExpandWave
<1>7. CASE \E ch \in Chapters : ExpandChapter(t, ch)
  <2>1. PICK ch \in Chapters : ExpandChapter(t, ch)
    BY <1>7
  <2>2. PICK ok \in BOOLEAN : /\ PushChapter(t, ch, ok)
                              /\ task' = [task EXCEPT ![t].wave = @ \ {ch},
                                   ![t].completed = IF ok THEN @ \cup {ch} ELSE @,
                                   ![t].failed = IF ok THEN @ ELSE @ \cup {ch}]
    BY <2>1 DEF ExpandChapter
  <2>3. g.completed = (IF ok THEN f.completed \cup {ch} ELSE f.completed) /\ g.kind = f.kind
    BY <2>2, <1>f DEF Frames
  <2>4. f.kind = "expand" /\ job' = job
    BY <2>1 DEF ExpandChapter, At
  <2>5. ok => <<f.course, ch>> \in lms'
    BY <2>2 DEF PushChapter
  <2>6. ok => Accepted(ch)'
    BY <2>5 DEF Accepted
  <2>7. \A c \in g.completed : Accepted(c)'
    BY <2>3, <2>6, <1>a, <1>f DEF FrameAccepted
  <2> QED
    BY <2>3, <2>4, <2>7, <1>f, <1>a, <1>p
<1>8. CASE ExpandMerge(t)
  <2> DEFINE wave == NextWave(f.done, f.todo)
             left == f.todo \ wave
  <2>1. /\ task' = [task EXCEPT ![t].done = @ \cup wave, ![t].todo = left,
                                ![t].pc = IF left = {} THEN "finish" ELSE "wave"]
        /\ f.kind = "expand"
    BY <1>8 DEF ExpandMerge, At
  <2> HIDE DEF wave, left
  <2>2. g.completed = f.completed /\ g.kind = f.kind
    BY <2>1, <1>f DEF Frames
  <2>3. job'.completed = f.completed
    BY <1>8, <1>f DEF ExpandMerge, Jobs
  <2> QED
    BY <2>1, <2>2, <2>3, <1>k
<1>9. CASE RetryBegin(t)
  <2>1. job' = job
    BY <1>9 DEF RetryBegin
  <2>2. CASE Goto(t, "unwinding")
    BY <2>1, <2>2, <1>g, <1>k DEF Places
  <2>3. CASE task' = [task EXCEPT ![t].pc = "lookup", ![t].course = job.course]
    <3>1. g.completed = f.completed /\ g.kind = f.kind /\ g.done = f.done
      BY <2>3, <1>f DEF Frames
    <3> QED
      BY <2>1, <3>1, <1>k
  <2> QED
    BY <1>9, <2>2, <2>3 DEF RetryBegin
<1>10. CASE RetryPush(t)
  <2>1. PICK ok \in BOOLEAN :
          /\ \/ lms' = lms \cup {<<f.course, f.chapter>>}
             \/ ~ok /\ UNCHANGED lms
          /\ task' = [task EXCEPT ![t].pc = "check", ![t].done = IF ok THEN {f.chapter} ELSE {}]
    BY <1>10 DEF RetryPush
  <2>2. g.completed = f.completed /\ g.done = (IF ok THEN {f.chapter} ELSE {})
    BY <2>1, <1>f DEF Frames
  <2>3. ok => <<f.course, f.chapter>> \in lms'
    BY <2>1
  <2>4. ok => \A c \in {f.chapter} : Accepted(c)'
    BY <2>3 DEF Accepted
  <2>5. \A c \in g.done : Accepted(c)'
    BY <2>2, <2>4
  <2>6. job' = job
    BY <1>10 DEF RetryPush
  <2> QED
    BY <2>2, <2>5, <2>6, <1>f, <1>a, <1>p DEF FrameAccepted
<1>11. CASE RetryReread(t)
  <2> DEFINE ch == {f.chapter}
             bad == IF f.done = ch THEN job.failed \ ch ELSE job.failed \cup ch
  <2>1. job' = job /\ f.kind = "retry"
    BY <1>11 DEF RetryReread, At
  <2>2. CASE Goto(t, "unwinding")
    BY <2>1, <2>2, <1>g, <1>k DEF Places
  <2>3. CASE task' = [task EXCEPT ![t].pc = "write", ![t].completed = job.completed \cup f.done,
                                  ![t].failed = bad]
    <3> HIDE DEF ch, bad
    <3>1. g.completed = job.completed \cup f.done /\ g.done = f.done
      BY <2>3, <1>f DEF Frames
    <3>2. \A c \in g.completed : Accepted(c)'
      BY <3>1, <2>1, <1>f, <1>a DEF FrameAccepted
    <3> QED
      BY <2>1, <3>1, <3>2, <1>f, <1>a, <1>p DEF FrameAccepted
  <2> QED
    BY <1>11, <2>2, <2>3 DEF RetryReread
<1>12. CASE RetryFailing(t)
  <2>1. g.completed = job.completed /\ g.kind = f.kind /\ g.done = f.done
    BY <1>12, <1>f DEF RetryFailing, Frames
  <2> QED
    BY <1>12, <2>1, <1>k DEF RetryFailing
<1>13. CASE RetryWrite(t, "write", "latest") \/ RetryWrite(t, "ewrite", "ephase")
  <2>1. job'.completed = f.completed
    BY <1>13, <1>f DEF RetryWrite, Jobs
  <2> QED
    BY <1>13, <2>1, <1>g, <1>k DEF RetryWrite, Places
<1>14. CASE RetryReadPhase(t)
  <2>1. g.completed = f.completed /\ g.kind = f.kind /\ g.done = f.done
    BY <1>14, <1>f DEF RetryReadPhase, Frames
  <2> QED
    BY <1>14, <2>1, <1>k DEF RetryReadPhase
<1> QED
  BY <1>1, <1>2, <1>3, <1>4, <1>5, <1>6, <1>7, <1>8, <1>9, <1>10, <1>11, <1>12, <1>13, <1>14 DEF TaskStep

\* A step of a task pushes to a shell that the row names (create_course_shell).
LEMMA TaskCourses ==
    ASSUME Typed, FramesAccount, CoursesAreShells, NEW t \in Tasks, TaskStep(t)
    PROVE  CoursesAreShells'
<1> SUFFICES ASSUME \A r \in Requests : r.course = 0 PROVE CoursesAreShells'
  BY DEF CoursesAreShells
<1> DEFINE f == task[t]
           g == task'[t]
<1>f. /\ f \in Frames /\ task \in [Tasks -> Frames] /\ job \in Jobs /\ FrameInShell(f)
      /\ f.course \in Nat /\ shells \in Nat /\ job.course \in Nat /\ f.course <= shells
      /\ job.course <= shells /\ f.req.course = 0 /\ shells' \in Nat
      /\ lms # {} => job.course # 0
  <2>1. /\ f \in Frames /\ task \in [Tasks -> Frames] /\ job \in Jobs /\ f.req \in Asked
        /\ f.course \in Nat /\ shells \in Nat /\ job.course \in Nat
    BY CourseAssumption DEF Typed, FramesTyped, Frames, Jobs
  <2>2. FrameInShell(f) /\ job.course <= shells /\ (lms # {} => job.course # 0)
    BY DEF CoursesAreShells
  <2>3. f.req.course = 0
    BY <2>1 DEF Asked, NoRequest
  <2>4. shells' \in Nat
    BY TaskTyped, CourseAssumption DEF Typed
  <2> QED
    BY <2>1, <2>2, <2>3, <2>4 DEF FrameInShell
<1>s. TaskShape(t) /\ \A u \in Tasks : task[u].course \in Nat
  BY TaskTyped DEF Typed, FramesTyped, Frames
<1>p. ASSUME shells <= shells', job.course # 0 => job'.course # 0, job'.course <= shells',
             \A pushed \in lms' : pushed \in lms \/ (pushed[1] \in 1 .. shells /\ job.course # 0),
             FrameInShell(task[t])'
      PROVE  CoursesAreShells'
  <2>1. \A u \in Tasks : u # t => FrameInShell(task[u])'
    <3>1. TAKE u \in Tasks
    <3>2. HAVE u # t
    <3>3. task'[u] = task[u] /\ FrameInShell(task[u]) /\ task[u].course \in Nat
      BY <1>s, <3>2 DEF TaskShape, CoursesAreShells
    <3>4. task[u].course <= shells'
      BY <1>p, <1>f, <3>3 DEF FrameInShell
    <3> QED
      BY <1>p, <3>3, <3>4 DEF FrameInShell
  <2>2. \A u \in Tasks : FrameInShell(task[u])'
    BY <1>p, <2>1
  <2>3. \A pushed \in lms' : pushed[1] \in 1 .. shells'
    <3>1. \A pushed \in lms : pushed[1] \in 1 .. shells
      BY DEF CoursesAreShells
    <3>2. \A pushed \in lms' : pushed[1] \in 1 .. shells
      BY <1>p, <3>1
    <3> QED
      BY <1>p, <1>f, <3>2
  <2>4. lms' # {} => job'.course # 0
    BY <1>p, <1>f
  <2> QED
    BY <1>p, <2>2, <2>3, <2>4 DEF CoursesAreShells
<1>k. ASSUME job'.course = job.course, shells <= shells',
             \/ g = NoTask
             \/ /\ g.kind = f.kind /\ g.course = f.course
                /\ f.kind = "expand" =>
                     /\ g.pc \in {"course", "plan", "wave", "chapters"} =>
                          f.pc \in {"course", "plan", "wave", "chapters"}
                     /\ g.pc \in {"plan", "wave", "chapters"} => f.pc \in {"plan", "wave", "chapters"}
                /\ f.kind = "retry" /\ g.pc = "push" => f.course # 0,
             \A pushed \in lms' : pushed \in lms \/ (pushed[1] \in 1 .. shells /\ job.course # 0)
      PROVE  CoursesAreShells'
  <2>1. CASE g = NoTask
    <3>1. g.kind = "none" /\ g.course = 0
      BY <2>1 DEF NoTask
    <3>2. FrameInShell(task[t])'
      BY <3>1, <1>f DEF FrameInShell
    <3> QED
      BY <1>k, <1>f, <1>p, <3>2
  <2>2. CASE g # NoTask
    <3>1. g.course <= shells'
      BY <1>k, <1>f, <2>2
    <3>2. FrameInShell(task[t])'
      BY <1>k, <1>f, <2>2, <3>1 DEF FrameInShell
    <3> QED
      BY <1>k, <1>f, <1>p, <3>2
  <2> QED
    BY <2>1, <2>2
<1>g. ASSUME NEW pc \in Places, Goto(t, pc)
      PROVE  g.pc = pc /\ g.course = f.course /\ g.kind = f.kind
  BY <1>g, <1>f DEF Goto, Frames
<1>e. ASSUME End(t) PROVE g = NoTask
  BY <1>e, <1>f DEF End
<1>1. CASE Unwound(t) \/ PhaseFailed(t) \/ ExpandFinish(t) \/ OutlineSave(t) \/ RetryPhase(t)
  <2>1. job'.course = job.course /\ shells' = shells /\ lms' = lms
    BY <1>1, <1>f DEF Unwound, PhaseFailed, ExpandFinish, OutlineSave, RetryPhase, Jobs
  <2>2. g = NoTask
    BY <1>1, <1>e DEF Unwound, PhaseFailed, ExpandFinish, OutlineSave, RetryPhase
  <2> QED
    BY <2>1, <2>2, <1>f, <1>k
<1>2. CASE \/ OutlineBegin(t) \/ OutlineWork(t, "convert", "llm") \/ OutlineWork(t, "llm", "save")
           \/ ExpandBegin(t) \/ RetryLookup(t) \/ RetryCheck(t)
           \/ RetryWrite(t, "write", "latest") \/ RetryWrite(t, "ewrite", "ephase")
  <2>1. job'.course = job.course /\ shells' = shells /\ lms' = lms
    BY <1>2, <1>f DEF OutlineBegin, OutlineWork, ExpandBegin, RetryLookup, RetryCheck, RetryWrite, Jobs
  <2>2. /\ g.kind = f.kind /\ g.course = f.course
        /\ f.kind = "expand" => g.pc = "shell"
        /\ f.kind = "retry" /\ g.pc = "push" => f.course # 0
    BY <1>2, <1>g DEF OutlineBegin, OutlineWork, ExpandBegin, RetryLookup, RetryCheck, RetryWrite, Places, At
  <2> QED
    BY <2>1, <2>2, <1>f, <1>k
<1>4. CASE ExpandShell(t)
  <2>1. job' = job /\ lms' = lms /\ shells <= shells' /\ f.kind = "expand"
    BY <1>4, <1>f DEF ExpandShell, At
  <2>2. CASE Goto(t, "unwinding") \/ Goto(t, "failing")
    <3>1. g.kind = f.kind /\ g.course = f.course /\ g.pc \in {"unwinding", "failing"}
      BY <2>2, <1>g DEF Places
    <3> QED
      BY <2>1, <3>1, <1>k
  <2>3. CASE /\ task' = [task EXCEPT ![t].pc = "course",
                           ![t].course = IF f.req.course = 0 THEN shells' ELSE f.req.course]
             /\ shells' = shells + 1
    <3>1. g.pc = "course" /\ g.kind = f.kind /\ g.course = shells + 1
      BY <2>3, <1>f DEF Frames
    <3>2. FrameInShell(task[t])'
      BY <2>1, <2>3, <3>1, <1>f DEF FrameInShell
    <3> QED
      BY <2>1, <2>3, <3>2, <1>f, <1>p
  <2> QED
    BY <1>4, <1>f, <2>2, <2>3 DEF ExpandShell
<1>5. CASE ExpandCourse(t)
  <2>1. f.kind = "expand" /\ f.pc = "course" /\ lms' = lms /\ shells' = shells
    BY <1>5 DEF ExpandCourse, At
  <2>2. f.course # 0
    BY <2>1, <1>f DEF FrameInShell
  <2>3. job'.course = f.course
    BY <1>5, <1>f DEF ExpandCourse, Jobs
  <2>4. g.kind = f.kind /\ g.course = f.course /\ g.pc = "plan"
    BY <1>5, <1>g DEF ExpandCourse, Places
  <2>5. FrameInShell(task[t])'
    BY <2>1, <2>2, <2>3, <2>4, <1>f DEF FrameInShell
  <2> QED
    BY <2>1, <2>2, <2>3, <2>5, <1>f, <1>p
<1>6. CASE ExpandPlan(t)
  <2> DEFINE todo == f.req.approved \ job.completed
  <2>1. job' = job /\ lms' = lms /\ shells' = shells /\ f.kind = "expand" /\ f.pc = "plan"
    BY <1>6 DEF ExpandPlan, At
  <2>2. CASE Goto(t, "unwinding")
    <3>1. g.kind = f.kind /\ g.course = f.course
      BY <2>2, <1>g DEF Places
    <3> QED
      BY <2>1, <3>1, <1>f, <1>k
  <2>3. CASE task' = [task EXCEPT ![t].pc = IF todo = {} THEN "finish" ELSE "wave",
                                  ![t].todo = todo, ![t].done = {},
                                  ![t].completed = job.completed, ![t].failed = job.failed \ todo]
    <3>1. g.kind = f.kind /\ g.course = f.course
      BY <2>3, <1>f DEF Frames
    <3> QED
      BY <2>1, <3>1, <1>f, <1>k
  <2> QED
    BY <1>6, <2>2, <2>3 DEF ExpandPlan
<1>7. CASE ExpandWave(t)
  <2>1. job' = job /\ lms' = lms /\ shells' = shells /\ f.kind = "expand" /\ f.pc = "wave"
    BY <1>7 DEF ExpandWave, At
  <2>2. CASE Goto(t, "unwinding")
    <3>1. g.kind = f.kind /\ g.course = f.course
      BY <2>2, <1>g DEF Places
    <3> QED
      BY <2>1, <3>1, <1>f, <1>k
  <2>3. CASE task' = [task EXCEPT ![t].pc = "chapters", ![t].wave = NextWave(f.done, f.todo)]
    <3>1. g.kind = f.kind /\ g.course = f.course
      BY <2>3, <1>f DEF Frames
    <3> QED
      BY <2>1, <3>1, <1>f, <1>k
  <2> QED
    BY <1>7, <2>2, <2>3 DEF ExpandWave
<1>8. CASE \E ch \in Chapters : ExpandChapter(t, ch)
  <2>1. PICK ch \in Chapters : ExpandChapter(t, ch)
    BY <1>8
  <2>2. g.kind = f.kind /\ g.course = f.course /\ g.pc = f.pc
    BY <2>1, <1>f DEF ExpandChapter, Frames
  <2>3. f.kind = "expand" /\ f.pc = "chapters" /\ job' = job /\ shells' = shells
    BY <2>1 DEF ExpandChapter, At
  <2>4. f.course \in 1 .. shells /\ job.course # 0
    BY <2>3, <1>f DEF FrameInShell
  <2>5. \A pushed \in lms' : pushed \in lms \/ pushed = <<f.course, ch>>
    BY <2>1 DEF ExpandChapter, PushChapter
  <2> QED
    BY <2>2, <2>3, <2>4, <2>5, <1>f, <1>k
<1>9. CASE ExpandMerge(t)
  <2> DEFINE wave == NextWave(f.done, f.todo)
             left == f.todo \ wave
  <2>1. /\ task' = [task EXCEPT ![t].done = @ \cup wave, ![t].todo = left,
                                ![t].pc = IF left = {} THEN "finish" ELSE "wave"]
        /\ f.kind = "expand" /\ f.pc = "chapters" /\ lms' = lms /\ shells' = shells
    BY <1>9 DEF ExpandMerge, At
  <2> HIDE DEF wave, left
  <2>2. g.kind = f.kind /\ g.course = f.course
    BY <2>1, <1>f DEF Frames
  <2>3. job'.course = job.course
    BY <1>9, <1>f DEF ExpandMerge, Jobs
  <2> QED
    BY <2>1, <2>2, <2>3, <1>f, <1>k
<1>10. CASE RetryBegin(t)
  <2>1. job' = job /\ lms' = lms /\ shells' = shells /\ f.kind = "retry"
    BY <1>10 DEF RetryBegin, At
  <2>2. CASE Goto(t, "unwinding")
    <3>1. g.kind = f.kind /\ g.course = f.course /\ g.pc = "unwinding"
      BY <2>2, <1>g DEF Places
    <3> QED
      BY <2>1, <3>1, <1>f, <1>k
  <2>3. CASE task' = [task EXCEPT ![t].pc = "lookup", ![t].course = job.course]
    <3>1. g.pc = "lookup" /\ g.kind = f.kind /\ g.course = job.course
      BY <2>3, <1>f DEF Frames
    <3>2. FrameInShell(task[t])'
      BY <2>1, <3>1, <1>f DEF FrameInShell
    <3> QED
      BY <2>1, <3>2, <1>f, <1>p
  <2> QED
    BY <1>10, <2>2, <2>3 DEF RetryBegin
<1>11. CASE RetryPush(t)
  <2>1. f.kind = "retry" /\ f.pc = "push" /\ job' = job /\ shells' = shells
    BY <1>11 DEF RetryPush, At
  <2>2. g.kind = f.kind /\ g.course = f.course /\ g.pc = "check"
    BY <1>11, <1>f DEF RetryPush, Frames
  <2>3. f.course \in 1 .. shells /\ job.course # 0
    BY <2>1, <1>f DEF FrameInShell
  <2>4. \A pushed \in lms' : pushed \in lms \/ pushed = <<f.course, f.chapter>>
    BY <1>11 DEF RetryPush
  <2> QED
    BY <2>1, <2>2, <2>3, <2>4, <1>f, <1>k
<1>12. CASE RetryReread(t)
  <2> DEFINE ch == {f.chapter}
             bad == IF f.done = ch THEN job.failed \ ch ELSE job.failed \cup ch
  <2>1. job' = job /\ lms' = lms /\ shells' = shells /\ f.kind = "retry"
    BY <1>12 DEF RetryReread, At
  <2>2. \/ Goto(t, "unwinding")
        \/ task' = [task EXCEPT ![t].pc = "write", ![t].completed = job.completed \cup f.done,
                                  ![t].failed = bad]
    BY <1>12 DEF RetryReread
  <2> HIDE DEF ch, bad
  <2>3. g.kind = f.kind /\ g.course = f.course /\ g.pc \in {"unwinding", "write"}
    BY <2>2, <1>f, <1>g DEF Frames, Places
  <2> QED
    BY <2>1, <2>3, <1>f, <1>k
<1>13. CASE RetryFailing(t) \/ RetryReadPhase(t)
  <2>1. g.kind = f.kind /\ g.course = f.course /\ g.pc \in {"ewrite", "phase"}
    BY <1>13, <1>f DEF RetryFailing, RetryReadPhase, Frames
  <2>2. job' = job /\ lms' = lms /\ shells' = shells /\ f.kind = "retry"
    BY <1>13 DEF RetryFailing, RetryReadPhase, At
  <2> QED
    BY <2>1, <2>2, <1>f, <1>k
<1> QED
  BY <1>1, <1>2, <1>4, <1>5, <1>6, <1>7, <1>8, <1>9, <1>10, <1>11, <1>12, <1>13 DEF TaskStep

\* A step of a task finds the job created and leaves it so.
LEMMA TaskExists ==
    ASSUME Typed, FramesAccount, JobExists, NEW t \in Tasks, TaskStep(t)
    PROVE  job.phase # "NONE" /\ JobExists'
<1> DEFINE f == task[t]
           g == task'[t]
<1>f. f \in Frames /\ task \in [Tasks -> Frames] /\ job \in Jobs
  BY DEF Typed, FramesTyped
<1>s. TaskShape(t)
  BY TaskTyped
<1>x. job.phase # "NONE"
  BY <1>s DEF JobExists, TaskShape
<1>p. ASSUME job'.phase # "NONE",
             g.kind = "retry" /\ g.pc \in {"phase", "ewrite", "ephase"} => g.phase # "NONE"
      PROVE  JobExists'
  BY <1>p, <1>s DEF JobExists, TaskShape
<1>g. ASSUME NEW pc \in Places, Goto(t, pc)
      PROVE  g.pc = pc /\ g.phase = f.phase /\ g.kind = f.kind
  BY <1>g, <1>f DEF Goto, Frames
<1>e. ASSUME End(t) PROVE g.kind = "none"
  BY <1>e, <1>f DEF End, NoTask
<1>1. CASE Unwound(t) \/ PhaseFailed(t) \/ ExpandFinish(t) \/ OutlineSave(t)
  <2>1. job'.phase # "NONE"
    BY <1>1, <1>f DEF Unwound, PhaseFailed, ExpandFinish, OutlineSave, Jobs
  <2>2. g.kind = "none"
    BY <1>1, <1>e DEF Unwound, PhaseFailed, ExpandFinish, OutlineSave
  <2> QED
    BY <1>x, <2>1, <2>2, <1>p
<1>2. CASE RetryPhase(t)
  <2>1. f.phase # "NONE"
    BY <1>2 DEF RetryPhase, At, JobExists
  <2>2. job'.phase # "NONE"
    BY <1>2, <2>1, <1>f DEF RetryPhase, Jobs
  <2> QED
    BY <1>x, <1>2, <1>e, <2>2, <1>p DEF RetryPhase
<1>3. CASE f.kind # "retry" /\ ~(Unwound(t) \/ PhaseFailed(t) \/ ExpandFinish(t) \/ OutlineSave(t))
  <2>1. g.kind # "retry"
    BY <1>3, <1>s DEF TaskShape, NoTask
  <2>2. CASE OutlineBegin(t) \/ ExpandBegin(t) \/ ExpandCourse(t) \/ ExpandMerge(t)
    <3>1. job'.phase # "NONE"
      BY <2>2, <1>x, <1>f DEF OutlineBegin, ExpandBegin, ExpandCourse, ExpandMerge, Jobs
    <3> QED
      BY <1>x, <2>1, <3>1, <1>p
  <2>3. CASE ~(OutlineBegin(t) \/ ExpandBegin(t) \/ ExpandCourse(t) \/ ExpandMerge(t))
    <3>1. job' = job
      BY <1>3, <2>3 DEF TaskStep, At, OutlineWork, ExpandShell, ExpandPlan, ExpandWave, ExpandChapter,
         RetryBegin, RetryLookup, RetryPush, RetryCheck, RetryReread, RetryFailing, RetryWrite, RetryReadPhase,
         RetryPhase
    <3> QED
      BY <1>x, <2>1, <3>1, <1>p
  <2> QED
    BY <2>2, <2>3
<1>4. CASE RetryBegin(t)
  <2>1. job' = job /\ g.pc \in {"unwinding", "lookup"}
    BY <1>4, <1>f DEF RetryBegin, Goto, Frames
  <2> QED
    BY <1>x, <2>1, <1>p
<1>5. CASE RetryLookup(t) \/ RetryCheck(t)
  <2>1. job' = job /\ g.pc \in {"push", "failing", "unwinding", "reread"}
    BY <1>5, <1>f DEF RetryLookup, RetryCheck, Goto, Frames
  <2> QED
    BY <1>x, <2>1, <1>p
<1>6. CASE RetryPush(t)
  <2>1. job' = job /\ g.pc = "check"
    BY <1>6, <1>f DEF RetryPush, Frames
  <2> QED
    BY <1>x, <2>1, <1>p
<1>7. CASE RetryReread(t)
  <2> DEFINE ch == {f.chapter}
             bad == IF f.done = ch THEN job.failed \ ch ELSE job.failed \cup ch
  <2>1. /\ job' = job
        /\ \/ Goto(t, "unwinding")
           \/ task' = [task EXCEPT ![t].pc = "write", ![t].completed = job.completed \cup f.done,
                                  ![t].failed = bad]
    BY <1>7 DEF RetryReread
  <2> HIDE DEF ch, bad
  <2>2. g.pc \in {"unwinding", "write"}
    BY <2>1, <1>f, <1>g DEF Frames, Places
  <2> QED
    BY <1>x, <2>1, <2>2, <1>p
<1>8. CASE RetryFailing(t) \/ RetryReadPhase(t)
  <2>1. job' = job /\ g.phase = job.phase
    BY <1>8, <1>f DEF RetryFailing, RetryReadPhase, Frames
  <2> QED
    BY <1>x, <2>1, <1>p
<1>9. CASE RetryWrite(t, "write", "latest") \/ RetryWrite(t, "ewrite", "ephase")
  <2>1. job'.phase = job.phase
    BY <1>9, <1>f DEF RetryWrite, Jobs
  <2>2. g.pc = "latest" \/ (f.kind = "retry" /\ f.pc = "ewrite" /\ g.phase = f.phase)
    BY <1>9, <1>g DEF RetryWrite, At, Places
  <2> QED
    BY <1>x, <2>1, <2>2, <1>p DEF JobExists
<1> QED
  BY <1>1, <1>2, <1>3, <1>4, <1>5, <1>6, <1>7, <1>8, <1>9
     DEF TaskStep, At, OutlineBegin, OutlineWork, ExpandBegin, ExpandShell, ExpandCourse, ExpandPlan,
         ExpandWave, ExpandChapter, ExpandMerge

-----------------------------------------------------------------------------
(* What the other steps do to what is recorded.                            *)

Outside ==
    \/ \E p \in Procs : GenerateOutline(p) \/ Start(p) \/ Recover(p) \/ Crash(p)
    \/ \E h \in Handlers, p \in Procs, op \in {"expand", "cancel", "resume"} : ReadJob(h, p, op)
    \/ \E p \in Procs, ch \in Chapters : RetryChapter(p, ch)
    \/ \E h \in Handlers : HandlerStep(h)
    \/ Age
    \/ UNCHANGED vars

\* A frame as dispatch leaves it.
Fresh(f) == /\ f \in Frames /\ f.kind # "none" /\ f.pc = "begin"
            /\ f.wave = {} /\ f.completed = {} /\ f.done = {} /\ f.course = 0

\* What a step of a handler or a process does to the frame of a task: it creates
\* the task, cancels it, or takes it away.
FrameMove(t) ==
    \/ task'[t] = task[t] \/ task'[t] = NoTask \/ Fresh(task'[t])
    \/ task[t].kind # "none" /\ task'[t] = [task[t] EXCEPT !.pc = "unwinding"]

\* Handlers and processes leave the lists of chapters and the courses alone.
LEMMA OutsideStep ==
    ASSUME Typed, JobExists, Outside
    PROVE  /\ UNCHANGED <<shells, lms>> /\ job'.course = job.course
           /\ job'.completed = job.completed /\ job'.failed = job.failed
           /\ \A t \in Tasks : FrameMove(t)
<1>f. /\ job \in Jobs /\ job.request \in Asked /\ NoRequest \in Asked /\ 0 \in Nat
      /\ Procs \subseteq Worker /\ Requests \subseteq Asked /\ Chapters \subseteq Nat
      /\ \A h \in Handlers : handler[h].proc \in Worker /\ handler[h].seen.request \in Asked
      /\ \A p \in Procs : claimed[p] \in Asked
  BY CourseAssumption DEF Typed, Jobs, Frontends, Asked, Worker
<1>d. ASSUME NEW kind \in Kinds \ {"none"}, NEW p \in Worker, NEW req \in Asked, NEW ch \in Nat,
             kind = "retry" => ch \in Chapters, Dispatch(kind, p, req, ch)
      PROVE  \A t \in Tasks : FrameMove(t)
  <2>1. PICK n \in Frames : /\ n.kind = kind /\ n.pc = "begin" /\ n.course = 0
                            /\ n.wave = {} /\ n.done = {} /\ n.completed = {}
                            /\ \A t \in Tasks : task'[t] = task[t] \/ task'[t] = n
    BY <1>d, DispatchShape
  <2>2. Fresh(n)
    BY <2>1 DEF Fresh
  <2> QED
    BY <2>1, <2>2 DEF FrameMove
<1>u. ASSUME task' = task PROVE \A t \in Tasks : FrameMove(t)
  BY <1>u DEF FrameMove
<1>1. ASSUME NEW p \in Procs, GenerateOutline(p)
      PROVE  /\ UNCHANGED <<shells, lms>> /\ job'.course = job.course
             /\ job'.completed = job.completed /\ job'.failed = job.failed
             /\ \A t \in Tasks : FrameMove(t)
  <2>1. job = NoJob /\ job' = [NoJob EXCEPT !.phase = "CONVERTING"]
    BY <1>1 DEF GenerateOutline, JobExists
  <2>2. \A t \in Tasks : FrameMove(t)
    BY <1>1, <1>d, <1>f DEF GenerateOutline, Kinds
  <2> QED
    BY <1>1, <2>1, <2>2 DEF GenerateOutline, NoJob
<1>2. ASSUME NEW p \in Procs, Start(p)
      PROVE  /\ UNCHANGED <<shells, lms>> /\ job'.course = job.course
             /\ job'.completed = job.completed /\ job'.failed = job.failed
             /\ \A t \in Tasks : FrameMove(t)
  BY <1>2, <1>f, <1>u DEF Start, Jobs
<1>3. ASSUME NEW p \in Procs, Recover(p)
      PROVE  /\ UNCHANGED <<shells, lms>> /\ job'.course = job.course
             /\ job'.completed = job.completed /\ job'.failed = job.failed
             /\ \A t \in Tasks : FrameMove(t)
  <2> DEFINE kind == IF proc[p] = "RECOVERING_OUTLINE" THEN "outline" ELSE "expand"
             req == IF proc[p] = "RECOVERING_OUTLINE" THEN NoRequest ELSE claimed[p]
  <2>1. kind \in Kinds \ {"none"} /\ kind # "retry" /\ req \in Asked
    BY <1>f DEF Kinds
  <2>2. task' = task \/ Dispatch(kind, p, req, 0)
    BY <1>3 DEF Recover
  <2>3. \A t \in Tasks : FrameMove(t)
    BY <1>f, <1>d, <1>u, <2>1, <2>2
  <2> QED
    BY <1>3, <1>f, <2>3 DEF Recover, Jobs
<1>4. ASSUME NEW p \in Procs, Crash(p)
      PROVE  /\ UNCHANGED <<shells, lms>> /\ job'.course = job.course
             /\ job'.completed = job.completed /\ job'.failed = job.failed
             /\ \A t \in Tasks : FrameMove(t)
  BY <1>4 DEF Crash, FrameMove
<1>5. ASSUME NEW h \in Handlers, NEW p \in Procs, NEW op \in {"expand", "cancel", "resume"}, ReadJob(h, p, op)
      PROVE  /\ UNCHANGED <<shells, lms>> /\ job'.course = job.course
             /\ job'.completed = job.completed /\ job'.failed = job.failed
             /\ \A t \in Tasks : FrameMove(t)
  BY <1>5, <1>u DEF ReadJob
<1>6. ASSUME NEW p \in Procs, NEW ch \in Chapters, RetryChapter(p, ch)
      PROVE  /\ UNCHANGED <<shells, lms>> /\ job'.course = job.course
             /\ job'.completed = job.completed /\ job'.failed = job.failed
             /\ \A t \in Tasks : FrameMove(t)
  BY <1>6, <1>d, <1>f DEF RetryChapter, Kinds
<1>7. ASSUME NEW h \in Handlers, HandlerStep(h)
      PROVE  /\ UNCHANGED <<shells, lms>> /\ job'.course = job.course
             /\ job'.completed = job.completed /\ job'.failed = job.failed
             /\ \A t \in Tasks : FrameMove(t)
  <2>1. ASSUME NEW req \in Requests, ExpandApply(h, req) PROVE \A t \in Tasks : FrameMove(t)
    BY <2>1, <1>d, <1>f DEF ExpandApply, Kinds
  <2>2. ASSUME CancelApply(h) PROVE \A t \in Tasks : FrameMove(t)
    BY <2>2, <1>u DEF CancelApply
  <2>3. ASSUME CancelKill(h) PROVE \A t \in Tasks : FrameMove(t)
    BY <2>3 DEF CancelKill, FrameMove
  <2>4. ASSUME ResumeApply(h) PROVE \A t \in Tasks : FrameMove(t)
    <3>1. \/ task' = task \/ Dispatch("outline", handler[h].proc, NoRequest, 0)
          \/ Dispatch("expand", handler[h].proc, handler[h].seen.request, 0)
      BY <2>4 DEF ResumeApply
    <3> QED
      BY <3>1, <1>d, <1>f, <1>u DEF Kinds
  <2>5. /\ UNCHANGED <<shells, lms>> /\ job'.course = job.course
        /\ job'.completed = job.completed /\ job'.failed = job.failed
    BY <1>7, <1>f DEF HandlerStep, ExpandApply, CancelApply, CancelKill, ResumeApply, Jobs
  <2> QED
    BY <1>7, <2>1, <2>2, <2>3, <2>4, <2>5 DEF HandlerStep
<1>8. CASE Age
  BY <1>8, <1>f, <1>u DEF Age, Jobs
<1>9. CASE UNCHANGED vars
  BY <1>9, <1>u DEF vars
<1> QED
  BY <1>1, <1>2, <1>3, <1>4, <1>5, <1>6, <1>7, <1>8, <1>9 DEF Outside

\* A job is created once and never taken back (create_job).
LEMMA OutsideExists ==
    ASSUME Typed, JobExists, Outside
    PROVE  JobExists'
<1>f. /\ job \in Jobs /\ \A t \in Tasks : FrameMove(t)
      /\ handler \in [Handlers -> Frontends] /\ task \in [Tasks -> Frames]
      /\ proc \in [Procs -> {"down", "up", "RECOVERING_OUTLINE", "RECOVERING_EXPANDING"}]
  BY OutsideStep DEF Typed, FramesTyped
<1>r. \A t \in Tasks : task'[t].kind = "retry" /\ task'[t].pc \in {"phase", "ewrite", "ephase"} =>
                         task'[t].phase # "NONE"
  <2>1. TAKE t \in Tasks
  <2>2. CASE task'[t] = task[t]
    BY <2>2 DEF JobExists
  <2>3. CASE task'[t] = NoTask
    BY <2>3 DEF NoTask
  <2>4. CASE Fresh(task'[t])
    BY <2>4 DEF Fresh
  <2>5. CASE task'[t] = [task[t] EXCEPT !.pc = "unwinding"]
    BY <2>5, <1>f DEF Frames
  <2> QED
    BY <1>f, <2>2, <2>3, <2>4, <2>5 DEF FrameMove
<1>p. ASSUME job'.phase # "NONE" PROVE JobExists'
  BY <1>p, <1>r DEF JobExists
<1>1. ASSUME NEW p \in Procs, GenerateOutline(p) PROVE JobExists'
  BY <1>1, <1>p DEF GenerateOutline, NoJob
<1>2. ASSUME NEW p \in Procs, Start(p) PROVE JobExists'
  <2>1. CASE job.phase = "NONE"
    <3>1. ~Claimable
      BY <2>1 DEF Claimable, Active
    <3>2. job' = job /\ proc' = [proc EXCEPT ![p] = "up"] /\ UNCHANGED <<task, handler>>
      BY <1>2, <3>1 DEF Start
    <3>3. \A q \in Procs : proc'[q] \notin Recovering
      BY <2>1, <3>2, <1>f DEF JobExists, Recovering
    <3> QED
      BY <2>1, <3>2, <3>3, <1>r DEF JobExists
  <2>2. CASE job.phase # "NONE"
    BY <1>2, <2>2, <1>f, <1>p DEF Start, Jobs
  <2> QED
    BY <2>1, <2>2
<1>3. ASSUME NEW p \in Procs, Recover(p) PROVE JobExists'
  <2>1. job.phase # "NONE"
    BY <1>3 DEF Recover, JobExists
  <2> QED
    BY <1>3, <2>1, <1>f, <1>p DEF Recover, Jobs
<1>4. ASSUME NEW p \in Procs, Crash(p) PROVE JobExists'
  <2>1. job' = job
    BY <1>4 DEF Crash
  <2>2. ASSUME job.phase = "NONE"
        PROVE  /\ \A t \in Tasks : task'[t].kind = "none"
               /\ \A h \in Handlers : handler'[h].op = "none"
               /\ \A q \in Procs : proc'[q] \notin Recovering
    BY <1>4, <2>2, <1>f DEF Crash, JobExists, NoTask, NoHandler, Recovering
  <2> QED
    BY <2>1, <2>2, <1>r DEF JobExists
<1>5. ASSUME NEW h \in Handlers, NEW p \in Procs, NEW op \in {"expand", "cancel", "resume"}, ReadJob(h, p, op)
      PROVE  JobExists'
  <2>1. job' = job /\ job.phase # "NONE"
    BY <1>5 DEF ReadJob, Accepts, Active, Terminal
  <2> QED
    BY <2>1, <1>p
<1>6. ASSUME NEW p \in Procs, NEW ch \in Chapters, RetryChapter(p, ch) PROVE JobExists'
  BY <1>6, <1>p DEF RetryChapter
<1>7. ASSUME NEW h \in Handlers, HandlerStep(h) PROVE JobExists'
  <2>1. handler[h].op # "none"
    BY <1>7 DEF HandlerStep, ExpandApply, CancelApply, CancelKill, ResumeApply
  <2>2. job.phase # "NONE"
    BY <2>1 DEF JobExists
  <2>3. job'.phase # "NONE"
    BY <1>7, <1>f, <2>2 DEF HandlerStep, ExpandApply, CancelApply, CancelKill, ResumeApply, Jobs
  <2> QED
    BY <2>3, <1>p
<1>8. CASE Age
  <2>1. job.phase # "NONE"
    BY <1>8 DEF Age, JobExists, NoJob
  <2> QED
    BY <1>8, <2>1, <1>f, <1>p DEF Age, Jobs
<1>9. CASE UNCHANGED vars
  BY <1>9 DEF vars, JobExists
<1> QED
  BY <1>1, <1>2, <1>3, <1>4, <1>5, <1>6, <1>7, <1>8, <1>9 DEF Outside

\* Every step keeps what is recorded true.
LEMMA RecordedStep ==
    ASSUME Recorded, [Next]_vars
    PROVE  Recorded'
<1> USE DEF Recorded
<1>t. Typed'
  BY TypeStep
<1>n. Outside \/ \E t \in Tasks : TaskStep(t)
  BY DEF Next, Outside
<1>1. ASSUME NEW t \in Tasks, TaskStep(t) PROVE Recorded'
  <2>1. JobExists' /\ CopiesAccepted' /\ CoursesAreShells'
    BY <1>1, TaskExists, TaskAccepts, TaskCourses
  <2>2. FrameAccounts(task'[t]) /\ FrameOrdered(task'[t])
    BY <1>1, TaskAccounts
  <2>3. \A u \in Tasks : u # t => task'[u] = task[u]
    BY <1>1, TaskTyped DEF TaskShape
  <2>4. FramesAccount'
    BY <2>2, <2>3 DEF FramesAccount
  <2> QED
    BY <1>t, <2>1, <2>4
<1>2. CASE Outside
  <2>1. /\ UNCHANGED <<shells, lms>> /\ job'.course = job.course
        /\ job'.completed = job.completed
        /\ \A t \in Tasks : FrameMove(t)
    BY <1>2, OutsideStep
  <2>2. JobExists'
    BY <1>2, OutsideExists
  <2>3. \A ch : Accepted(ch)' <=> Accepted(ch)
    BY <2>1 DEF Accepted
  <2>4. ASSUME NEW t \in Tasks
        PROVE  /\ FrameAccepted(task[t])'
               /\ FrameInShell(task[t]) => FrameInShell(task[t])'
               /\ FrameAccounts(task'[t]) /\ FrameOrdered(task'[t])
    <3>f. /\ task[t] \in Frames /\ shells \in Nat
          /\ FrameAccepted(task[t]) /\ FrameAccounts(task[t]) /\ FrameOrdered(task[t])
      BY CourseAssumption DEF Typed, FramesTyped, CopiesAccepted, FramesAccount
    <3>1. CASE task'[t] = task[t]
      <4>1. FrameAccepted(task[t])'
        BY <3>1, <3>f, <2>3 DEF FrameAccepted
      <4>2. FrameInShell(task[t]) => FrameInShell(task[t])'
        BY <3>1, <2>1 DEF FrameInShell
      <4> QED
        BY <3>1, <3>f, <4>1, <4>2
    <3>2. CASE task'[t].kind = "none" /\ task'[t].course = 0 /\ task'[t].completed = {}
      BY <3>2, <3>f, <2>1 DEF FrameAccepted, FrameInShell, FrameAccounts, FrameOrdered
    <3>3. CASE Fresh(task'[t])
      BY <3>3, <3>f, <2>1 DEF Fresh, FrameAccepted, FrameInShell, FrameAccounts, FrameOrdered
    <3>4. CASE task'[t] = [task[t] EXCEPT !.pc = "unwinding"]
      <4> DEFINE f == task[t]
                 g == task'[t]
      <4>1. /\ g.pc = "unwinding" /\ g.kind = f.kind /\ g.course = f.course /\ g.req = f.req
            /\ g.done = f.done /\ g.todo = f.todo /\ g.wave = f.wave /\ g.completed = f.completed
        BY <3>4, <3>f DEF Frames
      <4>2. FrameAccepted(task[t])'
        BY <4>1, <3>f, <2>3 DEF FrameAccepted
      <4>3. FrameInShell(task[t]) => FrameInShell(task[t])'
        BY <4>1, <2>1 DEF FrameInShell
      <4>4. FrameAccounts(g)
        BY <4>1 DEF FrameAccounts
      <4>5. FrameOrdered(g)
        BY <4>1, <3>f DEF FrameOrdered
      <4> QED
        BY <4>2, <4>3, <4>4, <4>5
    <3>5. NoTask.kind = "none" /\ NoTask.course = 0 /\ NoTask.completed = {}
      BY DEF NoTask
    <3>6. \/ task'[t] = task[t] \/ task'[t] = NoTask \/ Fresh(task'[t])
          \/ task'[t] = [task[t] EXCEPT !.pc = "unwinding"]
      BY <2>1 DEF FrameMove
    <3> QED
      BY <3>1, <3>2, <3>3, <3>4, <3>5, <3>6
  <2>5. CompletedWasAccepted'
    BY <2>1 DEF CopiesAccepted, CompletedWasAccepted
  <2>6. CopiesAccepted'
    BY <2>4, <2>5 DEF CopiesAccepted
  <2>7. CoursesAreShells'
    BY <2>1, <2>4 DEF CoursesAreShells
  <2>8. FramesAccount'
    BY <2>4 DEF FramesAccount
  <2> QED
    BY <1>t, <2>2, <2>6, <2>7, <2>8
<1> QED
  BY <1>n, <1>1, <1>2

\* At the start there is nothing to record.
LEMMA RecordedInit == Init => Recorded
<1> SUFFICES ASSUME Init PROVE Recorded
  OBVIOUS
<1>1. DOMAIN Budget = Counted
  BY DEF Budget, Counted
<1>2. FramesTyped /\ \A t \in Tasks : task[t] = NoTask
  BY ConstantTypes DEF Init, FramesTyped, NoTask
<1>3. Typed
  <2>1. calls \in [Counted -> Nat]
    BY <1>1 DEF Init
  <2>2. job \in Jobs /\ handler \in [Handlers -> Frontends]
    BY ConstantTypes DEF Init
  <2>3. /\ proc \in [Procs -> {"down", "up", "RECOVERING_OUTLINE", "RECOVERING_EXPANDING"}]
        /\ lms \subseteq Nat \X Chapters /\ file \in BOOLEAN
        /\ claimed \in [Procs -> Asked]
    BY DEF Init, Asked
  <2>4. shells \in 0 .. MaxCourses
    BY CourseAssumption DEF Init
  <2> QED
    BY <1>2, <2>1, <2>2, <2>3, <2>4 DEF Typed
<1>4. job.phase = "NONE" /\ job.course = 0 /\ job.completed = {}
  BY DEF Init, NoJob
<1>5. /\ NoTask.kind = "none" /\ NoTask.course = 0 /\ NoTask.completed = {}
      /\ NoHandler.op = "none"
  BY DEF NoTask, NoHandler
<1>6. JobExists
  BY <1>2, <1>5 DEF Init, JobExists, Recovering
<1>7. CopiesAccepted
  BY <1>2, <1>4, <1>5 DEF CopiesAccepted, CompletedWasAccepted, FrameAccepted
<1>8. CoursesAreShells
  BY <1>2, <1>4, <1>5 DEF Init, CoursesAreShells, FrameInShell
<1>9. FramesAccount
  BY <1>2, <1>5 DEF FramesAccount, FrameAccounts, FrameOrdered
<1> QED
  BY <1>3, <1>6, <1>7, <1>8, <1>9 DEF Recorded

\* What is recorded stays true.
THEOREM RecordedAlways == Spec => []Recorded
BY RecordedInit, RecordedStep, PTL DEF Spec

\* The row, the frames and the handlers hold what the columns and the locals of
\* the code can hold.
THEOREM TypeCorrect == Spec => []TypeOK
<1>1. Recorded => TypeOK
  BY DEF Recorded, Typed, FramesTyped, TypeOK, Jobs, JobPhases, Lists, Frames, Kinds, Frontends, Ops
<1> QED
  BY <1>1, RecordedAlways, PTL

\* A chapter the row records as completed has been accepted by the LMS, whichever
\* tasks raced to write the lists, with any number of workers.
THEOREM CompletedAccepted == Spec => []CompletedWasAccepted
<1>1. Recorded => CompletedWasAccepted
  BY DEF Recorded, CopiesAccepted
<1> QED
  BY <1>1, RecordedAlways, PTL

\* A finished job with one shell names the course that holds all its chapters.
THEOREM CourseComplete == Spec => []CourseIsWhole
<1>1. Recorded => CourseIsWhole
  <2> SUFFICES ASSUME Recorded, job.request.approved \subseteq job.completed, shells = 1,
                      \A r \in Requests : r.course = 0, NEW ch \in job.request.approved
               PROVE  <<job.course, ch>> \in lms
    BY DEF CourseIsWhole
  <2>1. PICK pushed \in lms : pushed[2] = ch
    BY DEF Recorded, CopiesAccepted, CompletedWasAccepted
  <2>2. pushed \in Nat \X Chapters /\ job.course \in Nat
    BY DEF Recorded, Typed, Jobs
  <2>3. pushed[1] = 1 /\ job.course = 1
    BY <2>1, <2>2 DEF Recorded, CoursesAreShells
  <2>4. pushed = <<pushed[1], pushed[2]>>
    BY <2>2
  <2> QED
    BY <2>1, <2>3, <2>4
<1> QED
  BY <1>1, RecordedAlways, PTL

\* A chapter is generated only after the chapters it depends on, if they are
\* approved too and can be ordered.
THEOREM WavesOrdered == Spec => []WavesRespectDependencies
<1>1. Recorded => WavesRespectDependencies
  BY DEF Recorded, FramesAccount, FrameOrdered, WavesRespectDependencies, Running
<1> QED
  BY <1>1, RecordedAlways, PTL

-----------------------------------------------------------------------------
(* One worker.                                                             *)

\* What a step of the outline or the expand task does to the phase: the task ends,
\* or leaves the phase active; it finishes the job, or is about to, when no chapter
\* is left (run_expand_phase_impl).
LEMMA TaskMoves ==
    ASSUME Recorded, NEW t \in Tasks, TaskStep(t), task[t].kind \in {"outline", "expand"}
    PROVE  /\ task'[t] = NoTask \/ job'.phase \in {job.phase, "CONVERTING", "EXPANDING"}
           /\ job'.phase = "COMPLETED" =>
                \/ job.phase = "COMPLETED"
                \/ /\ At(t, "expand", "finish") /\ job'.request = task[t].req
                   /\ job'.completed = job.completed /\ job'.failed = job.failed
           /\ At(t, "expand", "finish")' => task'[t].req.approved \subseteq job'.completed \cup job'.failed
<1> DEFINE f == task[t]
           g == task'[t]
           Ended == g = NoTask
           Phase == job'.phase \in {job.phase, "CONVERTING", "EXPANDING"}
           Away == g.pc # "finish"
<1>f. /\ f \in Frames /\ task \in [Tasks -> Frames] /\ job \in Jobs
      /\ FrameAccounts(f) /\ NoTask.pc = "end"
  BY DEF Recorded, Typed, FramesTyped, FramesAccount, NoTask
<1>g. ASSUME NEW pc \in Places, Goto(t, pc) PROVE g.pc = pc
  BY <1>g, <1>f DEF Goto, Frames
<1>e. ASSUME End(t) PROVE Ended
  BY <1>e, <1>f DEF End
<1>1. CASE Unwound(t) \/ PhaseFailed(t) \/ OutlineSave(t)
  <2>1. job'.phase # "COMPLETED"
    BY <1>1, <1>f DEF Unwound, PhaseFailed, OutlineSave, Jobs
  <2>2. Ended
    BY <1>1, <1>e DEF Unwound, PhaseFailed, OutlineSave
  <2> QED
    BY <2>1, <2>2, <1>f DEF At
<1>2. CASE ExpandFinish(t)
  <2>1. Ended /\ At(t, "expand", "finish")
    BY <1>2, <1>e DEF ExpandFinish
  <2>2. job'.request = f.req /\ job'.completed = job.completed /\ job'.failed = job.failed
    BY <1>2, <1>f DEF ExpandFinish, Jobs
  <2> QED
    BY <2>1, <2>2, <1>f DEF At
<1>3. CASE \/ OutlineBegin(t) \/ OutlineWork(t, "convert", "llm") \/ OutlineWork(t, "llm", "save")
           \/ ExpandBegin(t) \/ ExpandCourse(t)
  <2>1. Phase
    BY <1>3, <1>f DEF OutlineBegin, OutlineWork, ExpandBegin, ExpandCourse, Jobs
  <2>2. Away
    BY <1>3, <1>g DEF OutlineBegin, OutlineWork, ExpandBegin, ExpandCourse, Places
  <2> QED
    BY <2>1, <2>2 DEF At
<1>4. CASE ExpandShell(t)
  <2>1. job' = job
    BY <1>4 DEF ExpandShell
  <2>2. \/ Goto(t, "unwinding") \/ Goto(t, "failing")
        \/ task' = [task EXCEPT ![t].pc = "course",
                      ![t].course = IF f.req.course = 0 THEN shells' ELSE f.req.course]
    BY <1>4 DEF ExpandShell
  <2>3. Away
    BY <2>2, <1>f, <1>g DEF Places, Frames
  <2> QED
    BY <2>1, <2>3 DEF At
<1>5. CASE ExpandPlan(t)
  <2> DEFINE todo == f.req.approved \ job.completed
  <2>1. job' = job
    BY <1>5 DEF ExpandPlan
  <2>2. CASE Goto(t, "unwinding")
    BY <2>1, <2>2, <1>g DEF Places, At
  <2>3. CASE task' = [task EXCEPT ![t].pc = IF todo = {} THEN "finish" ELSE "wave",
                                  ![t].todo = todo, ![t].done = {},
                                  ![t].completed = job.completed, ![t].failed = job.failed \ todo]
    <3>1. g.pc = (IF todo = {} THEN "finish" ELSE "wave") /\ g.req = f.req
      BY <2>3, <1>f DEF Frames
    <3> QED
      BY <2>1, <3>1 DEF At
  <2> QED
    BY <1>5, <2>2, <2>3 DEF ExpandPlan
<1>6. CASE ExpandWave(t)
  <2>1. job' = job /\ (Goto(t, "unwinding")
                        \/ task' = [task EXCEPT ![t].pc = "chapters", ![t].wave = NextWave(f.done, f.todo)])
    BY <1>6 DEF ExpandWave
  <2>2. Away
    BY <2>1, <1>f, <1>g DEF Places, Frames
  <2> QED
    BY <2>1, <2>2 DEF At
<1>7. CASE \E ch \in Chapters : ExpandChapter(t, ch)
  <2>1. PICK ch \in Chapters : ExpandChapter(t, ch)
    BY <1>7
  <2>2. job' = job /\ f.pc = "chapters"
    BY <2>1 DEF ExpandChapter, At
  <2>3. g.pc = f.pc
    BY <2>1, <1>f DEF ExpandChapter, Frames
  <2> QED
    BY <2>2, <2>3 DEF At
<1>8. CASE ExpandMerge(t)
  <2> DEFINE wave == NextWave(f.done, f.todo)
             left == f.todo \ wave
  <2>1. /\ task' = [task EXCEPT ![t].done = @ \cup wave, ![t].todo = left,
                                ![t].pc = IF left = {} THEN "finish" ELSE "wave"]
        /\ f.kind = "expand" /\ f.pc = "chapters" /\ f.wave = {}
    BY <1>8 DEF ExpandMerge, At
  <2>2. f.req.approved \subseteq f.completed \cup f.failed \cup left
    BY <2>1, <1>f DEF FrameAccounts
  <2> HIDE DEF wave, left
  <2>3. g.req = f.req /\ g.pc = IF left = {} THEN "finish" ELSE "wave"
    BY <2>1, <1>f DEF Frames
  <2>4. job'.phase = job.phase /\ job'.completed = f.completed /\ job'.failed = f.failed
    BY <1>8, <1>f DEF ExpandMerge, Jobs
  <2> QED
    BY <2>2, <2>3, <2>4 DEF At
<1> QED
  BY <1>1, <1>2, <1>3, <1>4, <1>5, <1>6, <1>7, <1>8
     DEF TaskStep, At, RetryBegin, RetryLookup, RetryPush, RetryCheck, RetryReread, RetryFailing, RetryWrite,
         RetryReadPhase, RetryPhase

\* The single-worker invariants, without their premise.
Orderly == Accounted /\ RestMeansIdle /\ HandlersAlone /\ TasksAlone /\ RowAccounts

\* Requests only add up, so that what is demanded of them now was true before.
LEMMA CallsGrow ==
    ASSUME Typed, Typed', \A op \in Counted : calls[op] <= calls'[op]
    PROVE  /\ OneAfterAnother' => OneAfterAnother
           /\ Alone' => Alone
           /\ OneAfterAnother => Alone
           /\ calls'.expand + calls'.resume = 0 => calls.expand + calls.resume = 0
           /\ calls'.cancel = 0 => calls.cancel = 0
<1>1. /\ calls.expand \in Nat /\ calls.resume \in Nat /\ calls.cancel \in Nat /\ calls.retry \in Nat
      /\ calls'.expand \in Nat /\ calls'.resume \in Nat /\ calls'.cancel \in Nat /\ calls'.retry \in Nat
      /\ calls.expand <= calls'.expand /\ calls.resume <= calls'.resume
      /\ calls.cancel <= calls'.cancel /\ calls.retry <= calls'.retry
  BY DEF Typed, Counted
<1>2. /\ calls'.expand + calls'.resume = 0 => calls.expand + calls.resume = 0
      /\ calls'.cancel = 0 => calls.cancel = 0
      /\ calls'.retry = 0 => calls.retry = 0
      /\ calls'.expand + calls'.resume <= 1 => calls.expand + calls.resume <= 1
      /\ calls'.expand <= 1 => calls.expand <= 1
      /\ calls'.resume <= 1 => calls.resume <= 1
  BY <1>1
<1>3. OneAfterAnother' => OneAfterAnother
  BY <1>2 DEF OneAfterAnother
<1> QED
  BY <1>2, <1>3 DEF Alone

\* A step of a task, with one worker: the outline or expand task that is under way
\* is the only one, and no request is waiting to start another.
LEMMA TaskOrderly ==
    ASSUME Recorded, Orderly, NEW t \in Tasks, TaskStep(t)
    PROVE  Orderly'
<1>s. TaskShape(t) /\ UNCHANGED <<handler, proc, claimed, calls>> /\ Typed /\ Typed'
  BY TaskTyped DEF Recorded, TaskShape
<1>c. /\ OneAfterAnother' <=> OneAfterAnother
      /\ Alone' <=> Alone
      /\ OneAfterAnother => Alone
  BY <1>s DEF OneAfterAnother, Alone
<1>w. /\ Working' \subseteq Working /\ Waiting' = Waiting
      /\ task'[t] = NoTask => t \notin Working'
      /\ t \in Working <=> task[t].kind \in {"outline", "expand"}
  BY <1>s DEF TaskShape, Working, Running, Waiting, NoTask
<1>y. calls.retry = 0 => t \in Working
  <2>1. task[t].kind \in Kinds /\ task[t].kind # "none"
    BY <1>s DEF TaskShape, Typed, FramesTyped, Frames
  <2>2. calls.retry = 0 => task[t].kind # "retry"
    BY DEF Orderly, Accounted
  <2> QED
    BY <2>1, <2>2, <1>w DEF Kinds
<1>o. OneAfterAnother => t \in Working
  BY <1>y DEF OneAfterAnother
<1>h. Alone /\ Waiting # {} => FALSE
  <2> SUFFICES ASSUME Alone, NEW h \in Waiting PROVE FALSE
    OBVIOUS
  <2>1. calls.expand \in Nat /\ calls.resume \in Nat
    BY <1>s DEF Typed, Counted
  <2>2. calls.expand + calls.resume # 0
    BY <2>1 DEF Orderly, Accounted, Waiting
  <2>3. t \in Working
    BY <2>2, <1>o DEF Alone
  <2> QED
    BY <2>3 DEF Orderly, HandlersAlone
<1>1. Accounted'
  <2>1. calls'.retry = 0 => \A u \in Tasks : task'[u].kind # "retry"
    BY <1>s DEF TaskShape, Orderly, Accounted, NoTask
  <2>2. \A p \in Procs : proc[p] = "up"
    BY <1>s DEF TaskShape, Orderly, Accounted
  <2> QED
    BY <1>s, <2>1, <2>2 DEF Orderly, Accounted, Recovering
<1>2. RestMeansIdle'
  <2> SUFFICES ASSUME OneAfterAnother
               PROVE  /\ job'.phase = "COMPLETED" => Working' = {}
                      /\ (calls.cancel = 0 \/ calls.expand + calls.resume = 0) /\ job'.phase \in Quiet =>
                           Working' = {}
    BY <1>s, <1>c DEF RestMeansIdle
  <2>1. t \in Working /\ \A u \in Working : u = t
    BY <1>o, <1>c DEF Orderly, TasksAlone
  <2>2. CASE task'[t] = NoTask
    BY <2>1, <2>2, <1>w
  <2>3. CASE job'.phase \in {job.phase, "CONVERTING", "EXPANDING"}
    BY <2>1, <2>3 DEF Orderly, RestMeansIdle, Quiet, Terminal
  <2> QED
    BY <2>1, <2>2, <2>3, <1>w, TaskMoves
<1>3. HandlersAlone'
  <2>1. Alone => Waiting' = {}
    BY <1>h, <1>w
  <2>2. Alone => \A h \in Handlers : handler'[h].op \notin {"expand", "resume"}
    BY <2>1 DEF Waiting
  <2>3. OneAfterAnother /\ calls.expand + calls.resume = 0 =>
          \A h \in Handlers : handler'[h].op = "cancel" /\ handler'[h].seen.phase = "OUTLINE_READY" =>
                               Working' = {}
    BY <1>s, <1>w DEF Orderly, HandlersAlone
  <2> QED
    BY <1>s, <1>c, <2>1, <2>2, <2>3 DEF HandlersAlone
<1>4. TasksAlone'
  BY <1>c, <1>w DEF Orderly, TasksAlone
<1>5. RowAccounts'
  <2> SUFFICES ASSUME OneAfterAnother
               PROVE  /\ job'.phase = "COMPLETED" =>
                           job'.request.approved \subseteq job'.completed \cup job'.failed
                      /\ \A u \in Tasks : At(u, "expand", "finish")' =>
                           task'[u].req.approved \subseteq job'.completed \cup job'.failed
    BY <1>c DEF RowAccounts
  <2>1. t \in Working /\ \A u \in Working : u = t
    BY <1>o, <1>c DEF Orderly, TasksAlone
  <2>2. job.phase # "COMPLETED"
    BY <2>1 DEF Orderly, RestMeansIdle
  <2>3. job'.phase = "COMPLETED" => job'.request.approved \subseteq job'.completed \cup job'.failed
    BY <2>1, <2>2, <1>w, TaskMoves DEF Orderly, RowAccounts
  <2>4. ASSUME NEW u \in Tasks, At(u, "expand", "finish")'
        PROVE  task'[u].req.approved \subseteq job'.completed \cup job'.failed
    <3>1. u \in Working'
      BY <2>4 DEF At, Working, Running
    <3>2. u = t
      BY <3>1, <2>1, <1>w
    <3> QED
      BY <2>1, <2>4, <3>2, <1>w, TaskMoves
  <2> QED
    BY <2>3, <2>4
<1> QED
  BY <1>1, <1>2, <1>3, <1>4, <1>5 DEF Orderly

\* Once no task and no handler is under way, everything about them holds.
LEMMA QuietOrderly ==
    ASSUME \A t \in Tasks : task'[t].kind = "none", \A h \in Handlers : handler'[h].op = "none",
           \A p \in Procs : proc'[p] \in Recovering => job'.phase = proc'[p],
           job'.phase = "COMPLETED" /\ OneAfterAnother' =>
             job'.request.approved \subseteq job'.completed \cup job'.failed
    PROVE  Orderly'
<1>1. Working' = {} /\ Waiting' = {}
  BY DEF Working, Running, Waiting
<1>2. Accounted'
  BY DEF Accounted
<1>3. RestMeansIdle' /\ TasksAlone'
  BY <1>1 DEF RestMeansIdle, TasksAlone
<1>4. HandlersAlone'
  BY <1>1 DEF HandlersAlone
<1>5. RowAccounts'
  BY DEF RowAccounts, At
<1> QED
  BY <1>2, <1>3, <1>4, <1>5 DEF Orderly

\* The only worker is the worker of every task and handler.
LEMMA OneWorker ==
    ASSUME \A p, q \in Procs : p = q, NEW p \in Procs
    PROVE  Worker = {p}
BY DEF Worker, NoTask

\* A dispatched task is the only new one and starts at the beginning.
LEMMA DispatchOne ==
    ASSUME Typed, NEW kind \in Kinds \ {"none"}, NEW p \in Worker, NEW req \in Asked, NEW ch \in Nat,
           kind = "retry" => ch \in Chapters, Dispatch(kind, p, req, ch)
    PROVE  \A t \in Tasks : \/ task'[t] = task[t]
                            \/ task'[t].kind = kind /\ task'[t].pc = "begin" /\ t = FirstFree
BY DispatchShape

\* The steps of a process, with one worker: it comes up, and goes down, alone.
LEMMA ProcessOrderly ==
    ASSUME Recorded, Typed', Orderly, \A p, q \in Procs : p = q, NEW p \in Procs,
           GenerateOutline(p) \/ Start(p) \/ Recover(p) \/ Crash(p)
    PROVE  Orderly'
<1>f. /\ Typed /\ JobExists /\ job \in Jobs /\ NoRequest \in Asked /\ job.request \in Asked /\ p \in Worker
      /\ claimed[p] \in Asked
      /\ 0 \in Nat /\ proc \in [Procs -> {"down", "up", "RECOVERING_OUTLINE", "RECOVERING_EXPANDING"}]
  BY DEF Recorded, Typed, Jobs, Asked, Worker
<1>k. ASSUME proc[p] # "up"
      PROVE  /\ \A t \in Tasks : task[t].kind = "none"
             /\ \A h \in Handlers : handler[h].op = "none"
  BY <1>k DEF Orderly, Accounted
<1>r. OneAfterAnother /\ job.phase = "COMPLETED" =>
        job.request.approved \subseteq job.completed \cup job.failed
  BY DEF Orderly, RowAccounts
<1>d. ASSUME \A t \in Tasks : task[t].kind = "none", \A h \in Handlers : handler[h].op = "none",
             UNCHANGED <<handler, calls>>, proc'[p] = "up", job'.phase \in Active,
             NEW kind \in {"outline", "expand"}, NEW req \in Asked, Dispatch(kind, p, req, 0)
      PROVE  Orderly'
  <2>1. \A t \in Tasks : \/ task'[t] = task[t]
                         \/ task'[t].kind = kind /\ task'[t].pc = "begin" /\ t = FirstFree
    BY <1>d, <1>f, DispatchOne DEF Kinds
  <2>2. \A t \in Tasks : task'[t].kind # "none" => task'[t].pc = "begin" /\ t = FirstFree /\ task'[t].kind # "retry"
    BY <1>d, <2>1
  <2>3. Waiting' = {} /\ \A t, u \in Working' : t = u
    BY <1>d, <2>2 DEF Waiting, Working, Running
  <2>4. \A q \in Procs : proc'[q] = "up"
    BY <1>d
  <2>5. job'.phase \notin Quiet /\ job'.phase # "COMPLETED"
    BY <1>d, PhaseNames DEF Quiet, Terminal
  <2>6. Accounted'
    BY <1>d, <2>2, <2>4 DEF Accounted, Recovering
  <2>7. RestMeansIdle' /\ TasksAlone'
    BY <2>3, <2>5 DEF RestMeansIdle, TasksAlone
  <2>8. HandlersAlone'
    BY <1>d, <2>3 DEF HandlersAlone
  <2>9. RowAccounts'
    BY <2>2, <2>5 DEF RowAccounts, At
  <2> QED
    BY <2>6, <2>7, <2>8, <2>9 DEF Orderly
<1>1. CASE GenerateOutline(p)
  <2>1. /\ \A t \in Tasks : task[t].kind = "none"
        /\ \A h \in Handlers : handler[h].op = "none"
        /\ UNCHANGED <<handler, calls>> /\ proc'[p] = "up" /\ Dispatch("outline", p, NoRequest, 0)
    BY <1>1, <1>f DEF GenerateOutline, JobExists
  <2>2. job'.phase \in Active
    BY <1>1 DEF GenerateOutline, NoJob, Active
  <2> QED
    BY <2>1, <2>2, <1>d, <1>f
<1>2. CASE Start(p)
  <2>1. UNCHANGED <<task, handler, calls>> /\ proc[p] # "up"
    BY <1>2 DEF Start
  <2>2. \A q \in Procs : proc'[q] \in Recovering => job'.phase = proc'[q]
    BY <1>2, <1>f DEF Start, Recovering, Jobs
  <2>3. job'.phase = "COMPLETED" => job' = job
    BY <1>2, <1>f DEF Start, Jobs
  <2>4. OneAfterAnother' <=> OneAfterAnother
    BY <2>1 DEF OneAfterAnother
  <2>5. /\ \A t \in Tasks : task'[t].kind = "none"
        /\ \A h \in Handlers : handler'[h].op = "none"
    BY <2>1, <1>k
  <2> QED
    BY <2>2, <2>3, <2>4, <2>5, <1>r, QuietOrderly
<1>3. CASE Recover(p)
  <2> DEFINE outline == proc[p] = "RECOVERING_OUTLINE"
             missing == IF outline THEN ~file ELSE claimed[p] = NoRequest
             kind == IF outline THEN "outline" ELSE "expand"
             req == IF outline THEN NoRequest ELSE claimed[p]
  <2>1. /\ \A t \in Tasks : task[t].kind = "none"
        /\ \A h \in Handlers : handler[h].op = "none"
        /\ UNCHANGED <<handler, calls>> /\ proc'[p] = "up" /\ job.phase \in Active
    BY <1>3, <1>f, <1>k, PhaseNames DEF Recover, Orderly, Accounted, Recovering
  <2>2. CASE missing
    <3>1. task' = task /\ job'.phase # "COMPLETED"
      BY <1>3, <2>2, <1>f DEF Recover, Jobs
    <3>2. \A q \in Procs : proc'[q] = "up"
      BY <2>1
    <3> QED
      BY <2>1, <3>1, <3>2, QuietOrderly DEF Recovering
  <2>3. CASE ~missing
    <3>1. Dispatch(kind, p, req, 0) /\ job' = job
      BY <1>3, <2>3 DEF Recover
    <3>2. kind \in {"outline", "expand"} /\ req \in Asked
      BY <1>f
    <3> QED
      BY <2>1, <3>1, <3>2, <1>d
  <2> QED
    BY <2>2, <2>3
<1>4. CASE Crash(p)
  <2>1. Worker = {p}
    BY OneWorker
  <2>2. /\ \A t \in Tasks : task[t].proc = p
        /\ \A h \in Handlers : handler[h].proc = p
    BY <2>1, <1>f DEF Typed, FramesTyped, Frames, Frontends
  <2>3. /\ \A t \in Tasks : task'[t].kind = "none"
        /\ \A h \in Handlers : handler'[h].op = "none"
    BY <1>4, <2>2 DEF Crash, NoTask, NoHandler
  <2>4. job' = job /\ \A q \in Procs : proc'[q] = "down"
    BY <1>4, <1>f DEF Crash
  <2>5. \A op \in Counted : calls[op] <= calls'[op]
    BY <1>4, <1>f, CountTyped DEF Crash, Counted, Typed
  <2>6. OneAfterAnother' => OneAfterAnother
    BY <1>f, <2>5, CallsGrow
  <2> QED
    BY <2>3, <2>4, <2>6, <1>r, QuietOrderly DEF Recovering
<1> QED
  BY <1>1, <1>2, <1>3, <1>4

\* A request is read, with one worker: one that will start a task finds none under
\* way, and no other request that will start one (expand, resume).
LEMMA RequestOrderly ==
    ASSUME Recorded, Typed', Orderly, \A p, q \in Procs : p = q, NEW h \in Handlers, NEW p \in Procs,
           NEW op \in {"expand", "cancel", "resume"}, ReadJob(h, p, op)
    PROVE  Orderly'
<1>f. /\ Typed /\ handler \in [Handlers -> Frontends] /\ UNCHANGED <<job, task, proc>>
      /\ handler[h].op = "none" /\ Accepts(op) /\ \A q \in Procs : proc[q] = "up"
      /\ calls'[op] = calls[op] + 1 /\ \A o \in Counted : o # op => calls'[o] = calls[o]
  BY CountTyped DEF Recorded, Typed, ReadJob, Counted
<1>a. /\ calls.expand \in Nat /\ calls.resume \in Nat /\ calls.cancel \in Nat /\ calls.retry \in Nat
      /\ calls' \in [Counted -> Nat]
  BY <1>f DEF Typed, Counted
<1>c. /\ OneAfterAnother' => OneAfterAnother
      /\ Alone' => Alone
      /\ OneAfterAnother => Alone
      /\ calls'.expand + calls'.resume = 0 => calls.expand + calls.resume = 0
      /\ calls'.cancel = 0 => calls.cancel = 0
      /\ calls'.retry = calls.retry
  <2>1. \A o \in Counted : calls[o] <= calls'[o]
    BY <1>f DEF Typed, Counted
  <2> QED
    BY <1>f, <2>1, CallsGrow DEF Counted
<1>w. /\ Working' = Working
      /\ handler'[h].op = op /\ handler'[h].seen = job
      /\ \A g \in Handlers : g # h => handler'[g] = handler[g]
  BY <1>f DEF Working, Running, ReadJob
<1>1. Accounted'
  <2>1. /\ calls'.expand = 0 => calls.expand = 0 /\ op # "expand"
        /\ calls'.resume = 0 => calls.resume = 0 /\ op # "resume"
        /\ calls'.cancel = 0 => calls.cancel = 0 /\ op # "cancel"
    BY <1>f, <1>a DEF Counted
  <2>2. op \in {"expand", "cancel", "resume"}
    OBVIOUS
  <2> QED
    BY <1>f, <1>c, <1>w, <2>1, <2>2 DEF Orderly, Accounted, Recovering
<1>2. RestMeansIdle'
  BY <1>f, <1>c, <1>w DEF Orderly, RestMeansIdle
<1>3. HandlersAlone'
  <2>1. ASSUME Alone', op = "cancel"
        PROVE  /\ Waiting' # {} => Working' = {}
               /\ \A g, k \in Waiting' : g = k
               /\ calls'.cancel # 0
    <3>1. Waiting' = Waiting
      BY <1>f, <1>w, <2>1 DEF Waiting
    <3> QED
      BY <1>a, <1>c, <1>f, <1>w, <2>1, <3>1 DEF Orderly, HandlersAlone
  <2>2. ASSUME Alone', op # "cancel"
        PROVE  Waiting' = {h} /\ Working' = {} /\ OneAfterAnother'
    <3>1. calls'.expand + calls'.resume # 0 /\ OneAfterAnother'
      <4>1. calls'.expand \in Nat /\ calls'.resume \in Nat /\ (calls'.expand # 0 \/ calls'.resume # 0)
        BY <1>f, <1>a, <2>2 DEF Counted
      <4>2. calls'.expand + calls'.resume # 0
        BY <4>1
      <4> QED
        BY <4>2, <2>2 DEF Alone
    <3>2. OneAfterAnother /\ Alone
      BY <1>c, <3>1
    <3>3. calls.expand + calls.resume = 0 \/ (calls.cancel = 0 /\ (op = "expand" => calls.expand = 0)
                                                 /\ (op = "resume" => calls.resume = 0))
      BY <1>f, <1>a, <2>2, <3>1 DEF OneAfterAnother, Counted
    <3>4. job.phase \in Quiet /\ (op = "expand" => job.phase = "OUTLINE_READY")
                              /\ (op = "resume" => job.phase \in Terminal)
      BY <1>f, <2>2 DEF Accepts, Quiet
    <3>5. Working = {}
      BY <3>2, <3>3, <3>4 DEF Orderly, RestMeansIdle
    <3>6. Waiting = {}
      <4>1. CASE calls.expand + calls.resume = 0
        <5>1. calls.expand = 0 /\ calls.resume = 0
          BY <4>1, <1>a
        <5> QED
          BY <5>1 DEF Orderly, Accounted, Waiting
      <4>2. CASE calls.cancel = 0 /\ op = "expand" /\ calls.expand = 0
        BY <3>2, <3>4, <4>2, PhaseNames DEF Orderly, Accounted, HandlersAlone, Waiting
      <4>3. CASE calls.cancel = 0 /\ op = "resume" /\ calls.resume = 0
        BY <3>2, <3>4, <4>3, PhaseNames DEF Orderly, Accounted, HandlersAlone, Waiting
      <4> QED
        BY <3>3, <4>1, <4>2, <4>3, <2>2
    <3>7. Waiting' = {h}
      BY <1>w, <2>2, <3>6 DEF Waiting
    <3> QED
      BY <1>w, <3>1, <3>5, <3>7
  <2>3. ASSUME Alone', calls'.cancel = 0, NEW g \in Handlers
        PROVE  /\ handler'[g].op = "expand" => job'.phase = "OUTLINE_READY"
               /\ handler'[g].op = "resume" => job'.phase \in Terminal
    <3>1. CASE g = h
      BY <3>1, <1>f, <1>w DEF Accepts
    <3>2. CASE g # h
      BY <3>2, <2>3, <1>f, <1>c, <1>w DEF Orderly, HandlersAlone
    <3> QED
      BY <3>1, <3>2
  <2>4. ASSUME OneAfterAnother', calls'.expand + calls'.resume = 0, NEW g \in Handlers,
               handler'[g].op = "cancel", handler'[g].seen.phase = "OUTLINE_READY"
        PROVE  Working' = {}
    <3>1. OneAfterAnother /\ calls.expand + calls.resume = 0
      BY <1>c, <2>4
    <3>2. CASE g = h
      BY <2>4, <3>1, <3>2, <1>w DEF Orderly, RestMeansIdle, Quiet
    <3>3. CASE g # h
      BY <2>4, <3>1, <3>3, <1>w DEF Orderly, HandlersAlone
    <3> QED
      BY <3>2, <3>3
  <2>5. Alone' => /\ Waiting' # {} => Working' = {}
                  /\ \A g, k \in Waiting' : g = k
    BY <2>1, <2>2
  <2> QED
    BY <2>3, <2>4, <2>5 DEF HandlersAlone
<1>4. TasksAlone'
  BY <1>c, <1>w DEF Orderly, TasksAlone
<1>5. RowAccounts'
  BY <1>f, <1>c DEF Orderly, RowAccounts, At
<1> QED
  BY <1>1, <1>2, <1>3, <1>4, <1>5 DEF Orderly

\* A retry, with one worker, ends what can be said of the lists and adds no outline
\* or expand task.
LEMMA RetryOrderly ==
    ASSUME Recorded, Typed', Orderly, \A p, q \in Procs : p = q, NEW p \in Procs, NEW ch \in Chapters,
           RetryChapter(p, ch)
    PROVE  Orderly'
<1>f. /\ Typed /\ UNCHANGED <<job, handler, proc>> /\ \A q \in Procs : proc[q] = "up"
      /\ calls'["retry"] = calls["retry"] + 1 /\ \A o \in Counted : o # "retry" => calls'[o] = calls[o]
      /\ Dispatch("retry", p, NoRequest, ch)
  BY CountTyped DEF Recorded, RetryChapter, Counted
<1>1. /\ calls'.retry # 0 /\ calls'.expand = calls.expand /\ calls'.resume = calls.resume
      /\ calls'.cancel = calls.cancel
  BY <1>f DEF Typed, Counted
<1>2. ~OneAfterAnother' /\ (Alone' => Alone)
  BY <1>1 DEF OneAfterAnother, Alone
<1>3. \A t \in Tasks : task'[t] = task[t] \/ task'[t].kind = "retry"
  <2>1. NoRequest \in Asked /\ p \in Worker /\ ch \in Nat
    BY CourseAssumption DEF Asked, Worker
  <2> QED
    BY <1>f, <2>1, DispatchOne DEF Kinds
<1>4. Working' \subseteq Working /\ Waiting' = Waiting
  BY <1>f, <1>3 DEF Working, Running, Waiting
<1>5. Accounted'
  BY <1>f, <1>1 DEF Orderly, Accounted, Recovering
<1>6. HandlersAlone'
  BY <1>f, <1>1, <1>2, <1>4 DEF Orderly, HandlersAlone
<1>7. RestMeansIdle' /\ TasksAlone' /\ RowAccounts'
  BY <1>2, <1>4 DEF Orderly, RestMeansIdle, TasksAlone, RowAccounts
<1> QED
  BY <1>5, <1>6, <1>7 DEF Orderly

\* The end of a handler, with one worker: the one that starts a task was the only
\* one to do so, and a cancelled task has no successor yet (expand, cancel, resume).
LEMMA HandlerOrderly ==
    ASSUME Recorded, Typed', Orderly, \A p, q \in Procs : p = q, NEW h \in Handlers, HandlerStep(h)
    PROVE  Orderly'
<1>f. /\ Typed /\ handler \in [Handlers -> Frontends] /\ task \in [Tasks -> Frames] /\ job \in Jobs
      /\ UNCHANGED <<proc, calls>> /\ handler[h].op # "none"
      /\ handler[h].proc \in Worker /\ handler[h].seen.request \in Asked /\ NoRequest \in Asked
      /\ Requests \subseteq Asked /\ 0 \in Nat
  BY DEF Recorded, Typed, FramesTyped, HandlerStep, ExpandApply, CancelApply, CancelKill, ResumeApply,
         Frontends, Jobs, Asked
<1>a. calls.expand \in Nat /\ calls.resume \in Nat /\ calls.cancel \in Nat /\ calls.retry \in Nat
  BY <1>f DEF Typed, Counted
<1>c. /\ OneAfterAnother' <=> OneAfterAnother
      /\ Alone' <=> Alone
      /\ OneAfterAnother => Alone
  BY <1>f DEF OneAfterAnother, Alone
<1>u. \A p \in Procs : proc'[p] = "up"
  BY <1>f DEF Orderly, Accounted
<1>h. /\ handler'[h].op \in {"none", "kill"} /\ (handler'[h].op = "kill" => handler[h].op = "cancel")
      /\ \A g \in Handlers : g # h => handler'[g] = handler[g]
  <2>1. \/ handler' = [handler EXCEPT ![h] = NoHandler]
        \/ handler[h].op = "cancel" /\ handler' = [handler EXCEPT ![h].op = "kill"]
    BY DEF HandlerStep, ExpandApply, CancelApply, CancelKill, ResumeApply
  <2>2. NoHandler.op = "none" /\ [handler[h] EXCEPT !.op = "kill"].op = "kill"
    BY <1>f DEF NoHandler, Frontends
  <2> QED
    BY <1>f, <2>1, <2>2
<1>w. Waiting' = Waiting \ {h}
  BY <1>h DEF Waiting
<1>r. ASSUME \A t \in Tasks : \/ task'[t] = task[t] \/ task'[t].kind \in {"none", "outline"}
                              \/ task'[t].kind = "expand" /\ task'[t].pc # "finish"
                              \/ task'[t].kind = task[t].kind /\ task'[t].pc # "finish"
      PROVE  Accounted'
  <2>1. calls'.retry = 0 => \A t \in Tasks : task'[t].kind # "retry"
    BY <1>f, <1>r DEF Orderly, Accounted
  <2>2. /\ calls.expand = 0 => \A g \in Handlers : handler'[g].op # "expand"
        /\ calls.resume = 0 => \A g \in Handlers : handler'[g].op # "resume"
        /\ calls.cancel = 0 => \A g \in Handlers : handler'[g].op \notin {"cancel", "kill"}
    BY <1>h DEF Orderly, Accounted
  <2> QED
    BY <1>f, <1>u, <2>1, <2>2 DEF Accounted, Recovering
<1>d. ASSUME handler[h].op \in {"expand", "resume"}, job'.phase \notin Quiet,
             \A t \in Tasks : \/ task'[t] = task[t]
                              \/ task'[t].kind \in {"outline", "expand"} /\ task'[t].pc = "begin" /\ t = FirstFree
      PROVE  Orderly'
  <2>1. h \in Waiting /\ calls.expand + calls.resume # 0
    BY <1>d, <1>a DEF Orderly, Accounted, Waiting
  <2>2. Alone => Working = {} /\ Waiting' = {}
    BY <2>1, <1>w DEF Orderly, HandlersAlone
  <2>3. Accounted'
    BY <1>d, <1>r
  <2>4. RestMeansIdle'
    BY <1>d DEF RestMeansIdle, Quiet, Terminal
  <2>5. Alone => \A t, u \in Working' : t = u
    BY <1>d, <2>2 DEF Working, Running
  <2>6. HandlersAlone'
    BY <1>c, <1>f, <2>1, <2>2 DEF HandlersAlone, Waiting
  <2>7. RowAccounts'
    BY <1>c, <1>d, <2>2 DEF RowAccounts, At, Working, Running, Quiet, Terminal
  <2> QED
    BY <1>c, <2>3, <2>4, <2>5, <2>6, <2>7 DEF Orderly, TasksAlone
<1>1. ASSUME NEW req \in Requests, ExpandApply(h, req) PROVE Orderly'
  <2>1. job'.phase \notin Quiet
    BY <1>1, <1>f DEF ExpandApply, Quiet, Terminal, Jobs
  <2>2. Dispatch("expand", handler[h].proc, req, 0) /\ handler[h].op = "expand" /\ req \in Asked
    BY <1>1, <1>f DEF ExpandApply
  <2>3. \A t \in Tasks : \/ task'[t] = task[t]
                         \/ task'[t].kind = "expand" /\ task'[t].pc = "begin" /\ t = FirstFree
    BY <1>f, <2>2, DispatchOne DEF Kinds
  <2> QED
    BY <2>1, <2>2, <2>3, <1>d
<1>2. CASE CancelApply(h)
  <2>1. /\ task' = task /\ handler[h].op = "cancel" /\ Working' = Working
        /\ job'.completed = job.completed /\ job'.failed = job.failed /\ job'.request = job.request
        /\ \/ job'.phase = job.phase
           \/ job'.phase = "CANCELLED" /\ handler[h].seen.phase = "OUTLINE_READY"
    BY <1>2, <1>f DEF CancelApply, Jobs, Working, Running
  <2>2. calls.cancel # 0 /\ Waiting' = Waiting
    BY <2>1, <1>w DEF Orderly, Accounted, Waiting
  <2>3. Accounted'
    BY <2>1, <1>r
  <2>4. RestMeansIdle'
    <3>1. ASSUME OneAfterAnother, job'.phase = "COMPLETED" PROVE Working = {}
      BY <2>1, <3>1 DEF Orderly, RestMeansIdle
    <3>2. ASSUME OneAfterAnother, calls.expand + calls.resume = 0, job'.phase \in Quiet PROVE Working = {}
      BY <2>1, <3>2 DEF Orderly, RestMeansIdle, HandlersAlone
    <3> QED
      BY <1>c, <1>f, <2>1, <2>2, <3>1, <3>2 DEF RestMeansIdle
  <2>5. HandlersAlone'
    <3>1. Alone => /\ Waiting' # {} => Working' = {}
                   /\ \A g, k \in Waiting' : g = k
      BY <2>1, <2>2 DEF Orderly, HandlersAlone
    <3>2. ASSUME OneAfterAnother, calls.expand + calls.resume = 0, NEW g \in Handlers,
                 handler'[g].op = "cancel", handler'[g].seen.phase = "OUTLINE_READY"
          PROVE  Working' = {}
      BY <3>2, <2>1, <1>h DEF Orderly, HandlersAlone
    <3> QED
      BY <1>c, <1>f, <2>2, <3>1, <3>2 DEF HandlersAlone
  <2>6. TasksAlone'
    BY <1>c, <2>1 DEF Orderly, TasksAlone
  <2>7. RowAccounts'
    BY <1>c, <2>1 DEF Orderly, RowAccounts, At
  <2> QED
    BY <2>3, <2>4, <2>5, <2>6, <2>7 DEF Orderly
<1>3. CASE CancelKill(h)
  <2>1. /\ job' = job /\ handler[h].op = "kill"
        /\ \A t \in Tasks : \/ task'[t] = task[t] \/ task'[t].kind = "none"
                            \/ task'[t].kind = task[t].kind /\ task'[t].pc # "finish"
    BY <1>3, <1>f DEF CancelKill, NoTask, Frames
  <2>2. Waiting' = Waiting /\ Working' \subseteq Working /\ handler'[h].op # "cancel"
    BY <2>1, <1>w, <1>h DEF Waiting, Working, Running
  <2>3. Accounted'
    BY <2>1, <1>r
  <2>4. RestMeansIdle'
    BY <1>c, <1>f, <2>1, <2>2 DEF Orderly, RestMeansIdle
  <2>5. HandlersAlone'
    <3>1. Alone => /\ Waiting' # {} => Working' = {}
                   /\ \A g, k \in Waiting' : g = k
      BY <2>2 DEF Orderly, HandlersAlone
    <3>2. ASSUME OneAfterAnother, calls.expand + calls.resume = 0, NEW g \in Handlers,
                 handler'[g].op = "cancel", handler'[g].seen.phase = "OUTLINE_READY"
          PROVE  Working' = {}
      BY <3>2, <2>2, <1>h DEF Orderly, HandlersAlone
    <3>3. ASSUME Alone, calls.cancel = 0, NEW g \in Handlers
          PROVE  /\ handler'[g].op = "expand" => job'.phase = "OUTLINE_READY"
                 /\ handler'[g].op = "resume" => job'.phase \in Terminal
      BY <3>3, <2>1, <1>h DEF Orderly, HandlersAlone
    <3> QED
      BY <1>c, <1>f, <3>1, <3>2, <3>3 DEF HandlersAlone
  <2>6. TasksAlone'
    BY <1>c, <2>2 DEF Orderly, TasksAlone
  <2>7. RowAccounts'
    BY <1>c, <2>1 DEF Orderly, RowAccounts, At
  <2> QED
    BY <2>3, <2>4, <2>5, <2>6, <2>7 DEF Orderly
<1>4. CASE ResumeApply(h)
  <2>1. handler[h].op = "resume"
    BY <1>4 DEF ResumeApply
  <2>2. CASE /\ job'.phase \in {"CONVERTING", "EXPANDING"}
             /\ \/ Dispatch("outline", handler[h].proc, NoRequest, 0)
                \/ Dispatch("expand", handler[h].proc, handler[h].seen.request, 0)
    <3>1. \A t \in Tasks : \/ task'[t] = task[t]
                           \/ /\ task'[t].kind \in {"outline", "expand"} /\ task'[t].pc = "begin"
                              /\ t = FirstFree
      BY <1>f, <2>2, DispatchOne DEF Kinds
    <3>2. job'.phase \notin Quiet
      BY <2>2 DEF Quiet, Terminal
    <3> QED
      BY <2>1, <3>1, <3>2, <1>d
  <2>3. CASE /\ task' = task /\ job'.phase \in {job.phase, "OUTLINE_READY"}
             /\ job'.completed = job.completed /\ job'.failed = job.failed /\ job'.request = job.request
    <3>1. h \in Waiting /\ calls.expand + calls.resume # 0
      BY <2>1, <1>a DEF Orderly, Accounted, Waiting
    <3>2. Alone => Working = {} /\ Waiting' = {}
      BY <3>1, <1>w DEF Orderly, HandlersAlone
    <3>3. Working' = Working
      BY <2>3 DEF Working, Running
    <3>4. Accounted'
      BY <2>3, <1>r
    <3>5. RestMeansIdle' /\ TasksAlone'
      BY <1>c, <3>2, <3>3 DEF RestMeansIdle, TasksAlone
    <3>6. HandlersAlone'
      BY <1>c, <1>f, <3>1, <3>2 DEF HandlersAlone, Waiting
    <3>7. RowAccounts'
      BY <1>c, <2>3 DEF Orderly, RowAccounts, At
    <3> QED
      BY <3>4, <3>5, <3>6, <3>7 DEF Orderly
  <2> QED
    BY <1>4, <1>f, <2>2, <2>3 DEF ResumeApply, Jobs
<1> QED
  BY <1>1, <1>2, <1>3, <1>4 DEF HandlerStep

\* Every step keeps the work of one worker in order.
LEMMA SingleStep ==
    ASSUME Recorded, SingleWorker, [Next]_vars
    PROVE  SingleWorker'
<1> SUFFICES ASSUME \A p, q \in Procs : p = q, Orderly PROVE Orderly'
  BY DEF SingleWorker, Orderly
<1>t. Typed'
  BY TypeStep DEF Recorded
<1>1. CASE Age \/ UNCHANGED vars
  <2>1. /\ UNCHANGED <<task, handler, proc, calls>> /\ job'.phase = job.phase
        /\ job'.request = job.request /\ job'.completed = job.completed /\ job'.failed = job.failed
    BY <1>1 DEF Age, vars, Recorded, Typed, Jobs
  <2>2. /\ Working' = Working /\ Waiting' = Waiting
        /\ OneAfterAnother' <=> OneAfterAnother
        /\ Alone' <=> Alone
    BY <2>1 DEF Working, Running, Waiting, Alone, OneAfterAnother
  <2>3. Accounted' /\ RestMeansIdle'
    BY <2>1, <2>2 DEF Orderly, Accounted, RestMeansIdle
  <2>4. HandlersAlone' /\ TasksAlone'
    BY <2>1, <2>2 DEF Orderly, HandlersAlone, TasksAlone
  <2>5. RowAccounts'
    BY <2>1, <2>2 DEF Orderly, RowAccounts, At
  <2> QED
    BY <2>3, <2>4, <2>5 DEF Orderly
<1> QED
  BY <1>t, <1>1, ProcessOrderly, RequestOrderly, RetryOrderly, HandlerOrderly, TaskOrderly DEF Next

\* With one worker, the tasks of a job stay in order.
THEOREM WorkInOrder == Spec => []IInv
<1>1. Init => SingleWorker
  <2> SUFFICES ASSUME Init PROVE Orderly
    BY DEF SingleWorker, Orderly
  <2>1. /\ \A t \in Tasks : task[t].kind = "none"
        /\ \A h \in Handlers : handler[h].op = "none"
        /\ \A p \in Procs : proc[p] \notin Recovering
        /\ job.phase # "COMPLETED"
    BY DEF Init, NoTask, NoHandler, Recovering, NoJob
  <2>2. Working = {} /\ Waiting = {}
    BY <2>1 DEF Working, Running, Waiting
  <2>3. Accounted /\ RestMeansIdle /\ TasksAlone
    BY <2>1, <2>2 DEF Accounted, RestMeansIdle, TasksAlone
  <2>4. HandlersAlone /\ RowAccounts
    BY <2>1, <2>2 DEF HandlersAlone, RowAccounts, At
  <2> QED
    BY <2>3, <2>4 DEF Orderly
<1> QED
  BY <1>1, RecordedInit, RecordedStep, SingleStep, PTL DEF Spec, IInv

\* A finished job accounts for every approved chapter, if its expansions have
\* followed one another.
THEOREM ChaptersAccounted == Spec => []NoChapterForgotten
<1>1. IInv => NoChapterForgotten
  BY DEF IInv, SingleWorker, RowAccounts, OneAfterAnother, NoChapterForgotten
<1> QED
  BY <1>1, WorkInOrder, PTL

\* With one worker, one request leads to one outline or expand task at a time.
THEOREM OneTaskPerRequest ==
    ASSUME \A p, q \in Procs : p = q
    PROVE  Spec => []NoDuplicateWork
<1>1. IInv => NoDuplicateWork
  <2> SUFFICES ASSUME IInv, calls.expand + calls.resume + calls.retry <= 1
               PROVE  Cardinality(Working) <= 1
    BY DEF NoDuplicateWork, Working
  <2>1. calls.expand \in Nat /\ calls.resume \in Nat /\ calls.retry \in Nat
    BY DEF IInv, Recorded, Typed, Counted
  <2>2. calls.expand + calls.resume = 0 \/ (calls.retry = 0 /\ calls.expand + calls.resume <= 1)
    BY <2>1
  <2>3. Alone
    BY <2>2 DEF Alone, OneAfterAnother
  <2>4. \A t, u \in Working : t = u
    BY <2>3 DEF IInv, SingleWorker, TasksAlone
  <2>5. CASE Working = {}
    BY <2>5, FS_EmptySet
  <2>6. ASSUME NEW t \in Working PROVE Cardinality(Working) <= 1
    <3>1. Working = {t}
      BY <2>4, <2>6
    <3>2. Cardinality({t}) = 1
      BY FS_Singleton
    <3> QED
      BY <3>1, <3>2
  <2> QED
    BY <2>5, <2>6
<1> QED
  BY <1>1, WorkInOrder, PTL

=============================================================================
