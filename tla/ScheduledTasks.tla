---------------------------- MODULE ScheduledTasks ----------------------------
(***************************************************************************)
(* The scheduler of the hosted service: rows of scheduled_tasks, the tools *)
(* that create and cancel them, and the executors that poll for due rows,  *)
(* run them one after another, notify the owner and record the outcome.    *)
(*                                                                         *)
(* The repository is synchronous, so each of its calls is one step; an     *)
(* executor gives way to others while a task runs and while the owner is   *)
(* notified.  A repository call that fails returns False and is ignored.   *)
(***************************************************************************)
EXTENDS Integers, FiniteSets

CONSTANTS Tasks,        \* task ids
          NoTask,       \* the executor runs no task
          Executors,    \* one executor per process
          Recurring,    \* the tasks with a parseable interval
          MaxRuns,      \* max_runs of every task, 0 for NULL
          Limit,        \* scheduler_max_concurrent: rows fetched by one poll
          MaxFailures,  \* failures after which a task is given up
          MaxTime,      \* bound on the clock
          MaxFaults     \* bound on crashes, forced stops and lost writes

ASSUME SchedulerAssumption ==
    /\ IsFiniteSet(Tasks) /\ IsFiniteSet(Executors) /\ NoTask \notin Tasks /\ Recurring \subseteq Tasks
    /\ MaxRuns \in [Tasks -> Nat]
    /\ Limit \in Nat \ {0} /\ MaxFailures \in Nat \ {0}
    /\ MaxTime \in Nat /\ MaxFaults \in Nat

VARIABLES row,      \* the table
          now,      \* the clock
          batch,    \* rows fetched by an executor and not yet run, as <<next_run, id>>
          current,  \* the task an executor is running
          pc,       \* idle, run, deliver, mark, or down
          sent,     \* how often the owner has been notified
          faults    \* faults so far

vars == <<row, now, batch, current, pc, sent, faults>>

Null == 0 - 1
Statuses == {"none", "active", "cancelled", "completed", "failed"}
Interval == 1

Due == {t \in Tasks : /\ row[t].status = "active"
                      /\ row[t].next # Null /\ row[t].next <= now
                      /\ row[t].fails < MaxFailures}

Init ==
    /\ row = [t \in Tasks |-> [status |-> "none", next |-> Null, runs |-> 0, fails |-> 0]]
    /\ now = 0
    /\ batch = [e \in Executors |-> {}]
    /\ current = [e \in Executors |-> NoTask]
    /\ pc = [e \in Executors |-> "idle"]
    /\ sent = [t \in Tasks |-> 0]
    /\ faults = 0

\* The tool refuses a time that is not in the future.
CreateTask(t, at) ==
    /\ row[t].status = "none" /\ at > now
    /\ row' = [row EXCEPT ![t].status = "active", ![t].next = at]
    /\ UNCHANGED <<now, batch, current, pc, sent, faults>>

CancelTask(t) ==
    /\ row[t].status = "active"
    /\ row' = [row EXCEPT ![t].status = "cancelled"]
    /\ UNCHANGED <<now, batch, current, pc, sent, faults>>

\* The earliest due rows, at most Limit of them; nothing in the table says that
\* they have been taken.
FirstDue(S) == /\ S \subseteq Due
               /\ Cardinality(S) = IF Cardinality(Due) < Limit THEN Cardinality(Due) ELSE Limit
               /\ \A t \in S, u \in Due \ S : row[t].next <= row[u].next

Poll(e) ==
    /\ pc[e] = "idle" /\ batch[e] = {} /\ Due # {}
    /\ \E S \in SUBSET Due :
         FirstDue(S) /\ batch' = [batch EXCEPT ![e] = {<<row[t].next, t>> : t \in S}]
    /\ UNCHANGED <<row, now, current, pc, sent, faults>>

\* The rows of a batch are run one after another, in the order of the query.
Pick(e) ==
    /\ pc[e] = "idle"
    /\ \E b \in batch[e] :
         /\ \A c \in batch[e] : b[1] <= c[1]
         /\ batch' = [batch EXCEPT ![e] = @ \ {b}]
         /\ current' = [current EXCEPT ![e] = b[2]]
    /\ pc' = [pc EXCEPT ![e] = "run"]
    /\ UNCHANGED <<row, now, sent, faults>>

Done(e) == /\ pc' = [pc EXCEPT ![e] = "idle"]
           /\ current' = [current EXCEPT ![e] = NoTask]

RunSucceeds(e) ==
    /\ pc[e] = "run"
    /\ pc' = [pc EXCEPT ![e] = "deliver"]
    /\ UNCHANGED <<row, now, batch, current, sent, faults>>

\* Mutant: a result that has been delivered is delivered a second time.
DeliverAgain(e) ==
    /\ pc[e] = "deliver"
    /\ sent' = [sent EXCEPT ![current[e]] = @ + 1]
    /\ pc' \in {[pc EXCEPT ![e] = "deliver"], [pc EXCEPT ![e] = "mark"]}
    /\ UNCHANGED <<row, now, batch, current, faults>>

\* A result that cannot be delivered still counts as executed.
Deliver(e) ==
    /\ pc[e] = "deliver"
    /\ sent' \in {sent, [sent EXCEPT ![current[e]] = @ + 1]}
    /\ pc' = [pc EXCEPT ![e] = "mark"]
    /\ UNCHANGED <<row, now, batch, current, faults>>

\* Mutants: max_runs is not looked at; a next run makes the task active.
ExecutedUnlimited(r, t) ==
    IF t \in Recurring THEN [r EXCEPT !.runs = @ + 1, !.next = now + Interval]
    ELSE [r EXCEPT !.runs = @ + 1, !.next = Null, !.status = "completed"]
ExecutedActive(r, t) ==
    IF t \in Recurring THEN [r EXCEPT !.runs = @ + 1, !.next = now + Interval, !.status = "active"]
    ELSE [r EXCEPT !.runs = @ + 1, !.next = Null, !.status = "completed"]
Executed(r, t) ==
    LET next == IF t \in Recurring THEN now + Interval ELSE Null
        ran == [r EXCEPT !.runs = @ + 1, !.next = next,
                         !.status = IF next = Null THEN "completed" ELSE @]
    IN  IF MaxRuns[t] # 0 /\ ran.runs >= MaxRuns[t]
        THEN [ran EXCEPT !.status = "completed", !.next = Null] ELSE ran

MarkExecuted(e) ==
    /\ pc[e] = "mark"
    /\ row' = [row EXCEPT ![current[e]] = Executed(@, current[e])]
    /\ Done(e)
    /\ UNCHANGED <<now, batch, sent, faults>>

\* Mutant: failures are not counted.
FailedUncounted(r) == r
Failed(r) == [r EXCEPT !.fails = @ + 1,
                       !.status = IF r.fails + 1 >= MaxFailures THEN "failed" ELSE @]

\* A time-out or an exception of the run or of the notification.
MarkFailed(e) ==
    /\ pc[e] \in {"run", "deliver"}
    /\ row' = [row EXCEPT ![current[e]] = Failed(@)]
    /\ Done(e)
    /\ UNCHANGED <<now, batch, sent, faults>>

\* The UPDATE raises: mark_executed and mark_failed return False, the loop goes on.
WriteLost(e) ==
    /\ pc[e] \in {"run", "deliver", "mark"} /\ faults < MaxFaults
    /\ faults' = faults + 1
    /\ Done(e)
    /\ UNCHANGED <<row, now, batch, sent>>

\* A crash, or the cancellation that follows shutdown's time-out.
Stop(e) ==
    /\ pc[e] # "down" /\ faults < MaxFaults
    /\ faults' = faults + 1
    /\ pc' = [pc EXCEPT ![e] = "down"]
    /\ batch' = [batch EXCEPT ![e] = {}]
    /\ current' = [current EXCEPT ![e] = NoTask]
    /\ UNCHANGED <<row, now, sent>>

Start(e) ==
    /\ pc[e] = "down"
    /\ pc' = [pc EXCEPT ![e] = "idle"]
    /\ UNCHANGED <<row, now, batch, current, sent, faults>>

Tick == /\ now < MaxTime /\ now' = now + 1
        /\ UNCHANGED <<row, batch, current, pc, sent, faults>>

Step(e) == Poll(e) \/ Pick(e) \/ RunSucceeds(e) \/ Deliver(e) \/ MarkExecuted(e) \/ MarkFailed(e)

Next ==
    \/ \E t \in Tasks : CancelTask(t) \/ \E at \in 1..MaxTime : CreateTask(t, at)
    \/ \E e \in Executors : Step(e) \/ WriteLost(e) \/ Stop(e) \/ Start(e)
    \/ Tick

Spec == Init /\ [][Next]_vars

\* The poll loop never stops by itself, every run is limited by a time-out, and
\* a stopped process is started again.
FairSpec == Spec /\ \A e \in Executors : WF_vars(Step(e)) /\ WF_vars(Start(e))

-----------------------------------------------------------------------------
\* Rows, executors and counters hold what their columns and locals can hold.
TypeOK ==
    /\ row \in [Tasks -> [status: Statuses, next: Int, runs: Nat, fails: Nat]]
    /\ batch \in [Executors -> SUBSET (Int \X Tasks)]
    /\ current \in [Executors -> Tasks \cup {NoTask}]
    /\ pc \in [Executors -> {"idle", "run", "deliver", "mark", "down"}]
    /\ now \in Nat /\ faults \in Nat
    /\ sent \in [Tasks -> Nat]

\* The run a task is in the middle of.
InProgress(t) == Cardinality({e \in Executors : current[e] = t /\ pc[e] = "mark"})

\* An owner is notified at most once per recorded run, the run in progress and
\* each fault apart: cancelling, failing or recreating batches never repeats a
\* notification by itself (_execute_due_task_with_observability).
NotifiedOncePerRun == \A t \in Tasks : sent[t] <= row[t].runs + InProgress(t) + faults

\* The executors that have fetched a task and not yet recorded anything about it.
Holders(t) == {e \in Executors : current[e] = t \/ \E b \in batch[e] : b[2] = t}

\* max_runs is exceeded by the copies that were fetched before the limit was
\* reached and by nothing else: counting the runs still to come of the copies
\* held, a task is run at most once more than max_runs by each further executor,
\* and by a single executor never.  get_due_tasks takes no lock, and the limit is
\* looked at only when a run is recorded (mark_executed).
OverrunsAreStale ==
    \A t \in Tasks :
        MaxRuns[t] # 0 =>
            row[t].runs + Cardinality(Holders(t)) < MaxRuns[t] + Cardinality(Executors)

\* A task that keeps failing does not keep others waiting: every due task is
\* eventually run, given up or cancelled, whatever the order and the limit of
\* the poll (get_due_tasks leaves out a task after MaxFailures failures).
NoStarvation == \A t \in Tasks : (t \in Due) ~> (t \notin Due)

\* A task that was cancelled, given up or has had its last run is never active
\* again, whatever an executor that had fetched it before still records about
\* it (mark_executed and mark_failed do not look at the status they replace).
NeverRevived ==
    [][\A t \in Tasks : row[t].status \in {"cancelled", "completed", "failed"} =>
                            row'[t].status # "active"]_vars

=============================================================================
