------------------------- MODULE ScheduledTasksProofs -------------------------
(***************************************************************************)
(* What the scheduler promises, proved for any number of tasks, executors  *)
(* and faults: an owner is not notified more often than runs are recorded, *)
(* and max_runs is exceeded only by copies fetched before.                 *)
(***************************************************************************)
EXTENDS ScheduledTasks, FiniteSetTheorems, TLAPS

Busy == {"run", "deliver", "mark"}

\* An executor runs a task in the middle of its loop and nowhere else.
BusyHasTask ==
    \A e \in Executors : IF pc[e] \in Busy THEN current[e] \in Tasks ELSE current[e] = NoTask

Rows == [status: Statuses, next: Int, runs: Nat, fails: Nat]

Marking(t) == {e \in Executors : current[e] = t /\ pc[e] = "mark"}

\* An UPDATE of a row's columns leaves a row.
LEMMA RowUpdated ==
    ASSUME NEW r \in Rows
    PROVE  /\ \A s \in Statuses : [r EXCEPT !.status = s] \in Rows
           /\ \A n \in Int : [r EXCEPT !.next = n] \in Rows
           /\ \A n \in Nat : [r EXCEPT !.runs = n] \in Rows
           /\ \A n \in Nat : [r EXCEPT !.fails = n] \in Rows
           /\ r.status \in Statuses /\ r.next \in Int /\ r.runs \in Nat /\ r.fails \in Nat
  BY DEF Rows

\* mark_failed leaves a row and does not count a run.
LEMMA FailedRow ==
    ASSUME NEW r \in Rows PROVE Failed(r) \in Rows /\ Failed(r).runs = r.runs
<1>1. [r EXCEPT !.fails = @ + 1] \in Rows
  BY RowUpdated
<1>2. (IF r.fails + 1 >= MaxFailures THEN "failed" ELSE r.status) \in Statuses
  BY RowUpdated DEF Statuses
<1>3. Failed(r) \in Rows
  BY <1>1, <1>2, RowUpdated DEF Failed
<1>4. Failed(r).runs = r.runs
  BY DEF Failed, Rows
<1> QED
  BY <1>3, <1>4

\* mark_executed leaves a row and counts one run.
LEMMA ExecutedRow ==
    ASSUME NEW r \in Rows, NEW t \in Tasks, now \in Nat
    PROVE  /\ Executed(r, t) \in Rows
           /\ Executed(r, t).runs = r.runs + 1
           /\ \/ Executed(r, t).status \in {r.status, "completed"} /\ (MaxRuns[t] = 0 \/ r.runs + 1 < MaxRuns[t])
              \/ Executed(r, t).status = "completed"
<1> DEFINE next == IF t \in Recurring THEN now + Interval ELSE Null
           ran == [r EXCEPT !.runs = @ + 1, !.next = next, !.status = IF next = Null THEN "completed" ELSE @]
           over == [ran EXCEPT !.status = "completed", !.next = Null]
<1>1. next \in Int
  BY DEF Null, Interval
<1> HIDE DEF next
<1>2. [r EXCEPT !.runs = @ + 1] \in Rows /\ [r EXCEPT !.runs = @ + 1].status = r.status
  BY DEF Rows
<1>3. [r EXCEPT !.runs = @ + 1, !.next = next] \in Rows
  BY <1>1, <1>2, RowUpdated
<1>4. (IF next = Null THEN "completed" ELSE r.status) \in Statuses
  BY RowUpdated DEF Statuses
<1>5. ran \in Rows /\ ran.runs = r.runs + 1 /\ ran.status \in {r.status, "completed"}
  <2>1. ran.runs = r.runs + 1 /\ ran.status \in {r.status, "completed"}
    BY DEF Rows
  <2>2. ran = [[r EXCEPT !.runs = @ + 1, !.next = next] EXCEPT !.status = IF next = Null THEN "completed" ELSE r.status]
    BY DEF Rows
  <2> QED
    BY <1>3, <1>4, <2>1, <2>2, RowUpdated
<1> HIDE DEF ran
<1>6. over \in Rows /\ over.runs = ran.runs /\ over.status = "completed"
  <2>1. "completed" \in Statuses /\ Null \in Int
    BY DEF Statuses, Null
  <2>2. over \in Rows
    BY <1>5, <2>1, RowUpdated
  <2>3. over.runs = ran.runs /\ over.status = "completed"
    BY <1>5 DEF Rows
  <2> QED
    BY <2>2, <2>3
<1>7. Executed(r, t) = IF MaxRuns[t] # 0 /\ ran.runs >= MaxRuns[t] THEN over ELSE ran
  BY DEF Executed, ran, next
<1> QED
  BY <1>5, <1>6, <1>7, RowUpdated, SchedulerAssumption

\* The executors about to record a run are finitely many.
LEMMA MarkingFinite ==
    ASSUME NEW t PROVE IsFiniteSet(Marking(t)) /\ InProgress(t) \in Nat
<1>1. Marking(t) \in SUBSET Executors
  BY DEF Marking
<1>2. IsFiniteSet(Marking(t))
  BY <1>1, FS_Subset, SchedulerAssumption
<1> QED
  BY <1>2, FS_CardinalityType DEF InProgress, Marking

\* A step that neither begins nor ends the recording of a run.
LEMMA MarkingUnchanged ==
    ASSUME NEW t, \A e \in Executors : (current[e] = t /\ pc[e] = "mark") <=> (current'[e] = t /\ pc'[e] = "mark")
    PROVE  InProgress(t)' = InProgress(t)
<1>1. Marking(t)' = Marking(t)
  BY DEF Marking
<1> QED
  BY <1>1 DEF InProgress, Marking

\* A step that begins to record a run (_execute_due_task_with_observability).
LEMMA MarkingBegins ==
    ASSUME NEW t, NEW e \in Executors, pc[e] # "mark", Marking(t)' = Marking(t) \cup {e}
    PROVE  InProgress(t)' = InProgress(t) + 1
<1>1. e \notin Marking(t)
  BY DEF Marking
<1>2. Cardinality(Marking(t) \cup {e}) = Cardinality(Marking(t)) + 1
  BY <1>1, MarkingFinite, FS_AddElement
<1> QED
  BY <1>2 DEF InProgress, Marking

\* A step that ends the recording of a run.
LEMMA MarkingEnds ==
    ASSUME NEW t, NEW e, Marking(t)' = Marking(t) \ {e}
    PROVE  InProgress(t) <= InProgress(t)' + 1 /\ InProgress(t)' \in Nat
<1>1. Cardinality(Marking(t) \ {e}) = IF e \in Marking(t) THEN Cardinality(Marking(t)) - 1 ELSE Cardinality(Marking(t))
  BY MarkingFinite, FS_RemoveElement
<1>2. Cardinality(Marking(t) \ {e}) \in Nat
  BY MarkingFinite, FS_RemoveElement, FS_CardinalityType
<1>3. InProgress(t)' = Cardinality(Marking(t)') /\ InProgress(t) = Cardinality(Marking(t))
  BY DEF InProgress, Marking
<1>4. InProgress(t) \in Nat
  BY MarkingFinite
<1> QED
  BY <1>1, <1>2, <1>3, <1>4

Counted == TypeOK /\ BusyHasTask /\ NotifiedOncePerRun

\* The empty table satisfies the invariant.
LEMMA InitCounted == Init => Counted
<1> SUFFICES ASSUME Init PROVE Counted
  OBVIOUS
<1> USE SchedulerAssumption DEF Init
<1>1. TypeOK
  BY DEF TypeOK, Statuses, Null
<1>2. BusyHasTask
  BY DEF BusyHasTask, Busy
<1>3. NotifiedOncePerRun
  BY MarkingFinite DEF NotifiedOncePerRun
<1> QED
  BY <1>1, <1>2, <1>3 DEF Counted

\* Every step keeps the types and the place of the running task.
LEMMA NextTyped == ASSUME TypeOK, BusyHasTask, [Next]_vars PROVE TypeOK' /\ BusyHasTask'
<1> USE SchedulerAssumption
<1>1. ASSUME NEW t \in Tasks, CancelTask(t) PROVE TypeOK' /\ BusyHasTask'
  BY <1>1 DEF CancelTask, TypeOK, BusyHasTask, Busy, Statuses
<1>2. ASSUME NEW t \in Tasks, NEW at \in 1 .. MaxTime, CreateTask(t, at) PROVE TypeOK' /\ BusyHasTask'
  <2> USE <1>2 DEF CreateTask
  <2>1. row' = [row EXCEPT ![t] = [@ EXCEPT !.status = "active", !.next = at]]
    BY DEF TypeOK
  <2>2. [row[t] EXCEPT !.status = "active", !.next = at] \in Rows
    <3>1. row[t] \in Rows /\ "active" \in Statuses /\ at \in Int
      BY DEF TypeOK, Rows, Statuses
    <3> QED
      BY <3>1, RowUpdated
  <2>3. TypeOK'
    BY <2>1, <2>2 DEF TypeOK, Rows
  <2>4. BusyHasTask'
    BY DEF BusyHasTask
  <2> QED
    BY <2>3, <2>4
<1>3. ASSUME NEW e \in Executors, Poll(e) PROVE TypeOK' /\ BusyHasTask'
  <2> USE <1>3 DEF Poll
  <2>1. PICK S \in SUBSET Due : batch' = [batch EXCEPT ![e] = {<<row[t].next, t>> : t \in S}]
    OBVIOUS
  <2>2. {<<row[t].next, t>> : t \in S} \subseteq Int \X Tasks
    BY <2>1 DEF Due, TypeOK
  <2>3. TypeOK'
    BY <2>1, <2>2 DEF TypeOK
  <2>4. BusyHasTask'
    BY DEF BusyHasTask
  <2> QED
    BY <2>3, <2>4
<1>4. ASSUME NEW e \in Executors, Pick(e) PROVE TypeOK' /\ BusyHasTask'
  <2> USE <1>4 DEF Pick
  <2>1. PICK b \in batch[e] : /\ batch' = [batch EXCEPT ![e] = @ \ {b}]
                              /\ current' = [current EXCEPT ![e] = b[2]]
    OBVIOUS
  <2>2. b[2] \in Tasks
    BY <2>1 DEF TypeOK
  <2>3. TypeOK'
    BY <2>1, <2>2 DEF TypeOK
  <2>4. BusyHasTask'
    BY <2>1, <2>2 DEF BusyHasTask, Busy, TypeOK
  <2> QED
    BY <2>3, <2>4
<1>5. ASSUME NEW e \in Executors, RunSucceeds(e) PROVE TypeOK' /\ BusyHasTask'
  BY <1>5 DEF RunSucceeds, TypeOK, BusyHasTask, Busy
<1>6. ASSUME NEW e \in Executors, Deliver(e) PROVE TypeOK' /\ BusyHasTask'
  <2> USE <1>6 DEF Deliver
  <2>1. current[e] \in Tasks
    BY DEF BusyHasTask, Busy
  <2>2. TypeOK'
    BY <2>1 DEF TypeOK
  <2>3. BusyHasTask'
    BY DEF BusyHasTask, Busy, TypeOK
  <2> QED
    BY <2>2, <2>3
<1>7. ASSUME NEW e \in Executors, MarkExecuted(e) PROVE TypeOK' /\ BusyHasTask'
  <2> USE <1>7 DEF MarkExecuted, Done
  <2>1. current[e] \in Tasks
    BY DEF BusyHasTask, Busy
  <2>2. row[current[e]] \in Rows /\ now \in Nat
    BY <2>1 DEF TypeOK, Rows
  <2>3. Executed(row[current[e]], current[e]) \in Rows
    BY <2>1, <2>2, ExecutedRow
  <2>4. TypeOK'
    BY <2>1, <2>3 DEF TypeOK, Rows
  <2>5. BusyHasTask'
    BY DEF BusyHasTask, Busy, TypeOK
  <2> QED
    BY <2>4, <2>5
<1>8. ASSUME NEW e \in Executors, MarkFailed(e) PROVE TypeOK' /\ BusyHasTask'
  <2> USE <1>8 DEF MarkFailed, Done
  <2>1. current[e] \in Tasks
    BY DEF BusyHasTask, Busy
  <2>2. row[current[e]] \in Rows
    BY <2>1 DEF TypeOK, Rows
  <2>3. Failed(row[current[e]]) \in Rows
    BY <2>2, FailedRow
  <2>4. TypeOK'
    BY <2>1, <2>3 DEF TypeOK, Rows
  <2>5. BusyHasTask'
    BY DEF BusyHasTask, Busy, TypeOK
  <2> QED
    BY <2>4, <2>5
<1>9. ASSUME NEW e \in Executors, WriteLost(e) \/ Stop(e) PROVE TypeOK' /\ BusyHasTask'
  <2>1. faults' = faults + 1 /\ UNCHANGED <<row, now, sent>>
    BY <1>9 DEF WriteLost, Stop
  <2>2. pc' \in {[pc EXCEPT ![e] = "idle"], [pc EXCEPT ![e] = "down"]} /\ current' = [current EXCEPT ![e] = NoTask]
    BY <1>9 DEF WriteLost, Stop, Done
  <2>3. batch' \in {batch, [batch EXCEPT ![e] = {}]}
    BY <1>9 DEF WriteLost, Stop
  <2>4. TypeOK'
    BY <2>1, <2>2, <2>3 DEF TypeOK
  <2>5. BusyHasTask'
    BY <2>2 DEF BusyHasTask, Busy, TypeOK
  <2> QED
    BY <2>4, <2>5
<1>10. ASSUME NEW e \in Executors, Start(e) PROVE TypeOK' /\ BusyHasTask'
  BY <1>10 DEF Start, TypeOK, BusyHasTask, Busy
<1>11. CASE Tick \/ UNCHANGED vars
  BY <1>11 DEF Tick, vars, TypeOK, BusyHasTask
<1> QED
  BY <1>1, <1>2, <1>3, <1>4, <1>5, <1>6, <1>7, <1>8, <1>9, <1>10, <1>11 DEF Next, Step

\* Every step keeps the count of notifications (MarkExecuted records the run
\* that the notification belongs to).
LEMMA NextCounted == ASSUME Counted, [Next]_vars PROVE Counted'
<1> USE SchedulerAssumption DEF Counted
<1>1. TypeOK' /\ BusyHasTask'
  BY NextTyped
<1>2. \A t \in Tasks : /\ sent[t] \in Nat /\ row[t] \in Rows /\ row[t].runs \in Nat /\ faults \in Nat
                       /\ InProgress(t) \in Nat
                       /\ sent[t] <= row[t].runs + InProgress(t) + faults
  BY MarkingFinite DEF TypeOK, Rows, NotifiedOncePerRun
<1>3. (\A t \in Tasks : row'[t].runs = row[t].runs) /\ UNCHANGED <<pc, current, sent, faults>>
      => NotifiedOncePerRun'
  <2>1. HAVE (\A t \in Tasks : row'[t].runs = row[t].runs) /\ UNCHANGED <<pc, current, sent, faults>>
  <2>2. \A t \in Tasks : InProgress(t)' = InProgress(t)
    BY <2>1, MarkingUnchanged
  <2> QED
    BY <1>2, <2>1, <2>2 DEF NotifiedOncePerRun
<1>4. ASSUME NEW t \in Tasks, CancelTask(t) \/ (\E at \in 1 .. MaxTime : CreateTask(t, at)) PROVE NotifiedOncePerRun'
  <2>1. UNCHANGED <<pc, current, sent, faults>>
    BY <1>4 DEF CancelTask, CreateTask
  <2>2. CASE CancelTask(t)
    <3>1. \A u \in Tasks : row'[u].runs = row[u].runs
      BY <2>2 DEF CancelTask, TypeOK
    <3> QED
      BY <1>3, <2>1, <3>1
  <2>3. CASE \E at \in 1 .. MaxTime : CreateTask(t, at)
    <3>1. \A u \in Tasks : row'[u].runs = row[u].runs
      BY <2>3 DEF CreateTask, TypeOK
    <3> QED
      BY <1>3, <2>1, <3>1
  <2> QED
    BY <1>4, <2>2, <2>3
<1>5. ASSUME NEW e \in Executors, Poll(e) PROVE NotifiedOncePerRun'
  BY <1>3, <1>5 DEF Poll
<1>6. ASSUME NEW e \in Executors, Pick(e) \/ RunSucceeds(e) \/ Start(e) PROVE NotifiedOncePerRun'
  <2>1. \A d \in Executors \ {e} : pc'[d] = pc[d] /\ current'[d] = current[d]
    BY <1>6 DEF Pick, RunSucceeds, Start, TypeOK
  <2>2. pc[e] # "mark" /\ pc'[e] # "mark" /\ UNCHANGED <<row, sent, faults>>
    BY <1>6 DEF Pick, RunSucceeds, Start, TypeOK
  <2>3. \A t \in Tasks : InProgress(t)' = InProgress(t)
    BY <2>1, <2>2, MarkingUnchanged
  <2> QED
    BY <1>2, <2>2, <2>3 DEF NotifiedOncePerRun
<1>7. ASSUME NEW e \in Executors, Deliver(e) PROVE NotifiedOncePerRun'
  <2> USE <1>7 DEF Deliver
  <2>1. current[e] \in Tasks
    BY DEF BusyHasTask, Busy
  <2>2. \A t \in Tasks \ {current[e]} : InProgress(t)' = InProgress(t) /\ sent'[t] = sent[t]
    <3>1. \A t \in Tasks \ {current[e]} : sent'[t] = sent[t]
      BY <2>1 DEF TypeOK
    <3>2. \A t \in Tasks \ {current[e]} : InProgress(t)' = InProgress(t)
      BY MarkingUnchanged DEF TypeOK
    <3> QED
      BY <3>1, <3>2
  <2>3. Marking(current[e])' = Marking(current[e]) \cup {e}
    BY DEF Marking, TypeOK
  <2>4. \A t \in Tasks : t = current[e] => InProgress(t)' = InProgress(t) + 1
    BY <2>3, MarkingBegins
  <2>5. \A t \in Tasks : t = current[e] => sent'[t] <= sent[t] + 1 /\ sent'[t] \in Nat
    BY <2>1 DEF TypeOK
  <2> QED
    BY <1>2, <2>1, <2>2, <2>4, <2>5 DEF NotifiedOncePerRun
<1>8. ASSUME NEW e \in Executors, MarkExecuted(e) PROVE NotifiedOncePerRun'
  <2> USE <1>8 DEF MarkExecuted, Done
  <2>1. current[e] \in Tasks
    BY DEF BusyHasTask, Busy
  <2>2. \A t \in Tasks \ {current[e]} : row'[t] = row[t]
    BY DEF TypeOK
  <2>3. \A t \in Tasks \ {current[e]} : InProgress(t)' = InProgress(t)
    BY MarkingUnchanged DEF TypeOK
  <2>4. \A t \in Tasks : t = current[e] => Marking(t)' = Marking(t) \ {e}
    BY DEF Marking, TypeOK
  <2>5. \A t \in Tasks : t = current[e] => InProgress(t) <= InProgress(t)' + 1 /\ InProgress(t)' \in Nat
    BY <2>4, MarkingEnds
  <2>6. \A t \in Tasks : t = current[e] => row'[t].runs = row[t].runs + 1
    BY <1>2, <2>1, ExecutedRow DEF TypeOK
  <2> QED
    BY <1>2, <2>1, <2>2, <2>3, <2>5, <2>6 DEF NotifiedOncePerRun
<1>9. ASSUME NEW e \in Executors, MarkFailed(e) PROVE NotifiedOncePerRun'
  <2> USE <1>9 DEF MarkFailed, Done
  <2>1. current[e] \in Tasks
    BY DEF BusyHasTask, Busy
  <2>2. \A t \in Tasks : row'[t].runs = row[t].runs
    <3>1. row'[current[e]].runs = row[current[e]].runs
      BY <1>2, <2>1, FailedRow DEF TypeOK
    <3>2. \A t \in Tasks \ {current[e]} : row'[t] = row[t]
      BY DEF TypeOK
    <3> QED
      BY <3>1, <3>2
  <2>3. \A t \in Tasks : InProgress(t)' = InProgress(t)
    <3>1. pc[e] # "mark" /\ pc'[e] # "mark"
      BY DEF TypeOK
    <3>2. \A d \in Executors \ {e} : pc'[d] = pc[d] /\ current'[d] = current[d]
      BY DEF TypeOK
    <3> QED
      BY <3>1, <3>2, MarkingUnchanged
  <2> QED
    BY <1>2, <2>2, <2>3 DEF NotifiedOncePerRun
<1>10. ASSUME NEW e \in Executors, WriteLost(e) \/ Stop(e) PROVE NotifiedOncePerRun'
  <2>1. faults' = faults + 1 /\ UNCHANGED <<row, sent>>
    BY <1>10 DEF WriteLost, Stop
  <2>2. pc'[e] # "mark" /\ \A d \in Executors \ {e} : pc'[d] = pc[d] /\ current'[d] = current[d]
    BY <1>10 DEF WriteLost, Stop, Done, TypeOK
  <2>3. \A t \in Tasks : Marking(t)' = Marking(t) \ {e}
    BY <2>2 DEF Marking
  <2>4. \A t \in Tasks : InProgress(t) <= InProgress(t)' + 1 /\ InProgress(t)' \in Nat
    BY <2>3, MarkingEnds
  <2> QED
    BY <1>2, <2>1, <2>4 DEF NotifiedOncePerRun
<1>11. CASE Tick \/ UNCHANGED vars
  <2>1. UNCHANGED <<row, pc, current, sent, faults>>
    BY <1>11 DEF Tick, vars
  <2>2. \A t \in Tasks : row'[t].runs = row[t].runs
    BY <2>1
  <2>3. UNCHANGED <<pc, current, sent, faults>>
    BY <2>1
  <2> QED
    BY <1>1, <1>3, <2>2, <2>3
<1> QED
  BY <1>1, <1>4, <1>5, <1>6, <1>7, <1>8, <1>9, <1>10, <1>11 DEF Next, Step

\* Rows and executors stay within their types.
THEOREM TypeCorrect == Spec => []TypeOK
<1>1. TypeOK /\ BusyHasTask /\ [Next]_vars => (TypeOK /\ BusyHasTask)'
  BY NextTyped
<1>2. Init => TypeOK /\ BusyHasTask
  BY InitCounted DEF Counted
<1> QED
  BY <1>1, <1>2, PTL DEF Spec

\* For any number of executors, polls and faults: a notification is paid for by
\* a recorded run, by the run in progress or by a fault (mark_executed follows
\* every delivery, and nothing but a fault comes between).
THEOREM NotificationsBounded == Spec => []NotifiedOncePerRun
<1>1. Counted /\ [Next]_vars => Counted'
  BY NextCounted
<1>2. Counted => NotifiedOncePerRun
  BY DEF Counted
<1> QED
  BY InitCounted, <1>1, <1>2, PTL DEF Spec

\* One row changes to r, and r is active only where the old one was.
LEMMA RowRevivesNothing ==
    ASSUME TypeOK, NEW t \in Tasks, NEW r, row' = [row EXCEPT ![t] = r],
           r.status = "active" => row[t].status \in {"none", "active"},
           NEW u \in Tasks, row[u].status \in {"cancelled", "completed", "failed"}
    PROVE  row'[u].status # "active"
  BY DEF TypeOK

\* A step revives no task.
LEMMA NextRevivesNothing ==
    ASSUME TypeOK, BusyHasTask, [Next]_vars,
           NEW u \in Tasks, row[u].status \in {"cancelled", "completed", "failed"}
    PROVE  row'[u].status # "active"
<1>1. \A t \in Tasks : row[t] \in Rows
  BY DEF TypeOK, Rows
<1>2. CASE UNCHANGED row
  BY <1>2
<1>3. ASSUME NEW t \in Tasks, CancelTask(t) PROVE row'[u].status # "active"
  BY <1>3 DEF CancelTask, TypeOK
<1>4. ASSUME NEW t \in Tasks, NEW at \in 1 .. MaxTime, CreateTask(t, at)
      PROVE  row'[u].status # "active"
  BY <1>4 DEF CreateTask, TypeOK
<1>5. ASSUME NEW e \in Executors, MarkExecuted(e) PROVE row'[u].status # "active"
  <2>1. current[e] \in Tasks
    BY <1>5 DEF MarkExecuted, BusyHasTask, Busy
  <2>2. row' = [row EXCEPT ![current[e]] = Executed(row[current[e]], current[e])]
    BY <1>5 DEF MarkExecuted
  <2>3. Executed(row[current[e]], current[e]).status \in {row[current[e]].status, "completed"}
    BY <1>1, <2>1, ExecutedRow DEF TypeOK
  <2> QED
    BY <2>1, <2>2, <2>3, RowRevivesNothing
<1>6. ASSUME NEW e \in Executors, MarkFailed(e) PROVE row'[u].status # "active"
  <2>1. current[e] \in Tasks
    BY <1>6 DEF MarkFailed, BusyHasTask, Busy
  <2>2. row' = [row EXCEPT ![current[e]] = Failed(row[current[e]])]
    BY <1>6 DEF MarkFailed
  <2>3. Failed(row[current[e]]).status \in {row[current[e]].status, "failed"}
    BY <1>1, <2>1 DEF Failed, Rows
  <2> QED
    BY <2>1, <2>2, <2>3, RowRevivesNothing
<1> QED
  BY <1>2, <1>3, <1>4, <1>5, <1>6
     DEF Next, vars, Step, Poll, Pick, RunSucceeds, Deliver, WriteLost, Stop, Start, Tick

\* For any number of executors: a task that was cancelled, given up or has had
\* its last run is never active again, so no later poll fetches it.
THEOREM FinishedStaysFinished == Spec => NeverRevived
<1>1. TypeOK /\ BusyHasTask /\ [Next]_vars =>
        [\A t \in Tasks : row[t].status \in {"cancelled", "completed", "failed"} =>
                              row'[t].status # "active"]_vars
  BY NextRevivesNothing
<1>2. TypeOK /\ BusyHasTask /\ [Next]_vars => (TypeOK /\ BusyHasTask)'
  BY NextTyped
<1>3. Init => TypeOK /\ BusyHasTask
  BY InitCounted DEF Counted
<1> QED
  BY <1>1, <1>2, <1>3, PTL DEF Spec, NeverRevived

-----------------------------------------------------------------------------
\* One more run is allowed.
MayRun(t) == MaxRuns[t] # 0 => row[t].runs < MaxRuns[t]

\* mark_executed completes a task with its last run.
ActiveMayRun == \A t \in Tasks : row[t].status \in {"none", "active"} => MayRun(t)

\* An executor has a task once, in its batch or in its hands.
FetchedOnce ==
    \A e \in Executors : \A b \in batch[e] : /\ b[2] # current[e]
                                             /\ \A c \in batch[e] : b[2] = c[2] => b = c

Limited == TypeOK /\ BusyHasTask /\ ActiveMayRun /\ FetchedOnce /\ OverrunsAreStale

\* The executors that hold a task are some of finitely many.
LEMMA HoldersFinite ==
    ASSUME NEW t, NEW S, S \subseteq Holders(t)
    PROVE  /\ IsFiniteSet(S) /\ Cardinality(S) \in Nat /\ Cardinality(Executors) \in Nat
           /\ Cardinality(Holders(t)) \in Nat /\ Cardinality(S) <= Cardinality(Holders(t))
           /\ Cardinality(Holders(t)) <= Cardinality(Executors)
<1>1. Holders(t) \in SUBSET Executors
  BY DEF Holders
<1>2. IsFiniteSet(Executors)
  BY SchedulerAssumption
<1>3. IsFiniteSet(Holders(t)) /\ Cardinality(Holders(t)) <= Cardinality(Executors)
  BY <1>1, <1>2, FS_Subset
<1>4. IsFiniteSet(S) /\ Cardinality(S) <= Cardinality(Holders(t))
  BY <1>3, FS_Subset
<1> QED
  BY <1>2, <1>3, <1>4, FS_CardinalityType

\* A task of which no run is recorded and no copy is fetched.
LEMMA FewerHolders ==
    ASSUME TypeOK, OverrunsAreStale, NEW t \in Tasks,
           row'[t].runs = row[t].runs, Holders(t)' \subseteq Holders(t), MaxRuns[t] # 0
    PROVE  row'[t].runs + Cardinality(Holders(t)') < MaxRuns[t] + Cardinality(Executors)
<1>1. /\ Cardinality(Holders(t)') \in Nat /\ Cardinality(Holders(t)) \in Nat /\ Cardinality(Executors) \in Nat
      /\ Cardinality(Holders(t)') <= Cardinality(Holders(t))
  BY HoldersFinite
<1>2. row[t].runs \in Nat /\ MaxRuns[t] \in Nat
  BY SchedulerAssumption DEF TypeOK
<1>3. row[t].runs + Cardinality(Holders(t)) < MaxRuns[t] + Cardinality(Executors)
  BY DEF OverrunsAreStale
<1> QED
  BY <1>1, <1>2, <1>3

\* A step that records no run and leaves batches alone or makes them smaller.
LEMMA NoRunRecorded ==
    ASSUME Limited, TypeOK', BusyHasTask',
           \A t \in Tasks : /\ row'[t].runs = row[t].runs
                            /\ row'[t].status \in {"none", "active"} => row[t].status \in {"none", "active"},
           \A e \in Executors : batch'[e] \subseteq batch[e] /\ current'[e] \in {current[e], NoTask}
    PROVE  Limited'
<1> USE DEF Limited
<1>1. ActiveMayRun'
  BY DEF ActiveMayRun, MayRun
<1>2. FetchedOnce'
  <2>1. \A e \in Executors : \A b \in batch'[e] : b \in batch[e] /\ b[2] # NoTask
    BY SchedulerAssumption DEF TypeOK
  <2> QED
    BY <2>1 DEF FetchedOnce
<1>3. \A t \in Tasks : Holders(t)' \subseteq Holders(t)
  BY SchedulerAssumption DEF Holders
<1>4. OverrunsAreStale'
  BY <1>3, FewerHolders DEF OverrunsAreStale
<1> QED
  BY <1>1, <1>2, <1>4

\* Every step keeps to the bound: a poll fetches only what may still run, and a
\* recorded run uses up the copy that was held for it.
LEMMA NextLimited == ASSUME Limited, [Next]_vars PROVE Limited'
<1> USE SchedulerAssumption DEF Limited
<1>1. TypeOK' /\ BusyHasTask'
  BY NextTyped
<1>2. \A t \in Tasks : row[t] \in Rows /\ row[t].runs \in Nat /\ MaxRuns[t] \in Nat
  BY DEF TypeOK, Rows
<1>3. ASSUME NEW t \in Tasks, CancelTask(t) \/ (\E at \in 1 .. MaxTime : CreateTask(t, at)) PROVE Limited'
  <2>1. UNCHANGED <<batch, current>>
    BY <1>3 DEF CancelTask, CreateTask
  <2>2. \A u \in Tasks : /\ row'[u].runs = row[u].runs
                         /\ row'[u].status \in {"none", "active"} => row[u].status \in {"none", "active"}
    BY <1>3 DEF CancelTask, CreateTask, TypeOK
  <2> QED
    BY <1>1, <2>1, <2>2, NoRunRecorded
<1>4. ASSUME NEW e \in Executors, Poll(e) PROVE Limited'
  <2> USE <1>4 DEF Poll
  <2>1. PICK S \in SUBSET Due : batch' = [batch EXCEPT ![e] = {<<row[t].next, t>> : t \in S}]
    OBVIOUS
  <2>2. \A t \in S : t \in Tasks /\ MayRun(t)
    BY <2>1 DEF Due, ActiveMayRun
  <2>3. /\ batch'[e] = {<<row[t].next, t>> : t \in S}
        /\ \A d \in Executors \ {e} : batch'[d] = batch[d]
    BY <2>1 DEF TypeOK
  <2>4. \A b \in batch'[e] : b[2] \in S /\ b = <<row[b[2]].next, b[2]>>
    BY <2>3
  <2>5. current[e] = NoTask
    BY DEF BusyHasTask, Busy
  <2>6. FetchedOnce'
    BY <2>2, <2>3, <2>4, <2>5 DEF FetchedOnce
  <2>7. ActiveMayRun'
    BY DEF ActiveMayRun, MayRun
  <2>8. ASSUME NEW t \in Tasks, MaxRuns[t] # 0
        PROVE  row'[t].runs + Cardinality(Holders(t)') < MaxRuns[t] + Cardinality(Executors)
    <3>1. CASE t \in S
      <4>1. row[t].runs < MaxRuns[t]
        BY <2>2, <2>8, <3>1 DEF MayRun
      <4>2. Holders(t)' \in SUBSET Executors
        BY DEF Holders
      <4>3. Cardinality(Holders(t)') <= Cardinality(Executors)
        BY <4>2, FS_Subset
      <4>4. Cardinality(Holders(t)') \in Nat /\ Cardinality(Executors) \in Nat
        BY <4>2, FS_Subset, FS_CardinalityType
      <4> QED
        BY <1>2, <4>1, <4>3, <4>4
    <3>2. CASE t \notin S
      <4>1. Holders(t)' \subseteq Holders(t)
        BY <2>3, <2>4, <3>2 DEF Holders
      <4> QED
        BY <2>8, <4>1, FewerHolders
    <3> QED
      BY <3>1, <3>2
  <2>9. OverrunsAreStale'
    BY <2>8 DEF OverrunsAreStale
  <2> QED
    BY <1>1, <2>6, <2>7, <2>9
<1>5. ASSUME NEW e \in Executors, Pick(e) PROVE Limited'
  <2> USE <1>5 DEF Pick
  <2>1. PICK b \in batch[e] : /\ batch' = [batch EXCEPT ![e] = @ \ {b}]
                              /\ current' = [current EXCEPT ![e] = b[2]]
    OBVIOUS
  <2>2. /\ batch'[e] = batch[e] \ {b} /\ current'[e] = b[2]
        /\ \A d \in Executors \ {e} : batch'[d] = batch[d] /\ current'[d] = current[d]
    BY <2>1 DEF TypeOK
  <2>3. FetchedOnce'
    BY <2>1, <2>2 DEF FetchedOnce
  <2>4. ActiveMayRun'
    BY DEF ActiveMayRun, MayRun
  <2>5. \A t \in Tasks : Holders(t)' \subseteq Holders(t)
    BY <2>1, <2>2 DEF Holders
  <2>6. OverrunsAreStale'
    BY <2>5, FewerHolders DEF OverrunsAreStale
  <2> QED
    BY <1>1, <2>3, <2>4, <2>6
<1>6. ASSUME NEW e \in Executors, RunSucceeds(e) \/ Deliver(e) \/ Start(e) PROVE Limited'
  <2>1. UNCHANGED <<row, batch, current>>
    BY <1>6 DEF RunSucceeds, Deliver, Start
  <2> QED
    BY <1>1, <2>1, NoRunRecorded
<1>7. ASSUME NEW e \in Executors, MarkExecuted(e) PROVE Limited'
  <2> USE <1>7 DEF MarkExecuted, Done
  <2>1. current[e] \in Tasks
    BY DEF BusyHasTask, Busy
  <2>2. /\ current'[e] = NoTask /\ batch' = batch
        /\ \A d \in Executors \ {e} : current'[d] = current[d]
    BY DEF TypeOK
  <2>3. \A t \in Tasks \ {current[e]} : row'[t] = row[t]
    BY DEF TypeOK
  <2> DEFINE c == current[e]
             new == Executed(row[c], c)
  <2>4. row'[c] = new
    BY <2>1 DEF TypeOK
  <2>5. /\ new.runs = row[c].runs + 1
        /\ \/ new.status \in {row[c].status, "completed"} /\ (MaxRuns[c] = 0 \/ row[c].runs + 1 < MaxRuns[c])
           \/ new.status = "completed"
    BY <1>2, <2>1, ExecutedRow DEF TypeOK
  <2> HIDE DEF new
  <2>6. ActiveMayRun'
    BY <1>2, <2>1, <2>3, <2>4, <2>5 DEF ActiveMayRun, MayRun
  <2>7. FetchedOnce'
    <3>1. \A b \in batch[e] : b[2] # NoTask
      BY DEF TypeOK
    <3> QED
      BY <2>2, <3>1 DEF FetchedOnce
  <2>8. \A t \in Tasks \ {c} : Holders(t)' \subseteq Holders(t)
    BY <2>2 DEF Holders
  <2>9. ASSUME NEW t \in Tasks, t = c
        PROVE  Holders(t)' = Holders(t) \ {e} /\ e \in Holders(t)
    <3>1. current'[e] # t /\ \A b \in batch'[e] : b[2] # t
      BY <2>2, <2>9 DEF FetchedOnce
    <3> QED
      BY <2>2, <2>9, <3>1 DEF Holders
  <2>10. ASSUME NEW t \in Tasks, MaxRuns[t] # 0
         PROVE  row'[t].runs + Cardinality(Holders(t)') < MaxRuns[t] + Cardinality(Executors)
    <3>1. CASE t # c
      BY <2>3, <2>8, <2>10, <3>1, FewerHolders
    <3>2. CASE t = c
      <4>1. IsFiniteSet(Holders(t)) /\ Cardinality(Holders(t)) \in Nat /\ Cardinality(Executors) \in Nat
        BY HoldersFinite
      <4>2. Cardinality(Holders(t)') = Cardinality(Holders(t)) - 1
        BY <2>9, <3>2, <4>1, FS_RemoveElement
      <4>3. row[t].runs + Cardinality(Holders(t)) < MaxRuns[t] + Cardinality(Executors)
        BY <2>10 DEF OverrunsAreStale
      <4>4. row'[t].runs = row[t].runs + 1 /\ row[t].runs \in Nat /\ MaxRuns[t] \in Nat
        BY <1>2, <2>4, <2>5, <3>2
      <4> QED
        BY <4>1, <4>2, <4>3, <4>4
    <3> QED
      BY <3>1, <3>2
  <2>11. OverrunsAreStale'
    BY <2>10 DEF OverrunsAreStale
  <2> QED
    BY <1>1, <2>6, <2>7, <2>11
<1>8. ASSUME NEW e \in Executors, MarkFailed(e) PROVE Limited'
  <2> USE <1>8 DEF MarkFailed, Done
  <2>1. current[e] \in Tasks
    BY DEF BusyHasTask, Busy
  <2>2. \A t \in Tasks \ {current[e]} : row'[t] = row[t]
    BY DEF TypeOK
  <2>3. row'[current[e]] = Failed(row[current[e]])
    BY <2>1 DEF TypeOK
  <2>4. ASSUME NEW r \in Rows PROVE Failed(r).runs = r.runs /\ Failed(r).status \in {r.status, "failed"}
    BY FailedRow DEF Failed, Rows
  <2>5. \A t \in Tasks : /\ row'[t].runs = row[t].runs
                         /\ row'[t].status \in {"none", "active"} => row[t].status \in {"none", "active"}
    BY <1>2, <2>2, <2>3, <2>4
  <2>6. \A d \in Executors : batch'[d] \subseteq batch[d] /\ current'[d] \in {current[d], NoTask}
    BY DEF TypeOK
  <2> QED
    BY <1>1, <2>5, <2>6, NoRunRecorded
<1>9. ASSUME NEW e \in Executors, WriteLost(e) \/ Stop(e) PROVE Limited'
  <2>1. \A d \in Executors : batch'[d] \subseteq batch[d] /\ current'[d] \in {current[d], NoTask}
    BY <1>9 DEF WriteLost, Stop, Done, TypeOK
  <2>2. UNCHANGED row
    BY <1>9 DEF WriteLost, Stop
  <2> QED
    BY <1>1, <2>1, <2>2, NoRunRecorded
<1>10. CASE Tick \/ UNCHANGED vars
  <2>1. UNCHANGED <<row, batch, current>>
    BY <1>10 DEF Tick, vars
  <2> QED
    BY <1>1, <2>1, NoRunRecorded
<1> QED
  BY <1>3, <1>4, <1>5, <1>6, <1>7, <1>8, <1>9, <1>10 DEF Next, Step

\* For any number of executors: a task is run more often than max_runs only from
\* copies that were fetched before the limit was reached, at most one for every
\* executor but one (get_due_tasks, mark_executed).
THEOREM OverrunsBounded == Spec => []OverrunsAreStale
<1>1. Init => Limited
  <2> SUFFICES ASSUME Init PROVE Limited
    OBVIOUS
  <2>1. TypeOK /\ BusyHasTask
    BY InitCounted DEF Counted
  <2>2. \A t \in Tasks : row[t].runs = 0 /\ MaxRuns[t] \in Nat
    BY SchedulerAssumption DEF Init
  <2>3. ActiveMayRun
    BY <2>2 DEF ActiveMayRun, MayRun
  <2>4. FetchedOnce
    BY DEF Init, FetchedOnce
  <2>5. \A t \in Tasks : Cardinality(Holders(t)) <= Cardinality(Executors)
                         /\ Cardinality(Holders(t)) \in Nat /\ Cardinality(Executors) \in Nat
    BY HoldersFinite
  <2>6. OverrunsAreStale
    BY <2>2, <2>5 DEF OverrunsAreStale
  <2> QED
    BY <2>1, <2>3, <2>4, <2>6 DEF Limited
<1>2. Limited /\ [Next]_vars => Limited'
  BY NextLimited
<1>3. Limited => OverrunsAreStale
  BY DEF Limited
<1> QED
  BY <1>1, <1>2, <1>3, PTL DEF Spec
=============================================================================
