---------------------------- MODULE NekoRuntime ----------------------------
(***************************************************************************)
(* The Neko runtime (neko/runtime.rs): it owns provider processes and keeps *)
(* the durable journal truthful about them.  Renderer calls run on threads  *)
(* of their own (Callers); a started session has a monitor and a reader     *)
(* thread and a writer thread with a bounded queue; kill_all runs on the    *)
(* application's exit path.                                                 *)
(*                                                                         *)
(* `operations` serialises them.  An action takes the mutex, does journal   *)
(* writes and releases it; where the code keeps the mutex over a step that  *)
(* another party can see (spawn, kill), `operations` names the holder.  Any *)
(* journal write may fail.  A crash between two writes of one action leaves *)
(* the tables as the failure of the second write does, so that it is one    *)
(* of the action's outcomes followed by Crash.                              *)
(***************************************************************************)
EXTENDS NekoJournal, FiniteSets, Sequences

CONSTANTS
  Callers,        \* threads that execute renderer calls
  NoCaller,
  QueueCapacity,  \* WRITER_QUEUE_CAPACITY
  MaxCrashes      \* bound: ends of the host process, clean or not

ASSUME RuntimeAssumption ==
  /\ NoCaller \notin Callers \cup {"kill_all"}
  /\ QueueCapacity \in Nat \ {0}
  /\ MaxCrashes \in Nat
  /\ "kill_all" \notin Callers

VARIABLES
  up,           \* the host process: "down", "sessions", "requests" or "up"
  operations,   \* holder of the operations mutex
  processes,    \* sessions in the process map
  supervisions, \* exit_supervisions
  pending,      \* pending_terminal_facts in memory
  pc,           \* where each caller is
  cur,          \* the call each caller executes
  monitor,      \* the monitor thread of each session
  reader,       \* the sessions whose reader thread runs
  writer,       \* the sessions whose writer thread accepts jobs
  jobs,         \* queued lines of each session, by request identity
  answer,       \* what the writer thread reported for a line
  quit,         \* kill_all: "no", "killing", "flushing", "done"
  todo,         \* sessions kill_all has still to kill, or to flush
  tree,         \* the provider process tree of each session
  effects,      \* how often the side effect of a request happened
  proven,       \* sessions whose termination this runtime has proven
  crashes

threadVars == <<operations, pc, cur>>
ownerVars == <<processes, supervisions, monitor, reader>>
writerVars == <<writer, jobs, answer>>
quitVars == <<quit, todo>>
memoryVars == <<threadVars, ownerVars, writerVars, quitVars, pending>>
worldVars == <<tree, effects, proven>>
hostVars == <<up, crashes>>
vars == <<journalVars, memoryVars, worldVars, hostVars>>

TypeOK ==
  /\ JournalTypeOK
  /\ up \in {"down", "sessions", "requests", "up"}
  /\ operations \in Callers \cup {NoCaller, "kill_all"}
  /\ processes \subseteq Sessions
  /\ supervisions \subseteq Sessions
  /\ pending \in [Sessions -> Facts \cup {NoFact}]
  /\ pc \in [Callers -> {"idle", "probe", "reject", "unproven", "ready",
                         "accepted", "dispatched", "spawn", "own", "teardown",
                         "send", "refuse", "await", "cancel", "kill"}]
  /\ cur \in [Callers -> Calls \cup {NoCall}]
  /\ monitor \in [Sessions -> {"off", "watching", "exiting", "proven", "unproven"}]
  /\ reader \subseteq Sessions
  /\ writer \subseteq Sessions
  /\ jobs \in [Sessions -> Seq(Ids)]
  /\ \A s \in Sessions : Len(jobs[s]) <= QueueCapacity
  /\ answer \in [Ids -> {"none", "ok", "error"}]
  /\ quit \in {"no", "killing", "flushing", "done"}
  /\ todo \subseteq Sessions
  /\ tree \in [Sessions -> {"none", "alive", "dead"}]
  /\ effects \in [Ids -> Nat]
  /\ proven \subseteq Sessions
  /\ crashes \in 0 .. MaxCrashes

Init ==
  /\ JournalInit
  /\ up = "up"
  /\ operations = NoCaller
  /\ processes = {} /\ supervisions = {}
  /\ pending = [s \in Sessions |-> NoFact]
  /\ pc = [c \in Callers |-> "idle"]
  /\ cur = [c \in Callers |-> NoCall]
  /\ monitor = [s \in Sessions |-> "off"]
  /\ reader = {} /\ writer = {}
  /\ jobs = [s \in Sessions |-> <<>>]
  /\ answer = [i \in Ids |-> "none"]
  /\ quit = "no" /\ todo = {}
  /\ tree = [s \in Sessions |-> "none"]
  /\ effects = [i \in Ids |-> 0]
  /\ proven = {}
  /\ crashes = 0

-----------------------------------------------------------------------------
(* Threads and the operations mutex *)

Free == up = "up" /\ operations = NoCaller

\* The caller takes the mutex, or has kept it from its last step.
Holds(c) == up = "up" /\ operations \in {c, NoCaller}

Goto(c, place) == pc' = [pc EXCEPT ![c] = place] /\ UNCHANGED cur

\* Go on with the mutex held.
Keep(c, place) == Goto(c, place) /\ operations' = c

\* The call returns, with a result or an error, and the guard is dropped.
Return(c) ==
  /\ pc' = [pc EXCEPT ![c] = "idle"]
  /\ cur' = [cur EXCEPT ![c] = NoCall]
  /\ operations' = NoCaller

Enter(c, k, place) ==
  /\ pc' = [pc EXCEPT ![c] = place]
  /\ cur' = [cur EXCEPT ![c] = k]

Id(c) == cur[c].id
Session(c) == cur[c].session

-----------------------------------------------------------------------------
(* Terminal facts *)

Fact(st, ph, i, outcome) ==
  [state |-> st, phase |-> ph, request |-> i, outcome |-> outcome]

CancelledFact(i) == Fact("cancelled", "completed", i, "completed")
RejectedFact(i) == Fact("failed", "failed", i, "failed")
ShutdownFact(ok) ==
  IF ok THEN Fact("cancelled", "completed", NoCall, "none")
        ELSE Fact("unknown_outcome", "unknown_outcome", NoCall, "none")

\* terminal_fact_for_termination
TerminationFact(ok) ==
  IF ok THEN Fact("failed", "failed", NoCall, "none")
        ELSE Fact("unknown_outcome", "unknown_outcome", NoCall, "none")

\* A fact that could not be committed stays in memory, and in the table too if
\* retain_terminal_fact succeeded.
RetainFact(s, f) ==
  /\ pending' = [pending EXCEPT ![s] = f]
  /\ facts' \in {facts, [facts EXCEPT ![s] = f]}
  /\ UNCHANGED <<requestTable, sessionTable>>

PersistTerminalFact(s, f) ==
  \/ /\ CommitFact(s, f)
     /\ pending' = [pending EXCEPT ![s] = NoFact]
     /\ UNCHANGED call
  \/ RetainFact(s, f)

\* flush_pending_terminal_fact that returns Ok(true).
FlushFact(s) ==
  /\ pending[s] # NoFact
  /\ IF IsTerminal(s)
     THEN ReconcileFact(s, pending[s]) /\ UNCHANGED sessionTable
     ELSE CommitFact(s, pending[s])
  /\ pending' = [pending EXCEPT ![s] = NoFact]
  /\ UNCHANGED call

\* flush_pending_terminal_fact that returns an error: the session could not be
\* read, or the transaction failed after the fact was retained again.
FlushFails(s) ==
  /\ pending[s] # NoFact
  /\ \/ UNCHANGED <<journalVars, pending>>
     \/ ~IsTerminal(s) /\ RetainFact(s, pending[s])

\* What the monitor and the reader record after a termination: the fact is kept
\* in memory when the session cannot be read.
RecordTermination(s, f) ==
  \/ /\ pending' = [pending EXCEPT ![s] = f]
     /\ UNCHANGED journalVars
  \/ IsTerminal(s) /\ UNCHANGED <<journalVars, pending>>
  \/ IsOpen(s) /\ PersistTerminalFact(s, f)

\* Both records are attempted; each may be refused by the lifecycle or fail.
RecordBoth(i, s, runState, opPhase) ==
  /\ SetRequestPhase(i, opPhase) \/ UNCHANGED phase
  /\ UpdateSession(s, runState, opPhase) \/ UNCHANGED <<sessionTable, facts>>
  /\ UNCHANGED <<call, pending>>

MarkTerminationUnknown(i, s) ==
  RecordBoth(i, s, "unknown_outcome", "unknown_outcome")

\* kill_proc / terminate_child_tree: whether the whole tree is proven gone.
Terminate(s, ok) ==
  IF ok THEN /\ tree' = [tree EXCEPT ![s] = "dead"]
             /\ proven' = proven \cup {s}
        ELSE UNCHANGED <<tree, proven>>

-----------------------------------------------------------------------------
(* session/start *)

\* Admission.  A known identity is answered from its row, a known session and a
\* runtime that shuts down are refused: none of them changes anything.
StartAdmit(c, k) ==
  /\ Free /\ pc[c] = "idle"
  /\ k.method = "start"
  /\ quit = "no"
  /\ BeginStartRequest(k)
  /\ Enter(c, k, "probe")
  /\ UNCHANGED <<facts, operations, ownerVars, writerVars, quitVars, pending,
                 worldVars, hostVars>>

\* Workspace checks and the provider probe run without the mutex.  A probe that
\* cannot prove its cleanup leaves its process behind.
Probe(c) ==
  /\ up = "up" /\ pc[c] = "probe"
  /\ \E place \in {"ready", "reject", "unproven"} : Goto(c, place)
  /\ UNCHANGED <<journalVars, operations, ownerVars, writerVars, quitVars, pending,
                 tree, effects, proven, hostVars>>

ProbeUnproven(c) ==
  /\ Free /\ pc[c] = "unproven"
  /\ MarkTerminationUnknown(Id(c), Session(c))
  /\ Return(c)
  /\ UNCHANGED <<ownerVars, writerVars, quitVars, worldVars, hostVars>>

RejectStart(c) ==
  /\ Holds(c) /\ pc[c] = "reject"
  /\ RecordBoth(Id(c), Session(c), "failed", "failed")
  /\ Return(c)
  /\ UNCHANGED <<ownerVars, writerVars, quitVars, worldVars, hostVars>>

\* Mutant: ensure_accepting_starts is not asked again after the probe.
DispatchUngated(c) ==
  /\ Free /\ pc[c] = "ready"
  /\ state[Session(c)] = "starting" /\ operation[Session(c)] = "accepted"
  /\ Keep(c, "accepted")
  /\ UNCHANGED <<journalVars, ownerVars, writerVars, quitVars, pending, worldVars,
                 hostVars>>

\* The mutex again: shutdown may have begun and the session may have been
\* cancelled meanwhile.  An unreadable session ends the call as it is.
Dispatch(c) ==
  /\ Free /\ pc[c] = "ready"
  /\ \/ /\ quit # "no"
        /\ Keep(c, "reject")
        /\ UNCHANGED phase
     \/ /\ quit = "no"
        /\ Return(c)
        /\ UNCHANGED phase
     \/ /\ quit = "no"
        /\ ~(state[Session(c)] = "starting" /\ operation[Session(c)] = "accepted")
        /\ FailRequest(Id(c))
        /\ Return(c)
     \/ /\ quit = "no"
        /\ state[Session(c)] = "starting" /\ operation[Session(c)] = "accepted"
        /\ Keep(c, "accepted")
        /\ UNCHANGED phase
  /\ UNCHANGED <<call, sessionTable, facts, ownerVars, writerVars, quitVars,
                 pending, worldVars, hostVars>>

\* Mutant: the result of the phase writes is ignored.
AdvanceStartUnchecked(c, from, to, next) ==
  /\ Holds(c) /\ pc[c] = from
  /\ SetRequestPhase(Id(c), to) \/ UNCHANGED phase
  /\ SetSessionPhase(Session(c), to) \/ UNCHANGED operation
  /\ Keep(c, next)
  /\ UNCHANGED <<call, state, facts, ownerVars, writerVars, quitVars, pending,
                 worldVars, hostVars>>

\* advance_start_phase: the request row, then the session row.
AdvanceStart(c, from, to, next) ==
  /\ Holds(c) /\ pc[c] = from
  /\ \/ /\ SetRequestPhase(Id(c), to)
        /\ SetSessionPhase(Session(c), to)
        /\ Keep(c, next)
     \/ /\ SetRequestPhase(Id(c), to) \/ UNCHANGED phase
        /\ UNCHANGED operation
        /\ Keep(c, "reject")
  /\ UNCHANGED <<call, state, facts, ownerVars, writerVars, quitVars, pending,
                 worldVars, hostVars>>

\* spawn_owned and its workers: nothing was spawned; the provider runs and its
\* stdio, writer, reader and monitor exist; or it runs and one of them could not
\* be had.
Spawn(c) ==
  /\ Holds(c) /\ pc[c] = "spawn"
  /\ \/ /\ Keep(c, "reject")
        /\ UNCHANGED <<processes, writer, tree, effects>>
     \/ /\ tree' = [tree EXCEPT ![Session(c)] = "alive"]
        /\ effects' = [effects EXCEPT ![Id(c)] = @ + 1]
        /\ \/ /\ Keep(c, "own")
              /\ processes' = processes \cup {Session(c)}
              /\ writer' = writer \cup {Session(c)}
           \/ /\ Keep(c, "teardown")
              /\ UNCHANGED <<processes, writer>>
  /\ UNCHANGED <<journalVars, supervisions, monitor, reader, jobs, answer, quitVars,
                 pending, proven, hostVars>>

\* The ownership commit: the session row, the request, the session.started event
\* and the result, one after the other.  Only then are the threads let loose.
Own(c) ==
  /\ Holds(c) /\ pc[c] = "own"
  /\ \/ /\ UpdateSession(Session(c), "running", "committed")
        /\ CanAdvanceOperation(phase[Id(c)], "committed")
        /\ phase' = [phase EXCEPT ![Id(c)] = "completed"]
        /\ monitor' = [monitor EXCEPT ![Session(c)] = "watching"]
        /\ reader' = reader \cup {Session(c)}
        /\ Return(c)
     \/ /\ UpdateSession(Session(c), "running", "committed")
        /\ SetRequestPhase(Id(c), "committed") \/ UNCHANGED phase
        /\ Keep(c, "teardown")
        /\ UNCHANGED <<monitor, reader>>
     \/ /\ Keep(c, "teardown")
        /\ UNCHANGED <<sessionTable, facts, phase, monitor, reader>>
  /\ UNCHANGED <<call, processes, supervisions, writerVars, quitVars, pending,
                 worldVars, hostVars>>

\* classify_spawn_failure: a proven cleanup fails the start, an unproven one
\* leaves it unknown.
Teardown(c) ==
  /\ Holds(c) /\ pc[c] = "teardown"
  /\ processes' = processes \ {Session(c)}
  /\ \E ok \in BOOLEAN :
       /\ Terminate(Session(c), ok)
       /\ IF ok THEN PersistTerminalFact(Session(c), RejectedFact(Id(c)))
                ELSE MarkTerminationUnknown(Id(c), Session(c))
  /\ Return(c)
  /\ UNCHANGED <<supervisions, monitor, reader, writerVars, quitVars, effects,
                 hostVars>>

-----------------------------------------------------------------------------
(* session/write *)

\* Under the mutex: the identity, "dispatched", the lookup of the process, and
\* "side_effect_started".  A failed journal write ends the call on the way.
WriteAdmit(c, k) ==
  /\ Free /\ pc[c] = "idle"
  /\ k.method = "write"
  /\ IsNew(k.id)
  /\ call' = [call EXCEPT ![k.id] = k]
  /\ \/ /\ \E p \in {"accepted", "dispatched"} : phase' = [phase EXCEPT ![k.id] = p]
        /\ UNCHANGED <<pc, cur>>
     \/ /\ k.session \notin processes
        /\ phase' = [phase EXCEPT ![k.id] = "failed"]
        /\ UNCHANGED <<pc, cur>>
     \/ /\ k.session \in processes
        /\ phase' = [phase EXCEPT ![k.id] = "side_effect_started"]
        /\ Enter(c, k, "send")
  /\ UNCHANGED <<sessionTable, facts, operations, ownerVars, writerVars, quitVars,
                 pending, worldVars, hostVars>>

\* Mutant: a queue without a limit.
WriteSendUnbounded(c) ==
  /\ up = "up" /\ pc[c] = "send"
  /\ jobs' = [jobs EXCEPT ![Session(c)] = Append(@, Id(c))]
  /\ Goto(c, "await")
  /\ UNCHANGED <<journalVars, operations, ownerVars, writer, answer, quitVars, pending,
                 worldVars, hostVars>>

\* try_send outside of the mutex: queued, or refused by a full queue or a writer
\* thread that is gone.
WriteSend(c) ==
  /\ up = "up" /\ pc[c] = "send"
  /\ IF Session(c) \in writer /\ Len(jobs[Session(c)]) < QueueCapacity
     THEN /\ jobs' = [jobs EXCEPT ![Session(c)] = Append(@, Id(c))]
          /\ Goto(c, "await")
     ELSE Goto(c, "refuse") /\ UNCHANGED jobs
  /\ UNCHANGED <<journalVars, operations, ownerVars, writer, answer, quitVars, pending,
                 worldVars, hostVars>>

WriteRefuse(c) ==
  /\ Free /\ pc[c] = "refuse"
  /\ FailRequest(Id(c)) \/ UNCHANGED phase
  /\ Return(c)
  /\ UNCHANGED <<call, sessionTable, facts, ownerVars, writerVars, quitVars, pending,
                 worldVars, hostVars>>

\* Mutants: a lost answer counts as a failure; as a success; is waited for.
WriteResultLostFails(c) ==
  /\ Free /\ pc[c] = "await"
  /\ FailRequest(Id(c))
  /\ Return(c)
  /\ UNCHANGED <<call, sessionTable, facts, ownerVars, writerVars, quitVars, pending,
                 worldVars, hostVars>>

WriteResultAssumed(c) ==
  /\ Free /\ pc[c] = "await"
  /\ phase' = [phase EXCEPT ![Id(c)] = "completed"]
  /\ Return(c)
  /\ UNCHANGED <<call, sessionTable, facts, ownerVars, writerVars, quitVars, pending,
                 worldVars, hostVars>>

WriteResultNoTimeout(c) ==
  /\ Free /\ pc[c] = "await"
  /\ answer[Id(c)] # "none"
  /\ Return(c)
  /\ UNCHANGED <<journalVars, ownerVars, writerVars, quitVars, pending, worldVars,
                 hostVars>>

\* recv_timeout: an answer, or none in WRITE_RESULT_TIMEOUT.  A line that timed
\* out stays in the queue.
WriteResult(c) ==
  /\ Free /\ pc[c] = "await"
  /\ \/ /\ answer[Id(c)] = "ok"
        /\ \/ /\ CanAdvanceOperation(phase[Id(c)], "committed")
              /\ \E p \in {"committed", "completed"} :
                   phase' = [phase EXCEPT ![Id(c)] = p]
           \/ UNCHANGED phase
     \/ MarkRequestUnknown(Id(c)) \/ UNCHANGED phase
  /\ Return(c)
  /\ UNCHANGED <<call, sessionTable, facts, ownerVars, writerVars, quitVars, pending,
                 worldVars, hostVars>>

\* The writer thread hands the next line to the provider ...
WriterDelivers(s) ==
  /\ up = "up" /\ s \in writer
  /\ jobs[s] # <<>> /\ tree[s] = "alive"
  /\ effects' = [effects EXCEPT ![Head(jobs[s])] = @ + 1]
  /\ answer' = [answer EXCEPT ![Head(jobs[s])] = "ok"]
  /\ jobs' = [jobs EXCEPT ![s] = Tail(@)]
  /\ UNCHANGED <<journalVars, threadVars, ownerVars, writer, quitVars, pending, tree,
                 proven, hostVars>>

\* ... or fails, perhaps after the line got through, and ends; the lines behind
\* it lose their answer.
WriterFails(s) ==
  /\ up = "up" /\ s \in writer
  /\ jobs[s] # <<>>
  /\ writer' = writer \ {s}
  /\ \/ UNCHANGED effects
     \/ tree[s] = "alive" /\ effects' = [effects EXCEPT ![Head(jobs[s])] = @ + 1]
  /\ answer' = [i \in Ids |-> IF \E n \in DOMAIN jobs[s] : jobs[s][n] = i
                              THEN "error" ELSE answer[i]]
  /\ jobs' = [jobs EXCEPT ![s] = <<>>]
  /\ UNCHANGED <<journalVars, threadVars, ownerVars, quitVars, pending, tree,
                 proven, hostVars>>

-----------------------------------------------------------------------------
(* session/cancel and list_sessions *)

\* A terminal fact of the session that waits for its commit goes first; the call
\* ends when it cannot be committed.
CancelFlush(c, k) ==
  /\ Free /\ pc[c] = "idle"
  /\ k.method = "cancel"
  /\ \/ /\ pending[k.session] = NoFact
        /\ Enter(c, k, "cancel") /\ operations' = c
        /\ UNCHANGED <<journalVars, pending>>
     \/ /\ FlushFact(k.session)
        /\ Enter(c, k, "cancel") /\ operations' = c
     \/ /\ FlushFails(k.session)
        /\ UNCHANGED threadVars
  /\ UNCHANGED <<ownerVars, writerVars, quitVars, worldVars, hostVars>>

\* The exit supervision, the identity and the session are checked, then the
\* request is dispatched; a failed journal write ends the call on the way.
CancelAdmit(c) ==
  /\ Holds(c) /\ pc[c] = "cancel"
  /\ \/ /\ Return(c)
        /\ UNCHANGED requestTable
     \/ /\ Session(c) \notin supervisions
        /\ IsNew(Id(c))
        /\ call' = [call EXCEPT ![Id(c)] = cur[c]]
        /\ \/ /\ \E p \in {"accepted", "dispatched"} :
                   phase' = [phase EXCEPT ![Id(c)] = p]
              /\ Return(c)
           \/ /\ state[Session(c)] = "none"
              /\ phase' = [phase EXCEPT ![Id(c)] = "failed"]
              /\ Return(c)
           \/ /\ state[Session(c)] # "none"
              /\ phase' = [phase EXCEPT ![Id(c)] = "side_effect_started"]
              /\ Keep(c, "kill")
  /\ UNCHANGED <<sessionTable, facts, ownerVars, writerVars, quitVars, pending,
                 worldVars, hostVars>>

\* A start that was only accepted has no process to lose.
AcceptedOnly(s) == state[s] = "starting" /\ operation[s] = "accepted"

\* What a cancellation records once nothing of the session is left to stop.
RecordCancelled(i, s) ==
  IF IsOpen(s)
  THEN PersistTerminalFact(s, CancelledFact(i))
  ELSE /\ \/ \E p \in {"committed", "completed"} : phase' = [phase EXCEPT ![i] = p]
          \/ UNCHANGED phase
       /\ UNCHANGED <<call, sessionTable, facts, pending>>

CancelKill(c) ==
  /\ Holds(c) /\ pc[c] = "kill"
  /\ processes' = processes \ {Session(c)}
  /\ \/ /\ Session(c) \in processes
        /\ \E ok \in BOOLEAN :
             /\ Terminate(Session(c), ok)
             /\ IF ok THEN RecordCancelled(Id(c), Session(c))
                      ELSE MarkTerminationUnknown(Id(c), Session(c))
     \/ /\ Session(c) \notin processes
        /\ IF IsTerminal(Session(c)) \/ AcceptedOnly(Session(c))
           THEN RecordCancelled(Id(c), Session(c))
           ELSE MarkTerminationUnknown(Id(c), Session(c))
        /\ UNCHANGED <<tree, proven>>
  /\ Return(c)
  /\ UNCHANGED <<supervisions, monitor, reader, writerVars, quitVars, effects,
                 hostVars>>

\* list_sessions flushes every fact that waits, one session after the other.
ListFlush(s) ==
  /\ Free
  /\ FlushFact(s) \/ FlushFails(s)
  /\ UNCHANGED <<threadVars, ownerVars, writerVars, quitVars, worldVars, hostVars>>

-----------------------------------------------------------------------------
(* The monitor and the reader of a session *)

\* Mutant: the process is taken without publishing the supervision.
MonitorPollUnpublished(s) ==
  /\ Free /\ monitor[s] = "watching"
  /\ processes' = processes \ {s}
  /\ monitor' = [monitor EXCEPT ![s] = IF s \in processes THEN "exiting" ELSE "off"]
  /\ UNCHANGED <<journalVars, threadVars, supervisions, reader, writerVars, quitVars,
                 pending, worldVars, hostVars>>

\* poll_process_exit: the process is no longer ours, or it has exited (or cannot
\* be waited for): publish the supervision, then take the process.
MonitorPoll(s) ==
  /\ Free /\ monitor[s] = "watching"
  /\ IF s \in processes
     THEN /\ supervisions' = supervisions \cup {s}
          /\ processes' = processes \ {s}
          /\ monitor' = [monitor EXCEPT ![s] = "exiting"]
     ELSE /\ monitor' = [monitor EXCEPT ![s] = "off"]
          /\ UNCHANGED <<processes, supervisions>>
  /\ UNCHANGED <<journalVars, threadVars, reader, writerVars, quitVars, pending,
                 worldVars, hostVars>>

\* The rest of the tree is torn down without the mutex.
MonitorTerminate(s) ==
  /\ up = "up" /\ monitor[s] = "exiting"
  /\ \E ok \in BOOLEAN :
       /\ Terminate(s, ok)
       /\ monitor' = [monitor EXCEPT ![s] = IF ok THEN "proven" ELSE "unproven"]
  /\ UNCHANGED <<journalVars, threadVars, processes, supervisions, reader, writerVars,
                 quitVars, pending, effects, hostVars>>

\* Mutant: an early return keeps the supervision when the fact stays pending.
MonitorCommitEarlyReturn(s) ==
  /\ Free /\ monitor[s] \in {"proven", "unproven"}
  /\ RecordTermination(s, TerminationFact(monitor[s] = "proven"))
  /\ supervisions' = IF pending'[s] = NoFact THEN supervisions \ {s} ELSE supervisions
  /\ monitor' = [monitor EXCEPT ![s] = "off"]
  /\ UNCHANGED <<threadVars, processes, reader, writerVars, quitVars, worldVars,
                 hostVars>>

\* The fact is recorded under the mutex and the supervision ends, whatever the
\* journal said.
MonitorCommit(s) ==
  /\ Free /\ monitor[s] \in {"proven", "unproven"}
  /\ RecordTermination(s, TerminationFact(monitor[s] = "proven"))
  /\ supervisions' = supervisions \ {s}
  /\ monitor' = [monitor EXCEPT ![s] = "off"]
  /\ UNCHANGED <<threadVars, processes, reader, writerVars, quitVars, worldVars,
                 hostVars>>

\* fail_provider_protocol: a malformed frame ends the session, if it is ours.
\* The reader also ends by itself, at the end of stdout.
ProtocolFailure(s) ==
  /\ Free /\ s \in reader
  /\ reader' = reader \ {s}
  /\ \/ /\ s \in processes
        /\ processes' = processes \ {s}
        /\ \E ok \in BOOLEAN :
             Terminate(s, ok) /\ RecordTermination(s, TerminationFact(ok))
     \/ UNCHANGED <<journalVars, pending, processes, tree, proven>>
  /\ UNCHANGED <<threadVars, supervisions, monitor, writerVars, quitVars,
                 effects, hostVars>>

-----------------------------------------------------------------------------
(* kill_all *)

\* Close the runtime and take every process out of the map, under the mutex.
QuitDrain ==
  /\ Free /\ quit = "no"
  /\ quit' = "killing"
  /\ todo' = processes
  /\ processes' = {}
  /\ UNCHANGED <<journalVars, threadVars, supervisions, monitor, reader, writerVars,
                 pending, worldVars, hostVars>>

\* The mutex is taken again for each of them.
QuitKill(s) ==
  /\ Free /\ quit = "killing" /\ s \in todo
  /\ \E ok \in BOOLEAN :
       /\ Terminate(s, ok)
       /\ \/ IsTerminal(s) /\ UNCHANGED <<journalVars, pending>>
          \/ PersistTerminalFact(s, ShutdownFact(ok))
  /\ todo' = todo \ {s}
  /\ UNCHANGED <<threadVars, ownerVars, writerVars, quit, effects, hostVars>>

\* Every exit supervision has ended: flush what they left, under the mutex.
QuitJoin ==
  /\ Free /\ quit = "killing" /\ todo = {}
  /\ supervisions = {}
  /\ quit' = "flushing"
  /\ todo' = {s \in Sessions : pending[s] # NoFact}
  /\ operations' = "kill_all"
  /\ UNCHANGED <<journalVars, pc, cur, ownerVars, writerVars, pending, worldVars,
                 hostVars>>

QuitFlush(s) ==
  /\ up = "up" /\ quit = "flushing" /\ s \in todo
  /\ FlushFact(s) \/ FlushFails(s)
  /\ todo' = todo \ {s}
  /\ UNCHANGED <<threadVars, ownerVars, writerVars, quit, worldVars, hostVars>>

QuitDone ==
  /\ up = "up" /\ quit = "flushing" /\ todo = {}
  /\ quit' = "done"
  /\ operations' = NoCaller
  /\ UNCHANGED <<journalVars, pc, cur, ownerVars, writerVars, todo, pending, worldVars,
                 hostVars>>

-----------------------------------------------------------------------------
(* The provider, the end of the host process and its next start *)

\* A provider tree may end at any time.
TreeDies(s) ==
  /\ tree[s] = "alive"
  /\ tree' = [tree EXCEPT ![s] = "dead"]
  /\ UNCHANGED <<journalVars, memoryVars, effects, proven, hostVars>>

\* The host process ends: killed, or after kill_all.  Provider trees may survive
\* it, and what was proven of them is forgotten.
Crash ==
  /\ up # "down" /\ crashes < MaxCrashes
  /\ up' = "down"
  /\ crashes' = crashes + 1
  /\ operations' = NoCaller
  /\ processes' = {} /\ supervisions' = {}
  /\ pending' = [s \in Sessions |-> NoFact]
  /\ pc' = [c \in Callers |-> "idle"]
  /\ cur' = [c \in Callers |-> NoCall]
  /\ monitor' = [s \in Sessions |-> "off"]
  /\ reader' = {} /\ writer' = {}
  /\ jobs' = [s \in Sessions |-> <<>>]
  /\ answer' = [i \in Ids |-> "none"]
  /\ quit' = "no" /\ todo' = {}
  /\ proven' = {}
  /\ UNCHANGED <<journalVars, tree, effects>>

Boot ==
  /\ up = "down"
  /\ up' = "sessions"
  /\ UNCHANGED <<journalVars, memoryVars, worldVars, crashes>>

RecoverSession(s) ==
  /\ up = "sessions"
  /\ RecoverSessionRow(s)
  /\ UNCHANGED <<requestTable, memoryVars, worldVars, hostVars>>

\* The first UPDATE: open requests in a safe phase, without a retained fact, have failed.
RecoverRequests ==
  /\ up = "sessions"
  /\ \A s \in Sessions : ~MustRecover(s)
  /\ RecoverRequestRows(SafePhases, "failed")
  /\ up' = "requests"
  /\ UNCHANGED <<call, sessionTable, facts, memoryVars, worldVars, crashes>>

\* The second UPDATE, then NekoRuntime::open loads the retained facts.
OpenRuntime ==
  /\ up = "requests"
  /\ RecoverRequestRows(UncertainPhases, "unknown_outcome")
  /\ up' = "up"
  /\ pending' = facts
  /\ UNCHANGED <<call, sessionTable, facts, threadVars, ownerVars, writerVars,
                 quitVars, worldVars, crashes>>

-----------------------------------------------------------------------------
\* What a caller does after its admission.
CallerStep(c) ==
  \/ Probe(c) \/ ProbeUnproven(c) \/ RejectStart(c) \/ Dispatch(c)
  \/ AdvanceStart(c, "accepted", "dispatched", "dispatched")
  \/ AdvanceStart(c, "dispatched", "side_effect_started", "spawn")
  \/ Spawn(c) \/ Own(c) \/ Teardown(c)
  \/ WriteSend(c) \/ WriteRefuse(c) \/ WriteResult(c)
  \/ CancelAdmit(c) \/ CancelKill(c)

Admit(c, k) == StartAdmit(c, k) \/ WriteAdmit(c, k) \/ CancelFlush(c, k)

\* What the runtime's own threads do for a session.
SessionStep(s) ==
  \/ MonitorTerminate(s) \/ MonitorCommit(s)
  \/ QuitKill(s) \/ QuitFlush(s)

Recover ==
  Boot \/ RecoverRequests \/ OpenRuntime \/ \E s \in Sessions : RecoverSession(s)

Next ==
  \/ \E c \in Callers :
       \/ \E k \in Calls : Admit(c, k)
       \/ CallerStep(c)
  \/ \E s \in Sessions :
       \/ SessionStep(s)
       \/ ListFlush(s) \/ MonitorPoll(s) \/ ProtocolFailure(s)
       \/ WriterDelivers(s) \/ WriterFails(s) \/ TreeDies(s)
  \/ QuitDrain \/ QuitJoin \/ QuitDone
  \/ Crash \/ Recover

Spec == Init /\ [][Next]_vars

\* Threads that hold or wait for the mutex are scheduled and get it at last, the
\* bounded waits of the calls end, and so do the bounded termination attempts.
FairSpec ==
  /\ Spec
  /\ \A c \in Callers : SF_vars(CallerStep(c))
  /\ \A s \in Sessions : SF_vars(SessionStep(s))
  /\ SF_vars(QuitJoin \/ QuitDone)

-----------------------------------------------------------------------------
(* What the journal and the process map promise *)

\* The side effect of a request identity (a provider spawned, a line handed to
\* it) happens at most once, across retries, duplicate callers, timeouts and
\* restarts (begin_request, recover_incomplete).
SideEffectOnce == \A i \in Ids : effects[i] <= 1

\* FR-009: before the effect happens the journal says that it may have happened,
\* so that no later failure or crash can call the request harmless
\* (advance_start_phase, write_session).
EffectIsAdmitted ==
  \A i \in Ids : effects[i] > 0 => phase[i] \notin {"none"} \cup SafePhases

\* A completed request did what it says: the provider was spawned, the line was
\* delivered, the cancelled session is over (write_session, cancel_session).
CompletedMeansDone ==
  \A i \in Ids : phase[i] = "completed" =>
    IF call[i].method = "cancel" THEN IsTerminal(call[i].session)
                                 ELSE effects[i] = 1

\* A session is called failed, which permits a replacement, only when no
\* provider tree of it is left (classify_spawn_failure, poll_process_exit,
\* recover_incomplete).
FailedMeansTerminated ==
  \A s \in Sessions : state[s] = "failed" => tree[s] # "alive"

\* FR-042: until shutdown begins, a session whose termination this runtime has
\* proven is never recorded as unknown: the hand-off to the exit supervisor is
\* not mistaken for a lost owner (poll_process_exit, cancel_session).
ProvenIsNotUnknown ==
  quit = "no" => \A s \in proven : state[s] # "unknown_outcome"

\* Once kill_all has closed the runtime no process enters the map any more, a
\* start that was probing its provider included (kill_all, start_session).
ShutdownIsClosed == [][quit # "no" => processes' = {}]_vars

\* The journal's view of an identity and what it did to the world.
StatusOf(i) ==
  CASE phase[i] = "none"                             -> "new"
    [] phase[i] \in SafePhases \cup UncertainPhases -> "open"
    [] phase[i] = "unknown_outcome"                  -> "unknown"
    [] OTHER                                         -> phase[i]

EffectOf(i) ==
  CASE effects[i] = 0 -> "none"
    [] effects[i] = 1 -> IF call[i].method = "start" /\ tree[call[i].session] = "dead"
                         THEN "undone" ELSE "done"
    [] OTHER          -> "repeated"

Once == INSTANCE RequestOnce WITH
          status <- [i \in Ids |-> StatusOf(i)],
          effect <- [i \in Ids |-> EffectOf(i)]

\* The runtime implements RequestOnce: outcomes are final, a failed request has
\* no effect left (journal.rs transactions and recovery, runtime.rs calls).
ImplementsRequestOnce == Once!Spec

\* kill_all returns: the supervisors it waits for need the mutex it has to let
\* go of, and every one of them ends (kill_all, complete_exit_supervision).
ShutdownCompletes == quit = "killing" ~> quit = "done" \/ up # "up"

\* Every call of the renderer returns, whatever journal write fails under it.
CallsReturn == \A c \in Callers : pc[c] # "idle" ~> pc[c] = "idle"

-----------------------------------------------------------------------------
(* What the documents promise and the code does not keep *)

\* A respawn-permitting terminal state is committed only when the provider tree
\* has been proven to be stopped (cancel_session, flush_pending_terminal_fact).
TerminalMeansTerminated ==
  \A s \in Sessions : state[s] \in {"failed", "cancelled"} => tree[s] # "alive"

=============================================================================
