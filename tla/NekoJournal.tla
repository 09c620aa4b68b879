---------------------------- MODULE NekoJournal ----------------------------
(***************************************************************************)
(* The durable tables of the Neko runtime (neko/journal.rs) and the         *)
(* transactions on them.  An operator here is what a transaction does when  *)
(* it commits; a transaction whose check fails, or that SQLite refuses,     *)
(* changes nothing.  What a caller does with that error is in NekoRuntime.  *)
(***************************************************************************)
EXTENDS NekoLifecycle, Naturals

CONSTANTS
  Ids,       \* request identities chosen by the renderer
  Sessions,  \* agent session identities
  Calls,     \* the calls the renderer may make: [id, method, session]
  NoCall,    \* an identity that has no row
  NoFact     \* a session without a retained terminal fact

Methods == {"start", "write", "cancel"}

ASSUME JournalAssumption ==
  /\ Calls \subseteq [id : Ids, method : Methods, session : Sessions]
  /\ NoCall \notin Calls

VARIABLES
  call,       \* control_requests: method and target of each identity
  phase,      \* control_requests.phase
  state,      \* runtime_sessions.state
  operation,  \* runtime_sessions.operation_phase
  facts       \* pending_terminal_facts

requestTable == <<call, phase>>
sessionTable == <<state, operation>>
journalVars == <<requestTable, sessionTable, facts>>

\* A terminal fact: the session row it commits and, unless `outcome` is
\* "none", the request it completes or fails in the same transaction.
Facts == [state : TerminalStates, phase : OperationPhases,
          request : Ids \cup {NoCall}, outcome : {"none", "completed", "failed"}]

\* Having no fact is different from every fact.
ASSUME FactAssumption == NoFact \notin Facts

JournalTypeOK ==
  /\ call \in [Ids -> Calls \cup {NoCall}]
  /\ phase \in [Ids -> OperationPhases \cup {"none"}]
  /\ state \in [Sessions -> RunStates \cup {"none"}]
  /\ operation \in [Sessions -> OperationPhases \cup {"none"}]
  /\ facts \in [Sessions -> Facts \cup {NoFact}]

JournalInit ==
  /\ call = [i \in Ids |-> NoCall]
  /\ phase = [i \in Ids |-> "none"]
  /\ state = [s \in Sessions |-> "none"]
  /\ operation = [s \in Sessions |-> "none"]
  /\ facts = [s \in Sessions |-> NoFact]

IsTerminal(s) == state[s] \in TerminalStates
IsOpen(s) == state[s] # "none" /\ ~IsTerminal(s)

-----------------------------------------------------------------------------
(* Requests *)

\* Mutant: an identity whose outcome is unknown is executed again.
IsNewOrUnknown(i) == call[i] = NoCall \/ phase[i] = "unknown_outcome"

\* The decision of begin_request: only an identity without a row is executed.
\* One that has a row is replayed, refused or reported unknown, and nothing
\* changes.
IsNew(i) == call[i] = NoCall

BeginRequest(k) ==
  /\ IsNew(k.id)
  /\ call' = [call EXCEPT ![k.id] = k]
  /\ phase' = [phase EXCEPT ![k.id] = "accepted"]

\* begin_start_request: the identity and the session row in one transaction.
\* The session identity is a primary key.
BeginStartRequest(k) ==
  /\ BeginRequest(k)
  /\ state[k.session] = "none"
  /\ state' = [state EXCEPT ![k.session] = "starting"]
  /\ operation' = [operation EXCEPT ![k.session] = "accepted"]

\* set_request_phase, complete_request.
SetRequestPhase(i, next) ==
  /\ CanAdvanceOperation(phase[i], next)
  /\ phase' = [phase EXCEPT ![i] = next]

FailRequest(i) == SetRequestPhase(i, "failed")

MarkRequestUnknown(i) == SetRequestPhase(i, "unknown_outcome")

-----------------------------------------------------------------------------
(* Sessions *)

SetSessionPhase(s, next) ==
  /\ CanAdvanceOperation(operation[s], next)
  /\ operation' = [operation EXCEPT ![s] = next]

\* commit_session_event without a request: the row moves and the retained fact
\* of the session, whichever it is, is deleted.
UpdateSession(s, nextState, nextPhase) ==
  /\ CanTransition(state[s], nextState)
  /\ CanAdvanceOperation(operation[s], nextPhase)
  /\ state' = [state EXCEPT ![s] = nextState]
  /\ operation' = [operation EXCEPT ![s] = nextPhase]
  /\ facts' = [facts EXCEPT ![s] = NoFact]

\* The request part of commit_session_event: completing needs a started side
\* effect, failing what can_advance_operation says.
CommitOutcome(f) ==
  \/ /\ f.outcome = "none"
     /\ UNCHANGED phase
  \/ /\ f.outcome = "completed"
     /\ phase[f.request] \in UncertainPhases
     /\ phase' = [phase EXCEPT ![f.request] = "completed"]
  \/ /\ f.outcome = "failed"
     /\ SetRequestPhase(f.request, "failed")

CommitFact(s, f) ==
  /\ UpdateSession(s, f.state, f.phase)
  /\ CommitOutcome(f)

\* reconcile_terminal_request, reconcile_terminal_request_failure and
\* remove_terminal_fact: the session is terminal already.
ReconcileFact(s, f) ==
  /\ \/ f.outcome = "none" /\ UNCHANGED phase
     \/ /\ f.outcome # "none"
        /\ phase[f.request] \in UncertainPhases \cup {f.outcome}
        /\ phase' = [phase EXCEPT ![f.request] = f.outcome]
  /\ facts' = [facts EXCEPT ![s] = NoFact]

-----------------------------------------------------------------------------
(* Recovery at startup *)

\* A request that a retained fact will settle is left to it.
Retained == {facts[s].request : s \in {t \in Sessions : facts[t] # NoFact}}

MustRecover(s) == IsOpen(s) /\ facts[s] = NoFact

\* Mutant: a side effect that was started counts as lost.
RecoveredPhaseLost(s) ==
  IF operation[s] \in SafePhases \cup {"side_effect_started"}
  THEN "failed" ELSE "unknown_outcome"

\* recover_incomplete, one session: its process is gone with the old runtime.
RecoveredPhase(s) ==
  CASE RecoveryDisposition(operation[s]) = "continuity_lost" -> "failed"
    [] RecoveryDisposition(operation[s]) = "unknown_outcome" -> "unknown_outcome"
    [] RecoveryDisposition(operation[s]) = "preserve"        -> operation[s]

RecoverSessionRow(s) ==
  /\ MustRecover(s)
  /\ UpdateSession(s, IF RecoveredPhase(s) = "unknown_outcome"
                      THEN "unknown_outcome" ELSE "failed", RecoveredPhase(s))

\* The two UPDATEs of recover_incomplete: requests in `from` become `to`.
RecoverRequestRows(from, to) ==
  phase' = [i \in Ids |-> IF phase[i] \in from /\ i \notin Retained
                          THEN to ELSE phase[i]]

=============================================================================
