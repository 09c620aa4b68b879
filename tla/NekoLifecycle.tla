--------------------------- MODULE NekoLifecycle ---------------------------
(***************************************************************************)
(* The two state machines every durable record of the Neko runtime obeys    *)
(* (neko/lifecycle.rs): the run state of a session and the operation phase  *)
(* of a session or of a control request.                                    *)
(***************************************************************************)

RunStates == {"queued", "starting", "running", "waiting", "verifying", "review",
              "completed", "failed", "cancelled", "unknown_outcome"}

OperationPhases == {"accepted", "dispatched", "side_effect_started", "committed",
                    "completed", "failed", "unknown_outcome"}

\* RunState::is_terminal
TerminalStates == {"completed", "failed", "cancelled", "unknown_outcome"}

\* How a run that has left the queue may end early.
Stopped == {"failed", "cancelled", "unknown_outcome"}

RunSuccessors ==
  [queued    |-> {"starting", "cancelled"},
   starting  |-> {"running"} \cup Stopped,
   running   |-> {"waiting", "verifying"} \cup Stopped,
   waiting   |-> {"running"} \cup Stopped,
   verifying |-> {"running", "review"} \cup Stopped,
   review    |-> {"completed"} \cup Stopped]

CanTransition(from, to) ==
  from = to \/ (from \in DOMAIN RunSuccessors /\ to \in RunSuccessors[from])

PhaseSuccessors ==
  [accepted            |-> {"dispatched", "completed", "failed"},
   dispatched          |-> {"side_effect_started", "failed"},
   side_effect_started |-> {"committed", "failed", "unknown_outcome"},
   committed           |-> {"completed", "failed", "unknown_outcome"}]

CanAdvanceOperation(from, to) ==
  from = to \/ (from \in DOMAIN PhaseSuccessors /\ to \in PhaseSuccessors[from])

\* recovery_disposition: an operation that may have begun its side effect can
\* never be called lost, only unknown.
SafePhases == {"accepted", "dispatched"}
UncertainPhases == {"side_effect_started", "committed"}

RecoveryDisposition(phase) ==
  CASE phase \in SafePhases      -> "continuity_lost"
    [] phase \in UncertainPhases -> "unknown_outcome"
    [] OTHER                     -> "preserve"

=============================================================================
