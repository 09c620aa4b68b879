--------------------------- MODULE InputAuthority ---------------------------
(***************************************************************************)
(* The input authority of the guest desktop (image/input_authority.py) with *)
(* the bridge threads that use it (image/semantic_bridge.py).  Every HTTP   *)
(* request of the host runs on a thread of its own: /act runs a Wiii-owned  *)
(* action under a lease, /input/revoke takes the lease away and answers     *)
(* "quiescent" only when nothing of it is left, /input/activate installs    *)
(* the next lease.                                                          *)
(*                                                                         *)
(* `threading.Event` objects are numbered: each activation makes a new one, *)
(* `event` is the current object and `cancelled` the set of objects that    *)
(* are set.  A thread inside an action keeps the object it started with in  *)
(* its thread-local slot.  What happens under `with self.condition` is one  *)
(* step; what happens outside of it (sending a key event, waiting for the   *)
(* browser's answer) is a step of its own.                                  *)
(***************************************************************************)
EXTENDS Naturals

CONSTANTS
  Threads,         \* bridge request threads
  Leases,          \* lease identities the host uses
  Keys,            \* keys and buttons an action may hold down
  NoLease,         \* None
  NoThread,        \* no holder of SEMANTIC_CONTROL_LOCK
  NoEvent,         \* no thread-local Event
  MaxActivations,  \* bound: activations, one Event object each
  MaxSteps         \* bound: input operations of one action

ASSUME AuthorityAssumption ==
  /\ NoLease \notin Leases
  /\ NoThread \notin Threads
  /\ MaxActivations \in Nat
  /\ MaxSteps \in Nat
  /\ NoEvent \notin Nat

VARIABLES
  lease,              \* self.lease
  event,              \* the Event object self.cancelled refers to
  cancelled,          \* the Event objects that are set
  active,             \* self.active
  cleanup_failed,     \* self.cleanup_failed
  revocation_pending, \* self.revocation_pending
  control,            \* holder of SEMANTIC_CONTROL_LOCK
  pc,                 \* where each thread is
  arg,                \* the leaseId of each thread's request
  local,              \* self.local.cancelled of each thread, or the Event a
                      \* revoking thread has set
  todo,               \* keys of the current step not yet pressed
  pressed,            \* keys of the current step to release
  error,              \* pending_error of the current step
  steps,              \* operations the action may still do
  held,               \* keys that are down in the guest
  clock,              \* a realtime clock worker holds the page
  acked               \* Event objects under which a revocation was acknowledged

authorityVars == <<lease, event, cancelled, active, cleanup_failed,
                   revocation_pending>>
frameVars == <<todo, pressed, error, steps>>
vars == <<authorityVars, control, pc, arg, local, frameVars, held, clock, acked>>

Events == 0 .. MaxActivations

\* Places inside the action that `run` calls, `active` being set.
InAction == {"body", "press", "send", "hold", "release", "pause", "effect",
             "spawn", "end"}

Places == InAction \cup {"idle", "queued", "run", "revoking"}

TypeOK ==
  /\ lease \in Leases \cup {NoLease}
  /\ event \in Events
  /\ cancelled \in SUBSET Events
  /\ active \in BOOLEAN
  /\ cleanup_failed \in BOOLEAN
  /\ revocation_pending \in BOOLEAN
  /\ control \in Threads \cup {NoThread}
  /\ pc \in [Threads -> Places]
  /\ arg \in [Threads -> Leases \cup {NoLease}]
  /\ local \in [Threads -> Events \cup {NoEvent}]
  /\ todo \in [Threads -> SUBSET Keys]
  /\ pressed \in [Threads -> SUBSET Keys]
  /\ error \in [Threads -> {"none", "raised"}]
  /\ steps \in [Threads -> 0 .. MaxSteps]
  /\ held \in SUBSET Keys
  /\ clock \in BOOLEAN
  /\ acked \in SUBSET Events

\* InputAuthority.__init__: no lease, an Event that is already set.
Init ==
  /\ lease = NoLease
  /\ event = 0
  /\ cancelled = {0}
  /\ active = FALSE
  /\ cleanup_failed = FALSE
  /\ revocation_pending = FALSE
  /\ control = NoThread
  /\ pc = [t \in Threads |-> "idle"]
  /\ arg = [t \in Threads |-> NoLease]
  /\ local = [t \in Threads |-> NoEvent]
  /\ todo = [t \in Threads |-> {}]
  /\ pressed = [t \in Threads |-> {}]
  /\ error = [t \in Threads |-> "none"]
  /\ steps = [t \in Threads |-> 0]
  /\ held = {}
  /\ clock = FALSE
  /\ acked = {}

Goto(t, place) == pc' = [pc EXCEPT ![t] = place]

\* checkpoint(): the thread's own Event is set (the caller is not cleaning).
Revoked(t) == local[t] \in cancelled

-----------------------------------------------------------------------------
(* activate *)

\* Mutant: activate without its first check.
ActivateUnconfirmed(l) ==
  /\ l # lease
  /\ ~active /\ event \in cancelled
  /\ event < MaxActivations
  /\ lease' = l
  /\ event' = event + 1
  /\ UNCHANGED <<cancelled, active, cleanup_failed, revocation_pending, control,
                 pc, arg, local, frameVars, held, clock, acked>>

\* Installing a lease needs confirmed cleanup, an idle authority and a revoked
\* predecessor; a refused activation raises and changes nothing, and so does
\* repeating the activation of the live lease.
Activate(l) ==
  /\ ~cleanup_failed /\ ~revocation_pending
  /\ l # lease
  /\ ~active /\ event \in cancelled
  /\ event < MaxActivations
  /\ lease' = l
  /\ event' = event + 1
  /\ UNCHANGED <<cancelled, active, cleanup_failed, revocation_pending, control,
                 pc, arg, local, frameVars, held, clock, acked>>

-----------------------------------------------------------------------------
(* revoke *)

\* The lease is current: set its Event, note the pending revocation and wait.
RevokeBegin(t, l) ==
  /\ pc[t] = "idle"
  /\ lease = l
  /\ cancelled' = cancelled \cup {event}
  /\ revocation_pending' = TRUE
  /\ Goto(t, "revoking")
  /\ local' = [local EXCEPT ![t] = event]
  /\ UNCHANGED <<lease, event, active, cleanup_failed, control, arg, frameVars,
                 held, clock, acked>>

\* Mutant: the result of wait_for is ignored.
RevokeTimeoutIgnored(t) ==
  /\ pc[t] = "revoking"
  /\ active
  /\ revocation_pending' = FALSE
  /\ acked' = acked \cup {local[t]}
  /\ Goto(t, "idle")
  /\ local' = [local EXCEPT ![t] = NoEvent]
  /\ UNCHANGED <<lease, event, cancelled, active, cleanup_failed, control, arg,
                 frameVars, held, clock>>

\* wait_for gave up while an action is still active: TimeoutError.
RevokeTimeout(t) ==
  /\ pc[t] = "revoking"
  /\ active
  /\ Goto(t, "idle")
  /\ local' = [local EXCEPT ![t] = NoEvent]
  /\ UNCHANGED <<authorityVars, control, arg, frameVars, held, clock, acked>>

\* Nothing is active: the answer is an error after a failed key release, and
\* otherwise depends on quiesce_realtime_clock, which runs under the condition
\* and may itself fail after having stopped the worker or before.
RevokeFinish(t) ==
  /\ pc[t] = "revoking"
  /\ ~active
  /\ \/ /\ cleanup_failed
        /\ UNCHANGED <<revocation_pending, clock, acked>>
     \/ /\ ~cleanup_failed
        /\ clock' = FALSE
        /\ revocation_pending' = FALSE
        /\ acked' = acked \cup {local[t]}
     \/ /\ ~cleanup_failed
        /\ UNCHANGED clock \/ clock' = FALSE
        /\ UNCHANGED <<revocation_pending, acked>>
  /\ Goto(t, "idle")
  /\ local' = [local EXCEPT ![t] = NoEvent]
  /\ UNCHANGED <<lease, event, cancelled, active, cleanup_failed, control, arg,
                 frameVars, held>>

\* Another lease, one that came before or never arrived, is confirmed at once
\* when nothing of the current one is left, and refused otherwise.
RevokeOther(t, l) ==
  /\ pc[t] = "idle"
  /\ lease # l
  /\ ~active /\ event \in cancelled /\ ~revocation_pending /\ ~cleanup_failed
  /\ acked' = acked \cup {event}
  /\ UNCHANGED <<authorityVars, control, pc, arg, local, frameVars, held, clock>>

-----------------------------------------------------------------------------
(* /act: the control lock, run, and the action *)

ActRequest(t, l) ==
  /\ pc[t] = "idle"
  /\ Goto(t, "queued")
  /\ arg' = [arg EXCEPT ![t] = l]
  /\ UNCHANGED <<authorityVars, control, local, frameVars, held, clock, acked>>

\* do_POST serialises every route but events, activate and revoke.
AcquireControl(t) ==
  /\ pc[t] = "queued"
  /\ control = NoThread
  /\ control' = t
  /\ Goto(t, "run")
  /\ UNCHANGED <<authorityVars, arg, local, frameVars, held, clock, acked>>

\* Mutant: a lease that is current may act, revoked or not.
MayRunRevoked(t) == arg[t] = lease /\ ~active

\* run() refuses a lease that is not current, revoked, or already acting.
MayRun(t) == arg[t] = lease /\ event \notin cancelled /\ ~active

RunRefused(t) ==
  /\ pc[t] = "run"
  /\ ~MayRun(t)
  /\ Goto(t, "idle")
  /\ control' = NoThread
  /\ UNCHANGED <<authorityVars, arg, local, frameVars, held, clock, acked>>

Run(t) ==
  /\ pc[t] = "run"
  /\ MayRun(t)
  /\ active' = TRUE
  /\ local' = [local EXCEPT ![t] = event]
  /\ steps' = [steps EXCEPT ![t] = MaxSteps]
  /\ Goto(t, "body")
  /\ UNCHANGED <<lease, event, cancelled, cleanup_failed, revocation_pending,
                 control, arg, todo, pressed, error, held, clock, acked>>

\* One step of dispatch_input_sequence (or a mouse click: one button).
BeginStep(t, keys) ==
  /\ pc[t] = "body"
  /\ steps[t] > 0
  /\ steps' = [steps EXCEPT ![t] = @ - 1]
  /\ todo' = [todo EXCEPT ![t] = keys]
  /\ error' = [error EXCEPT ![t] = "none"]
  /\ Goto(t, "press")
  /\ UNCHANGED <<authorityVars, control, arg, local, pressed, held, clock, acked>>

\* pressed.append, then the checkpoints before the event is sent.  Once every
\* key is down the step waits for its hold time.
PressKey(t) ==
  /\ pc[t] = "press"
  /\ \/ /\ todo[t] # {}
        /\ \E k \in todo[t] : pressed' = [pressed EXCEPT ![t] = @ \cup {k}]
        /\ Goto(t, IF Revoked(t) THEN "release" ELSE "send")
        /\ error' = [error EXCEPT ![t] = IF Revoked(t) THEN "raised" ELSE "none"]
     \/ /\ todo[t] = {}
        /\ Goto(t, "hold")
        /\ UNCHANGED <<pressed, error>>
  /\ UNCHANGED <<authorityVars, control, arg, local, todo, steps, held, clock,
                 acked>>

\* The key-down event of the appended key leaves outside of the condition.  An
\* answer says that the key is down; without one it may be down or not, and the
\* step goes on to release.
SendKeyDown(t) ==
  /\ pc[t] = "send"
  /\ \E k \in todo[t] \cap pressed[t] :
       /\ todo' = [todo EXCEPT ![t] = @ \ {k}]
       /\ \/ /\ held' = held \cup {k}
             /\ Goto(t, "press")
             /\ UNCHANGED error
          \/ /\ held' \in {held, held \cup {k}}
             /\ Goto(t, "release")
             /\ error' = [error EXCEPT ![t] = "raised"]
  /\ UNCHANGED <<authorityVars, control, arg, local, pressed, steps, clock, acked>>

\* INPUT_AUTHORITY.wait(holdMs): a set Event ends the hold with InputRevoked.
Hold(t) ==
  /\ pc[t] = "hold"
  /\ error' = [error EXCEPT ![t] = IF Revoked(t) THEN "raised" ELSE "none"]
  /\ Goto(t, "release")
  /\ UNCHANGED <<authorityVars, control, arg, local, todo, pressed, steps, held,
                 clock, acked>>

\* Mutant: a failed keyUp is swallowed.
ReleaseKeySilently(t) ==
  /\ pc[t] = "release"
  /\ \E k \in pressed[t] :
       /\ pressed' = [pressed EXCEPT ![t] = @ \ {k}]
       /\ held' \in {held, held \ {k}}
  /\ UNCHANGED <<authorityVars, control, pc, arg, local, todo, error, steps, clock,
                 acked>>

\* keyUp of every appended key, inside cleanup(): checkpoints are off, and a
\* failure is remembered for good while the key may still be down.
ReleaseKey(t) ==
  /\ pc[t] = "release"
  /\ \E k \in pressed[t] :
       /\ pressed' = [pressed EXCEPT ![t] = @ \ {k}]
       /\ \/ /\ held' = held \ {k}
             /\ UNCHANGED <<cleanup_failed, error>>
          \/ /\ held' \in {held, held \ {k}}
             /\ cleanup_failed' = TRUE
             /\ error' = [error EXCEPT ![t] = "raised"]
  /\ UNCHANGED <<lease, event, cancelled, active, revocation_pending, control,
                 pc, arg, local, todo, steps, clock, acked>>

\* Every key is released: raise the pending error or pause before the next step.
EndStep(t) ==
  /\ pc[t] = "release"
  /\ pressed[t] = {}
  /\ todo' = [todo EXCEPT ![t] = {}]
  /\ Goto(t, IF error[t] = "raised" THEN "end" ELSE "pause")
  /\ UNCHANGED <<authorityVars, control, arg, local, pressed, error, steps, held,
                 clock, acked>>

\* INPUT_AUTHORITY.wait(waitMs) between two steps.
Pause(t) ==
  /\ pc[t] = "pause"
  /\ Goto(t, IF Revoked(t) THEN "end" ELSE "body")
  /\ UNCHANGED <<authorityVars, control, arg, local, frameVars, held, clock, acked>>

\* dispatch(): checkpoint under the condition; a single effect ("effect", e.g.
\* grabFocus, setTextContents, doAction) or the start of a clock worker
\* ("spawn") follows outside of it.
Dispatch(t, what) ==
  /\ pc[t] = "body"
  /\ steps[t] > 0
  /\ steps' = [steps EXCEPT ![t] = @ - 1]
  /\ Goto(t, IF Revoked(t) THEN "end" ELSE what)
  /\ UNCHANGED <<authorityVars, control, arg, local, todo, pressed, error, held,
                 clock, acked>>

\* The effect is delivered or raises; resuming a held page is one of them.
Effect(t) ==
  /\ pc[t] = "effect"
  /\ \/ Goto(t, "body")
     \/ Goto(t, "end")
  /\ clock' \in {clock, FALSE}
  /\ UNCHANGED <<authorityVars, control, arg, local, frameVars, held, acked>>

\* realtime_clock_hold: the worker is registered and holds the page, or the call
\* fails before or after the worker was registered.
SpawnClock(t) ==
  /\ pc[t] = "spawn"
  /\ \/ clock' = TRUE /\ Goto(t, "body")
     \/ clock' \in {clock, TRUE} /\ Goto(t, "end")
  /\ UNCHANGED <<authorityVars, control, arg, local, frameVars, held, acked>>

\* The watchdog of a clock worker resumes the page at its deadline.
ClockExpires ==
  /\ clock
  /\ clock' = FALSE
  /\ UNCHANGED <<authorityVars, control, pc, arg, local, frameVars, held, acked>>

\* The action returns by itself.
Finish(t) ==
  /\ pc[t] = "body"
  /\ Goto(t, "end")
  /\ UNCHANGED <<authorityVars, control, arg, local, frameVars, held, clock, acked>>

\* Mutant: `active` is cleared only when the action was not revoked.
EndRunUnrevoked(t) ==
  /\ pc[t] = "end"
  /\ active' = Revoked(t)
  /\ local' = [local EXCEPT ![t] = NoEvent]
  /\ error' = [error EXCEPT ![t] = "none"]
  /\ steps' = [steps EXCEPT ![t] = 0]
  /\ control' = NoThread
  /\ Goto(t, "idle")
  /\ UNCHANGED <<lease, event, cancelled, cleanup_failed, revocation_pending, arg,
                 todo, pressed, held, clock, acked>>

\* The finally clause of run, and the end of the control lock's block.
EndRun(t) ==
  /\ pc[t] = "end"
  /\ active' = FALSE
  /\ local' = [local EXCEPT ![t] = NoEvent]
  /\ error' = [error EXCEPT ![t] = "none"]
  /\ steps' = [steps EXCEPT ![t] = 0]
  /\ control' = NoThread
  /\ Goto(t, "idle")
  /\ UNCHANGED <<lease, event, cancelled, cleanup_failed, revocation_pending, arg,
                 todo, pressed, held, clock, acked>>

-----------------------------------------------------------------------------
\* What the thread that is inside an action does by itself.
ActionStep(t) ==
  \/ \E keys \in SUBSET Keys \ {{}} : BeginStep(t, keys)
  \/ PressKey(t)
  \/ SendKeyDown(t)
  \/ Hold(t)
  \/ ReleaseKey(t)
  \/ EndStep(t)
  \/ Pause(t)
  \/ \E what \in {"effect", "spawn"} : Dispatch(t, what)
  \/ Effect(t)
  \/ SpawnClock(t)
  \/ Finish(t)
  \/ EndRun(t)

Next ==
  \/ ClockExpires
  \/ \E l \in Leases : Activate(l)
  \/ \E t \in Threads :
       \/ \E l \in Leases : RevokeBegin(t, l) \/ RevokeOther(t, l) \/ ActRequest(t, l)
       \/ RevokeTimeout(t)
       \/ RevokeFinish(t)
       \/ AcquireControl(t)
       \/ RunRefused(t)
       \/ Run(t)
       \/ ActionStep(t)

Spec == Init /\ [][Next]_vars

\* Threads are scheduled, browser answers are bounded by CdpConnection's
\* timeout, and wait_for is bounded: an action and a revocation that can go on
\* do so.
FairSpec ==
  /\ Spec
  /\ \A t \in Threads : WF_vars(ActionStep(t))
  /\ \A t \in Threads : WF_vars(RevokeTimeout(t) \/ RevokeFinish(t))

-----------------------------------------------------------------------------
(* What the authority promises *)

\* After `revoke` has answered "quiescent", for its own lease or another, no
\* action under that activation is running or about to dispatch, and while it is
\* the latest activation no key is down and no clock worker holds the page
\* (input_authority.py revoke).
AckMeansQuiescent ==
  /\ \A t \in Threads : pc[t] \in InAction => local[t] \notin acked
  /\ event \in acked => ~active /\ held = {} /\ ~clock

\* A key left down by nobody's running action is admitted by cleanup_failed: the
\* authority never forgets a key it could not release (cleanup, run).
HeldKeyIsOwned ==
  \A k \in held :
    cleanup_failed \/ \E t \in Threads : pc[t] \in InAction /\ k \in pressed[t]

\* A new lease is installed only over a desktop that is quiet: nothing active,
\* no key down, no page held, no cleanup outstanding (activate).
HandoffIsClean ==
  [][lease' # lease =>
       /\ held = {} /\ ~clock
       /\ \A t \in Threads : pc[t] \notin InAction]_vars

\* A revoked action stops: it never outlives its lease for ever, whatever step
\* it is in (wait, checkpoint, run).
CancelledActionStops == (active /\ event \in cancelled) ~> ~active

Authority == INSTANCE GuestAuthority WITH
               live <- event \notin cancelled,
               acting <- active,
               pending <- revocation_pending,
               failed <- cleanup_failed

\* The threads of the bridge, whatever they overlap in, are to the host one
\* authority: a revoked lease is only followed by another, which waits for the
\* confirmation, also when revocations of both overlap (activate, revoke, run).
ImplementsGuestAuthority == Authority!Spec

=============================================================================
