---------------------------- MODULE ComputerSeat ----------------------------
(***************************************************************************)
(* Who drives the shared desktop: the host's seat and its request journal   *)
(* (computer/service.rs, computer/journal.rs) on one side, the guest's      *)
(* input authority on the other, and a transport between them whose answers *)
(* get lost or come too late (computer/provider.rs).  The authority is the  *)
(* one of InputAuthority, seen from outside: `live` is its Event not being  *)
(* set, `active` the action it runs.                                        *)
(*                                                                         *)
(* Two mutexes serialise the host.  `call` is the call that holds `seats`,  *)
(* `act` the semantic action that holds `operations`; a lifecycle call      *)
(* takes `operations` after `seats`.  A message to the guest stays in `net` *)
(* until the guest handles it, also when its caller has given up waiting or *)
(* the host has crashed.  Requests are numbered in the order of their first *)
(* use, and a fresh lease has the number of the request that made it.       *)
(***************************************************************************)
EXTENDS Naturals

CONSTANTS
  MaxRequests,  \* bound: request identities
  MaxCrashes,   \* bound: ends of the host process
  Ops,          \* lifecycle calls that are made
  Owners,       \* seat owners, agents and people
  NoOwner

ASSUME SeatAssumption ==
  /\ MaxRequests \in Nat
  /\ MaxCrashes \in Nat
  /\ Ops \subseteq {"ensure", "switch", "suspend", "resume", "reset", "revoke_project"}
  /\ NoOwner \notin Owners

Requests == 1 .. MaxRequests
None == 0     \* no request, no lease

VARIABLES
  env,      \* computer_environments.state
  bound,    \* the coworker's binding has an active Project
  seat,     \* the computer_seats row
  phase,    \* computer_requests.phase
  method,   \* computer_requests.method
  call,     \* the call that holds `seats`
  act,      \* the semantic action that holds `operations`
  guest,    \* the container and its input authority
  net,      \* requests to the guest that it has not finished
  effects,  \* seats granted to, or actions run for, a request
  late,     \* an activation took effect after its caller had given up
  crashes

hostVars == <<env, bound, seat, phase, method>>
vars == <<hostVars, call, act, guest, net, effects, late, crashes>>

Methods == {"acquire", "release", "act"} \cup Ops
OpenPhases == {"accepted", "side_effect_started"}
Phases == OpenPhases \cup {"none", "completed", "failed", "unknown_outcome"}
Answers == {"none", "ok", "error"}
Seats == [state: {"available", "agent_controlled", "user_controlled"},
          lease: Requests \cup {None}, owner: Owners \cup {NoOwner}]
Calls == [op: {"none", "acquire", "release"} \cup Ops,
          req: Requests \cup {None}, owner: Owners \cup {NoOwner}, user: BOOLEAN,
          place: {"idle", "revoke", "grant", "activate", "vacate", "operations",
                  "provider"},
          answer: Answers]
Guests == [container: {"running", "stopped", "absent"},
           lease: Requests \cup {None}, live: BOOLEAN,
           active: Requests \cup {None}, pending: BOOLEAN, failed: BOOLEAN]
Messages == [kind: {"activate", "revoke", "revoking", "act"},
             lease: Requests \cup {None}, req: Requests \cup {None},
             waits: BOOLEAN]

TypeOK ==
  /\ env \in {"ready", "preparing", "suspended", "error", "unknown_outcome"}
  /\ bound \in BOOLEAN
  /\ seat \in Seats
  /\ phase \in [Requests -> Phases]
  /\ method \in [Requests -> Methods \cup {"none"}]
  /\ call \in Calls
  /\ act \in [req: Requests \cup {None}, answer: Answers]
  /\ guest \in Guests
  /\ net \in SUBSET Messages
  /\ effects \in [Requests -> Nat]
  /\ late \in BOOLEAN
  /\ crashes \in 0 .. MaxCrashes

Available == [state |-> "available", lease |-> None, owner |-> NoOwner]
NoCall == [op |-> "none", req |-> None, owner |-> NoOwner, user |-> FALSE,
           place |-> "idle", answer |-> "none"]
NoAct == [req |-> None, answer |-> "none"]

\* InputAuthority.__init__ in a bridge that has just been started, or none.
FreshGuest(container) ==
  [container |-> container, lease |-> None, live |-> FALSE, active |-> None,
   pending |-> FALSE, failed |-> FALSE]

Init ==
  /\ env = "ready"
  /\ bound = TRUE
  /\ seat = Available
  /\ phase = [r \in Requests |-> "none"]
  /\ method = [r \in Requests |-> "none"]
  /\ call = NoCall
  /\ act = NoAct
  /\ guest = FreshGuest("running")
  /\ net = {}
  /\ effects = [r \in Requests |-> 0]
  /\ late = FALSE
  /\ crashes = 0

-----------------------------------------------------------------------------
(* The request journal and the transport *)

\* begin_request on an identity that has no row yet.
New(r) == phase[r] = "none" /\ \A q \in Requests : q < r => phase[q] # "none"

\* The row of a request as a call leaves it.
Record(r, m, p) ==
  /\ phase' = [phase EXCEPT ![r] = p]
  /\ method' = [method EXCEPT ![r] = m]

\* The end of a call whose effect is undecided: `uncertain` settles request and
\* environment together, or its write fails as well.
Uncertain(r, m, e) ==
  \/ Record(r, m, "unknown_outcome") /\ env' = "unknown_outcome"
  \/ Record(r, m, "side_effect_started") /\ env' = e

\* The end of a call that worked: complete_request, or `uncertain`.
Complete(r, m, e) ==
  \/ Record(r, m, "completed") /\ env' = e
  \/ Uncertain(r, m, e)

\* record_local_rejection: fail_request may fail, the row stays open then.
Reject(r, m) == \E p \in {phase[r], "failed"} : Record(r, m, p)

\* A message to the guest: `req` is the request of an action, `waits` says that
\* the call under `seats` that sent it still waits for the answer.
Message(kind, l, r) ==
  [kind |-> kind, lease |-> l, req |-> r, waits |-> kind # "act"]

\* The messages under way when the call that sent them has given up.
Orphaned == {[m EXCEPT !.waits = FALSE] : m \in net}

\* revoke_active_input on the way into call c: it asks the guest only when an
\* agent has the seat, and finds nothing to revoke without a container.
Barrier(c, next) ==
  IF seat.state = "agent_controlled" /\ guest.container # "absent"
  THEN /\ call' = [c EXCEPT !.place = "revoke"]
       /\ net' = net \cup {Message("revoke", seat.lease, None)}
  ELSE call' = [c EXCEPT !.place = next] /\ UNCHANGED net

\* Where a call goes on after the barrier.
After(op) == CASE op = "acquire" -> "grant"
               [] op = "release" -> "vacate"
               [] OTHER          -> "operations"

-----------------------------------------------------------------------------
(* Seat calls *)

\* acquire_seat up to the barrier.  A person takes the seat of an agent, so the
\* agent's input is revoked first; mark_side_effect_started may fail.
Acquire(r, o, user) ==
  LET c == [NoCall EXCEPT !.op = "acquire", !.req = r, !.owner = o, !.user = user]
  IN  /\ call = NoCall
      /\ env = "ready"
      /\ New(r)
      /\ \/ Record(r, "acquire", "accepted") /\ UNCHANGED <<call, net>>
         \/ /\ Record(r, "acquire", "side_effect_started")
            /\ IF user THEN Barrier(c, "grant")
                       ELSE call' = [c EXCEPT !.place = "grant"] /\ UNCHANGED net
      /\ UNCHANGED <<env, bound, seat, act, guest, effects, late, crashes>>

\* ComputerJournal::acquire_seat: who may have the seat, and under which lease.
MayTake(o, user) ==
  \/ seat.state = "available"
  \/ seat.owner = o
  \/ user /\ seat.state = "agent_controlled"

Granted(r, o, user) ==
  [state |-> IF user THEN "user_controlled" ELSE "agent_controlled",
   lease |-> IF seat.owner = o THEN seat.lease ELSE r,
   owner |-> o]

\* The seat's transaction and, for an agent, the activation of its lease.
Grant ==
  LET granted == Granted(call.req, call.owner, call.user)
  IN  /\ call.place = "grant"
      /\ \/ /\ MayTake(call.owner, call.user)
            /\ seat' = granted
            /\ effects' = [effects EXCEPT ![call.req] = @ + 1]
            /\ IF call.user
               THEN /\ Complete(call.req, "acquire", env)
                    /\ call' = NoCall
                    /\ UNCHANGED net
               ELSE /\ call' = [call EXCEPT !.place = "activate"]
                    /\ net' = net \cup {Message("activate", granted.lease, None)}
                    /\ UNCHANGED <<env, phase, method>>
         \/ /\ Reject(call.req, "acquire")
            /\ call' = NoCall
            /\ UNCHANGED <<env, seat, net, effects>>
      /\ UNCHANGED <<bound, act, guest, late, crashes>>

\* The end of an agent's acquire_seat.
Activated ==
  /\ call.place = "activate" /\ call.answer # "none"
  /\ IF call.answer = "ok" THEN Complete(call.req, "acquire", env)
                           ELSE Uncertain(call.req, "acquire", env)
  /\ call' = NoCall
  /\ UNCHANGED <<bound, seat, act, guest, net, effects, late, crashes>>

\* release_seat up to the barrier.  A repeated request whose outcome is unknown
\* goes on, as far as mark_side_effect_started, which admits it only once.
Release(r, l) ==
  LET c == [NoCall EXCEPT !.op = "release", !.req = r]
      begun == IF phase[r] = "none" THEN "accepted" ELSE phase[r]
  IN  /\ call = NoCall
      /\ \/ New(r)
         \/ method[r] = "release" /\ phase[r] \in OpenPhases \cup {"unknown_outcome"}
      /\ \/ Record(r, "release", begun) /\ UNCHANGED <<call, net>>
         \/ /\ seat.lease # l /\ begun \in OpenPhases
            /\ Record(r, "release", "failed")
            /\ UNCHANGED <<call, net>>
         \/ /\ seat.lease = l /\ begun = "accepted"
            /\ Record(r, "release", "side_effect_started")
            /\ Barrier(c, "vacate")
      /\ UNCHANGED <<env, bound, seat, act, guest, effects, late, crashes>>

\* ComputerJournal::release_seat and the end of the call.
Vacate ==
  /\ call.place = "vacate"
  /\ \/ seat' = Available /\ Complete(call.req, "release", env)
     \/ Reject(call.req, "release") /\ UNCHANGED <<seat, env>>
  /\ call' = NoCall
  /\ UNCHANGED <<bound, act, guest, net, effects, late, crashes>>

\* Mutant: the error of a revocation is ignored.
RevokedAnyway ==
  /\ call.place = "revoke" /\ call.answer # "none"
  /\ call' = [call EXCEPT !.place = After(call.op), !.answer = "none"]
  /\ UNCHANGED <<hostVars, act, guest, net, effects, late, crashes>>

\* The barrier is passed when the guest says it is quiescent; on an error the
\* call returns and leaves its request as it is.
Revoked ==
  /\ call.place = "revoke" /\ call.answer # "none"
  /\ call' = IF call.answer = "ok"
             THEN [call EXCEPT !.place = After(call.op), !.answer = "none"]
             ELSE NoCall
  /\ UNCHANGED <<hostVars, act, guest, net, effects, late, crashes>>

-----------------------------------------------------------------------------
(* Lifecycle calls *)

\* ensure, suspend, resume, reset and revoke_project up to `operations`.  Only
\* ensure looks the request up before its barrier; a repeated suspend, reset or
\* revoke_project revokes input again before it finds its answer.
Lifecycle(r, op) ==
  LET c == [NoCall EXCEPT !.op = op, !.req = r]
  IN  /\ call = NoCall
      /\ op \in {"ensure", "resume", "reset", "revoke_project"} => bound
      /\ CASE op \in {"ensure", "switch"} ->
                 New(r) /\ Record(r, op, "accepted") /\ Barrier(c, "operations")
           [] op = "resume" ->
                 /\ New(r)
                 /\ call' = [c EXCEPT !.place = "operations"]
                 /\ UNCHANGED <<net, phase, method>>
           [] OTHER ->
                 /\ New(r) \/ method[r] = op
                 /\ Barrier(c, "operations")
                 /\ UNCHANGED <<phase, method>>
      /\ UNCHANGED <<env, bound, seat, act, guest, effects, late, crashes>>

\* The request was used before: its answer is repeated.
Replayed ==
  /\ call.place = "operations" /\ act = NoAct
  /\ call.op \notin {"ensure", "switch"} /\ phase[call.req] # "none"
  /\ call' = NoCall
  /\ UNCHANGED <<hostVars, act, guest, net, effects, late, crashes>>

\* What the provider does: docker stop, start or rm.  A container that runs is
\* kept, or replaced when its pack is out of date.
Provided(op) ==
  CASE op = "suspend"        -> {FreshGuest("stopped")}
    [] op = "revoke_project" -> {FreshGuest("absent")}
    [] op = "reset"          -> {FreshGuest("running")}
    [] OTHER                 -> {FreshGuest("running")} \cup
                                (IF guest.container = "running" THEN {guest} ELSE {})

\* The environment's state when the call has worked.
Settled(op) == IF op \in {"suspend", "revoke_project"} THEN "suspended" ELSE "ready"

\* The environment's state during the call.
During(op) == IF op \in {"ensure", "switch", "reset"} THEN "preparing" ELSE env

\* What is in the guest dies with its container; requests on their way too.
Becomes(g) ==
  /\ guest' = g
  /\ net' = IF g = guest THEN net ELSE {}

\* activate_coworker_project makes the seat of another Project available.
SwitchProject(op) ==
  /\ bound' = (bound \/ op = "switch")
  /\ seat' = IF op = "switch" THEN Available ELSE seat

\* The lifecycle call takes `operations` and admits its request: ensure and
\* reset say "preparing" first, ensure binds its Project.  A journal write may
\* fail at any place, and ensure may find no supported provider.
Admit ==
  LET r == call.req
      op == call.op
  IN  /\ call.place = "operations" /\ act = NoAct
      /\ op \in {"ensure", "switch"} \/ phase[r] = "none"
      /\ \/ /\ Record(r, op, "side_effect_started")
            /\ env' = During(op)
            /\ SwitchProject(op)
            /\ call' = [call EXCEPT !.place = "provider"]
         \/ /\ Record(r, op, "accepted")
            /\ env' \in {env} \cup (IF op = "reset" THEN {"preparing"} ELSE {})
            /\ call' = NoCall
            /\ UNCHANGED <<bound, seat>>
         \/ /\ op \in {"ensure", "switch"}
            /\ Record(r, op, "failed")
            /\ call' = NoCall
            /\ UNCHANGED <<env, bound, seat>>
         \/ /\ op \in {"ensure", "switch"}
            /\ \E p \in {"accepted", "failed"} : Record(r, op, p)
            /\ env' \in {"preparing", "error"}
            /\ SwitchProject(op)
            /\ call' = NoCall
      /\ UNCHANGED <<act, guest, net, effects, late, crashes>>

\* The provider has done its work, and the journal records it.
Provide ==
  LET r == call.req
      op == call.op
  IN  /\ call.place = "provider"
      /\ \E g \in Provided(op) : Becomes(g)
      /\ IF op = "revoke_project"
         THEN /\ bound' = FALSE /\ seat' = Available /\ env' = Settled(op)
              /\ \E p \in {"completed", "side_effect_started"} : Record(r, op, p)
         ELSE Complete(r, op, Settled(op)) /\ UNCHANGED <<bound, seat>>
      /\ call' = NoCall
      /\ UNCHANGED <<act, effects, late, crashes>>

\* The provider fails with its work done, half done (a container that is gone)
\* or not begun, or the journal fails after it.
ProvideFails ==
  /\ call.place = "provider"
  /\ \E g \in Provided(call.op) \cup {guest, FreshGuest("absent")} : Becomes(g)
  /\ Uncertain(call.req, call.op, env)
  /\ call' = NoCall
  /\ UNCHANGED <<bound, seat, act, effects, late, crashes>>

-----------------------------------------------------------------------------
(* Semantic actions *)

\* semantic_act: the lease must have the seat when the action is admitted.  The
\* state it needs is the container's, not the journal's.
SemanticAct(r, l) ==
  /\ act = NoAct /\ call.place # "provider"
  /\ guest.container = "running" \/ env = "ready"
  /\ seat.state = "agent_controlled" /\ seat.lease = l
  /\ New(r)
  /\ \/ Record(r, "act", "accepted") /\ UNCHANGED <<act, net>>
     \/ /\ Record(r, "act", "side_effect_started")
        /\ act' = [NoAct EXCEPT !.req = r]
        /\ net' = net \cup {Message("act", l, r)}
  /\ UNCHANGED <<env, bound, seat, call, guest, effects, late, crashes>>

\* An action the guest has refused or interrupted is completed as well; without
\* an answer its outcome is unknown.
ActReturns ==
  /\ act.answer # "none"
  /\ IF act.answer = "ok" THEN Complete(act.req, "act", env)
                          ELSE Uncertain(act.req, "act", env)
  /\ act' = NoAct
  /\ UNCHANGED <<bound, seat, call, guest, net, effects, late, crashes>>

-----------------------------------------------------------------------------
(* The guest *)

\* The answer reaches the call that waits for it, or is lost.
Answer(m, answer) ==
  \/ UNCHANGED call
  \/ m.waits /\ call' = [call EXCEPT !.answer = answer]

\* InputAuthority.activate
HandleActivate(m) ==
  /\ guest.container = "running" /\ m.kind = "activate"
  /\ net' = net \ {m}
  /\ LET free == ~guest.failed /\ ~guest.pending
         installs == /\ free /\ m.lease # guest.lease
                     /\ guest.active = None /\ ~guest.live
     IN  /\ guest' = IF installs THEN [guest EXCEPT !.lease = m.lease, !.live = TRUE]
                                 ELSE guest
         /\ late' = (late \/ (installs /\ ~m.waits))
         /\ Answer(m, IF installs \/ (free /\ m.lease = guest.lease /\ guest.live)
                      THEN "ok" ELSE "error")
  /\ UNCHANGED <<hostVars, act, effects, crashes>>

\* InputAuthority.revoke: another lease has nothing to revoke, if nothing runs;
\* the current one is cancelled and the thread waits.
HandleRevoke(m) ==
  /\ guest.container = "running" /\ m.kind = "revoke"
  /\ IF m.lease # guest.lease
     THEN /\ net' = net \ {m}
          /\ Answer(m, IF guest.active # None \/ guest.live \/ guest.pending
                          \/ guest.failed
                       THEN "error" ELSE "ok")
          /\ UNCHANGED guest
     ELSE /\ net' = (net \ {m}) \cup {[m EXCEPT !.kind = "revoking"]}
          /\ guest' = [guest EXCEPT !.live = FALSE, !.pending = TRUE]
          /\ UNCHANGED call
  /\ UNCHANGED <<hostVars, act, effects, late, crashes>>

\* The end of the wait: quiescent, or a deadline, a failed release of keys or a
\* clock worker that does not stop.
RevokeEnds(m) ==
  /\ guest.container = "running" /\ m.kind = "revoking"
  /\ net' = net \ {m}
  /\ \/ /\ guest.active = None /\ ~guest.failed
        /\ guest' = [guest EXCEPT !.pending = FALSE]
        /\ Answer(m, "ok")
     \/ Answer(m, "error") /\ UNCHANGED guest
  /\ UNCHANGED <<hostVars, act, effects, late, crashes>>

\* The answer of an action reaches its caller, if that still waits, or is lost.
AnswerAct(r) ==
  \/ UNCHANGED act
  \/ act = [NoAct EXCEPT !.req = r] /\ act' = [act EXCEPT !.answer = "ok"]

\* InputAuthority.run, after the wait for the action queue.
HandleAct(m) ==
  /\ guest.container = "running" /\ m.kind = "act" /\ guest.active = None
  /\ net' = net \ {m}
  /\ IF m.lease = guest.lease /\ guest.live
     THEN /\ guest' = [guest EXCEPT !.active = m.req]
          /\ effects' = [effects EXCEPT ![m.req] = @ + 1]
          /\ UNCHANGED act
     ELSE AnswerAct(m.req) /\ UNCHANGED <<guest, effects>>
  /\ UNCHANGED <<hostVars, call, late, crashes>>

\* The action ends, its keys released or not.
ActEnds ==
  /\ guest.active # None
  /\ guest' \in {[guest EXCEPT !.active = None],
                 [guest EXCEPT !.active = None, !.failed = TRUE]}
  /\ AnswerAct(guest.active)
  /\ UNCHANGED <<hostVars, call, net, effects, late, crashes>>

\* Mutant: a revocation is waited for without a deadline.
CallTimeoutActivation ==
  /\ call.place = "activate" /\ call.answer = "none"
  /\ call' = [call EXCEPT !.answer = "error"]
  /\ net' = Orphaned
  /\ UNCHANGED <<hostVars, act, guest, effects, late, crashes>>

\* run_bounded: the host stops waiting, or the transport has failed.
CallTimeout ==
  /\ call.place \in {"revoke", "activate"} /\ call.answer = "none"
  /\ call' = [call EXCEPT !.answer = "error"]
  /\ net' = Orphaned
  /\ UNCHANGED <<hostVars, act, guest, effects, late, crashes>>

ActTimeout ==
  /\ act.req # None /\ act.answer = "none"
  /\ act' = [act EXCEPT !.answer = "error"]
  /\ UNCHANGED <<hostVars, call, guest, net, effects, late, crashes>>

\* Mutant: what was open at startup is called failed.
CrashFails ==
  /\ crashes < MaxCrashes
  /\ crashes' = crashes + 1
  /\ call' = NoCall /\ act' = NoAct
  /\ phase' = [r \in Requests |-> IF phase[r] \in OpenPhases THEN "failed"
                                                             ELSE phase[r]]
  /\ env' = IF env = "preparing" THEN "unknown_outcome" ELSE env
  /\ net' = Orphaned
  /\ UNCHANGED <<bound, seat, method, guest, effects, late>>

\* The host ends and starts again: recover_incomplete settles what was open.
\* The guest and what is on its way to it know nothing of it.
Crash ==
  /\ crashes < MaxCrashes
  /\ crashes' = crashes + 1
  /\ call' = NoCall /\ act' = NoAct
  /\ phase' = [r \in Requests |-> IF phase[r] \in OpenPhases THEN "unknown_outcome"
                                                             ELSE phase[r]]
  /\ env' = IF env = "preparing" THEN "unknown_outcome" ELSE env
  /\ net' = Orphaned
  /\ UNCHANGED <<bound, seat, method, guest, effects, late>>

-----------------------------------------------------------------------------
HostStep == Grant \/ Activated \/ Vacate \/ Revoked \/ Replayed \/ Admit
              \/ Provide \/ ProvideFails \/ CallTimeout

Next ==
  \/ \E r \in Requests, o \in Owners, user \in BOOLEAN : Acquire(r, o, user)
  \/ \E r, l \in Requests : Release(r, l) \/ SemanticAct(r, l)
  \/ \E r \in Requests, op \in Ops : Lifecycle(r, op)
  \/ HostStep
  \/ ActReturns \/ ActTimeout
  \/ \E m \in net : HandleActivate(m) \/ HandleRevoke(m) \/ RevokeEnds(m) \/ HandleAct(m)
  \/ ActEnds
  \/ Crash

Spec == Init /\ [][Next]_vars

\* Both mutexes are granted at last to a call that waits, and run_bounded ends
\* every wait for the guest; nothing is assumed of the guest.
FairSpec == Spec /\ SF_vars(HostStep) /\ WF_vars(ActReturns \/ ActTimeout)

-----------------------------------------------------------------------------
(* Properties *)

\* As long as no activation has taken effect after its caller gave up, an agent
\* can act, or is acting, only under the lease that has the seat: a person who
\* was given the seat drives alone, and a seat that was released, switched or
\* revoked has no input left, whichever answers were lost (acquire_seat,
\* release_seat, revoke_active_input).
OnlySeatHolderActs ==
  ~late /\ (guest.live \/ guest.active # None) =>
    seat.state = "agent_controlled" /\ seat.lease = guest.lease

\* Every call under `seats` returns, also one that waits for `operations` while
\* an action runs (ensure, suspend, acquire_seat, semantic_act).
CallsEnd == call # NoCall ~> call = NoCall

\* The journal's view of a request.
StatusOf(r) ==
  CASE phase[r] = "none"            -> "new"
    [] phase[r] \in OpenPhases      -> "open"
    [] phase[r] = "unknown_outcome" -> "unknown"
    [] OTHER                        -> phase[r]

EffectOf(r) ==
  CASE effects[r] = 0 -> "none" [] effects[r] = 1 -> "done" [] OTHER -> "repeated"

Once == INSTANCE RequestOnce WITH
          Ids <- Requests,
          status <- [r \in Requests |-> StatusOf(r)],
          effect <- [r \in Requests |-> EffectOf(r)]

\* The computer journal implements RequestOnce: an action runs once, a seat is
\* granted once, an outcome is final and a failed request has granted nothing
\* (journal.rs transactions and recover_incomplete, service.rs calls).
ImplementsRequestOnce == Once!Spec

Authority == INSTANCE GuestAuthority WITH
               Leases <- Requests, NoLease <- None,
               lease <- guest.lease, live <- guest.live,
               acting <- guest.active # None,
               pending <- guest.pending, failed <- guest.failed

\* What late, lost and repeated messages make of the guest is what one authority
\* after the other may do, the same that InputAuthority implements (provider.rs
\* input_authority, input_authority.py).
ImplementsGuestAuthority == Authority!ContainerSpec
=============================================================================
