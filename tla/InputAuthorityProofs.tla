------------------------ MODULE InputAuthorityProofs ------------------------
(***************************************************************************)
(* The promises of InputAuthority, proved for any number of threads, leases *)
(* and keys and for any bound on activations and steps.                     *)
(***************************************************************************)
EXTENDS InputAuthority, TLAPS

\* The action that runs owns the control lock and the current Event.
ActionOwnsAuthority ==
  \A t \in Threads :
    /\ pc[t] \in InAction => active /\ control = t /\ local[t] = event
    /\ pc[t] = "run" => control = t

\* Keys wait for their release only inside a step.
PressedInsideStep ==
  \A t \in Threads :
    pc[t] \notin {"press", "send", "hold", "release"} => pressed[t] = {}

\* Event objects are made in order; the ones set or acknowledged exist already.
EventsInOrder ==
  /\ cancelled \subseteq 0 .. event
  /\ acked \subseteq cancelled
  /\ \A t \in Threads : pc[t] = "revoking" => local[t] \in cancelled

\* A revoked lease with no revocation pending is quiet.
RevokedIsQuiet ==
  event \in cancelled /\ ~revocation_pending => ~active /\ ~clock

\* An acknowledged lease stays quiet and its cleanup was confirmed.
AckedIsQuiet ==
  event \in acked => ~active /\ ~clock /\ ~cleanup_failed

IInv ==
  /\ TypeOK
  /\ ActionOwnsAuthority
  /\ PressedInsideStep
  /\ EventsInOrder
  /\ RevokedIsQuiet
  /\ AckedIsQuiet
  /\ HeldKeyIsOwned

\* A fresh authority (__init__) satisfies the invariant.
LEMMA InitIInv == Init => IInv
<1> SUFFICES ASSUME Init PROVE IInv
  OBVIOUS
<1> USE AuthorityAssumption DEF Init
<1>1. TypeOK
  <2>1. /\ lease \in Leases \cup {NoLease} /\ event \in Events
        /\ cancelled \in SUBSET Events /\ acked \in SUBSET Events
        /\ held \in SUBSET Keys /\ control \in Threads \cup {NoThread}
    BY DEF Events
  <2>2. /\ active \in BOOLEAN /\ cleanup_failed \in BOOLEAN
        /\ revocation_pending \in BOOLEAN /\ clock \in BOOLEAN
    OBVIOUS
  <2>3. /\ pc \in [Threads -> Places]
        /\ arg \in [Threads -> Leases \cup {NoLease}]
        /\ local \in [Threads -> Events \cup {NoEvent}]
        /\ error \in [Threads -> {"none", "raised"}]
    BY DEF Places
  <2>4. /\ todo \in [Threads -> SUBSET Keys]
        /\ pressed \in [Threads -> SUBSET Keys]
        /\ steps \in [Threads -> 0 .. MaxSteps]
    OBVIOUS
  <2>5. QED BY <2>1, <2>2, <2>3, <2>4 DEF TypeOK
<1>2. ActionOwnsAuthority /\ PressedInsideStep /\ HeldKeyIsOwned
  BY DEF ActionOwnsAuthority, PressedInsideStep, HeldKeyIsOwned, InAction
<1>3. EventsInOrder /\ RevokedIsQuiet /\ AckedIsQuiet
  BY DEF EventsInOrder, RevokedIsQuiet, AckedIsQuiet
<1>4. QED BY <1>1, <1>2, <1>3 DEF IInv

\* Every step of a bridge thread keeps the invariant: activate and revoke, run
\* and its action, the key releases of cleanup() and the clock worker.
LEMMA NextIInv == IInv /\ [Next]_vars => IInv'
<1> SUFFICES ASSUME IInv, [Next]_vars PROVE IInv'
  OBVIOUS
<1> USE AuthorityAssumption
    DEF IInv, TypeOK, Events, Places, InAction, Goto, ActionOwnsAuthority,
        PressedInsideStep, EventsInOrder, RevokedIsQuiet, AckedIsQuiet,
        HeldKeyIsOwned
<1>1. ASSUME NEW l \in Leases, Activate(l) PROVE IInv'
  BY <1>1 DEF Activate, frameVars
<1>2. ASSUME NEW t \in Threads, NEW l \in Leases, RevokeBegin(t, l) PROVE IInv'
  BY <1>2 DEF RevokeBegin, frameVars
<1>3. ASSUME NEW t \in Threads, RevokeTimeout(t) PROVE IInv'
  BY <1>3 DEF RevokeTimeout, authorityVars, frameVars
<1>4. ASSUME NEW t \in Threads, RevokeFinish(t) PROVE IInv'
  <2> DEFINE Refused == UNCHANGED <<revocation_pending, clock, acked>>
             Stopped == ~cleanup_failed /\ clock' = FALSE
             Acked == /\ revocation_pending' = FALSE
                      /\ acked' = acked \cup {local[t]}
             Raised == UNCHANGED <<revocation_pending, acked>>
  <2> USE <1>4 DEF frameVars
  <2>1. CASE Refused
    BY <2>1 DEF RevokeFinish
  <2>2. CASE Stopped /\ Acked
    BY <2>2 DEF RevokeFinish
  <2>3. CASE Stopped /\ Raised
    BY <2>3 DEF RevokeFinish
  <2>4. QED BY <2>1, <2>2, <2>3 DEF RevokeFinish
<1>5. ASSUME NEW t \in Threads, NEW l \in Leases, ActRequest(t, l) PROVE IInv'
  BY <1>5 DEF ActRequest, authorityVars, frameVars
<1>6. ASSUME NEW t \in Threads, AcquireControl(t) PROVE IInv'
  BY <1>6 DEF AcquireControl, authorityVars, frameVars
<1>7. ASSUME NEW t \in Threads, RunRefused(t) PROVE IInv'
  BY <1>7 DEF RunRefused, authorityVars, frameVars
<1>8. ASSUME NEW t \in Threads, Run(t) PROVE IInv'
  BY <1>8 DEF Run, MayRun
<1>9. ASSUME NEW t \in Threads, NEW keys \in SUBSET Keys, BeginStep(t, keys) PROVE IInv'
  BY <1>9 DEF BeginStep, authorityVars
<1>10. ASSUME NEW t \in Threads, PressKey(t) PROVE IInv'
  BY <1>10 DEF PressKey, Revoked, authorityVars
<1>11. ASSUME NEW t \in Threads, SendKeyDown(t) PROVE IInv'
  BY <1>11 DEF SendKeyDown, authorityVars
<1>12. ASSUME NEW t \in Threads, Hold(t) PROVE IInv'
  BY <1>12 DEF Hold, Revoked, authorityVars
<1>13. ASSUME NEW t \in Threads, ReleaseKey(t) PROVE IInv'
  <2> USE <1>13 DEF ReleaseKey
  <2>1. /\ active' \in BOOLEAN /\ cleanup_failed' \in BOOLEAN
        /\ revocation_pending' \in BOOLEAN /\ clock' \in BOOLEAN
    OBVIOUS
  <2>2. (TypeOK)'
    <3>1. /\ (lease \in Leases \cup {NoLease} /\ event \in Events)'
          /\ (cancelled \in SUBSET Events /\ acked \in SUBSET Events)'
          /\ (held \in SUBSET Keys /\ control \in Threads \cup {NoThread})'
      OBVIOUS
    <3>2. /\ (pc \in [Threads -> Places])'
          /\ (arg \in [Threads -> Leases \cup {NoLease}])'
          /\ (local \in [Threads -> Events \cup {NoEvent}])'
          /\ (error \in [Threads -> {"none", "raised"}])'
      OBVIOUS
    <3>3. /\ (todo \in [Threads -> SUBSET Keys])'
          /\ (pressed \in [Threads -> SUBSET Keys])'
          /\ (steps \in [Threads -> 0 .. MaxSteps])'
      OBVIOUS
    <3>4. QED BY <2>1, <3>1, <3>2, <3>3
  <2>3. (ActionOwnsAuthority /\ PressedInsideStep)'
    OBVIOUS
  <2>4. (EventsInOrder /\ RevokedIsQuiet /\ AckedIsQuiet)'
    OBVIOUS
  <2>5. HeldKeyIsOwned'
    OBVIOUS
  <2>6. QED BY <2>2, <2>3, <2>4, <2>5
<1>14. ASSUME NEW t \in Threads, EndStep(t) PROVE IInv'
  BY <1>14 DEF EndStep, authorityVars
<1>15. ASSUME NEW t \in Threads, Pause(t) PROVE IInv'
  BY <1>15 DEF Pause, Revoked, authorityVars, frameVars
<1>16. ASSUME NEW t \in Threads, NEW what \in {"effect", "spawn"}, Dispatch(t, what) PROVE IInv'
  BY <1>16 DEF Dispatch, Revoked, authorityVars
<1>17. ASSUME NEW t \in Threads, Effect(t) PROVE IInv'
  BY <1>17 DEF Effect, authorityVars, frameVars
<1>18. ASSUME NEW t \in Threads, SpawnClock(t) PROVE IInv'
  BY <1>18 DEF SpawnClock, authorityVars, frameVars
<1>19. ASSUME NEW t \in Threads, Finish(t) PROVE IInv'
  BY <1>19 DEF Finish, authorityVars, frameVars
<1>20. ASSUME NEW t \in Threads, EndRun(t) PROVE IInv'
  <2> USE <1>20 DEF EndRun
  <2>1. /\ active' \in BOOLEAN /\ cleanup_failed' \in BOOLEAN
        /\ revocation_pending' \in BOOLEAN /\ clock' \in BOOLEAN
    OBVIOUS
  <2>2. (TypeOK)'
    <3>1. /\ (lease \in Leases \cup {NoLease} /\ event \in Events)'
          /\ (cancelled \in SUBSET Events /\ acked \in SUBSET Events)'
          /\ (held \in SUBSET Keys /\ control \in Threads \cup {NoThread})'
      OBVIOUS
    <3>2. /\ (pc \in [Threads -> Places])'
          /\ (arg \in [Threads -> Leases \cup {NoLease}])'
          /\ (local \in [Threads -> Events \cup {NoEvent}])'
          /\ (error \in [Threads -> {"none", "raised"}])'
      OBVIOUS
    <3>3. /\ (todo \in [Threads -> SUBSET Keys])'
          /\ (pressed \in [Threads -> SUBSET Keys])'
          /\ (steps \in [Threads -> 0 .. MaxSteps])'
      OBVIOUS
    <3>4. QED BY <2>1, <3>1, <3>2, <3>3
  <2>3. (ActionOwnsAuthority /\ PressedInsideStep)'
    OBVIOUS
  <2>4. (EventsInOrder /\ RevokedIsQuiet /\ AckedIsQuiet)'
    OBVIOUS
  <2>5. HeldKeyIsOwned'
    OBVIOUS
  <2>6. QED BY <2>2, <2>3, <2>4, <2>5
<1>21. CASE ClockExpires
  BY <1>21 DEF ClockExpires, authorityVars, frameVars
<1>22. CASE UNCHANGED vars
  BY <1>22 DEF vars, authorityVars, frameVars
<1>23. ASSUME NEW t \in Threads, NEW l \in Leases, RevokeOther(t, l) PROVE IInv'
  BY <1>23 DEF RevokeOther, authorityVars, frameVars
<1>24. QED BY <1>1, <1>2, <1>3, <1>4, <1>5, <1>6, <1>7, <1>8, <1>9, <1>10, <1>11, <1>12, <1>13, <1>14, <1>15, <1>16, <1>17, <1>18, <1>19, <1>20, <1>21, <1>22, <1>23 DEF Next, ActionStep

\* IInv holds in every reachable state of the authority.
LEMMA Invariance == Spec => []IInv
<1>1. QED BY InitIInv, NextIInv, PTL DEF Spec

-----------------------------------------------------------------------------
\* Every field of the authority and of its threads keeps its type, for any
\* number of threads, leases, keys and activations.
THEOREM TypeCorrect == Spec => []TypeOK
<1>1. IInv => TypeOK
  BY DEF IInv
<1>2. QED BY <1>1, Invariance, PTL

\* revoke never answers "quiescent" while the lease's action can still reach
\* the desktop, and afterwards the desktop stays quiet until the next activate.
THEOREM AckQuiescence == Spec => []AckMeansQuiescent
<1>1. IInv => AckMeansQuiescent
  BY DEF IInv, AckMeansQuiescent, ActionOwnsAuthority, AckedIsQuiet,
         HeldKeyIsOwned
<1>2. QED BY <1>1, Invariance, PTL

\* A key is never left down silently: either a running action will release it
\* or cleanup() has recorded that it could not.
THEOREM HeldKeysOwned == Spec => []HeldKeyIsOwned
<1>1. IInv => HeldKeyIsOwned
  BY DEF IInv
<1>2. QED BY <1>1, Invariance, PTL

\* activate hands the desktop over only when nothing of the previous lease is
\* left on it.
THEOREM CleanHandoff == Spec => HandoffIsClean
<1> DEFINE Quiet == /\ held = {} /\ ~clock
                    /\ \A t \in Threads : pc[t] \notin InAction
<1>1. ASSUME IInv, [Next]_vars, lease' # lease PROVE Quiet
  <2>1. PICK l \in Leases : Activate(l)
    BY <1>1 DEF Next, ActionStep, vars, authorityVars, RevokeBegin,
       RevokeOther, RevokeTimeout, RevokeFinish, ActRequest, AcquireControl, RunRefused,
       Run, BeginStep, PressKey, SendKeyDown, Hold, ReleaseKey, EndStep, Pause,
       Dispatch, Effect, SpawnClock, Finish, EndRun, ClockExpires
  <2>2. ~active /\ ~clock /\ ~cleanup_failed
    BY <1>1, <2>1 DEF Activate, IInv, RevokedIsQuiet
  <2>3. \A t \in Threads : pc[t] \notin InAction
    BY <1>1, <2>2 DEF IInv, ActionOwnsAuthority
  <2>4. QED BY <1>1, <2>2, <2>3 DEF IInv, HeldKeyIsOwned
<1>2. IInv /\ [Next]_vars => [lease' # lease => Quiet]_vars
  BY <1>1
<1>3. QED BY <1>2, Invariance, PTL DEF Spec, HandoffIsClean

-----------------------------------------------------------------------------
\* What the host sees of a step that leaves the authority's fields alone is
\* nothing.
LEMMA Unseen ==
  ASSUME UNCHANGED <<lease, event, cancelled, active, revocation_pending,
                     cleanup_failed>>
  PROVE  UNCHANGED Authority!vars
BY DEF Authority!vars

\* The steps that change what the host sees: activate, revoke, run and the
\* action itself.
LEMMA AuthorityStep ==
  ASSUME IInv, Next
  PROVE  [Authority!Next]_(Authority!vars)
<1> USE DEF Authority!Next, Authority!vars
<1>1. ASSUME NEW l \in Leases, Activate(l) PROVE Authority!Activate(l)
  <2>1. event + 1 \notin cancelled
    BY DEF IInv, TypeOK, Events, EventsInOrder
  <2>2. QED BY <1>1, <2>1 DEF Activate, Authority!Activate
<1>2. ASSUME NEW t \in Threads, NEW l \in Leases, RevokeBegin(t, l)
      PROVE  Authority!Revoke
  BY <1>2, AuthorityAssumption DEF RevokeBegin, Authority!Revoke
<1>3. ASSUME NEW t \in Threads, RevokeFinish(t)
      PROVE  Authority!Confirm \/ UNCHANGED Authority!vars
  <2>1. revocation_pending \in BOOLEAN
    BY DEF IInv, TypeOK
  <2>2. QED BY <1>3, <2>1 DEF RevokeFinish, Authority!Confirm
<1>4. ASSUME NEW t \in Threads, Run(t) PROVE Authority!Begin
  BY <1>4 DEF Run, MayRun, Authority!Begin
<1>5. ASSUME NEW t \in Threads, ReleaseKey(t) PROVE Authority!Work
  <2>1. active
    BY <1>5 DEF ReleaseKey, IInv, ActionOwnsAuthority, InAction
  <2>2. cleanup_failed' \in {cleanup_failed, TRUE} /\ active' = active
    BY <1>5 DEF ReleaseKey
  <2>3. UNCHANGED <<lease, event, cancelled, revocation_pending>>
    BY <1>5 DEF ReleaseKey
  <2>4. QED BY <2>1, <2>2, <2>3 DEF Authority!Work
<1>6. ASSUME NEW t \in Threads, EndRun(t) PROVE Authority!Work
  <2>1. active
    BY <1>6 DEF EndRun, IInv, ActionOwnsAuthority, InAction
  <2>2. QED BY <1>6, <2>1 DEF EndRun, Authority!Work
<1>7. ASSUME NEW t \in Threads,
             \/ RevokeTimeout(t) \/ AcquireControl(t) \/ RunRefused(t)
             \/ PressKey(t) \/ SendKeyDown(t) \/ Hold(t) \/ EndStep(t)
             \/ Pause(t) \/ Effect(t) \/ SpawnClock(t) \/ Finish(t)
             \/ \E l \in Leases : ActRequest(t, l) \/ RevokeOther(t, l)
             \/ \E keys \in SUBSET Keys : BeginStep(t, keys)
             \/ \E what \in {"effect", "spawn"} : Dispatch(t, what)
      PROVE  UNCHANGED Authority!vars
  <2>1. UNCHANGED <<lease, event, cancelled, active, revocation_pending,
                    cleanup_failed>>
    BY <1>7 DEF RevokeTimeout, AcquireControl, RunRefused, PressKey, SendKeyDown,
       Hold, EndStep, Pause, Effect, SpawnClock, Finish, ActRequest, BeginStep,
       Dispatch, RevokeOther, authorityVars
  <2>2. QED BY <2>1, Unseen
<1>8. CASE ClockExpires
  BY <1>8, Unseen DEF ClockExpires, authorityVars
<1>9. QED BY <1>1, <1>2, <1>3, <1>4, <1>5, <1>6, <1>7, <1>8 DEF Next, ActionStep

\* The bridge's threads implement one authority: whatever revocations,
\* activations and actions overlap, a revoked lease is only followed by another,
\* which waits until the action is over, its keys are up and the revocation is
\* confirmed (input_authority.py).
THEOREM AuthorityRefined == Spec => ImplementsGuestAuthority
<1>1. Init => Authority!Init
  BY DEF Init, Authority!Init
<1>2. IInv /\ [Next]_vars => [Authority!Next]_(Authority!vars)
  <2>1. ASSUME UNCHANGED vars PROVE UNCHANGED Authority!vars
    BY <2>1, Unseen DEF vars, authorityVars
  <2>2. QED BY <2>1, AuthorityStep
<1>3. QED
  BY <1>1, <1>2, Invariance, PTL DEF Spec, ImplementsGuestAuthority, Authority!Spec

=============================================================================
