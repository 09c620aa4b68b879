------------------------- MODULE ComputerSeatProofs -------------------------
(***************************************************************************)
(* Type correctness of ComputerSeat, the exclusion of everyone but the      *)
(* holder of the seat, and that it implements RequestOnce and, in the guest, *)
(* GuestAuthority, for every number of requests, owners and crashes and     *)
(* every set of lifecycle calls.                                            *)
(***************************************************************************)
EXTENDS ComputerSeat, TLAPS

\* Nothing of an agent is left in the guest.
Quiet == ~guest.live /\ guest.active = None

\* The call has been told that the agent's input is revoked, or has found no
\* agent on the seat.
Cleared ==
  \/ call.place = "revoke" /\ call.answer = "ok"
  \/ call.place = "vacate"
  \/ call.place = "grant" /\ call.user
  \/ call.place = "operations" /\ call.op = "switch"

\* At most one message has a caller, the caller waits where it sent it, and no
\* answer is left over from an earlier wait.
OneWaits ==
  /\ \A m \in net : m.waits =>
       \/ /\ m.kind = "activate" /\ call.place = "activate" /\ call.answer = "none"
          /\ seat.state = "agent_controlled" /\ seat.lease = m.lease
       \/ /\ m.kind \in {"revoke", "revoking"}
          /\ call.place = "revoke" /\ call.answer = "none"
  /\ \A m1, m2 \in net : m1.waits /\ m2.waits => m1 = m2
  /\ call.answer # "none" => call.place \in {"revoke", "activate"}

\* What a call relies on between the barrier and its end.
Barred ==
  ~late =>
    /\ Cleared => Quiet
    /\ \A m \in net : m.waits /\ m.kind = "revoking" => ~guest.live

IInv ==
  /\ TypeOK
  /\ OnlySeatHolderActs
  /\ OneWaits
  /\ Barred
  /\ guest.container # "running" => Quiet

-----------------------------------------------------------------------------
(* Types *)

\* The constant records are of their types (NoCall, NoAct, FreshGuest).
LEMMA ConstantTypes ==
  /\ NoCall \in Calls
  /\ NoAct \in [req: Requests \cup {None}, answer: Answers]
  /\ Available \in Seats
  /\ \A k \in {"running", "stopped", "absent"} : FreshGuest(k) \in Guests
BY DEF NoCall, Calls, NoAct, Answers, Available, Seats, FreshGuest, Guests, None

\* Every write of a request row keeps the tables' types (Record).
LEMMA RecordType ==
  ASSUME TypeOK, NEW r, NEW m \in Methods \cup {"none"}, NEW p \in Phases,
         Record(r, m, p)
  PROVE  phase' \in [Requests -> Phases] /\ method' \in [Requests -> Methods \cup {"none"}]
BY DEF TypeOK, Record

\* The two ends of a call keep the types of rows and environment (Complete).
LEMMA EndType ==
  ASSUME TypeOK, NEW r, NEW m \in Methods \cup {"none"},
         NEW e \in {"ready", "preparing", "suspended", "error", "unknown_outcome"},
         Complete(r, m, e) \/ Uncertain(r, m, e)
  PROVE  /\ phase' \in [Requests -> Phases]
         /\ method' \in [Requests -> Methods \cup {"none"}]
         /\ env' \in {"ready", "preparing", "suspended", "error", "unknown_outcome"}
<1>1. PICK p \in Phases : Record(r, m, p)
  BY DEF Complete, Uncertain, Phases, OpenPhases
<1>2. phase' \in [Requests -> Phases] /\ method' \in [Requests -> Methods \cup {"none"}]
  BY <1>1, RecordType
<1>3. QED
  BY <1>2 DEF Complete, Uncertain

\* A rejection keeps the types of the rows (record_local_rejection).
LEMMA RejectType ==
  ASSUME TypeOK, NEW r, NEW m \in Methods \cup {"none"}, Reject(r, m)
  PROVE  phase' \in [Requests -> Phases] /\ method' \in [Requests -> Methods \cup {"none"}]
<1>1. PICK p \in {phase[r], "failed"} : Record(r, m, p)
  BY DEF Reject
<1>2. CASE r \in Requests
  <2>1. p \in Phases
    BY <1>2 DEF TypeOK, Phases
  <2>2. QED
    BY <1>1, <2>1, RecordType
<1>3. CASE r \notin Requests
  <2>1. phase' = phase /\ method' = method
    BY <1>1, <1>3 DEF Record, TypeOK
  <2>2. QED
    BY <2>1 DEF TypeOK
<1>4. QED
  BY <1>2, <1>3

\* A barrier keeps the types of call and transport (revoke_active_input).
LEMMA BarrierType ==
  ASSUME TypeOK, NEW c \in Calls,
         NEW next \in {"grant", "vacate", "operations"}, Barrier(c, next)
  PROVE  call' \in Calls /\ net' \in SUBSET Messages
<1>1. Message("revoke", seat.lease, None) \in Messages
  BY DEF TypeOK, Seats, Messages, Message, None
<1>2. [c EXCEPT !.place = "revoke"] \in Calls /\ [c EXCEPT !.place = next] \in Calls
  BY DEF Calls
<1>3. QED
  BY <1>1, <1>2 DEF Barrier, TypeOK

\* Orphaned messages are messages (run_bounded).
LEMMA OrphanedType == ASSUME TypeOK PROVE Orphaned \in SUBSET Messages
<1> SUFFICES ASSUME NEW o \in Orphaned PROVE o \in Messages
  OBVIOUS
<1>1. PICK m \in net : o = [m EXCEPT !.waits = FALSE]
  BY DEF Orphaned
<1>2. m \in Messages
  BY DEF TypeOK
<1>3. QED
  BY <1>1, <1>2 DEF Messages

\* An answer leaves a call a call (input_authority).
LEMMA AnswerType ==
  ASSUME TypeOK, NEW m, NEW a \in Answers, Answer(m, a)
  PROVE  call' \in Calls
BY DEF TypeOK, Answer, Calls

\* TypeOK is inductive.
LEMMA TypeStep == TypeOK /\ [Next]_vars => TypeOK'
<1> SUFFICES ASSUME TypeOK, [Next]_vars PROVE TypeOK'
  OBVIOUS
<1> USE SeatAssumption
<1>0. None \in Requests \cup {None} /\ \A r \in Requests : r \in Requests \cup {None}
  OBVIOUS
<1>1. CASE UNCHANGED vars
  BY <1>1 DEF vars, hostVars, TypeOK
<1>2. ASSUME NEW r \in Requests, NEW o \in Owners, NEW user \in BOOLEAN,
             Acquire(r, o, user)
      PROVE  TypeOK'
  <2> DEFINE c == [NoCall EXCEPT !.op = "acquire", !.req = r, !.owner = o, !.user = user]
  <2>1. c \in Calls /\ [c EXCEPT !.place = "grant"] \in Calls
    BY DEF NoCall, Calls, Answers
  <2>2. phase' \in [Requests -> Phases] /\ method' \in [Requests -> Methods \cup {"none"}]
    BY <1>2, RecordType DEF Acquire, Methods, Phases, OpenPhases
  <2>3. call' \in Calls /\ net' \in SUBSET Messages
    <3>1. CASE UNCHANGED <<call, net>>
      BY <3>1 DEF TypeOK
    <3>2. CASE Barrier(c, "grant")
      BY <3>2, <2>1, BarrierType
    <3>3. CASE call' = [c EXCEPT !.place = "grant"] /\ UNCHANGED net
      BY <3>3, <2>1 DEF TypeOK
    <3>4. QED
      BY <1>2, <3>1, <3>2, <3>3 DEF Acquire
  <2>4. QED
    BY <1>2, <2>2, <2>3 DEF Acquire, TypeOK
<1>3. CASE Grant
  <2> DEFINE granted == Granted(call.req, call.owner, call.user)
  <2>1. granted \in Seats
    BY DEF Granted, Seats, TypeOK, Calls
  <2>2. Message("activate", granted.lease, None) \in Messages
    BY <2>1 DEF Message, Messages, Seats
  <2>3. [call EXCEPT !.place = "activate"] \in Calls
    BY DEF TypeOK, Calls
  <2>4. "acquire" \in Methods \cup {"none"} /\ "failed" \in Phases
    BY DEF Methods, Phases
  <2>5. CASE Reject(call.req, "acquire") /\ call' = NoCall /\ UNCHANGED <<env, seat, net, effects>>
    <3>1. phase' \in [Requests -> Phases] /\ method' \in [Requests -> Methods \cup {"none"}]
      BY <2>5, <2>4, RejectType
    <3>2. QED
      BY <1>3, <2>5, <3>1, ConstantTypes DEF Grant, TypeOK
  <2>6. CASE /\ seat' = granted
             /\ effects' = [effects EXCEPT ![call.req] = @ + 1]
             /\ IF call.user
                THEN /\ Complete(call.req, "acquire", env)
                     /\ call' = NoCall
                     /\ UNCHANGED net
                ELSE /\ call' = [call EXCEPT !.place = "activate"]
                     /\ net' = net \cup {Message("activate", granted.lease, None)}
                     /\ UNCHANGED <<env, phase, method>>
    <3>1. effects' \in [Requests -> Nat]
      <4>1. CASE call.req \in Requests
        BY <2>6, <4>1 DEF TypeOK
      <4>2. CASE call.req \notin Requests
        <5>1. effects' = effects
          BY <2>6, <4>2 DEF TypeOK
        <5>2. QED
          BY <5>1 DEF TypeOK
      <4>3. QED
        BY <4>1, <4>2
    <3>2. /\ phase' \in [Requests -> Phases]
          /\ method' \in [Requests -> Methods \cup {"none"}]
          /\ env' \in {"ready", "preparing", "suspended", "error", "unknown_outcome"}
      BY <2>6, <2>4, EndType DEF TypeOK
    <3>3. call' \in Calls /\ net' \in SUBSET Messages
      BY <2>6, <2>2, <2>3, ConstantTypes DEF TypeOK
    <3>4. QED
      BY <1>3, <2>1, <2>6, <3>1, <3>2, <3>3 DEF Grant, TypeOK
  <2>7. QED
    BY <1>3, <2>5, <2>6 DEF Grant
<1>4. CASE Activated
  BY <1>4, EndType, ConstantTypes DEF Activated, TypeOK, Methods
<1>5. ASSUME NEW r \in Requests, NEW l \in Requests, Release(r, l)
      PROVE  TypeOK'
  <2> DEFINE c == [NoCall EXCEPT !.op = "release", !.req = r]
             begun == IF phase[r] = "none" THEN "accepted" ELSE phase[r]
  <2>1. c \in Calls
    BY DEF NoCall, Calls, Answers
  <2>2. PICK p \in {begun, "failed", "side_effect_started"} : Record(r, "release", p)
    BY <1>5 DEF Release
  <2>3. p \in Phases
    BY DEF TypeOK, Phases, OpenPhases
  <2>4. phase' \in [Requests -> Phases] /\ method' \in [Requests -> Methods \cup {"none"}]
    BY <2>2, <2>3, RecordType DEF Methods
  <2>5. call' \in Calls /\ net' \in SUBSET Messages
    <3>1. CASE UNCHANGED <<call, net>>
      BY <3>1 DEF TypeOK
    <3>2. CASE Barrier(c, "vacate")
      BY <3>2, <2>1, BarrierType
    <3>3. QED
      BY <1>5, <3>1, <3>2 DEF Release
  <2>6. QED
    BY <1>5, <2>4, <2>5 DEF Release, TypeOK
<1>6. CASE Vacate
  <2>1. CASE seat' = Available /\ Complete(call.req, "release", env)
    BY <1>6, <2>1, EndType, ConstantTypes DEF Vacate, TypeOK, Methods
  <2>2. CASE Reject(call.req, "release") /\ UNCHANGED <<seat, env>>
    <3>1. phase' \in [Requests -> Phases] /\ method' \in [Requests -> Methods \cup {"none"}]
      BY <2>2, RejectType DEF Methods
    <3>2. QED
      BY <1>6, <2>2, <3>1, ConstantTypes DEF Vacate, TypeOK
  <2>3. QED
    BY <1>6, <2>1, <2>2 DEF Vacate
<1>7. CASE Revoked
  <2>1. call' \in Calls
    BY <1>7, ConstantTypes DEF Revoked, After, TypeOK, Calls, Answers
  <2>2. QED
    BY <1>7, <2>1 DEF Revoked, TypeOK, hostVars
<1>8. ASSUME NEW r \in Requests, NEW op \in Ops, Lifecycle(r, op)
      PROVE  TypeOK'
  <2> DEFINE c == [NoCall EXCEPT !.op = op, !.req = r]
  <2>1. c \in Calls /\ [c EXCEPT !.place = "operations"] \in Calls
    BY DEF NoCall, Calls, Answers
  <2>2. phase' \in [Requests -> Phases] /\ method' \in [Requests -> Methods \cup {"none"}]
    BY <1>8, RecordType DEF Lifecycle, TypeOK, Methods, Phases, OpenPhases
  <2>3. call' \in Calls /\ net' \in SUBSET Messages
    <3>1. CASE Barrier(c, "operations")
      BY <3>1, <2>1, BarrierType
    <3>2. CASE call' = [c EXCEPT !.place = "operations"] /\ UNCHANGED net
      BY <3>2, <2>1 DEF TypeOK
    <3>3. QED
      BY <1>8, <3>1, <3>2 DEF Lifecycle
  <2>4. QED
    BY <1>8, <2>2, <2>3 DEF Lifecycle, TypeOK
<1>9. CASE Replayed
  BY <1>9, ConstantTypes DEF Replayed, TypeOK, hostVars
<1>10. CASE Admit
  <2>1. call.op \in Methods \cup {"none"}
    BY DEF TypeOK, Calls, Methods
  <2>2. PICK p \in {"accepted", "failed", "side_effect_started"} : Record(call.req, call.op, p)
    BY <1>10 DEF Admit
  <2>3. phase' \in [Requests -> Phases] /\ method' \in [Requests -> Methods \cup {"none"}]
    BY <2>1, <2>2, RecordType DEF Phases, OpenPhases
  <2>4. call' \in Calls
    BY <1>10, ConstantTypes DEF Admit, TypeOK, Calls
  <2>5. bound' \in BOOLEAN /\ seat' \in Seats
    BY <1>10, ConstantTypes DEF Admit, SwitchProject, TypeOK
  <2>6. env' \in {"ready", "preparing", "suspended", "error", "unknown_outcome"}
    BY <1>10 DEF Admit, During, TypeOK
  <2>7. QED
    BY <1>10, <2>3, <2>4, <2>5, <2>6 DEF Admit, TypeOK
<1>11. CASE Provide
  <2>1. call.op \in Methods \cup {"none"}
    BY DEF TypeOK, Calls, Methods
  <2>2. guest' \in Guests /\ net' \in SUBSET Messages
    BY <1>11, ConstantTypes DEF Provide, Becomes, Provided, TypeOK
  <2>3. /\ phase' \in [Requests -> Phases]
        /\ method' \in [Requests -> Methods \cup {"none"}]
        /\ env' \in {"ready", "preparing", "suspended", "error", "unknown_outcome"}
    <3>1. CASE call.op = "revoke_project"
      BY <1>11, <2>1, <3>1, RecordType DEF Provide, Settled, Phases, OpenPhases
    <3>2. CASE call.op # "revoke_project"
      BY <1>11, <2>1, <3>2, EndType DEF Provide, Settled
    <3>3. QED
      BY <3>1, <3>2
  <2>4. bound' \in BOOLEAN /\ seat' \in Seats
    BY <1>11, ConstantTypes DEF Provide, TypeOK
  <2>5. QED
    BY <1>11, <2>2, <2>3, <2>4, ConstantTypes DEF Provide, TypeOK
<1>12. CASE ProvideFails
  <2>1. call.op \in Methods \cup {"none"}
    BY DEF TypeOK, Calls, Methods
  <2>2. guest' \in Guests /\ net' \in SUBSET Messages
    BY <1>12, ConstantTypes DEF ProvideFails, Becomes, Provided, TypeOK
  <2>3. QED
    BY <1>12, <2>1, <2>2, EndType, ConstantTypes DEF ProvideFails, TypeOK
<1>13. CASE CallTimeout
  BY <1>13, OrphanedType DEF CallTimeout, TypeOK, Calls, hostVars, Answers
<1>14. ASSUME NEW r \in Requests, NEW l \in Requests, SemanticAct(r, l)
       PROVE  TypeOK'
  <2>1. phase' \in [Requests -> Phases] /\ method' \in [Requests -> Methods \cup {"none"}]
    BY <1>14, RecordType DEF SemanticAct, Methods, Phases, OpenPhases
  <2>2. Message("act", l, r) \in Messages
    BY DEF Message, Messages
  <2>3. [NoAct EXCEPT !.req = r] \in [req: Requests \cup {None}, answer: Answers]
    BY DEF NoAct, Answers
  <2>4. QED
    BY <1>14, <2>1, <2>2, <2>3 DEF SemanticAct, TypeOK
<1>15. CASE ActReturns
  BY <1>15, EndType, ConstantTypes DEF ActReturns, TypeOK, Methods
<1>16. CASE ActTimeout
  BY <1>16 DEF ActTimeout, TypeOK, hostVars, Answers
<1>17. ASSUME NEW m \in net, HandleActivate(m)
       PROVE  TypeOK'
  <2>1. call' \in Calls
    BY <1>17, AnswerType DEF HandleActivate, Answers
  <2>2. guest' \in Guests
    BY <1>17 DEF HandleActivate, TypeOK, Guests, Messages
  <2>3. late' \in BOOLEAN /\ net' \in SUBSET Messages
    BY <1>17 DEF HandleActivate, TypeOK
  <2>4. QED
    BY <1>17, <2>1, <2>2, <2>3 DEF HandleActivate, TypeOK, hostVars
<1>18. ASSUME NEW m \in net, HandleRevoke(m)
       PROVE  TypeOK'
  <2>1. call' \in Calls
    BY <1>18, AnswerType DEF HandleRevoke, Answers, TypeOK
  <2>2. guest' \in Guests
    BY <1>18 DEF HandleRevoke, TypeOK, Guests
  <2>3. net' \in SUBSET Messages
    <3>1. m \in Messages
      BY DEF TypeOK
    <3>2. [m EXCEPT !.kind = "revoking"] \in Messages
      BY <3>1 DEF Messages
    <3>3. QED
      BY <1>18, <3>2 DEF HandleRevoke, TypeOK
  <2>4. QED
    BY <1>18, <2>1, <2>2, <2>3 DEF HandleRevoke, TypeOK, hostVars
<1>19. ASSUME NEW m \in net, RevokeEnds(m)
       PROVE  TypeOK'
  <2>1. call' \in Calls
    BY <1>19, AnswerType DEF RevokeEnds, Answers
  <2>2. guest' \in Guests
    BY <1>19 DEF RevokeEnds, TypeOK, Guests
  <2>3. QED
    BY <1>19, <2>1, <2>2 DEF RevokeEnds, TypeOK, hostVars
<1>20. ASSUME NEW m \in net, HandleAct(m)
       PROVE  TypeOK'
  <2>1. guest' \in Guests
    BY <1>20 DEF HandleAct, TypeOK, Guests, Messages
  <2>2. act' \in [req: Requests \cup {None}, answer: Answers]
    BY <1>20 DEF HandleAct, AnswerAct, TypeOK, Answers
  <2>3. effects' \in [Requests -> Nat]
    BY <1>20 DEF HandleAct, TypeOK
  <2>4. QED
    BY <1>20, <2>1, <2>2, <2>3 DEF HandleAct, TypeOK, hostVars
<1>21. CASE ActEnds
  <2>1. guest' \in Guests
    BY <1>21 DEF ActEnds, TypeOK, Guests
  <2>2. act' \in [req: Requests \cup {None}, answer: Answers]
    BY <1>21 DEF ActEnds, AnswerAct, TypeOK, Answers
  <2>3. QED
    BY <1>21, <2>1, <2>2 DEF ActEnds, TypeOK, hostVars
<1>22. CASE Crash
  <2>1. phase' \in [Requests -> Phases]
    BY <1>22 DEF Crash, TypeOK, Phases
  <2>2. crashes' \in 0 .. MaxCrashes
    BY <1>22 DEF Crash, TypeOK
  <2>3. QED
    BY <1>22, <2>1, <2>2, ConstantTypes, OrphanedType DEF Crash, TypeOK
<1>23. QED
  BY <1>1, <1>2, <1>3, <1>4, <1>5, <1>6, <1>7, <1>8, <1>9, <1>10, <1>11, <1>12,
     <1>13, <1>14, <1>15, <1>16, <1>17, <1>18, <1>19, <1>20, <1>21, <1>22
     DEF Next, HostStep

-----------------------------------------------------------------------------
(* The seat *)

\* A call that starts finds no message that waits.
LEMMA NobodyWaits ==
  ASSUME OneWaits, call.place \notin {"revoke", "activate"}
  PROVE  \A m \in net : ~m.waits
BY DEF OneWaits

\* Who has given up waits for nothing (run_bounded).
LEMMA OrphanedWait == ASSUME TypeOK PROVE \A m \in Orphaned : ~m.waits
<1> SUFFICES ASSUME NEW m \in net PROVE ~[m EXCEPT !.waits = FALSE].waits
  BY DEF Orphaned
<1>1. m \in Messages
  BY DEF TypeOK
<1>2. QED
  BY <1>1 DEF Messages

\* The way into a call keeps the invariant's parts on the transport, and finds
\* the guest quiet where it does not ask it (revoke_active_input).
LEMMA BarrierStep ==
  ASSUME IInv, call = NoCall, NEW c \in Calls, c.answer = "none",
         NEW next \in {"grant", "vacate", "operations"}, Barrier(c, next),
         UNCHANGED <<seat, guest, late>>
  PROVE  OneWaits' /\ Barred'
<1>1. \A m \in net : ~m.waits
  BY NobodyWaits DEF IInv, NoCall
<1>2. CASE seat.state = "agent_controlled" /\ guest.container # "absent"
  <2> DEFINE msg == Message("revoke", seat.lease, None)
  <2>1. msg.kind = "revoke"
    BY DEF Message
  <2>2. call' = [c EXCEPT !.place = "revoke"] /\ net' = net \cup {msg}
    BY <1>2 DEF Barrier
  <2>3. call'.place = "revoke" /\ call'.answer = "none"
    BY <2>2 DEF Calls
  <2>4. OneWaits'
    BY <1>1, <2>1, <2>2, <2>3 DEF OneWaits
  <2>5. Barred'
    BY <1>1, <2>1, <2>2, <2>3 DEF Barred, Cleared
  <2>6. QED
    BY <2>4, <2>5
<1>3. CASE ~(seat.state = "agent_controlled" /\ guest.container # "absent")
  <2>1. ~late => Quiet
    BY <1>3 DEF IInv, OnlySeatHolderActs, Quiet
  <2>2. net' = net
    BY <1>3 DEF Barrier
  <2>3. call'.answer = "none"
    BY <1>3 DEF Barrier, Calls
  <2>4. QED
    BY <1>1, <2>1, <2>2, <2>3 DEF OneWaits, Barred, Quiet
<1>4. QED
  BY <1>2, <1>3

\* A call that ends or goes on without a message keeps them too.
LEMMA QuietCallStep ==
  ASSUME IInv, call.place \notin {"revoke", "activate"},
         net' \subseteq net, late' = late, call'.answer = "none",
         Cleared' /\ ~late => Quiet'
  PROVE  OneWaits' /\ Barred'
BY NobodyWaits DEF IInv, OneWaits, Barred

\* The initial states have every part of the invariant.
LEMMA InitIInv == Init => IInv
<1> SUFFICES ASSUME Init PROVE IInv
  OBVIOUS
<1> USE SeatAssumption
<1>1. TypeOK
  <2>1. call \in Calls /\ act \in [req: Requests \cup {None}, answer: Answers]
    BY ConstantTypes DEF Init
  <2>2. seat \in Seats /\ guest \in Guests /\ net \in SUBSET Messages
    BY ConstantTypes DEF Init
  <2>3. phase \in [Requests -> Phases] /\ method \in [Requests -> Methods \cup {"none"}]
    BY DEF Init, Phases
  <2>4. effects \in [Requests -> Nat] /\ crashes \in 0 .. MaxCrashes
    BY DEF Init
  <2>5. QED
    BY <2>1, <2>2, <2>3, <2>4 DEF Init, TypeOK
<1>2. ~guest.live /\ guest.active = None
  BY DEF Init, FreshGuest
<1>3. QED
  BY <1>1, <1>2 DEF Init, IInv, OnlySeatHolderActs, OneWaits, Barred, Quiet, NoCall

\* What the seat, the guest and the transport have left of the invariant when
\* the types are settled.
SeatInv ==
  /\ OnlySeatHolderActs
  /\ OneWaits
  /\ Barred
  /\ guest.container # "running" => Quiet

\* The calls of the host keep the invariant (acquire_seat, release_seat and the
\* lifecycle calls).
LEMMA HostIInv ==
  ASSUME IInv, TypeOK',
         \/ \E r \in Requests, o \in Owners, user \in BOOLEAN : Acquire(r, o, user)
         \/ \E r, l \in Requests : Release(r, l)
         \/ \E r \in Requests, op \in Ops : Lifecycle(r, op)
         \/ HostStep
  PROVE  SeatInv'
<1>a. TypeOK /\ OnlySeatHolderActs /\ OneWaits /\ Barred /\ (guest.container # "running" => Quiet)
  BY DEF IInv
<1>b. call \in Calls /\ guest \in Guests /\ seat \in Seats
  BY <1>a DEF TypeOK
<1>c. NoCall.place = "idle" /\ NoCall.answer = "none"
  BY DEF NoCall
<1>1. ASSUME NEW r \in Requests, NEW o \in Owners, NEW user \in BOOLEAN,
             Acquire(r, o, user)
      PROVE  SeatInv'
  <2> DEFINE c == [NoCall EXCEPT !.op = "acquire", !.req = r, !.owner = o, !.user = user]
  <2>1. c \in Calls /\ c.answer = "none" /\ c.user = user
    BY DEF NoCall, Calls, Answers
  <2>2. UNCHANGED <<seat, guest, late>> /\ call = NoCall
    BY <1>1 DEF Acquire
  <2>3. OneWaits' /\ Barred'
    <3>1. CASE UNCHANGED <<call, net>>
      BY <1>a, <2>2, <3>1 DEF OneWaits, Barred, Cleared, Quiet
    <3>2. CASE Barrier(c, "grant")
      BY <2>1, <2>2, <3>2, BarrierStep
    <3>3. CASE ~user /\ call' = [c EXCEPT !.place = "grant"] /\ UNCHANGED net
      <4>1. call'.place = "grant" /\ ~call'.user /\ call'.answer = "none"
        BY <2>1, <3>3 DEF Calls
      <4>2. QED
        BY <1>c, <2>2, <3>3, <4>1, QuietCallStep DEF Cleared
    <3>4. QED
      BY <1>1, <3>1, <3>2, <3>3 DEF Acquire
  <2>4. QED
    BY <1>a, <2>2, <2>3 DEF SeatInv, OnlySeatHolderActs, Quiet
<1>2. ASSUME NEW r \in Requests, NEW l \in Requests, Release(r, l)
      PROVE  SeatInv'
  <2> DEFINE c == [NoCall EXCEPT !.op = "release", !.req = r]
  <2>1. c \in Calls /\ c.answer = "none"
    BY DEF NoCall, Calls, Answers
  <2>2. UNCHANGED <<seat, guest, late>> /\ call = NoCall
    BY <1>2 DEF Release
  <2>3. OneWaits' /\ Barred'
    <3>1. CASE UNCHANGED <<call, net>>
      BY <1>a, <2>2, <3>1 DEF OneWaits, Barred, Cleared, Quiet
    <3>2. CASE Barrier(c, "vacate")
      BY <2>1, <2>2, <3>2, BarrierStep
    <3>3. QED
      BY <1>2, <3>1, <3>2 DEF Release
  <2>4. QED
    BY <1>a, <2>2, <2>3 DEF SeatInv, OnlySeatHolderActs, Quiet
<1>3. ASSUME NEW r \in Requests, NEW op \in Ops, Lifecycle(r, op)
      PROVE  SeatInv'
  <2> DEFINE c == [NoCall EXCEPT !.op = op, !.req = r]
  <2>1. c \in Calls /\ c.answer = "none" /\ c.op = op
    BY DEF NoCall, Calls, Answers
  <2>2. UNCHANGED <<seat, guest, late>> /\ call = NoCall
    BY <1>3 DEF Lifecycle
  <2>3. OneWaits' /\ Barred'
    <3>1. CASE Barrier(c, "operations")
      BY <2>1, <2>2, <3>1, BarrierStep
    <3>2. CASE op = "resume" /\ call' = [c EXCEPT !.place = "operations"] /\ UNCHANGED net
      <4>1. call'.place = "operations" /\ call'.op = "resume" /\ call'.answer = "none"
        BY <2>1, <3>2 DEF Calls
      <4>2. QED
        BY <1>c, <2>2, <3>2, <4>1, QuietCallStep DEF Cleared
    <3>3. QED
      BY <1>3, <3>1, <3>2 DEF Lifecycle
  <2>4. QED
    BY <1>a, <2>2, <2>3 DEF SeatInv, OnlySeatHolderActs, Quiet
<1>4. CASE Grant
  <2> DEFINE granted == Granted(call.req, call.owner, call.user)
  <2>1. UNCHANGED <<guest, late>> /\ call.place = "grant"
    BY <1>4 DEF Grant
  <2>2. \A m \in net : ~m.waits
    BY <1>a, <2>1, NobodyWaits
  <2>3. CASE call' = NoCall /\ UNCHANGED <<seat, net>>
    <3>1. OneWaits' /\ Barred'
      BY <1>c, <2>1, <2>3, QuietCallStep DEF Cleared
    <3>2. QED
      BY <1>a, <2>1, <2>3, <3>1 DEF SeatInv, OnlySeatHolderActs, Quiet
  <2>4. CASE call.user /\ seat' = granted /\ call' = NoCall /\ UNCHANGED net
    <3>1. ~late => Quiet
      BY <1>a, <2>1, <2>4 DEF Barred, Cleared
    <3>2. OneWaits' /\ Barred'
      BY <1>c, <2>1, <2>4, QuietCallStep DEF Cleared
    <3>3. QED
      BY <1>a, <2>1, <3>1, <3>2 DEF SeatInv, OnlySeatHolderActs, Quiet
  <2>5. CASE /\ ~call.user /\ MayTake(call.owner, call.user) /\ seat' = granted
             /\ call' = [call EXCEPT !.place = "activate"]
             /\ net' = net \cup {Message("activate", granted.lease, None)}
    <3>1. granted.state = "agent_controlled"
      BY <2>5 DEF Granted
    <3>2. seat.owner = call.owner => granted.lease = seat.lease
      BY DEF Granted
    <3>3. OnlySeatHolderActs'
      BY <1>a, <2>1, <2>5, <3>1, <3>2 DEF OnlySeatHolderActs, MayTake
    <3>4. call'.place = "activate" /\ call'.answer = "none"
      BY <1>a, <1>b, <2>1, <2>5 DEF Calls, OneWaits
    <3>5. /\ Message("activate", granted.lease, None).kind = "activate"
          /\ Message("activate", granted.lease, None).lease = granted.lease
      BY DEF Message
    <3>6. OneWaits'
      BY <2>2, <2>5, <3>1, <3>4, <3>5 DEF OneWaits
    <3>7. Barred'
      BY <2>2, <2>5, <3>4, <3>5 DEF Barred, Cleared
    <3>8. QED
      BY <1>a, <2>1, <3>3, <3>6, <3>7 DEF SeatInv, Quiet
  <2>6. QED
    BY <1>4, <2>3, <2>4, <2>5 DEF Grant
<1>5. CASE Activated
  <2>1. /\ call.place = "activate" /\ call.answer # "none" /\ call' = NoCall
        /\ UNCHANGED <<seat, guest, net, late>>
    BY <1>5 DEF Activated
  <2>2. \A m \in net : ~m.waits
    BY <1>a, <2>1 DEF OneWaits
  <2>3. QED
    BY <1>a, <1>c, <2>1, <2>2
       DEF SeatInv, OnlySeatHolderActs, OneWaits, Barred, Cleared, Quiet
<1>6. CASE Vacate
  <2>1. /\ call.place = "vacate" /\ call' = NoCall /\ UNCHANGED <<guest, net, late>>
        /\ seat' = Available \/ seat' = seat
    BY <1>6 DEF Vacate
  <2>2. OneWaits' /\ Barred'
    BY <1>c, <2>1, QuietCallStep DEF Cleared
  <2>3. ~late => Quiet
    BY <1>a, <2>1 DEF Barred, Cleared
  <2>4. QED
    BY <1>a, <2>1, <2>2, <2>3 DEF SeatInv, OnlySeatHolderActs, Quiet
<1>7. CASE Revoked
  <2>1. /\ call.place = "revoke" /\ call.answer # "none"
        /\ UNCHANGED <<seat, guest, net, late>>
    BY <1>7 DEF Revoked, hostVars
  <2>2. \A m \in net : ~m.waits
    BY <1>a, <2>1 DEF OneWaits
  <2>3. call'.answer = "none"
    BY <1>7, <1>b, <1>c DEF Revoked, Calls
  <2>4. Cleared' => call.answer = "ok"
    BY <1>7, <1>c DEF Revoked, Cleared
  <2>5. Barred'
    BY <1>a, <2>1, <2>2, <2>4 DEF Barred, Cleared, Quiet
  <2>6. OneWaits'
    BY <2>1, <2>2, <2>3 DEF OneWaits
  <2>7. QED
    BY <1>a, <2>1, <2>5, <2>6 DEF SeatInv, OnlySeatHolderActs, Quiet
<1>8. CASE Replayed
  <2>1. /\ call.place = "operations" /\ call' = NoCall
        /\ UNCHANGED <<seat, guest, net, late>>
    BY <1>8 DEF Replayed, hostVars
  <2>2. OneWaits' /\ Barred'
    BY <1>c, <2>1, QuietCallStep DEF Cleared
  <2>3. QED
    BY <1>a, <2>1, <2>2 DEF SeatInv, OnlySeatHolderActs, Quiet
<1>9. CASE Admit
  <2>1. /\ call.place = "operations" /\ UNCHANGED <<guest, net, late>>
        /\ seat' = seat \/ (call.op = "switch" /\ seat' = Available)
    BY <1>9 DEF Admit, SwitchProject
  <2>2. call'.place \in {"provider", "idle"} /\ call'.answer = "none"
    BY <1>9, <1>a, <1>b, <1>c DEF Admit, Calls, OneWaits
  <2>3. OneWaits' /\ Barred'
    BY <2>1, <2>2, QuietCallStep DEF Cleared
  <2>4. call.op = "switch" /\ ~late => Quiet
    BY <1>a, <2>1 DEF Barred, Cleared
  <2>5. QED
    BY <1>a, <2>1, <2>3, <2>4 DEF SeatInv, OnlySeatHolderActs, Quiet
<1>10. CASE Provide \/ ProvideFails
  <2>1. call.place = "provider" /\ call' = NoCall /\ late' = late
    BY <1>10 DEF Provide, ProvideFails
  <2>2. \A k : ~FreshGuest(k).live /\ FreshGuest(k).active = None
    BY DEF FreshGuest
  <2>3. Quiet' \/ guest' = guest
    BY <1>10, <2>2 DEF Provide, ProvideFails, Provided, Becomes, Quiet
  <2>4. net' \subseteq net
    BY <1>10 DEF Provide, ProvideFails, Becomes
  <2>5. OneWaits' /\ Barred'
    BY <1>c, <2>1, <2>4, QuietCallStep DEF Cleared
  <2>6. Quiet' \/ seat' = seat
    BY <1>10, <2>2 DEF Provide, ProvideFails, Provided, Becomes, Quiet
  <2>7. QED
    BY <1>a, <2>1, <2>3, <2>5, <2>6 DEF SeatInv, OnlySeatHolderActs, Quiet
<1>11. CASE CallTimeout
  <2>1. /\ call.place \in {"revoke", "activate"}
        /\ call' = [call EXCEPT !.answer = "error"]
        /\ net' = Orphaned /\ UNCHANGED <<seat, guest, late>>
    BY <1>11 DEF CallTimeout, hostVars
  <2>2. call'.place = call.place /\ call'.answer = "error"
    BY <1>b, <2>1 DEF Calls
  <2>3. \A m \in net' : ~m.waits
    BY <1>a, <2>1, OrphanedWait
  <2>4. OneWaits' /\ Barred'
    BY <2>1, <2>2, <2>3 DEF OneWaits, Barred, Cleared
  <2>5. QED
    BY <1>a, <2>1, <2>4 DEF SeatInv, OnlySeatHolderActs, Quiet
<1>12. QED
  BY <1>1, <1>2, <1>3, <1>4, <1>5, <1>6, <1>7, <1>8, <1>9, <1>10, <1>11 DEF HostStep

\* The guest, the actions and the end of the host keep it (InputAuthority.run,
\* activate and revoke, semantic_act, recover_incomplete).
LEMMA GuestIInv ==
  ASSUME IInv, TypeOK',
         \/ \E r, l \in Requests : SemanticAct(r, l)
         \/ ActReturns \/ ActTimeout \/ ActEnds \/ Crash
         \/ \E m \in net : HandleActivate(m) \/ HandleRevoke(m) \/ RevokeEnds(m)
                             \/ HandleAct(m)
  PROVE  SeatInv'
<1>a. TypeOK /\ OnlySeatHolderActs /\ OneWaits /\ Barred /\ (guest.container # "running" => Quiet)
  BY DEF IInv
<1>b. call \in Calls /\ guest \in Guests /\ seat \in Seats /\ net \in SUBSET Messages
  BY <1>a DEF TypeOK
<1>1. ASSUME NEW r \in Requests, NEW l \in Requests, SemanticAct(r, l)
      PROVE  SeatInv'
  <2>1. UNCHANGED <<seat, call, guest, late>>
    BY <1>1 DEF SemanticAct
  <2>2. ~Message("act", l, r).waits
    BY DEF Message
  <2>3. \A m \in net' : m.waits => m \in net
    BY <1>1, <2>2 DEF SemanticAct
  <2>4. QED
    BY <1>a, <2>1, <2>3 DEF SeatInv, OnlySeatHolderActs, OneWaits, Barred, Cleared, Quiet
<1>2. CASE ActReturns \/ ActTimeout
  <2>1. UNCHANGED <<seat, call, guest, net, late>>
    BY <1>2 DEF ActReturns, ActTimeout, hostVars
  <2>2. QED
    BY <1>a, <2>1 DEF SeatInv, OnlySeatHolderActs, OneWaits, Barred, Cleared, Quiet
<1>3. CASE ActEnds
  <2>1. UNCHANGED <<seat, call, net, late>>
    BY <1>3 DEF ActEnds, hostVars
  <2>2. /\ guest'.live = guest.live /\ guest'.active = None
        /\ guest'.lease = guest.lease /\ guest'.container = guest.container
    BY <1>3, <1>b DEF ActEnds, Guests
  <2>3. guest.active # None
    BY <1>3 DEF ActEnds
  <2>4. QED
    BY <1>a, <2>1, <2>2, <2>3 DEF SeatInv, OnlySeatHolderActs, OneWaits, Barred, Cleared, Quiet
<1>4. CASE Crash
  <2>1. UNCHANGED <<seat, guest, late>> /\ call' = NoCall /\ net' = Orphaned
    BY <1>4 DEF Crash
  <2>2. \A m \in net' : ~m.waits
    BY <1>a, <2>1, OrphanedWait
  <2>3. call'.place = "idle" /\ call'.answer = "none"
    BY <2>1 DEF NoCall
  <2>4. QED
    BY <1>a, <2>1, <2>2, <2>3
       DEF SeatInv, OnlySeatHolderActs, OneWaits, Barred, Cleared, Quiet
<1>5. ASSUME NEW m \in net, HandleAct(m)
      PROVE  SeatInv'
  <2>1. UNCHANGED <<seat, call, late>> /\ net' \subseteq net
    BY <1>5 DEF HandleAct, hostVars
  <2>2. /\ guest'.live = guest.live /\ guest'.lease = guest.lease
        /\ guest'.container = guest.container
        /\ guest'.active # guest.active => guest.live /\ guest.container = "running"
    BY <1>5, <1>b DEF HandleAct, Guests
  <2>3. QED
    BY <1>a, <2>1, <2>2 DEF SeatInv, OnlySeatHolderActs, OneWaits, Barred, Cleared, Quiet
<1>6. ASSUME NEW m \in net, HandleActivate(m)
      PROVE  SeatInv'
  <2>1. seat' = seat /\ net' = net \ {m} /\ m.kind = "activate" /\ guest.container = "running"
    BY <1>6 DEF HandleActivate, hostVars
  <2>2. CASE UNCHANGED <<guest, late>>
    <3>1. CASE call' = call
      BY <1>a, <2>1, <2>2, <3>1
         DEF SeatInv, OnlySeatHolderActs, OneWaits, Barred, Cleared, Quiet
    <3>2. CASE m.waits /\ call' \in {[call EXCEPT !.answer = "ok"], [call EXCEPT !.answer = "error"]}
      <4>1. call'.place = "activate" /\ call.place = "activate"
        BY <1>a, <1>b, <2>1, <3>2 DEF OneWaits, Calls
      <4>2. \A x \in net' : ~x.waits
        BY <1>a, <2>1, <3>2 DEF OneWaits
      <4>3. QED
        BY <1>a, <2>1, <2>2, <4>1, <4>2
           DEF SeatInv, OnlySeatHolderActs, OneWaits, Barred, Cleared, Quiet
    <3>3. QED
      BY <1>6, <3>1, <3>2 DEF HandleActivate, Answer
  <2>3. CASE /\ guest' = [guest EXCEPT !.lease = m.lease, !.live = TRUE]
             /\ ~m.waits /\ late' = TRUE
    <3>1. call' = call
      BY <1>6, <2>3 DEF HandleActivate, Answer
    <3>2. guest'.container = "running"
      BY <1>b, <2>1, <2>3 DEF Guests
    <3>3. QED
      BY <1>a, <2>1, <2>3, <3>1, <3>2 DEF SeatInv, OnlySeatHolderActs, OneWaits, Barred
  <2>4. CASE /\ guest' = [guest EXCEPT !.lease = m.lease, !.live = TRUE]
             /\ m.waits /\ late' = late
    <3>1. /\ call.place = "activate"
          /\ seat.state = "agent_controlled" /\ seat.lease = m.lease
      BY <1>a, <2>1, <2>4 DEF OneWaits
    <3>2. /\ guest'.container = "running" /\ guest'.lease = m.lease
      BY <1>b, <2>1, <2>4 DEF Guests
    <3>3. \A x \in net' : ~x.waits
      BY <1>a, <2>1, <2>4 DEF OneWaits
    <3>4. call'.place = "activate"
      BY <1>6, <1>b, <3>1 DEF HandleActivate, Answer, Calls
    <3>5. QED
      BY <2>1, <3>1, <3>2, <3>3, <3>4
         DEF SeatInv, OnlySeatHolderActs, OneWaits, Barred, Cleared
  <2>5. QED
    BY <1>6, <1>a, <2>2, <2>3, <2>4 DEF HandleActivate, TypeOK
<1>7. ASSUME NEW m \in net, HandleRevoke(m)
      PROVE  SeatInv'
  <2>1. UNCHANGED <<seat, late>> /\ m.kind = "revoke" /\ guest.container = "running"
    BY <1>7 DEF HandleRevoke, hostVars
  <2>2. CASE m.lease # guest.lease
    <3>1. guest' = guest /\ net' = net \ {m}
      BY <1>7, <2>2 DEF HandleRevoke
    <3>2. CASE call' = call
      BY <1>a, <2>1, <3>1, <3>2
         DEF SeatInv, OnlySeatHolderActs, OneWaits, Barred, Cleared, Quiet
    <3>3. CASE /\ m.waits
               /\ call' = [call EXCEPT !.answer = IF guest.active # None \/ guest.live
                                                     \/ guest.pending \/ guest.failed
                                                  THEN "error" ELSE "ok"]
      <4>1. call'.place = "revoke" /\ call.place = "revoke"
        BY <1>a, <1>b, <2>1, <3>3 DEF OneWaits, Calls
      <4>2. \A x \in net' : ~x.waits
        BY <1>a, <3>1, <3>3 DEF OneWaits
      <4>3. call'.answer = "ok" => Quiet
        BY <1>b, <3>3 DEF Calls, Quiet
      <4>4. QED
        BY <1>a, <2>1, <3>1, <4>1, <4>2, <4>3
           DEF SeatInv, OnlySeatHolderActs, OneWaits, Barred, Cleared, Quiet
    <3>4. QED
      BY <1>7, <2>2, <3>2, <3>3 DEF HandleRevoke, Answer
  <2>3. CASE m.lease = guest.lease
    <3> DEFINE n == [m EXCEPT !.kind = "revoking"]
    <3>1. /\ net' = (net \ {m}) \cup {n} /\ call' = call
          /\ guest' = [guest EXCEPT !.live = FALSE, !.pending = TRUE]
      BY <1>7, <2>3 DEF HandleRevoke
    <3>2. /\ ~guest'.live /\ guest'.active = guest.active /\ guest'.lease = guest.lease
          /\ guest'.container = guest.container
      BY <1>b, <3>1 DEF Guests
    <3>3. n.kind = "revoking" /\ n.waits = m.waits
      BY <1>b DEF Messages
    <3>4. OneWaits'
      BY <1>a, <2>1, <3>1, <3>3 DEF OneWaits
    <3>5. Barred'
      BY <1>a, <2>1, <3>1, <3>2 DEF Barred, Cleared, Quiet
    <3>6. QED
      BY <1>a, <2>1, <3>2, <3>4, <3>5 DEF SeatInv, OnlySeatHolderActs, Quiet
  <2>4. QED
    BY <2>2, <2>3
<1>8. ASSUME NEW m \in net, RevokeEnds(m)
      PROVE  SeatInv'
  <2>1. /\ UNCHANGED <<seat, late>> /\ m.kind = "revoking" /\ guest.container = "running"
        /\ net' = net \ {m}
    BY <1>8 DEF RevokeEnds, hostVars
  <2>2. /\ guest'.live = guest.live /\ guest'.active = guest.active
        /\ guest'.lease = guest.lease /\ guest'.container = guest.container
    BY <1>8, <1>b DEF RevokeEnds, Guests
  <2>3. CASE call' = call
    BY <1>a, <2>1, <2>2, <2>3
       DEF SeatInv, OnlySeatHolderActs, OneWaits, Barred, Cleared, Quiet
  <2>4. CASE /\ m.waits
             /\ \/ call' = [call EXCEPT !.answer = "ok"] /\ guest.active = None
                \/ call' = [call EXCEPT !.answer = "error"]
    <3>1. call'.place = "revoke" /\ call.place = "revoke"
      BY <1>a, <1>b, <2>1, <2>4 DEF OneWaits, Calls
    <3>2. \A x \in net' : ~x.waits
      BY <1>a, <2>1, <2>4 DEF OneWaits
    <3>3. call'.answer = "ok" => guest.active = None
      BY <1>b, <2>4 DEF Calls
    <3>4. ~late => ~guest.live
      BY <1>a, <2>1, <2>4 DEF Barred
    <3>5. QED
      BY <1>a, <2>1, <2>2, <3>1, <3>2, <3>3, <3>4
         DEF SeatInv, OnlySeatHolderActs, OneWaits, Barred, Cleared, Quiet
  <2>5. QED
    BY <1>8, <2>3, <2>4 DEF RevokeEnds, Answer
<1>9. QED
  BY <1>1, <1>2, <1>3, <1>4, <1>5, <1>6, <1>7, <1>8

\* Every step keeps the invariant.
LEMMA NextIInv == IInv /\ [Next]_vars => IInv'
<1> SUFFICES ASSUME IInv, [Next]_vars PROVE IInv'
  OBVIOUS
<1>1. TypeOK'
  BY TypeStep DEF IInv
<1>2. CASE Next
  <2>1. SeatInv'
    BY <1>1, <1>2, HostIInv, GuestIInv DEF Next
  <2>2. QED
    BY <1>1, <2>1 DEF IInv, SeatInv
<1>3. CASE UNCHANGED vars
  BY <1>1, <1>3 DEF vars, hostVars, IInv, OnlySeatHolderActs, OneWaits, Barred, Cleared, Quiet
<1>4. QED
  BY <1>2, <1>3

-----------------------------------------------------------------------------
(* One effect and one outcome per request *)

\* A row that nobody has written has no method; only acquire_seat and
\* semantic_act have effects, one each, and none when they have failed.
RowsHonest ==
  \A r \in Requests :
    /\ effects[r] \in {0, 1}
    /\ phase[r] = "none" => method[r] = "none"
    /\ method[r] \notin {"acquire", "act"} => effects[r] = 0
    /\ phase[r] = "failed" => effects[r] = 0

\* Where a call is tells what it is about, and its row is open from its record
\* on; the seat is not granted before the call has come to it.
CallOwnsRow ==
  LET r == call.req
  IN  /\ call.place # "idle" => call.op # "none" /\ r \in Requests
      /\ call.place \in {"grant", "activate"} => call.op = "acquire"
      /\ call.place = "vacate" => call.op = "release"
      /\ call.place \in {"operations", "provider"} => call.op \in Ops
      /\ call.op \in {"acquire", "release", "ensure", "switch"} \/ call.place = "provider" =>
           r \in Requests /\ method[r] = call.op /\ phase[r] \in OpenPhases
      /\ call.op = "acquire" /\ call.place # "activate" => effects[r] = 0

\* The same of the action that holds `operations`.
ActOwnsRow ==
  /\ act.req # None => method[act.req] = "act" /\ phase[act.req] \in OpenPhases
  /\ act.req = None => act.answer = "none"

\* An action on its way has not run, has not been answered and is on its way
\* once.
ActsArriveOnce ==
  /\ \A m \in net : m.kind = "act" =>
       /\ m.req \in Requests /\ method[m.req] = "act" /\ effects[m.req] = 0
       /\ phase[m.req] \in OpenPhases \cup {"unknown_outcome"}
       /\ act.req = m.req => act.answer # "ok"
  /\ \A m, n \in net : m.kind = "act" /\ n.kind = "act" /\ m.req = n.req => m = n
  /\ guest.active # None => method[guest.active] = "act" /\ effects[guest.active] = 1

OnceInv == RowsHonest /\ CallOwnsRow /\ ActOwnsRow /\ ActsArriveOnce

\* What a step may do to a request.
RowStep(r) ==
  /\ \/ effects'[r] = effects[r]
     \/ effects[r] = 0 /\ effects'[r] = 1 /\ phase[r] \in OpenPhases \cup {"unknown_outcome"}
  /\ \/ phase'[r] = phase[r]
     \/ phase[r] = "none" /\ phase'[r] \in OpenPhases \cup {"failed"}
     \/ phase[r] \in OpenPhases /\ phase'[r] # "none"
  /\ phase'[r] = "failed" => effects'[r] = 0

\* A step of every row is a step of RequestOnce (StatusOf, EffectOf).
LEMMA RowsRefine ==
  ASSUME TypeOK, TypeOK', RowsHonest, RowsHonest', \A r \in Requests : RowStep(r)
  PROVE  Once!Next
<1> DEFINE status == [r \in Requests |-> StatusOf(r)]
           effect == [r \in Requests |-> EffectOf(r)]
<1>1. \A r \in Requests : phase[r] \in Phases /\ phase'[r] \in Phases
  BY DEF TypeOK
<1>2. \A r \in Requests :
        /\ StatusOf(r) \in {"new", "open", "completed", "failed", "unknown"}
        /\ StatusOf(r)' \in {"new", "open", "completed", "failed", "unknown"}
  BY <1>1 DEF StatusOf, Phases, OpenPhases
<1>3. \A r \in Requests : EffectOf(r) \in {"none", "done"} /\ EffectOf(r)' \in {"none", "done"}
  BY DEF RowsHonest, EffectOf
<1>4. status' \in [Requests -> DOMAIN Once!Decisions]
  BY <1>2 DEF Once!Decisions
<1>5. effect' \in [Requests -> DOMAIN Once!Effects]
  BY <1>3 DEF Once!Effects
<1>6. ASSUME NEW r \in Requests PROVE Once!IdStep(r)
  <2> USE <1>6
  <2>1. status[r] = StatusOf(r) /\ status'[r] = StatusOf(r)'
    OBVIOUS
  <2>2. effect[r] = EffectOf(r) /\ effect'[r] = EffectOf(r)'
    OBVIOUS
  <2>3. RowStep(r)
    OBVIOUS
  <2>4. StatusOf(r)' \in Once!Decisions[StatusOf(r)]
    BY <1>1, <2>3 DEF RowStep, StatusOf, Phases, OpenPhases, Once!Decisions
  <2>5. EffectOf(r)' \in Once!Effects[EffectOf(r)]
    BY <1>3, <2>3 DEF RowStep, EffectOf, RowsHonest, Once!Effects
  <2>6. EffectOf(r) = "none" /\ EffectOf(r)' = "done" => StatusOf(r) \in {"open", "unknown"}
    BY <2>3 DEF RowStep, EffectOf, StatusOf, RowsHonest, OpenPhases
  <2>7. StatusOf(r)' = "failed" => EffectOf(r)' # "done"
    BY <1>1, <2>3 DEF RowStep, EffectOf, StatusOf, Phases, OpenPhases
  <2> HIDE DEF status, effect
  <2> QED
    BY <2>1, <2>2, <2>4, <2>5, <2>6, <2>7 DEF Once!IdStep, status, effect
<1> QED
  BY <1>4, <1>5, <1>6 DEF Once!Next

\* A write of one row: an outcome is final, a new row is opened or failed, and
\* a row without effect may fail (Record).
LEMMA RecordStep ==
  ASSUME TypeOK, RowsHonest, UNCHANGED effects,
         NEW r \in Requests, NEW m, NEW p, Record(r, m, p),
         \/ phase[r] = p /\ p # "none"
         \/ phase[r] = "none" /\ p \in OpenPhases \cup {"failed"}
         \/ phase[r] \in OpenPhases /\ p # "none",
         m = method[r] \/ method[r] = "none",
         p = "failed" => effects[r] = 0
  PROVE  /\ RowsHonest' /\ \A i \in Requests : RowStep(i)
         /\ phase'[r] = p /\ method'[r] = m
         /\ \A i \in Requests \ {r} : phase'[i] = phase[i] /\ method'[i] = method[i]
<1>1. /\ phase'[r] = p /\ method'[r] = m
      /\ \A i \in Requests \ {r} : phase'[i] = phase[i] /\ method'[i] = method[i]
  BY DEF Record, TypeOK
<1>2. p # "none"
  BY DEF OpenPhases
<1>3. ASSUME NEW i \in Requests PROVE RowStep(i)
  BY <1>1, <1>3 DEF RowStep, RowsHonest, OpenPhases
<1>4. RowsHonest'
  BY <1>1, <1>2 DEF RowsHonest
<1> QED
  BY <1>1, <1>3, <1>4

\* The ends of a call are writes of its open row (Complete, Uncertain).
LEMMA EndStep ==
  ASSUME TypeOK, RowsHonest, UNCHANGED effects, NEW r \in Requests, NEW m, NEW e,
         Complete(r, m, e) \/ Uncertain(r, m, e), phase[r] \in OpenPhases, method[r] = m
  PROVE  /\ RowsHonest' /\ \A i \in Requests : RowStep(i)
         /\ \A i \in Requests \ {r} : phase'[i] = phase[i] /\ method'[i] = method[i]
         /\ phase'[r] # "completed" => phase'[r] \in OpenPhases \cup {"unknown_outcome"}
         /\ Uncertain(r, m, e) => phase'[r] \in OpenPhases \cup {"unknown_outcome"}
         /\ method'[r] = m
<1>1. PICK p \in {"completed", "unknown_outcome", "side_effect_started"} :
        Record(r, m, p) /\ (Uncertain(r, m, e) => p # "completed")
  <2>1. CASE Uncertain(r, m, e)
    BY <2>1 DEF Uncertain
  <2>2. CASE ~Uncertain(r, m, e)
    BY <2>2 DEF Complete
  <2> QED
    BY <2>1, <2>2
<1>2. /\ RowsHonest' /\ \A i \in Requests : RowStep(i)
      /\ phase'[r] = p /\ method'[r] = m
      /\ \A i \in Requests \ {r} : phase'[i] = phase[i] /\ method'[i] = method[i]
  BY <1>1, RecordStep
<1> QED
  BY <1>1, <1>2 DEF OpenPhases

\* What the actions rely on is untouched by a step that leaves their rows alone
\* and sends none.
LEMMA ActSideKept ==
  ASSUME TypeOK, ActOwnsRow, ActsArriveOnce, UNCHANGED act,
         \A i \in Requests : method[i] = "act" =>
           phase'[i] = phase[i] /\ method'[i] = method[i] /\ effects'[i] = effects[i],
         \A m \in net' : m.kind = "act" => m \in net,
         guest'.active \in {guest.active, None}
  PROVE  ActOwnsRow' /\ ActsArriveOnce'
<1>1. (act.req # None => act.req \in Requests) /\ (guest.active # None => guest.active \in Requests)
  BY DEF TypeOK, Guests
<1>2. ActOwnsRow'
  BY <1>1 DEF ActOwnsRow
<1>3. ActsArriveOnce'
  BY <1>1 DEF ActsArriveOnce
<1> QED
  BY <1>2, <1>3

\* What a call under `seats` relies on is untouched by the actions.
LEMMA CallSideKept ==
  ASSUME CallOwnsRow,
         call'.op = call.op /\ call'.req = call.req /\ call'.place = call.place,
         \A i \in Requests : method[i] \notin {"none", "act"} =>
           phase'[i] = phase[i] /\ method'[i] = method[i] /\ effects'[i] = effects[i]
  PROVE  CallOwnsRow'
<1>1. "none" \notin Ops /\ "act" \notin Ops
  BY SeatAssumption
<1> QED
  BY <1>1 DEF CallOwnsRow

\* Without a call there is nothing to rely on.
LEMMA NoCallOwnsNothing == ASSUME call' = NoCall PROVE CallOwnsRow'
BY SeatAssumption DEF NoCall, CallOwnsRow

\* A barrier sends no action and keeps the call's request (revoke_active_input).
LEMMA BarrierOnce ==
  ASSUME TypeOK, NEW c \in Calls, NEW next, Barrier(c, next)
  PROVE  /\ call'.op = c.op /\ call'.req = c.req /\ call'.place \in {"revoke", next}
         /\ \A m \in net' : m.kind = "act" => m \in net
<1>1. Message("revoke", seat.lease, None).kind # "act"
  BY DEF Message
<1> QED
  BY <1>1 DEF Barrier, Calls

\* Nobody under `seats` waits for an action, so giving up changes none of them
\* (run_bounded).
LEMMA OrphanedActs ==
  ASSUME TypeOK, OneWaits
  PROVE  \A o \in Orphaned : o.kind = "act" => o \in net
<1> SUFFICES ASSUME NEW o \in Orphaned, o.kind = "act" PROVE o \in net
  OBVIOUS
<1>1. PICK m \in net : o = [m EXCEPT !.waits = FALSE]
  BY DEF Orphaned
<1>2. m \in Messages
  BY DEF TypeOK
<1>3. m.kind = "act"
  BY <1>1, <1>2 DEF Messages
<1>4. m.waits = FALSE
  BY <1>2, <1>3 DEF OneWaits, Messages
<1>5. o = m
  BY <1>1, <1>2, <1>4 DEF Messages
<1> QED
  BY <1>5

\* The calls under `seats` keep what the requests rely on, and every row takes a
\* legal step (acquire_seat, release_seat, the lifecycle calls).
LEMMA HostOnce ==
  ASSUME TypeOK, OneWaits, OnceInv,
         \/ \E r \in Requests, o \in Owners, user \in BOOLEAN : Acquire(r, o, user)
         \/ \E r, l \in Requests : Release(r, l)
         \/ \E r \in Requests, op \in Ops : Lifecycle(r, op)
         \/ HostStep
  PROVE  OnceInv' /\ \A i \in Requests : RowStep(i)
<1>a. RowsHonest /\ CallOwnsRow /\ ActOwnsRow /\ ActsArriveOnce
  BY DEF OnceInv
<1>b. call \in Calls /\ guest \in Guests
  BY DEF TypeOK
<1>c. "act" \notin Ops /\ "none" \notin Ops /\ "acquire" \notin Ops /\ "release" \notin Ops
  BY SeatAssumption
<1>d. UNCHANGED <<phase, method, effects>> => RowsHonest' /\ \A i \in Requests : RowStep(i)
  BY <1>a DEF RowsHonest, RowStep
<1>1. ASSUME NEW r \in Requests, NEW o \in Owners, NEW user \in BOOLEAN, Acquire(r, o, user)
      PROVE  OnceInv' /\ \A i \in Requests : RowStep(i)
  <2> DEFINE c == [NoCall EXCEPT !.op = "acquire", !.req = r, !.owner = o, !.user = user]
  <2>1. c \in Calls /\ c.op = "acquire" /\ c.req = r
    BY DEF NoCall, Calls, Answers
  <2>2. phase[r] = "none" /\ method[r] = "none" /\ effects[r] = 0
    BY <1>1, <1>a DEF Acquire, New, RowsHonest
  <2>3. PICK p \in OpenPhases : Record(r, "acquire", p)
    BY <1>1 DEF Acquire, OpenPhases
  <2>4. UNCHANGED <<act, guest, effects>> /\ call = NoCall
    BY <1>1 DEF Acquire
  <2>5. /\ RowsHonest' /\ \A i \in Requests : RowStep(i)
        /\ phase'[r] = p /\ method'[r] = "acquire"
        /\ \A i \in Requests \ {r} : phase'[i] = phase[i] /\ method'[i] = method[i]
    <3>1. p # "failed"
      BY DEF OpenPhases
    <3> QED
      BY <1>a, <2>2, <2>3, <2>4, <3>1, RecordStep
  <2>6. \/ UNCHANGED <<call, net>>
        \/ /\ call'.op = "acquire" /\ call'.req = r /\ call'.place \in {"revoke", "grant"}
           /\ \A m \in net' : m.kind = "act" => m \in net
    <3>1. CASE UNCHANGED <<call, net>>
      BY <3>1
    <3>2. CASE Barrier(c, "grant")
      BY <2>1, <3>2, BarrierOnce
    <3>3. CASE call' = [c EXCEPT !.place = "grant"] /\ UNCHANGED net
      BY <2>1, <3>3 DEF Calls
    <3> QED
      BY <1>1, <3>1, <3>2, <3>3 DEF Acquire
  <2>7. CallOwnsRow'
    <3>1. CASE call' = call
      BY <2>4, <3>1, NoCallOwnsNothing
    <3>2. CASE call' # call
      BY <1>c, <2>2, <2>4, <2>5, <2>6, <3>2 DEF CallOwnsRow
    <3> QED
      BY <3>1, <3>2
  <2>8. ActOwnsRow' /\ ActsArriveOnce'
    BY <1>a, <2>2, <2>4, <2>5, <2>6, ActSideKept
  <2> QED
    BY <2>5, <2>7, <2>8 DEF OnceInv
<1>2. ASSUME NEW r \in Requests, NEW l \in Requests, Release(r, l)
      PROVE  OnceInv' /\ \A i \in Requests : RowStep(i)
  <2> DEFINE c == [NoCall EXCEPT !.op = "release", !.req = r]
             begun == IF phase[r] = "none" THEN "accepted" ELSE phase[r]
  <2>1. c \in Calls /\ c.op = "release" /\ c.req = r
    BY DEF NoCall, Calls, Answers
  <2>2. /\ \/ phase[r] = "none" /\ method[r] = "none"
           \/ phase[r] \in OpenPhases \cup {"unknown_outcome"} /\ method[r] = "release"
        /\ effects[r] = 0
    BY <1>2, <1>a DEF Release, New, RowsHonest
  <2>3. UNCHANGED <<act, guest, effects>> /\ call = NoCall
    BY <1>2 DEF Release
  <2>4. PICK p : /\ Record(r, "release", p)
                 /\ \/ p = begun /\ UNCHANGED <<call, net>>
                    \/ p = "failed" /\ begun \in OpenPhases /\ UNCHANGED <<call, net>>
                    \/ p = "side_effect_started" /\ begun = "accepted" /\ Barrier(c, "vacate")
    BY <1>2 DEF Release
  <2>5. /\ RowsHonest' /\ \A i \in Requests : RowStep(i)
        /\ phase'[r] = p /\ method'[r] = "release"
        /\ \A i \in Requests \ {r} : phase'[i] = phase[i] /\ method'[i] = method[i]
    <3>1. \/ phase[r] = p /\ p # "none"
          \/ phase[r] = "none" /\ p \in OpenPhases \cup {"failed"}
          \/ phase[r] \in OpenPhases /\ p # "none"
      BY <2>2, <2>4 DEF OpenPhases
    <3> QED
      BY <1>a, <2>2, <2>3, <2>4, <3>1, RecordStep
  <2>6. \/ UNCHANGED <<call, net>>
        \/ /\ call'.op = "release" /\ call'.req = r /\ call'.place \in {"revoke", "vacate"}
           /\ p = "side_effect_started"
           /\ \A m \in net' : m.kind = "act" => m \in net
    BY <2>1, <2>4, BarrierOnce
  <2>7. CallOwnsRow'
    <3>1. CASE call' = call
      BY <2>3, <3>1, NoCallOwnsNothing
    <3>2. CASE call' # call
      BY <1>c, <2>2, <2>3, <2>5, <2>6, <3>2 DEF CallOwnsRow, OpenPhases
    <3> QED
      BY <3>1, <3>2
  <2>8. ActOwnsRow' /\ ActsArriveOnce'
    BY <1>a, <2>2, <2>3, <2>5, <2>6, ActSideKept
  <2> QED
    BY <2>5, <2>7, <2>8 DEF OnceInv
<1>3. ASSUME NEW r \in Requests, NEW op \in Ops, Lifecycle(r, op)
      PROVE  OnceInv' /\ \A i \in Requests : RowStep(i)
  <2> DEFINE c == [NoCall EXCEPT !.op = op, !.req = r]
  <2>1. c \in Calls /\ c.op = op /\ c.req = r
    BY DEF NoCall, Calls, Answers
  <2>2. UNCHANGED <<act, guest, effects>>
    BY <1>3 DEF Lifecycle
  <2>3. /\ call'.op = op /\ call'.req = r /\ call'.place \in {"revoke", "operations"}
        /\ \A m \in net' : m.kind = "act" => m \in net
    <3>1. CASE Barrier(c, "operations")
      BY <2>1, <3>1, BarrierOnce
    <3>2. CASE call' = [c EXCEPT !.place = "operations"] /\ UNCHANGED net
      BY <2>1, <3>2 DEF Calls
    <3> QED
      BY <1>3, <3>1, <3>2 DEF Lifecycle
  <2>4. CASE op \in {"ensure", "switch"}
    <3>1. phase[r] = "none" /\ Record(r, op, "accepted")
      BY <1>3, <2>4 DEF Lifecycle, New
    <3>2. method[r] = "none"
      BY <1>a, <3>1 DEF RowsHonest
    <3>3. /\ RowsHonest' /\ \A i \in Requests : RowStep(i)
          /\ phase'[r] = "accepted" /\ method'[r] = op
          /\ \A i \in Requests \ {r} : phase'[i] = phase[i] /\ method'[i] = method[i]
      <4>1. "accepted" \in OpenPhases
        BY DEF OpenPhases
      <4> QED
        BY <1>a, <2>2, <3>1, <3>2, <4>1, RecordStep
    <3>4. CallOwnsRow'
      BY <1>c, <2>3, <3>3 DEF CallOwnsRow, OpenPhases
    <3>5. ActOwnsRow' /\ ActsArriveOnce'
      BY <1>a, <2>2, <2>3, <3>2, <3>3, ActSideKept
    <3> QED
      BY <3>3, <3>4, <3>5 DEF OnceInv
  <2>5. CASE op \notin {"ensure", "switch"}
    <3>1. UNCHANGED <<phase, method>>
      BY <1>3, <2>5 DEF Lifecycle
    <3>2. CallOwnsRow'
      BY <1>c, <2>3, <2>5 DEF CallOwnsRow
    <3>3. ActOwnsRow' /\ ActsArriveOnce'
      BY <1>a, <2>2, <2>3, <3>1, ActSideKept
    <3> QED
      BY <1>d, <2>2, <3>1, <3>2, <3>3 DEF OnceInv
  <2> QED
    BY <2>4, <2>5
<1>4. CASE Grant
  <2> DEFINE r == call.req
  <2>1. /\ r \in Requests /\ call.op = "acquire" /\ method[r] = "acquire"
        /\ phase[r] \in OpenPhases /\ effects[r] = 0
    BY <1>4, <1>a DEF Grant, CallOwnsRow
  <2>2. UNCHANGED <<act, guest>>
    BY <1>4 DEF Grant
  <2>3. \A m \in net' : m.kind = "act" => m \in net
    <3>1. \A l : Message("activate", l, None).kind # "act"
      BY DEF Message
    <3> QED
      BY <1>4, <3>1 DEF Grant
  <2>4. CASE Reject(r, "acquire") /\ call' = NoCall /\ UNCHANGED effects
    <3>1. PICK p \in {phase[r], "failed"} : Record(r, "acquire", p)
      BY <2>4 DEF Reject
    <3>2. /\ RowsHonest' /\ \A i \in Requests : RowStep(i)
          /\ \A i \in Requests \ {r} : phase'[i] = phase[i] /\ method'[i] = method[i]
      <4>1. p # "none"
        BY <2>1 DEF OpenPhases
      <4> QED
        BY <1>a, <2>1, <2>4, <3>1, <4>1, RecordStep
    <3>3. ActOwnsRow' /\ ActsArriveOnce'
      BY <1>a, <2>1, <2>2, <2>3, <2>4, <3>2, ActSideKept
    <3> QED
      BY <2>4, <3>2, <3>3, NoCallOwnsNothing DEF OnceInv
  <2>5. CASE /\ effects' = [effects EXCEPT ![r] = @ + 1]
             /\ \/ Complete(r, "acquire", env) /\ call' = NoCall
                \/ call' = [call EXCEPT !.place = "activate"] /\ UNCHANGED <<phase, method>>
    <3>1. effects'[r] = 1 /\ \A i \in Requests \ {r} : effects'[i] = effects[i]
      BY <2>1, <2>5 DEF TypeOK
    <3>2. PICK p \in OpenPhases \cup {"completed", "unknown_outcome"} :
            /\ phase'[r] = p /\ method'[r] = "acquire"
            /\ \A i \in Requests \ {r} : phase'[i] = phase[i] /\ method'[i] = method[i]
            /\ call' = NoCall \/ (call' = [call EXCEPT !.place = "activate"] /\ p = phase[r])
      <4>1. CASE UNCHANGED <<phase, method>> /\ call' = [call EXCEPT !.place = "activate"]
        BY <2>1, <4>1
      <4>2. CASE Complete(r, "acquire", env) /\ call' = NoCall
        <5>1. PICK p \in {"completed", "unknown_outcome", "side_effect_started"} : Record(r, "acquire", p)
          BY <4>2 DEF Complete, Uncertain
        <5>2. /\ phase'[r] = p /\ method'[r] = "acquire"
              /\ \A i \in Requests \ {r} : phase'[i] = phase[i] /\ method'[i] = method[i]
          BY <2>1, <5>1 DEF Record, TypeOK
        <5> QED
          BY <4>2, <5>2 DEF OpenPhases
      <4> QED
        BY <2>5, <4>1, <4>2
    <3>3. \A i \in Requests : RowStep(i)
      BY <1>a, <2>1, <3>1, <3>2 DEF RowStep, RowsHonest, OpenPhases
    <3>4. RowsHonest'
      BY <1>a, <2>1, <3>1, <3>2 DEF RowsHonest, OpenPhases
    <3>5. CallOwnsRow'
      <4>1. CASE call' = NoCall
        BY <4>1, NoCallOwnsNothing
      <4>2. CASE call' = [call EXCEPT !.place = "activate"] /\ p = phase[r]
        <5>1. call'.op = "acquire" /\ call'.req = r /\ call'.place = "activate"
          BY <1>b, <2>1, <4>2 DEF Calls
        <5> QED
          BY <1>c, <2>1, <3>2, <4>2, <5>1 DEF CallOwnsRow
      <4> QED
        BY <3>2, <4>1, <4>2
    <3>6. ActOwnsRow' /\ ActsArriveOnce'
      BY <1>a, <2>1, <2>2, <2>3, <3>1, <3>2, ActSideKept
    <3> QED
      BY <3>3, <3>4, <3>5, <3>6 DEF OnceInv
  <2> QED
    BY <1>4, <2>4, <2>5 DEF Grant
<1>5. CASE Activated \/ Vacate
  <2> DEFINE r == call.req
             m == IF call.place = "activate" THEN "acquire" ELSE "release"
  <2>1. r \in Requests /\ method[r] = m /\ m \in {"acquire", "release"} /\ phase[r] \in OpenPhases
    BY <1>5, <1>a DEF Activated, Vacate, CallOwnsRow
  <2>2. UNCHANGED <<act, guest, net, effects>> /\ call' = NoCall
    BY <1>5 DEF Activated, Vacate
  <2>3. /\ RowsHonest' /\ \A i \in Requests : RowStep(i)
        /\ \A i \in Requests \ {r} : phase'[i] = phase[i] /\ method'[i] = method[i]
    <3>1. CASE Complete(r, m, env) \/ Uncertain(r, m, env)
      BY <1>a, <2>1, <2>2, <3>1, EndStep
    <3>2. CASE m = "release" /\ Reject(r, m)
      <4>1. PICK p \in {phase[r], "failed"} : Record(r, m, p)
        BY <3>2 DEF Reject
      <4>2. p # "none" /\ effects[r] = 0
        BY <1>a, <2>1, <3>2 DEF OpenPhases, RowsHonest
      <4> QED
        BY <1>a, <2>1, <2>2, <4>1, <4>2, RecordStep
    <3> QED
      BY <1>5, <3>1, <3>2 DEF Activated, Vacate
  <2>4. ActOwnsRow' /\ ActsArriveOnce'
    BY <1>a, <2>1, <2>2, <2>3, ActSideKept
  <2> QED
    BY <2>2, <2>3, <2>4, NoCallOwnsNothing DEF OnceInv
<1>6. CASE Revoked \/ Replayed \/ CallTimeout
  <2>1. UNCHANGED <<act, guest, phase, method, effects>>
    BY <1>6 DEF Revoked, Replayed, CallTimeout, hostVars
  <2>2. \A m \in net' : m.kind = "act" => m \in net
    <3>1. CASE CallTimeout
      BY <3>1, OrphanedActs DEF CallTimeout
    <3>2. CASE Revoked \/ Replayed
      BY <3>2 DEF Revoked, Replayed
    <3> QED
      BY <1>6, <3>1, <3>2
  <2>3. CallOwnsRow'
    <3>1. CASE call' = NoCall
      BY <3>1, NoCallOwnsNothing
    <3>2. CASE CallTimeout
      BY <1>a, <1>b, <2>1, <3>2, CallSideKept DEF CallTimeout, Calls
    <3>3. CASE Revoked /\ call' = [call EXCEPT !.place = After(call.op), !.answer = "none"]
      <4>1. call'.op = call.op /\ call'.req = call.req /\ call'.place = After(call.op)
        BY <1>b, <3>3 DEF Calls
      <4>2. call.op # "none" /\ call.req \in Requests
        BY <1>a, <3>3 DEF Revoked, CallOwnsRow
      <4>3. call.op \in {"acquire", "release"} \cup Ops
        BY <1>b, <4>2 DEF Calls
      <4>4. call.place = "revoke"
        BY <3>3 DEF Revoked
      <4> QED
        BY <1>a, <1>c, <2>1, <4>1, <4>2, <4>3, <4>4 DEF CallOwnsRow, After
    <3> QED
      BY <1>6, <3>1, <3>2, <3>3 DEF Revoked, Replayed
  <2>4. ActOwnsRow' /\ ActsArriveOnce'
    BY <1>a, <2>1, <2>2, ActSideKept
  <2> QED
    BY <1>d, <2>1, <2>3, <2>4 DEF OnceInv
<1>7. CASE Admit
  <2> DEFINE r == call.req
             op == call.op
  <2>1. r \in Requests /\ op \in Ops
    BY <1>7, <1>a DEF Admit, CallOwnsRow
  <2>2. UNCHANGED <<act, guest, net, effects>>
    BY <1>7 DEF Admit
  <2>3. \/ phase[r] = "none" /\ method[r] = "none"
        \/ phase[r] \in OpenPhases /\ method[r] = op
    BY <1>7, <1>a DEF Admit, CallOwnsRow, RowsHonest
  <2>4. PICK p \in OpenPhases \cup {"failed"} :
          /\ Record(r, op, p)
          /\ call' = NoCall \/ (call' = [call EXCEPT !.place = "provider"] /\ p = "side_effect_started")
    BY <1>7 DEF Admit, OpenPhases
  <2>5. effects[r] = 0
    BY <1>a, <1>c, <2>1, <2>3 DEF RowsHonest
  <2>6. /\ RowsHonest' /\ \A i \in Requests : RowStep(i)
        /\ phase'[r] = p /\ method'[r] = op
        /\ \A i \in Requests \ {r} : phase'[i] = phase[i] /\ method'[i] = method[i]
    <3>1. p # "none"
      BY DEF OpenPhases
    <3> QED
      BY <1>a, <2>1, <2>2, <2>3, <2>4, <2>5, <3>1, RecordStep
  <2>7. CallOwnsRow'
    <3>1. CASE call' = NoCall
      BY <3>1, NoCallOwnsNothing
    <3>2. CASE call' = [call EXCEPT !.place = "provider"] /\ p = "side_effect_started"
      <4>1. call'.op = op /\ call'.req = r /\ call'.place = "provider"
        BY <1>b, <3>2 DEF Calls
      <4> QED
        BY <1>c, <2>1, <2>6, <3>2, <4>1 DEF CallOwnsRow, OpenPhases
    <3> QED
      BY <2>4, <3>1, <3>2
  <2>8. ActOwnsRow' /\ ActsArriveOnce'
    BY <1>a, <1>c, <2>1, <2>2, <2>3, <2>6, ActSideKept
  <2> QED
    BY <2>6, <2>7, <2>8 DEF OnceInv
<1>8. CASE Provide \/ ProvideFails
  <2> DEFINE r == call.req
             op == call.op
  <2>1. r \in Requests /\ op \in Ops /\ method[r] = op /\ phase[r] \in OpenPhases
    BY <1>8, <1>a DEF Provide, ProvideFails, CallOwnsRow
  <2>2. UNCHANGED <<act, effects>> /\ call' = NoCall
    BY <1>8 DEF Provide, ProvideFails
  <2>3. guest'.active \in {guest.active, None} /\ \A m \in net' : m \in net
    BY <1>8 DEF Provide, ProvideFails, Provided, Becomes, FreshGuest
  <2>4. /\ RowsHonest' /\ \A i \in Requests : RowStep(i)
        /\ \A i \in Requests \ {r} : phase'[i] = phase[i] /\ method'[i] = method[i]
    <3>1. CASE \E e : Complete(r, op, e) \/ Uncertain(r, op, e)
      BY <1>a, <2>1, <2>2, <3>1, EndStep
    <3>2. CASE \E p \in {"completed", "side_effect_started"} : Record(r, op, p)
      BY <1>a, <2>1, <2>2, <3>2, RecordStep
    <3> QED
      BY <1>8, <3>1, <3>2 DEF Provide, ProvideFails
  <2>5. ActOwnsRow' /\ ActsArriveOnce'
    BY <1>a, <1>c, <2>1, <2>2, <2>3, <2>4, ActSideKept
  <2> QED
    BY <2>2, <2>4, <2>5, NoCallOwnsNothing DEF OnceInv
<1> QED
  BY <1>1, <1>2, <1>3, <1>4, <1>5, <1>6, <1>7, <1>8 DEF HostStep

\* The actions, the guest and the end of the host keep it too: an action is
\* recorded before it is sent, it runs when it is received, and it is answered
\* after that (semantic_act, InputAuthority.run, recover_incomplete).
LEMMA GuestOnce ==
  ASSUME TypeOK, OneWaits, OnceInv,
         \/ \E r, l \in Requests : SemanticAct(r, l)
         \/ ActReturns \/ ActTimeout \/ ActEnds \/ Crash
         \/ \E m \in net : HandleActivate(m) \/ HandleRevoke(m) \/ RevokeEnds(m)
                             \/ HandleAct(m)
  PROVE  OnceInv' /\ \A i \in Requests : RowStep(i)
<1>a. RowsHonest /\ CallOwnsRow /\ ActOwnsRow /\ ActsArriveOnce
  BY DEF OnceInv
<1>b. call \in Calls /\ guest \in Guests /\ net \subseteq Messages
  BY DEF TypeOK
<1>c. act \in [req: Requests \cup {None}, answer: Answers] /\ None \notin Requests
  BY DEF TypeOK, Requests, None
<1>d. UNCHANGED <<phase, method, effects>> => RowsHonest' /\ \A i \in Requests : RowStep(i)
  BY <1>a DEF RowsHonest, RowStep
<1>1. ASSUME NEW r \in Requests, NEW l \in Requests, SemanticAct(r, l)
      PROVE  OnceInv' /\ \A i \in Requests : RowStep(i)
  <2> DEFINE n == Message("act", l, r)
  <2>1. phase[r] = "none" /\ method[r] = "none" /\ effects[r] = 0
    BY <1>1, <1>a DEF SemanticAct, New, RowsHonest
  <2>2. UNCHANGED <<call, guest, effects>> /\ act = NoAct
    BY <1>1 DEF SemanticAct
  <2>3. PICK p \in OpenPhases :
          /\ Record(r, "act", p)
          /\ \/ UNCHANGED <<act, net>>
             \/ act' = [NoAct EXCEPT !.req = r] /\ net' = net \cup {n}
    BY <1>1 DEF SemanticAct, OpenPhases
  <2>4. n.kind = "act" /\ n.req = r
    BY DEF Message
  <2>5. /\ RowsHonest' /\ \A i \in Requests : RowStep(i)
        /\ phase'[r] = p /\ method'[r] = "act"
        /\ \A i \in Requests \ {r} : phase'[i] = phase[i] /\ method'[i] = method[i]
    <3>1. p # "failed"
      BY DEF OpenPhases
    <3> QED
      BY <1>a, <2>1, <2>2, <2>3, <3>1, RecordStep
  <2>6. CallOwnsRow'
    BY <1>a, <2>1, <2>2, <2>5, CallSideKept
  <2>7. CASE UNCHANGED <<act, net>>
    <3>1. ActOwnsRow' /\ ActsArriveOnce'
      BY <1>a, <2>1, <2>2, <2>5, <2>7, ActSideKept
    <3> QED
      BY <2>5, <2>6, <3>1 DEF OnceInv
  <2>8. CASE act' = [NoAct EXCEPT !.req = r] /\ net' = net \cup {n}
    <3>1. act'.req = r /\ act'.answer = "none"
      BY <2>8 DEF NoAct
    <3>2. ActOwnsRow'
      BY <1>c, <2>5, <3>1 DEF ActOwnsRow
    <3>3. guest.active # None => guest.active \in Requests \ {r}
      BY <1>a, <1>b, <2>1 DEF Guests, ActsArriveOnce
    <3>4. \A m \in net : m.kind = "act" => m.req \in Requests \ {r}
      BY <1>a, <2>1 DEF ActsArriveOnce
    <3> HIDE DEF n
    <3>5. ActsArriveOnce'
      BY <1>a, <2>1, <2>2, <2>4, <2>5, <2>8, <3>1, <3>3, <3>4 DEF ActsArriveOnce
    <3> QED
      BY <2>5, <2>6, <3>2, <3>5 DEF OnceInv
  <2> QED
    BY <2>3, <2>7, <2>8
<1>2. CASE ActReturns
  <2> DEFINE r == act.req
  <2>1. r \in Requests /\ method[r] = "act" /\ phase[r] \in OpenPhases /\ r # None
    BY <1>2, <1>a, <1>c DEF ActReturns, ActOwnsRow
  <2>2. UNCHANGED <<call, guest, net, effects>> /\ act' = NoAct
    BY <1>2 DEF ActReturns
  <2>3. /\ Complete(r, "act", env) \/ Uncertain(r, "act", env)
        /\ act.answer # "ok" => Uncertain(r, "act", env)
    BY <1>2 DEF ActReturns
  <2>4. /\ RowsHonest' /\ \A i \in Requests : RowStep(i)
        /\ \A i \in Requests \ {r} : phase'[i] = phase[i] /\ method'[i] = method[i]
        /\ method'[r] = "act"
        /\ act.answer # "ok" => phase'[r] \in OpenPhases \cup {"unknown_outcome"}
    BY <1>a, <2>1, <2>2, <2>3, EndStep
  <2>5. CallOwnsRow'
    BY <1>a, <2>1, <2>2, <2>4, CallSideKept
  <2>6. ActOwnsRow'
    BY <2>2 DEF NoAct, ActOwnsRow
  <2>7. ActsArriveOnce'
    <3>1. act'.req = None
      BY <2>2 DEF NoAct
    <3>2. guest.active # None => guest.active \in Requests
      BY <1>b DEF Guests
    <3> QED
      BY <1>a, <1>c, <2>1, <2>2, <2>4, <3>1, <3>2 DEF ActsArriveOnce
  <2> QED
    BY <2>4, <2>5, <2>6, <2>7 DEF OnceInv
<1>3. CASE ActTimeout
  <2>1. UNCHANGED <<phase, method, effects, call, guest, net>> /\ act.req # None
    BY <1>3 DEF ActTimeout, hostVars
  <2>2. act'.req = act.req /\ act'.answer = "error"
    BY <1>3, <1>c DEF ActTimeout
  <2>3. CallOwnsRow'
    BY <1>a, <2>1, CallSideKept
  <2>4. ActOwnsRow' /\ ActsArriveOnce'
    BY <1>a, <2>1, <2>2 DEF ActOwnsRow, ActsArriveOnce
  <2> QED
    BY <1>d, <2>1, <2>3, <2>4 DEF OnceInv
<1>4. CASE ActEnds
  <2>1. UNCHANGED <<phase, method, effects, call, net>> /\ guest.active # None /\ AnswerAct(guest.active)
    BY <1>4 DEF ActEnds, hostVars
  <2>2. guest'.active = None
    BY <1>4, <1>b DEF ActEnds, Guests
  <2>3. guest.active \in Requests /\ effects[guest.active] = 1
    BY <1>a, <1>b, <2>1 DEF Guests, ActsArriveOnce
  <2>4. \/ act' = act
        \/ act'.req = act.req /\ act.req = guest.active
    BY <1>c, <2>1 DEF AnswerAct, NoAct
  <2>5. CallOwnsRow'
    BY <1>a, <2>1, CallSideKept
  <2>6. ActOwnsRow'
    BY <1>a, <2>1, <2>4 DEF ActOwnsRow
  <2>7. ActsArriveOnce'
    BY <1>a, <2>1, <2>2, <2>3, <2>4 DEF ActsArriveOnce
  <2> QED
    BY <1>d, <2>1, <2>5, <2>6, <2>7 DEF OnceInv
<1>5. CASE Crash
  <2>1. UNCHANGED <<method, guest, effects>> /\ call' = NoCall /\ act' = NoAct /\ net' = Orphaned
    BY <1>5 DEF Crash
  <2>2. \A i \in Requests :
          phase'[i] = IF phase[i] \in OpenPhases THEN "unknown_outcome" ELSE phase[i]
    BY <1>5 DEF Crash
  <2>3. \A i \in Requests : RowStep(i)
    BY <1>a, <2>1, <2>2 DEF RowStep, RowsHonest
  <2>4. RowsHonest'
    BY <1>a, <2>1, <2>2 DEF RowsHonest, OpenPhases
  <2>5. ActOwnsRow' /\ act'.req = None
    BY <2>1 DEF NoAct, ActOwnsRow
  <2>6. \A m \in net' : m.kind = "act" => m \in net
    BY <2>1, OrphanedActs
  <2>7. ActsArriveOnce'
    BY <1>a, <1>c, <2>1, <2>2, <2>5, <2>6 DEF ActsArriveOnce
  <2> QED
    BY <2>1, <2>3, <2>4, <2>5, <2>7, NoCallOwnsNothing DEF OnceInv
<1>6. ASSUME NEW m \in net, HandleActivate(m) \/ HandleRevoke(m) \/ RevokeEnds(m)
      PROVE  OnceInv' /\ \A i \in Requests : RowStep(i)
  <2>1. UNCHANGED <<phase, method, effects, act>>
    BY <1>6 DEF HandleActivate, HandleRevoke, RevokeEnds, hostVars
  <2>2. guest'.active = guest.active
    BY <1>6, <1>b DEF HandleActivate, HandleRevoke, RevokeEnds, Guests
  <2>3. call'.op = call.op /\ call'.req = call.req /\ call'.place = call.place
    BY <1>6, <1>b DEF HandleActivate, HandleRevoke, RevokeEnds, Answer, Calls
  <2>4. \A n \in net' : n.kind = "act" => n \in net
    <3>1. [m EXCEPT !.kind = "revoking"].kind = "revoking"
      BY <1>b DEF Messages
    <3> QED
      BY <1>6, <3>1 DEF HandleActivate, HandleRevoke, RevokeEnds
  <2>5. CallOwnsRow'
    BY <1>a, <2>1, <2>3, CallSideKept
  <2>6. ActOwnsRow' /\ ActsArriveOnce'
    BY <1>a, <2>1, <2>2, <2>4, ActSideKept
  <2> QED
    BY <1>d, <2>1, <2>5, <2>6 DEF OnceInv
<1>7. ASSUME NEW m \in net, HandleAct(m)
      PROVE  OnceInv' /\ \A i \in Requests : RowStep(i)
  <2> DEFINE r == m.req
  <2>1. /\ r \in Requests /\ method[r] = "act" /\ effects[r] = 0
        /\ phase[r] \in OpenPhases \cup {"unknown_outcome"}
        /\ \A n \in net' : n.kind = "act" => n \in net /\ n.req # r
    BY <1>7, <1>a DEF HandleAct, ActsArriveOnce
  <2>2. UNCHANGED <<phase, method, call>> /\ guest.active = None
    BY <1>7 DEF HandleAct, hostVars
  <2>3. CASE /\ guest' = [guest EXCEPT !.active = r] /\ UNCHANGED act
             /\ effects' = [effects EXCEPT ![r] = @ + 1]
    <3>1. effects'[r] = 1 /\ \A i \in Requests \ {r} : effects'[i] = effects[i]
      BY <2>1, <2>3 DEF TypeOK
    <3>2. guest'.active = r
      BY <1>b, <2>3 DEF Guests
    <3>3. \A i \in Requests : RowStep(i)
      BY <1>a, <2>1, <2>2, <3>1 DEF RowStep, RowsHonest, OpenPhases
    <3>4. RowsHonest'
      BY <1>a, <2>1, <2>2, <3>1 DEF RowsHonest, OpenPhases
    <3>5. CallOwnsRow'
      BY <1>a, <2>1, <2>2, <3>1, CallSideKept
    <3>6. ActOwnsRow'
      BY <1>a, <2>2, <2>3 DEF ActOwnsRow
    <3>7. ActsArriveOnce'
      BY <1>a, <2>1, <2>2, <2>3, <3>1, <3>2 DEF ActsArriveOnce
    <3> QED
      BY <3>3, <3>4, <3>5, <3>6, <3>7 DEF OnceInv
  <2>4. CASE AnswerAct(r) /\ UNCHANGED <<guest, effects>>
    <3>1. \/ act' = act
          \/ act'.req = act.req /\ act.req = r
      BY <1>c, <2>4 DEF AnswerAct, NoAct
    <3>2. CallOwnsRow'
      BY <1>a, <2>2, <2>4, CallSideKept
    <3>3. ActOwnsRow'
      BY <1>a, <1>c, <2>1, <2>2, <3>1 DEF ActOwnsRow
    <3>4. ActsArriveOnce'
      BY <1>a, <2>1, <2>2, <2>4, <3>1 DEF ActsArriveOnce
    <3> QED
      BY <1>d, <2>2, <2>4, <3>2, <3>3, <3>4 DEF OnceInv
  <2> QED
    BY <1>7, <2>3, <2>4 DEF HandleAct
<1> QED
  BY <1>1, <1>2, <1>3, <1>4, <1>5, <1>6, <1>7

\* The initial states have what the requests rely on.
LEMMA InitOnce == Init => OnceInv
<1> SUFFICES ASSUME Init PROVE OnceInv
  OBVIOUS
<1>1. RowsHonest
  BY DEF Init, RowsHonest
<1>2. CallOwnsRow
  BY SeatAssumption DEF Init, CallOwnsRow, NoCall
<1>3. ActOwnsRow /\ ActsArriveOnce
  BY DEF Init, ActOwnsRow, ActsArriveOnce, NoAct, FreshGuest
<1> QED
  BY <1>1, <1>2, <1>3 DEF OnceInv

\* Every step keeps it, and is a legal one for every row.
LEMMA NextOnce ==
  IInv /\ OnceInv /\ [Next]_vars => OnceInv' /\ \A i \in Requests : RowStep(i)
<1> SUFFICES ASSUME IInv, OnceInv, [Next]_vars
             PROVE  OnceInv' /\ \A i \in Requests : RowStep(i)
  OBVIOUS
<1>1. CASE UNCHANGED vars
  <2>1. OnceInv'
    BY <1>1 DEF vars, hostVars, OnceInv, RowsHonest, CallOwnsRow, ActOwnsRow, ActsArriveOnce
  <2>2. \A i \in Requests : RowStep(i)
    BY <1>1 DEF vars, hostVars, OnceInv, RowsHonest, RowStep
  <2> QED
    BY <2>1, <2>2
<1>2. CASE Next
  BY <1>2, HostOnce, GuestOnce DEF Next, IInv
<1> QED
  BY <1>1, <1>2

-----------------------------------------------------------------------------
(* The guest as the host sees it *)

\* A seat that somebody has, or an agent drives, has a lease; messages speak of
\* one, and a call that will grant the seat knows to whom.
LeasesAreReal ==
  /\ seat.state = "agent_controlled" \/ seat.owner # NoOwner => seat.lease # None
  /\ call.op = "acquire" => call.owner # NoOwner
  /\ \A m \in net : m.lease # None

\* The way into a call sends the lease of an agent's seat, if it sends anything
\* (revoke_active_input).
LEMMA BarrierLeases ==
  ASSUME TypeOK, LeasesAreReal, NEW c \in Calls, c.op = "acquire" => c.owner # NoOwner,
         NEW next \in {"grant", "vacate", "operations"}, Barrier(c, next),
         UNCHANGED seat
  PROVE  LeasesAreReal'
<1>1. call'.op = c.op /\ call'.owner = c.owner
  BY DEF Barrier, Calls
<1>2. Message("revoke", seat.lease, None).lease = seat.lease
  BY DEF Message
<1>3. QED
  BY <1>1, <1>2 DEF Barrier, LeasesAreReal

\* A call that ends, and messages that nobody waits for, change no lease.
LEMMA OrphanedLeases ==
  ASSUME TypeOK, LeasesAreReal PROVE \A o \in Orphaned : o.lease # None
<1> SUFFICES ASSUME NEW m \in net PROVE [m EXCEPT !.waits = FALSE].lease # None
  BY DEF Orphaned
<1>1. m \in Messages
  BY DEF TypeOK
<1>2. QED
  BY <1>1 DEF Messages, LeasesAreReal

\* The calls under `seats` keep the leases real (acquire_seat, release_seat and
\* the lifecycle calls).
LEMMA HostLeases ==
  ASSUME TypeOK, LeasesAreReal, CallOwnsRow,
         \/ \E r \in Requests, o \in Owners, user \in BOOLEAN : Acquire(r, o, user)
         \/ \E r, l \in Requests : Release(r, l)
         \/ \E r \in Requests, op \in Ops : Lifecycle(r, op)
         \/ HostStep
  PROVE  LeasesAreReal'
<1> USE SeatAssumption
<1>a. call \in Calls
  BY DEF TypeOK
<1>b. NoCall.op # "acquire" /\ Available.state = "available" /\ Available.owner = NoOwner
  BY DEF NoCall, Available
<1>c. \A r \in Requests : r # None
  BY DEF Requests, None
<1>1. ASSUME NEW r \in Requests, NEW o \in Owners, NEW user \in BOOLEAN,
             Acquire(r, o, user)
      PROVE  LeasesAreReal'
  <2> DEFINE c == [NoCall EXCEPT !.op = "acquire", !.req = r, !.owner = o, !.user = user]
  <2>1. c \in Calls /\ c.op = "acquire" /\ c.owner = o /\ o # NoOwner
    BY DEF NoCall, Calls, Answers
  <2>2. [c EXCEPT !.place = "grant"].owner = o
    BY DEF NoCall
  <2>3. UNCHANGED seat
    BY <1>1 DEF Acquire
  <2>4. CASE UNCHANGED <<call, net>>
    BY <2>3, <2>4 DEF LeasesAreReal
  <2>5. CASE Barrier(c, "grant")
    <3> HIDE DEF c
    <3>1. QED
      BY <2>1, <2>3, <2>5, BarrierLeases
  <2>6. CASE call' = [c EXCEPT !.place = "grant"] /\ UNCHANGED net
    BY <2>1, <2>2, <2>3, <2>6 DEF LeasesAreReal
  <2>7. QED
    BY <1>1, <2>4, <2>5, <2>6 DEF Acquire
<1>2. ASSUME NEW r \in Requests, NEW l \in Requests, Release(r, l)
      PROVE  LeasesAreReal'
  <2> DEFINE c == [NoCall EXCEPT !.op = "release", !.req = r]
  <2>1. c \in Calls /\ c.op # "acquire"
    BY DEF NoCall, Calls, Answers
  <2>2. UNCHANGED seat
    BY <1>2 DEF Release
  <2>3. CASE UNCHANGED <<call, net>>
    BY <2>2, <2>3 DEF LeasesAreReal
  <2>4. CASE Barrier(c, "vacate")
    <3> HIDE DEF c
    <3>1. QED
      BY <2>1, <2>2, <2>4, BarrierLeases
  <2>5. QED
    BY <1>2, <2>3, <2>4 DEF Release
<1>3. ASSUME NEW r \in Requests, NEW op \in Ops, Lifecycle(r, op)
      PROVE  LeasesAreReal'
  <2> DEFINE c == [NoCall EXCEPT !.op = op, !.req = r]
  <2>1. c \in Calls /\ c.op # "acquire"
    BY DEF NoCall, Calls, Answers
  <2>2. UNCHANGED seat
    BY <1>3 DEF Lifecycle
  <2>3. CASE call' = [c EXCEPT !.place = "operations"] /\ UNCHANGED net
    <3>1. call'.op # "acquire"
      BY <2>1, <2>3 DEF NoCall
    <3>2. QED
      BY <2>2, <2>3, <3>1 DEF LeasesAreReal
  <2>4. CASE Barrier(c, "operations")
    <3> HIDE DEF c
    <3>1. QED
      BY <2>1, <2>2, <2>4, BarrierLeases
  <2>5. QED
    BY <1>3, <2>3, <2>4 DEF Lifecycle
<1>4. CASE Grant
  <2> DEFINE granted == Granted(call.req, call.owner, call.user)
             msg == Message("activate", granted.lease, None)
  <2>1. call.op = "acquire" /\ call.owner # NoOwner /\ call.req # None
    BY <1>4, <1>c DEF Grant, CallOwnsRow, LeasesAreReal
  <2>2. granted.lease # None
    BY <2>1 DEF Granted, LeasesAreReal
  <2>3. msg.lease = granted.lease
    BY DEF Message
  <2> HIDE DEF granted, msg
  <2>4. CASE call' = NoCall /\ UNCHANGED net /\ seat' \in {seat, granted}
    BY <1>b, <2>2, <2>4 DEF LeasesAreReal
  <2>5. CASE /\ call' = [call EXCEPT !.place = "activate"]
             /\ net' = net \cup {msg} /\ seat' = granted
    <3>1. call'.owner # NoOwner
      BY <1>a, <2>1, <2>5 DEF Calls
    <3>2. QED
      BY <2>2, <2>3, <2>5, <3>1 DEF LeasesAreReal
  <2>6. QED
    BY <1>4, <2>4, <2>5 DEF Grant, granted, msg
<1>5. CASE Activated
  BY <1>b, <1>5 DEF Activated, LeasesAreReal
<1>6. CASE Vacate
  BY <1>b, <1>6 DEF Vacate, LeasesAreReal
<1>7. CASE Revoked
  <2>1. call'.op \in {call.op, NoCall.op} /\ (call'.op = "acquire" => call'.owner = call.owner)
    BY <1>a, <1>b, <1>7 DEF Revoked, Calls
  <2>2. UNCHANGED <<seat, net>>
    BY <1>7 DEF Revoked, hostVars
  <2>3. QED
    BY <1>b, <2>1, <2>2 DEF LeasesAreReal
<1>8. CASE Replayed
  BY <1>b, <1>8 DEF Replayed, hostVars, LeasesAreReal
<1>9. CASE Admit
  <2>1. seat' \in {seat, Available} /\ UNCHANGED net
    BY <1>9 DEF Admit, SwitchProject
  <2>2. call' = NoCall \/ call' = [call EXCEPT !.place = "provider"]
    BY <1>9 DEF Admit
  <2>3. call'.op = "acquire" => call'.owner # NoOwner
    BY <1>a, <1>b, <2>2 DEF Calls, LeasesAreReal
  <2>4. QED
    BY <1>b, <2>1, <2>3 DEF LeasesAreReal
<1>10. CASE Provide \/ ProvideFails
  <2>1. seat' \in {seat, Available} /\ call' = NoCall /\ net' \subseteq net
    BY <1>10 DEF Provide, ProvideFails, Becomes
  <2>2. QED
    BY <1>b, <2>1 DEF LeasesAreReal
<1>11. CASE CallTimeout
  <2>1. call'.op = call.op /\ call'.owner = call.owner
    BY <1>a, <1>11 DEF CallTimeout, Calls
  <2>2. UNCHANGED seat /\ net' = Orphaned
    BY <1>11 DEF CallTimeout, hostVars
  <2>3. QED
    BY <2>1, <2>2, OrphanedLeases DEF LeasesAreReal
<1>12. QED
  BY <1>1, <1>2, <1>3, <1>4, <1>5, <1>6, <1>7, <1>8, <1>9, <1>10, <1>11 DEF HostStep

\* So do actions, the guest and the end of the host.
LEMMA GuestLeases ==
  ASSUME TypeOK, LeasesAreReal,
         \/ \E r, l \in Requests : SemanticAct(r, l)
         \/ ActReturns \/ ActTimeout \/ ActEnds \/ Crash
         \/ \E m \in net : HandleActivate(m) \/ HandleRevoke(m) \/ RevokeEnds(m)
                             \/ HandleAct(m)
  PROVE  LeasesAreReal'
<1>a. call \in Calls /\ net \subseteq Messages
  BY DEF TypeOK
<1>b. NoCall.op # "acquire"
  BY DEF NoCall
<1>1. ASSUME NEW r \in Requests, NEW l \in Requests, SemanticAct(r, l)
      PROVE  LeasesAreReal'
  <2>1. l # None /\ Message("act", l, r).lease = l
    BY DEF Requests, None, Message
  <2>2. UNCHANGED <<seat, call>>
    BY <1>1 DEF SemanticAct
  <2>3. net' \subseteq net \cup {Message("act", l, r)}
    BY <1>1 DEF SemanticAct
  <2>4. QED
    BY <2>1, <2>2, <2>3 DEF LeasesAreReal
<1>2. CASE ActReturns \/ ActTimeout \/ ActEnds
  BY <1>2 DEF ActReturns, ActTimeout, ActEnds, hostVars, LeasesAreReal
<1>3. CASE Crash
  <2>1. UNCHANGED seat /\ call' = NoCall /\ net' = Orphaned
    BY <1>3 DEF Crash
  <2>2. QED
    BY <1>b, <2>1, OrphanedLeases DEF LeasesAreReal
<1>4. ASSUME NEW m \in net,
             HandleActivate(m) \/ HandleRevoke(m) \/ RevokeEnds(m) \/ HandleAct(m)
      PROVE  LeasesAreReal'
  <2>1. UNCHANGED seat
    BY <1>4 DEF HandleActivate, HandleRevoke, RevokeEnds, HandleAct, hostVars
  <2>2. call'.op = call.op /\ call'.owner = call.owner
    BY <1>4, <1>a DEF HandleActivate, HandleRevoke, RevokeEnds, HandleAct, Answer, Calls
  <2>3. [m EXCEPT !.kind = "revoking"].lease = m.lease
    BY <1>a DEF Messages
  <2>4. net' \subseteq net \cup {[m EXCEPT !.kind = "revoking"]}
    BY <1>4 DEF HandleActivate, HandleRevoke, RevokeEnds, HandleAct
  <2>5. QED
    BY <2>1, <2>2, <2>3, <2>4 DEF LeasesAreReal
<1>5. QED
  BY <1>1, <1>2, <1>3, <1>4

\* What the guest does is what one authority may do; a container that is
\* replaced has a new one (input_authority.py, docker stop, start and rm).
LEMMA GuestStep ==
  ASSUME TypeOK, LeasesAreReal, Next
  PROVE  [Authority!Next \/ Authority!Replace]_(Authority!vars)
<1> USE DEF Authority!Next, Authority!vars
<1>a. guest \in Guests /\ net \subseteq Messages
  BY DEF TypeOK
<1>1. ASSUME NEW g \in {FreshGuest(k) : k \in {"running", "stopped", "absent"}},
             guest' = g
      PROVE  Authority!Replace
  BY <1>1 DEF FreshGuest, Authority!Replace, Authority!Init
<1>2. ASSUME NEW m \in net, HandleActivate(m)
      PROVE  (\E l \in Requests : Authority!Activate(l)) \/ UNCHANGED Authority!vars
  <2>1. m.lease \in Requests
    BY <1>a DEF LeasesAreReal, Messages
  <2>2. CASE UNCHANGED guest
    BY <2>2
  <2>3. CASE /\ ~guest.failed /\ ~guest.pending /\ m.lease # guest.lease
             /\ guest.active = None /\ ~guest.live
             /\ guest' = [guest EXCEPT !.lease = m.lease, !.live = TRUE]
    <3>1. Authority!Activate(m.lease)
      BY <1>a, <2>3 DEF Guests, Authority!Activate
    <3>2. QED
      BY <2>1, <3>1
  <2>4. QED
    BY <1>2, <2>2, <2>3 DEF HandleActivate
<1>3. ASSUME NEW m \in net, HandleRevoke(m)
      PROVE  Authority!Revoke \/ UNCHANGED Authority!vars
  <2>1. m.lease # None
    BY DEF LeasesAreReal
  <2>2. QED
    BY <1>a, <1>3, <2>1 DEF HandleRevoke, Guests, Authority!Revoke
<1>4. ASSUME NEW m \in net, RevokeEnds(m)
      PROVE  Authority!Confirm \/ UNCHANGED Authority!vars
  BY <1>a, <1>4 DEF RevokeEnds, Guests, Authority!Confirm
<1>5. ASSUME NEW m \in net, HandleAct(m)
      PROVE  Authority!Begin \/ UNCHANGED Authority!vars
  <2>1. CASE UNCHANGED guest
    BY <2>1
  <2>2. CASE guest.active = None /\ guest.live /\ guest' = [guest EXCEPT !.active = m.req]
    <3>1. guest'.active = m.req /\ UNCHANGED <<guest.lease, guest.live, guest.pending, guest.failed>>
      BY <1>a, <2>2 DEF Guests
    <3>2. QED
      BY <2>2, <3>1 DEF Authority!Begin
  <2>3. QED
    BY <1>5, <2>1, <2>2 DEF HandleAct
<1>6. CASE ActEnds
  <2>1. /\ guest.active # None /\ guest'.active = None
        /\ UNCHANGED <<guest.lease, guest.live, guest.pending>>
        /\ guest'.failed \in {guest.failed, TRUE}
    BY <1>a, <1>6 DEF ActEnds, Guests
  <2>2. QED
    BY <2>1 DEF Authority!Work
<1>7. CASE Provide \/ ProvideFails
  <2>1. guest' \in {guest} \cup {FreshGuest(k) : k \in {"running", "stopped", "absent"}}
    BY <1>7 DEF Provide, ProvideFails, Provided, Becomes
  <2>2. QED
    BY <1>1, <2>1
<1>8. ASSUME UNCHANGED guest PROVE UNCHANGED Authority!vars
  BY <1>8
<1>9. CASE \/ \E r \in Requests, o \in Owners, user \in BOOLEAN : Acquire(r, o, user)
           \/ \E r, l \in Requests : Release(r, l) \/ SemanticAct(r, l)
           \/ \E r \in Requests, op \in Ops : Lifecycle(r, op)
           \/ Grant \/ Activated \/ Vacate \/ Revoked \/ Replayed \/ Admit
           \/ CallTimeout \/ ActReturns \/ ActTimeout \/ Crash
  <2>1. UNCHANGED guest
    BY <1>9 DEF Acquire, Release, SemanticAct, Lifecycle, Grant, Activated, Vacate,
       Revoked, Replayed, Admit, CallTimeout, ActReturns, ActTimeout, Crash
  <2>2. QED
    BY <1>8, <2>1
<1>10. QED
  BY <1>2, <1>3, <1>4, <1>5, <1>6, <1>7, <1>9 DEF Next, HostStep

-----------------------------------------------------------------------------
(* Theorems *)

\* Every variable stays in its type: a request row, the seat, the call under
\* `seats` and what is on its way to the guest (service.rs, journal.rs).
THEOREM TypeCorrect == Spec => []TypeOK
<1>1. IInv => TypeOK
  BY DEF IInv
<1>2. QED
  BY <1>1, InitIInv, NextIInv, PTL DEF Spec

\* Whichever answers are lost and wherever the host ends, an agent can act only
\* under the lease that has the seat, as long as no activation has taken effect
\* after its caller gave up (acquire_seat, release_seat, revoke_active_input).
THEOREM SeatHolderOnly == Spec => []OnlySeatHolderActs
<1>1. IInv => OnlySeatHolderActs
  BY DEF IInv
<1>2. QED
  BY <1>1, InitIInv, NextIInv, PTL DEF Spec

\* The host's journal, the guest and the transport between them implement
\* RequestOnce: whatever is lost, late or repeated and wherever the host ends, an
\* action runs once, a seat is granted once, an outcome is final, and a request
\* that is called failed has granted nothing (journal.rs transactions,
\* recover_incomplete, service.rs calls).
THEOREM SeatRequestsOnce == Spec => ImplementsRequestOnce
<1>1. Init => Once!Init
  <2> SUFFICES ASSUME Init PROVE Once!Init
    OBVIOUS
  <2>1. \A r \in Requests : StatusOf(r) = "new" /\ EffectOf(r) = "none"
    BY DEF Init, StatusOf, EffectOf, OpenPhases
  <2> QED
    BY <2>1 DEF Once!Init
<1>2. IInv /\ OnceInv /\ [Next]_vars => [Once!Next]_(Once!vars)
  <2> SUFFICES ASSUME IInv, OnceInv, [Next]_vars PROVE Once!Next
    OBVIOUS
  <2>1. TypeOK /\ TypeOK'
    BY TypeStep DEF IInv
  <2>2. OnceInv' /\ \A i \in Requests : RowStep(i)
    BY NextOnce
  <2> QED
    BY <2>1, <2>2, RowsRefine DEF OnceInv
<1> QED
  BY <1>1, <1>2, InitOnce, NextOnce, InitIInv, NextIInv, PTL
     DEF Spec, ImplementsRequestOnce, Once!Spec

\* The guest of this module keeps the contract that InputAuthority keeps:
\* whatever messages are late, lost or overtaken by a crash of the host, a
\* revoked lease is only followed by another, which waits for the confirmation,
\* until the container is replaced (provider.rs, input_authority.py).
THEOREM GuestIsAuthority == Spec => ImplementsGuestAuthority
<1>1. Init => OnceInv /\ LeasesAreReal /\ Authority!Init
  <2> SUFFICES ASSUME Init PROVE LeasesAreReal /\ Authority!Init
    BY InitOnce
  <2>1. LeasesAreReal
    BY DEF Init, LeasesAreReal, Available, NoCall
  <2>2. Authority!Init
    BY DEF Init, FreshGuest, Authority!Init
  <2> QED
    BY <2>1, <2>2
<1>2. IInv /\ OnceInv /\ LeasesAreReal /\ [Next]_vars =>
        LeasesAreReal' /\ [Authority!Next \/ Authority!Replace]_(Authority!vars)
  <2> SUFFICES ASSUME IInv, OnceInv, LeasesAreReal, [Next]_vars
               PROVE  /\ LeasesAreReal'
                      /\ [Authority!Next \/ Authority!Replace]_(Authority!vars)
    OBVIOUS
  <2>1. CASE UNCHANGED vars
    BY <2>1 DEF vars, hostVars, LeasesAreReal, Authority!vars
  <2>2. CASE Next
    <3>1. TypeOK /\ CallOwnsRow
      BY DEF IInv, OnceInv
    <3>2. LeasesAreReal'
      BY <2>2, <3>1, HostLeases, GuestLeases DEF Next
    <3> QED
      BY <2>2, <3>1, <3>2, GuestStep
  <2> QED
    BY <2>1, <2>2
<1> QED
  BY <1>1, <1>2, NextOnce, InitIInv, NextIInv, PTL
     DEF Spec, ImplementsGuestAuthority, Authority!ContainerSpec

=============================================================================
