------------------------- MODULE NekoRuntimeProofs -------------------------
(***************************************************************************)
(* What the Neko runtime keeps to, for any number of callers, sessions,     *)
(* requests, queue places and crashes, in three invariants.                 *)
(*                                                                         *)
(* Tokens.  An identity belongs to one thread at a time: to the caller that *)
(* was admitted with it, then to the queue of a session or to a terminal    *)
(* fact that will settle it.                                                *)
(*                                                                         *)
(* Owners.  A provider process belongs to one party at a time: to the start *)
(* that spawned it, the process map, the exit supervisor or kill_all; the   *)
(* tables say of its tree no more than that party knows.                    *)
(*                                                                         *)
(* Outcomes.  What the journal calls completed was done, what it calls      *)
(* failed has left nothing behind, and what still waits in a queue may      *)
(* still happen.  With the first two it gives the step simulation of        *)
(* RequestOnce.                                                             *)
(***************************************************************************)
EXTENDS NekoRuntime, SequenceTheorems, TLAPS

-----------------------------------------------------------------------------
(* Where an identity is.                                                   *)

BeforeSpawn == {"probe", "reject", "unproven", "ready", "accepted", "dispatched", "spawn"}
StartPlaces == BeforeSpawn \cup {"own", "teardown"}
BeforeSend == {"send", "refuse"}
WritePlaces == BeforeSend \cup {"await"}

\* The caller has been admitted with its identity.
Registered(c) == pc[c] \notin {"idle", "cancel"}

Queued(i) == \E s \in Sessions : \E n \in DOMAIN jobs[s] : jobs[s][n] = i

\* The terminal fact will settle the request.
Settles(f, i) == f # NoFact /\ f.outcome # "none" /\ f.request = i

Retains(i) == \E s \in Sessions : Settles(facts[s], i) \/ Settles(pending[s], i)

\* The journal says that the effect of the request may have happened.
EarlyPhases == {"none"} \cup SafePhases
Admitted(i) == phase[i] \notin EarlyPhases

\* What the journal says of an identity while a caller has it, and how often
\* its effect has happened.
PhaseAt(place) ==
  CASE place \in {"probe", "unproven", "ready", "accepted"} -> {"accepted"}
    [] place = "dispatched" -> {"dispatched"}
    [] place = "reject"     -> {"accepted", "dispatched", "side_effect_started"}
    [] place = "teardown"   -> {"side_effect_started", "committed"}
    [] OTHER                -> {"side_effect_started"}

EffectAt(place) ==
  CASE place \in BeforeSpawn \cup BeforeSend \cup {"kill"} -> {0}
    [] place \in {"own", "teardown"}                       -> {1}
    [] OTHER                                               -> {0, 1}

\* The identity is the caller's alone.
HasToken(c, i) ==
  /\ call[i] = cur[c]
  /\ ~Retains(i)
  /\ phase[i] \in PhaseAt(pc[c])
  /\ effects[i] \in EffectAt(pc[c])
  /\ pc[c] \in BeforeSend => ~Queued(i)

CallerOK(c) ==
  /\ pc[c] # "idle" => cur[c] \in Calls
  /\ pc[c] \in StartPlaces => cur[c].method = "start"
  /\ pc[c] \in WritePlaces => cur[c].method = "write"
  /\ pc[c] \in {"cancel", "kill"} => cur[c].method = "cancel"
  /\ \A i \in Ids : Registered(c) /\ Id(c) = i => HasToken(c, i)

IdOK(i) ==
  /\ effects[i] \in {0, 1}
  /\ effects[i] = 1 => Admitted(i)
  /\ call[i] = NoCall => phase[i] = "none" /\ effects[i] = 0 /\ ~Queued(i) /\ ~Retains(i)

\* A queued line belongs to a write of this session that has not been
\* delivered, and is queued once.
LineOK(s, i) ==
  /\ effects[i] = 0
  /\ Admitted(i)
  /\ call[i] \in Calls
  /\ call[i].method = "write"
  /\ call[i].session = s

QueueOK(s) ==
  /\ \A n \in DOMAIN jobs[s] : LineOK(s, jobs[s][n])
  /\ \A n, m \in DOMAIN jobs[s] : jobs[s][n] = jobs[s][m] => n = m

\* No thread runs while the host process is down or recovers.
Asleep ==
  up # "up" => /\ \A c \in Callers : pc[c] = "idle"
               /\ \A s \in Sessions : jobs[s] = <<>> /\ pending[s] = NoFact

OwnersDiffer ==
  \A c, d \in Callers : Registered(c) /\ Registered(d) /\ Id(c) = Id(d) => c = d

Tokens ==
  /\ TypeOK
  /\ Asleep
  /\ \A c \in Callers : CallerOK(c)
  /\ OwnersDiffer
  /\ \A i \in Ids : IdOK(i)
  /\ \A s \in Sessions : QueueOK(s)

-----------------------------------------------------------------------------
(* What the journal's transactions do to the identities.                   *)

OpenPhases == SafePhases \cup UncertainPhases

\* How a request moves: an outcome is final, and no request becomes harmless
\* again.
Advances(p, q) ==
  \/ p = q
  \/ p = "none" /\ q \in SafePhases \cup {"side_effect_started", "failed"}
  \/ p \in OpenPhases /\ q # "none" /\ (q \in SafePhases => p \in SafePhases)

\* The step leaves alone every identity outside of `own`, except that a
\* retained fact may settle its request.
JournalFrame(own) ==
  /\ JournalTypeOK'
  /\ pending' \in [Sessions -> Facts \cup {NoFact}]
  /\ \A i \in Ids : Advances(phase[i], phase'[i])
  /\ \A i \in Ids \ own : /\ call'[i] = call[i]
                          /\ phase'[i] = phase[i] \/ Retains(i)
                          /\ Retains(i)' => Retains(i)

\* What no step takes back: the row of an identity, and how far it has got.
Progress ==
  \A i \in Ids : Advances(phase[i], phase'[i]) /\ (call[i] # NoCall => call'[i] = call[i])

\* A request that was admitted stays so.
LEMMA AdvanceAdmitted ==
  ASSUME NEW p, NEW q, Advances(p, q), p \notin EarlyPhases
  PROVE  q \notin EarlyPhases
  BY DEF Advances, EarlyPhases, OpenPhases, SafePhases, UncertainPhases

\* What the lifecycle of a request permits.
LEMMA LifecycleAdvances ==
  ASSUME NEW p \in OperationPhases \cup {"none"}, NEW q \in OperationPhases,
         CanAdvanceOperation(p, q)
  PROVE  /\ Advances(p, q)
         /\ p # "none"
         /\ q = "committed" => p \in UncertainPhases
  BY DEF CanAdvanceOperation, PhaseSuccessors, Advances, EarlyPhases, OpenPhases,
         SafePhases, UncertainPhases, OperationPhases

\* A fact that is dropped, or kept for its own request, retains no other.
LEMMA RetainsLess ==
  ASSUME NEW i \in Ids, NEW s \in Sessions, NEW f,
         \A t \in Sessions : facts'[t] \in {facts[t], pending[t], NoFact} \/ facts'[t] = f,
         \A t \in Sessions : pending'[t] \in {facts[t], pending[t], NoFact} \/ pending'[t] = f,
         Retains(i)'
  PROVE  Retains(i) \/ Settles(f, i)
  BY DEF Retains, Settles

\* Writing the phase of one request.
LEMMA SetPhaseFrame ==
  ASSUME JournalTypeOK, pending \in [Sessions -> Facts \cup {NoFact}],
         NEW j \in Ids, NEW q \in OperationPhases,
         \/ Advances(phase[j], q) /\ phase' = [phase EXCEPT ![j] = q]
         \/ phase' = phase,
         call' \in [Ids -> Calls \cup {NoCall}],
         \A i \in Ids \ {j} : call'[i] = call[i],
         state' \in [Sessions -> RunStates \cup {"none"}],
         operation' \in [Sessions -> OperationPhases \cup {"none"}],
         UNCHANGED <<facts, pending>>
  PROVE  JournalFrame({j}) /\ \A i \in Ids : Retains(i)' => Retains(i)
<1>1. JournalTypeOK'
  BY DEF JournalTypeOK
<1>2. \A i \in Ids : Advances(phase[i], phase'[i])
  BY DEF JournalTypeOK, Advances
<1>3. \A i \in Ids : Retains(i)' => Retains(i)
  BY DEF Retains, Settles
<1> QED BY <1>1, <1>2, <1>3 DEF JournalFrame, JournalTypeOK

\* The session row may move with the request's.
LEMMA RecordBothFrame ==
  ASSUME JournalTypeOK, pending \in [Sessions -> Facts \cup {NoFact}],
         NEW j \in Ids, NEW s \in Sessions, NEW st \in RunStates,
         NEW q \in OperationPhases,
         RecordBoth(j, s, st, q)
  PROVE  JournalFrame({j}) /\ call' = call
<1>1. JournalTypeOK'
  BY DEF JournalTypeOK, RecordBoth, SetRequestPhase, UpdateSession, sessionTable
<1>2. \A i \in Ids : Advances(phase[i], phase'[i])
  BY LifecycleAdvances DEF JournalTypeOK, RecordBoth, SetRequestPhase, Advances
<1>3. \A i \in Ids : Retains(i)' => Retains(i)
  BY DEF Retains, Settles, RecordBoth, UpdateSession, JournalTypeOK, sessionTable
<1>4. \A i \in Ids \ {j} : phase'[i] = phase[i]
  BY DEF RecordBoth, SetRequestPhase, JournalTypeOK
<1> QED BY <1>1, <1>2, <1>3, <1>4 DEF JournalFrame, RecordBoth

\* A commit moves the request its fact names, and no other.
LEMMA CommitFrame ==
  ASSUME JournalTypeOK, NEW s \in Sessions, NEW f \in Facts, CommitFact(s, f)
  PROVE  /\ phase' \in [Ids -> OperationPhases \cup {"none"}]
         /\ \A i \in Ids : /\ Advances(phase[i], phase'[i])
                           /\ (f.outcome = "none" \/ f.request # i) => phase'[i] = phase[i]
         /\ state' \in [Sessions -> RunStates \cup {"none"}]
         /\ operation' \in [Sessions -> OperationPhases \cup {"none"}]
         /\ facts' = [facts EXCEPT ![s] = NoFact]
<1>1. f.state \in RunStates /\ f.phase \in OperationPhases
  BY DEF Facts, TerminalStates, RunStates
<1>2. CASE f.outcome = "none" /\ UNCHANGED phase
  BY <1>1, <1>2 DEF CommitFact, UpdateSession, JournalTypeOK, Advances
<1>3. CASE /\ f.outcome = "completed"
           /\ phase[f.request] \in UncertainPhases
           /\ phase' = [phase EXCEPT ![f.request] = "completed"]
  BY <1>1, <1>3 DEF CommitFact, UpdateSession, JournalTypeOK, Advances, OpenPhases,
                    UncertainPhases, SafePhases, OperationPhases
<1>4. CASE f.outcome = "failed" /\ SetRequestPhase(f.request, "failed")
  <2>1. \A i \in Ids : Advances(phase[i], phase'[i])
    BY <1>4, LifecycleAdvances
       DEF SetRequestPhase, JournalTypeOK, Advances, OperationPhases
  <2> QED BY <1>1, <1>4, <2>1 DEF CommitFact, UpdateSession, JournalTypeOK, OperationPhases,
                                  SetRequestPhase
<1> QED BY <1>2, <1>3, <1>4 DEF CommitFact, CommitOutcome

\* A fact is committed, or kept.
LEMMA PersistFrame ==
  ASSUME JournalTypeOK, pending \in [Sessions -> Facts \cup {NoFact}],
         NEW s \in Sessions, NEW f \in Facts,
         PersistTerminalFact(s, f)
  PROVE  /\ call' = call
         /\ f.outcome = "none" => JournalFrame({}) /\ phase' = phase
         /\ f.outcome # "none" => JournalFrame({f.request})
<1>1. call' = call
  BY DEF PersistTerminalFact, RetainFact, requestTable
<1>2. /\ facts' \in [Sessions -> Facts \cup {NoFact}]
      /\ pending' \in [Sessions -> Facts \cup {NoFact}]
      /\ \A t \in Sessions : facts'[t] \in {facts[t], NoFact} \/ facts'[t] = f
      /\ \A t \in Sessions : pending'[t] \in {pending[t], NoFact} \/ pending'[t] = f
  BY CommitFrame DEF PersistTerminalFact, RetainFact, JournalTypeOK
<1>3. \A i \in Ids : Retains(i)' => Retains(i) \/ Settles(f, i)
  BY <1>2, RetainsLess
<1>4. /\ phase' \in [Ids -> OperationPhases \cup {"none"}]
      /\ state' \in [Sessions -> RunStates \cup {"none"}]
      /\ operation' \in [Sessions -> OperationPhases \cup {"none"}]
      /\ \A i \in Ids : /\ Advances(phase[i], phase'[i])
                        /\ (f.outcome = "none" \/ f.request # i) => phase'[i] = phase[i]
  <2>1. CASE CommitFact(s, f)
    BY <2>1, CommitFrame
  <2>2. CASE UNCHANGED <<phase, state, operation>>
    BY <2>2 DEF JournalTypeOK, Advances
  <2> QED BY <2>1, <2>2 DEF PersistTerminalFact, RetainFact, requestTable, sessionTable
<1>5. JournalTypeOK'
  BY <1>1, <1>2, <1>4 DEF JournalTypeOK
<1>6. ASSUME f.outcome = "none" PROVE JournalFrame({}) /\ phase' = phase
  <2>1. phase' = phase
    BY <1>4, <1>6 DEF JournalTypeOK
  <2> QED BY <1>1, <1>2, <1>3, <1>4, <1>5, <1>6, <2>1 DEF JournalFrame, Settles
<1>7. ASSUME f.outcome # "none" PROVE JournalFrame({f.request})
  BY <1>1, <1>2, <1>3, <1>4, <1>5 DEF JournalFrame, Settles
<1> QED BY <1>1, <1>6, <1>7

\* A flush settles a request that its fact retains.
LEMMA FlushFrame ==
  ASSUME JournalTypeOK, pending \in [Sessions -> Facts \cup {NoFact}],
         NEW s \in Sessions,
         FlushFact(s) \/ FlushFails(s)
  PROVE  JournalFrame({}) /\ call' = call
<1> DEFINE f == pending[s]
<1>0. f \in Facts /\ f # NoFact
  BY DEF FlushFact, FlushFails
<1> HIDE DEF f
<1>1. call' = call
  BY DEF FlushFact, FlushFails, RetainFact, journalVars, requestTable
<1>2. /\ facts' \in [Sessions -> Facts \cup {NoFact}]
      /\ pending' \in [Sessions -> Facts \cup {NoFact}]
      /\ \A t \in Sessions : facts'[t] \in {facts[t], pending[t], NoFact}
      /\ \A t \in Sessions : pending'[t] \in {pending[t], NoFact}
  BY <1>0, CommitFrame
     DEF f, FlushFact, FlushFails, RetainFact, ReconcileFact, JournalTypeOK, journalVars
<1>3. \A i \in Ids : Retains(i)' => Retains(i)
  BY <1>2 DEF Retains, Settles
<1>4. /\ phase' \in [Ids -> OperationPhases \cup {"none"}]
      /\ state' \in [Sessions -> RunStates \cup {"none"}]
      /\ operation' \in [Sessions -> OperationPhases \cup {"none"}]
      /\ \A i \in Ids : /\ Advances(phase[i], phase'[i])
                        /\ (f.outcome = "none" \/ f.request # i) => phase'[i] = phase[i]
  <2>1. CASE CommitFact(s, f)
    BY <1>0, <2>1, CommitFrame
  <2>2. CASE UNCHANGED <<phase, state, operation>>
    BY <2>2 DEF JournalTypeOK, Advances
  <2>3. CASE ReconcileFact(s, f) /\ UNCHANGED sessionTable
    <3>1. CASE f.outcome = "none"
      BY <2>3, <3>1, <2>2 DEF ReconcileFact, sessionTable
    <3>2. CASE /\ f.outcome \in {"completed", "failed"}
               /\ phase[f.request] \in UncertainPhases \cup {f.outcome}
               /\ phase' = [phase EXCEPT ![f.request] = f.outcome]
      BY <2>3, <3>2 DEF sessionTable, JournalTypeOK, Advances, OpenPhases, UncertainPhases,
                        SafePhases, OperationPhases
    <3> QED BY <1>0, <2>3, <3>1, <3>2 DEF ReconcileFact, Facts
  <2> QED BY <2>1, <2>2, <2>3
          DEF f, FlushFact, FlushFails, RetainFact, journalVars, requestTable, sessionTable
<1>5. JournalTypeOK'
  BY <1>1, <1>2, <1>4 DEF JournalTypeOK
<1>6. \A i \in Ids : f.outcome # "none" /\ f.request = i => Retains(i)
  BY <1>0 DEF f, Retains, Settles
<1> QED BY <1>1, <1>2, <1>3, <1>4, <1>5, <1>6 DEF JournalFrame

\* A termination settles no request.
LEMMA TerminationFrame ==
  ASSUME JournalTypeOK, pending \in [Sessions -> Facts \cup {NoFact}],
         NEW s \in Sessions, NEW f \in Facts, f.outcome = "none",
         RecordTermination(s, f)
  PROVE  JournalFrame({}) /\ call' = call
<1>1. CASE pending' = [pending EXCEPT ![s] = f] /\ UNCHANGED journalVars
  <2>1. \A i \in Ids : Retains(i)' => Retains(i)
    BY <1>1 DEF Retains, Settles, journalVars
  <2> QED BY <1>1, <2>1 DEF JournalFrame, JournalTypeOK, journalVars, requestTable,
                            sessionTable, Advances
<1>2. CASE UNCHANGED <<journalVars, pending>>
  BY <1>2 DEF JournalFrame, JournalTypeOK, journalVars, requestTable, sessionTable,
              Advances, Retains
<1>3. CASE PersistTerminalFact(s, f)
  BY <1>3, PersistFrame
<1> QED BY <1>1, <1>2, <1>3 DEF RecordTermination

\* Nothing of the journal changes.
LEMMA StillFrame ==
  ASSUME JournalTypeOK, pending \in [Sessions -> Facts \cup {NoFact}],
         UNCHANGED <<journalVars, pending>>
  PROVE  JournalFrame({}) /\ call' = call
  BY DEF JournalFrame, JournalTypeOK, journalVars, requestTable, sessionTable,
         Advances, Retains

\* A frame allows less than a wider one.
LEMMA FrameWidens ==
  ASSUME JournalFrame({}), NEW j \in Ids
  PROVE  JournalFrame({j})
  BY DEF JournalFrame

-----------------------------------------------------------------------------
(* A step that leaves the threads, or all of them but one, where they are.  *)

\* The threads that a step does not move.
Rests(d) == pc'[d] = pc[d] /\ cur'[d] = cur[d]

\* A caller that rests keeps its identity.
LEMMA CallerRests ==
  ASSUME Tokens, NEW own \in SUBSET Ids, JournalFrame(own),
         NEW d \in Callers, Rests(d), Registered(d) => Id(d) \notin own,
         \A i \in Ids \ own : effects'[i] = effects[i] /\ (Queued(i)' => Queued(i))
  PROVE  CallerOK(d)'
<1>1. CallerOK(d)
  BY DEF Tokens
<1>2. ASSUME NEW i \in Ids, Registered(d)', (Id(d) = i)'
      PROVE  HasToken(d, i)'
  <2>1. Registered(d) /\ Id(d) = i /\ i \notin own
    BY <1>2 DEF Registered, Id, Rests
  <2>2. HasToken(d, i)
    BY <1>1, <2>1 DEF CallerOK
  <2>3. call'[i] = call[i] /\ phase'[i] = phase[i] /\ ~Retains(i)'
        /\ effects'[i] = effects[i] /\ (Queued(i)' => Queued(i))
    BY <2>1, <2>2 DEF JournalFrame, HasToken
  <2> QED BY <2>2, <2>3 DEF HasToken, Rests
<1> QED BY <1>1, <1>2 DEF CallerOK, Rests

\* So does an identity that is not the step's.
LEMMA IdRests ==
  ASSUME Tokens, NEW own \in SUBSET Ids, JournalFrame(own),
         NEW i \in Ids \ own,
         effects'[i] = effects[i], Queued(i)' => Queued(i)
  PROVE  IdOK(i)'
<1>1. IdOK(i)
  BY DEF Tokens
<1>2. call'[i] = call[i] /\ Advances(phase[i], phase'[i]) /\ (Retains(i)' => Retains(i))
      /\ (phase'[i] = phase[i] \/ Retains(i))
  BY DEF JournalFrame
<1>3. effects'[i] = 1 => Admitted(i)'
  BY <1>1, <1>2, AdvanceAdmitted DEF IdOK, Admitted
<1> QED BY <1>1, <1>2, <1>3 DEF IdOK

\* And a queue.
LEMMA QueueRests ==
  ASSUME Tokens, NEW own \in SUBSET Ids, JournalFrame(own), NEW s \in Sessions,
         jobs'[s] = jobs[s],
         \A i \in Ids : i \in own => call'[i] = call[i] \/ call[i] = NoCall,
         \A i \in Ids : Queued(i) => effects'[i] = effects[i]
  PROVE  QueueOK(s)'
<1>1. QueueOK(s)
  BY DEF Tokens
<1>2. ASSUME NEW n \in DOMAIN jobs[s] PROVE LineOK(s, jobs[s][n])'
  <2> DEFINE i == jobs[s][n]
  <2>1. i \in Ids /\ Queued(i) /\ LineOK(s, i)
    BY <1>1 DEF Tokens, TypeOK, Queued, QueueOK
  <2>2. jobs'[s][n] = i
    OBVIOUS
  <2> HIDE DEF i
  <2>3. call'[i] = call[i]
    BY <2>1, JournalAssumption DEF JournalFrame, LineOK
  <2>4. Advances(phase[i], phase'[i]) /\ effects'[i] = effects[i]
    BY <2>1 DEF JournalFrame
  <2>5. phase'[i] \notin EarlyPhases
    BY <2>1, <2>4, AdvanceAdmitted DEF LineOK, Admitted
  <2> QED BY <2>1, <2>2, <2>3, <2>4, <2>5 DEF LineOK, Admitted
<1> QED BY <1>1, <1>2 DEF QueueOK

\* Queues that do not change hold the same lines.
LEMMA QueuesRest ==
  ASSUME jobs' = jobs, NEW i PROVE Queued(i)' = Queued(i)
  BY DEF Queued

\* A step of the runtime's own threads.
LEMMA SessionMoves ==
  ASSUME Tokens, TypeOK', Asleep', JournalFrame({}), UNCHANGED <<pc, cur, jobs, effects>>
  PROVE  Tokens' /\ Progress
<1>1. \A d \in Callers : CallerOK(d)'
  BY CallerRests, QueuesRest DEF Rests
<1>2. \A i \in Ids : IdOK(i)'
  BY IdRests, QueuesRest
<1>3. \A s \in Sessions : QueueOK(s)'
  BY QueueRests
<1>4. OwnersDiffer'
  BY DEF Tokens, OwnersDiffer, Registered, Id
<1>5. Progress
  BY DEF JournalFrame, Progress
<1> QED BY <1>1, <1>2, <1>3, <1>4, <1>5 DEF Tokens

\* A step of one caller.
LEMMA CallerMoves ==
  ASSUME Tokens, TypeOK', Asleep', NEW c \in Callers, NEW j \in Ids,
         JournalFrame({j}),
         call'[j] = call[j] \/ call[j] = NoCall,
         \A d \in Callers \ {c} : Rests(d) /\ (Registered(d) => Id(d) # j),
         jobs' = jobs,
         \A i \in Ids \ {j} : effects'[i] = effects[i],
         Queued(j) => effects'[j] = effects[j],
         Registered(c)' => Id(c)' = j,
         CallerOK(c)', IdOK(j)'
  PROVE  Tokens' /\ Progress
<1>1. \A d \in Callers : CallerOK(d)'
  BY CallerRests, QueuesRest
<1>2. \A i \in Ids : IdOK(i)'
  BY IdRests, QueuesRest
<1>3. \A s \in Sessions : QueueOK(s)'
  BY QueueRests
<1>4. OwnersDiffer'
  BY DEF Tokens, OwnersDiffer, Registered, Id, Rests
<1>5. Progress
  BY DEF JournalFrame, Progress
<1> QED BY <1>1, <1>2, <1>3, <1>4, <1>5 DEF Tokens

\* Nobody else has the identity of a registered caller, nor a new one.
LEMMA OwnersDistinct ==
  ASSUME Tokens, NEW c \in Callers, NEW j \in Ids,
         (Registered(c) /\ Id(c) = j) \/ call[j] = NoCall
  PROVE  \A d \in Callers \ {c} : Registered(d) => Id(d) # j
<1> SUFFICES ASSUME NEW d \in Callers \ {c}, Registered(d), Id(d) = j PROVE FALSE
  OBVIOUS
<1>1. CallerOK(d)
  BY DEF Tokens
<1>2. call[j] \in Calls
  BY <1>1 DEF CallerOK, Registered, HasToken
<1> QED BY <1>2, JournalAssumption DEF Tokens, OwnersDiffer

\* What a registered caller knows of its call.
LEMMA TokenFacts ==
  ASSUME Tokens, NEW c \in Callers, Registered(c)
  PROVE  /\ cur[c] \in Calls /\ Id(c) \in Ids /\ Session(c) \in Sessions
         /\ HasToken(c, Id(c)) /\ IdOK(Id(c))
<1>1. cur[c] \in Calls
  BY DEF Tokens, CallerOK, Registered
<1>2. Id(c) \in Ids /\ Session(c) \in Sessions
  BY <1>1, JournalAssumption DEF Id, Session
<1> QED BY <1>1, <1>2 DEF Tokens, CallerOK

\* The types of what is not the journal's.
MemoryTypeOK ==
  /\ up \in {"down", "sessions", "requests", "up"}
  /\ operations \in Callers \cup {NoCaller, "kill_all"}
  /\ processes \subseteq Sessions
  /\ supervisions \subseteq Sessions
  /\ pc \in [Callers -> {"idle", "cancel", "kill"} \cup StartPlaces \cup WritePlaces]
  /\ cur \in [Callers -> Calls \cup {NoCall}]
  /\ monitor \in [Sessions -> {"off", "watching", "exiting", "proven", "unproven"}]
  /\ reader \subseteq Sessions
  /\ writer \subseteq Sessions
  /\ jobs \in [Sessions -> Seq(Ids)]
  /\ \A s \in Sessions : Len(jobs[s]) <= QueueCapacity
  /\ answer \in [Ids -> {"none", "ok", "error"}]
  /\ quit \in {"no", "killing", "flushing", "done"}
  /\ todo \subseteq Sessions
  /\ tree \in [Sessions -> {"none", "alive", "dead"}]
  /\ effects \in [Ids -> Nat]
  /\ proven \subseteq Sessions
  /\ crashes \in 0 .. MaxCrashes

\* The type of the tables, of the facts in memory and of everything else.
LEMMA TypeParts ==
  /\ TypeOK <=> (/\ JournalTypeOK /\ MemoryTypeOK
                 /\ pending \in [Sessions -> Facts \cup {NoFact}])
  /\ TypeOK' <=> (/\ JournalTypeOK' /\ MemoryTypeOK'
                  /\ pending' \in [Sessions -> Facts \cup {NoFact}])
<1>1. {"idle", "cancel", "kill"} \cup StartPlaces \cup WritePlaces
        = {"idle", "probe", "reject", "unproven", "ready", "accepted", "dispatched", "spawn",
           "own", "teardown", "send", "refuse", "await", "cancel", "kill"}
  BY DEF StartPlaces, WritePlaces, BeforeSpawn, BeforeSend
<1> QED BY <1>1 DEF TypeOK, MemoryTypeOK

-----------------------------------------------------------------------------
(* The steps of the runtime's own threads.                                 *)

\* The host process runs before and after the step.
LEMMA AwakeStep == ASSUME up = "up", up' = up PROVE Asleep'
  BY DEF Asleep

\* A termination keeps the types of the trees and of what is proven.
LEMMA TerminateTypes ==
  ASSUME MemoryTypeOK, NEW s \in Sessions, NEW ok \in BOOLEAN, Terminate(s, ok)
  PROVE  tree' \in [Sessions -> {"none", "alive", "dead"}] /\ proven' \subseteq Sessions
<1>1. CASE tree' = [tree EXCEPT ![s] = "dead"] /\ proven' = proven \cup {s}
  BY <1>1 DEF MemoryTypeOK
<1>2. CASE UNCHANGED <<tree, proven>>
  BY <1>2 DEF MemoryTypeOK
<1> QED BY <1>1, <1>2 DEF Terminate

\* list_sessions: a waiting fact settles its own request only.
LEMMA ListFlushTokens ==
  ASSUME Tokens, NEW s \in Sessions, ListFlush(s)
  PROVE  Tokens' /\ Progress
<1>1. JournalFrame({})
  BY FlushFrame, TypeParts DEF Tokens, ListFlush
<1>2. MemoryTypeOK'
  BY TypeParts DEF Tokens, MemoryTypeOK, ListFlush, threadVars, ownerVars, writerVars, quitVars,
                   worldVars, hostVars
<1>3. Asleep'
  BY AwakeStep DEF ListFlush, Free, hostVars
<1> QED BY <1>1, <1>2, <1>3, TypeParts, SessionMoves
        DEF JournalFrame, ListFlush, threadVars, writerVars, worldVars

\* poll_process_exit writes no request.
LEMMA MonitorPollTokens ==
  ASSUME Tokens, NEW s \in Sessions, MonitorPoll(s)
  PROVE  Tokens' /\ Progress
<1>1. JournalFrame({})
  BY StillFrame, TypeParts DEF Tokens, MonitorPoll
<1>2. MemoryTypeOK'
  BY TypeParts DEF Tokens, MemoryTypeOK, MonitorPoll, threadVars, writerVars, quitVars,
                   worldVars, hostVars
<1>3. Asleep'
  BY AwakeStep DEF MonitorPoll, Free, hostVars
<1> QED BY <1>1, <1>2, <1>3, TypeParts, SessionMoves
        DEF JournalFrame, MonitorPoll, threadVars, writerVars, worldVars

\* The supervised teardown writes no request.
LEMMA MonitorTerminateTokens ==
  ASSUME Tokens, NEW s \in Sessions, MonitorTerminate(s)
  PROVE  Tokens' /\ Progress
<1>1. JournalFrame({})
  BY StillFrame, TypeParts DEF Tokens, MonitorTerminate
<1>2. MemoryTypeOK'
  <2>1. monitor' \in [Sessions -> {"off", "watching", "exiting", "proven", "unproven"}]
    <3>1. \E p \in {"proven", "unproven"} : monitor' = [monitor EXCEPT ![s] = p]
      BY DEF MonitorTerminate
    <3> QED BY <3>1, TypeParts DEF Tokens, MemoryTypeOK
  <2>2. tree' \in [Sessions -> {"none", "alive", "dead"}] /\ proven' \subseteq Sessions
    BY TypeParts, TerminateTypes DEF Tokens, MemoryTypeOK, MonitorTerminate
  <2> QED BY <2>1, <2>2, TypeParts
          DEF Tokens, MemoryTypeOK, MonitorTerminate, threadVars, writerVars, quitVars, hostVars
<1>3. Asleep'
  BY AwakeStep DEF MonitorTerminate, hostVars
<1> QED BY <1>1, <1>2, <1>3, TypeParts, SessionMoves
        DEF JournalFrame, MonitorTerminate, threadVars, writerVars

\* The fact of a supervised exit names no request.
LEMMA MonitorCommitTokens ==
  ASSUME Tokens, NEW s \in Sessions, MonitorCommit(s)
  PROVE  Tokens' /\ Progress
<1> DEFINE ok == (monitor[s] = "proven")
<1>0. ok \in BOOLEAN /\ RecordTermination(s, TerminationFact(ok))
  BY DEF MonitorCommit
<1> HIDE DEF ok
<1>1. JournalFrame({})
  <2>1. JournalTypeOK /\ pending \in [Sessions -> Facts \cup {NoFact}]
    BY TypeParts DEF Tokens
  <2>2. TerminationFact(ok) \in Facts /\ TerminationFact(ok).outcome = "none"
    BY <1>0 DEF TerminationFact, Fact, Facts, TerminalStates, OperationPhases
  <2> QED BY <1>0, <2>1, <2>2, TerminationFrame
<1>2. MemoryTypeOK'
  BY TypeParts DEF Tokens, MemoryTypeOK, MonitorCommit, threadVars, writerVars,
                   quitVars, worldVars, hostVars
<1>3. Asleep'
  BY AwakeStep DEF MonitorCommit, Free, hostVars
<1> QED BY <1>1, <1>2, <1>3, TypeParts, SessionMoves
        DEF JournalFrame, MonitorCommit, threadVars, writerVars, worldVars

\* Nor does the fact of a protocol failure.
LEMMA ProtocolFailureTokens ==
  ASSUME Tokens, NEW s \in Sessions, ProtocolFailure(s)
  PROVE  Tokens' /\ Progress
<1>0. JournalTypeOK /\ pending \in [Sessions -> Facts \cup {NoFact}]
  BY TypeParts DEF Tokens
<1>1. JournalFrame({})
  <2>1. CASE UNCHANGED <<journalVars, pending>>
    BY <1>0, <2>1, StillFrame
  <2>2. ASSUME NEW ok \in BOOLEAN, RecordTermination(s, TerminationFact(ok))
        PROVE  JournalFrame({})
    <3>1. TerminationFact(ok) \in Facts /\ TerminationFact(ok).outcome = "none"
      BY DEF TerminationFact, Fact, Facts, TerminalStates, OperationPhases
    <3> QED BY <1>0, <2>2, <3>1, TerminationFrame
  <2> QED BY <2>1, <2>2 DEF ProtocolFailure
<1>2. MemoryTypeOK'
  BY TypeParts DEF Tokens, MemoryTypeOK, ProtocolFailure, Terminate, threadVars, writerVars,
                   quitVars, hostVars
<1>3. Asleep'
  BY AwakeStep DEF ProtocolFailure, Free, hostVars
<1> QED BY <1>1, <1>2, <1>3, TypeParts, SessionMoves
        DEF JournalFrame, ProtocolFailure, threadVars, writerVars

\* Nor does the fact kill_all records.
LEMMA QuitKillTokens ==
  ASSUME Tokens, NEW s \in Sessions, QuitKill(s)
  PROVE  Tokens' /\ Progress
<1>0. JournalTypeOK /\ pending \in [Sessions -> Facts \cup {NoFact}]
  BY TypeParts DEF Tokens
<1>1. JournalFrame({})
  <2>1. CASE UNCHANGED <<journalVars, pending>>
    BY <1>0, <2>1, StillFrame
  <2>2. ASSUME NEW ok \in BOOLEAN, PersistTerminalFact(s, ShutdownFact(ok))
        PROVE  JournalFrame({})
    <3>1. ShutdownFact(ok) \in Facts /\ ShutdownFact(ok).outcome = "none"
      BY DEF ShutdownFact, Fact, Facts, TerminalStates, OperationPhases
    <3> QED BY <1>0, <2>2, <3>1, PersistFrame
  <2> QED BY <2>1, <2>2 DEF QuitKill
<1>2. MemoryTypeOK'
  BY TypeParts DEF Tokens, MemoryTypeOK, QuitKill, Terminate, threadVars, ownerVars, writerVars,
                   quitVars, hostVars
<1>3. Asleep'
  BY AwakeStep DEF QuitKill, Free, hostVars
<1> QED BY <1>1, <1>2, <1>3, TypeParts, SessionMoves
        DEF JournalFrame, QuitKill, threadVars, writerVars

\* The flush of kill_all is the flush of list_sessions.
LEMMA QuitFlushTokens ==
  ASSUME Tokens, NEW s \in Sessions, QuitFlush(s)
  PROVE  Tokens' /\ Progress
<1>1. JournalFrame({})
  BY FlushFrame, TypeParts DEF Tokens, QuitFlush
<1>2. MemoryTypeOK'
  BY TypeParts DEF Tokens, MemoryTypeOK, QuitFlush, threadVars, ownerVars, writerVars,
                   worldVars, hostVars
<1>3. Asleep'
  BY AwakeStep DEF QuitFlush, hostVars
<1> QED BY <1>1, <1>2, <1>3, TypeParts, SessionMoves
        DEF JournalFrame, QuitFlush, threadVars, writerVars, worldVars

\* The other steps of kill_all write nothing.
LEMMA QuitTokens ==
  ASSUME Tokens, QuitDrain \/ QuitJoin \/ QuitDone
  PROVE  Tokens' /\ Progress
<1>1. JournalFrame({})
  BY StillFrame, TypeParts DEF Tokens, QuitDrain, QuitJoin, QuitDone
<1>2. MemoryTypeOK'
  BY TypeParts DEF Tokens, MemoryTypeOK, QuitDrain, QuitJoin, QuitDone, threadVars, ownerVars,
                   writerVars, worldVars, hostVars
<1>3. Asleep'
  BY AwakeStep DEF QuitDrain, QuitJoin, QuitDone, Free, hostVars
<1> QED BY <1>1, <1>2, <1>3, TypeParts, SessionMoves
        DEF JournalFrame, QuitDrain, QuitJoin, QuitDone, threadVars, writerVars, worldVars

\* The end of a provider is no step of the runtime.
LEMMA TreeDiesTokens ==
  ASSUME Tokens, NEW s \in Sessions, TreeDies(s)
  PROVE  Tokens' /\ Progress
<1>1. JournalFrame({})
  BY StillFrame, TypeParts DEF Tokens, TreeDies, memoryVars
<1>2. MemoryTypeOK'
  BY TypeParts DEF Tokens, MemoryTypeOK, TreeDies, memoryVars, threadVars, ownerVars, writerVars,
                   quitVars, hostVars
<1>3. Asleep'
  BY DEF Tokens, Asleep, TreeDies, memoryVars, threadVars, writerVars, hostVars
<1> QED BY <1>1, <1>2, <1>3, TypeParts, SessionMoves
        DEF JournalFrame, TreeDies, memoryVars, threadVars, writerVars

-----------------------------------------------------------------------------
(* The end of the host process and its next start.                         *)

\* A step after which no caller runs and no line is queued.
LEMMA SleepMoves ==
  ASSUME Tokens, TypeOK', Asleep', call' = call, effects' = effects,
         \A i \in Ids : /\ Advances(phase[i], phase'[i])
                        /\ phase[i] = "none" => phase'[i] = "none"
                        /\ Retains(i)' => Retains(i),
         \A c \in Callers : pc'[c] = "idle",
         \A s \in Sessions : jobs'[s] = <<>>
  PROVE  Tokens' /\ Progress
<1>1. \A d \in Callers : CallerOK(d)'
  BY DEF CallerOK, Registered, StartPlaces, WritePlaces, BeforeSpawn, BeforeSend
<1>2. ASSUME NEW i \in Ids PROVE IdOK(i)'
  <2>1. IdOK(i)
    BY DEF Tokens
  <2>2. ~Queued(i)'
    BY DEF Queued
  <2>3. effects'[i] = 1 => Admitted(i)'
    BY <2>1, AdvanceAdmitted DEF IdOK, Admitted
  <2> QED BY <2>1, <2>2, <2>3 DEF IdOK
<1>3. \A s \in Sessions : QueueOK(s)'
  BY DEF QueueOK
<1>4. OwnersDiffer'
  BY DEF OwnersDiffer, Registered
<1>5. Progress
  BY DEF Progress
<1> QED BY <1>1, <1>2, <1>3, <1>4, <1>5 DEF Tokens

\* A crash takes every identity from its caller, and empties the queues.
LEMMA CrashTokens ==
  ASSUME Tokens, Crash
  PROVE  Tokens' /\ Progress
<1>1. JournalTypeOK'
  BY TypeParts DEF Tokens, Crash, JournalTypeOK, journalVars, requestTable, sessionTable
<1>2. MemoryTypeOK'
  <2>1. crashes' \in 0 .. MaxCrashes
    BY TypeParts, RuntimeAssumption DEF Tokens, MemoryTypeOK, Crash
  <2>2. \A s \in Sessions : jobs'[s] \in Seq(Ids) /\ Len(jobs'[s]) <= QueueCapacity
    BY RuntimeAssumption DEF Crash
  <2>3. jobs' \in [Sessions -> Seq(Ids)]
    BY <2>2 DEF Crash
  <2> QED BY <2>1, <2>2, <2>3, TypeParts DEF Tokens, MemoryTypeOK, Crash
<1>3. pending' \in [Sessions -> Facts \cup {NoFact}] /\ Asleep'
  BY DEF Crash, Asleep
<1>4. \A i \in Ids : Retains(i)' => Retains(i)
  BY DEF Retains, Settles, Crash, journalVars
<1>5. \A i \in Ids : phase'[i] = phase[i] /\ Advances(phase[i], phase'[i])
  BY DEF Crash, journalVars, requestTable, Advances
<1>6. \A s \in Sessions : jobs'[s] = <<>>
  BY DEF Crash
<1>7. \A c \in Callers : pc'[c] = "idle"
  BY DEF Crash
<1> QED BY <1>1, <1>2, <1>3, <1>4, <1>5, <1>6, <1>7, TypeParts, SleepMoves
        DEF Crash, journalVars, requestTable

\* The recovery advances open rows that no fact settles.
LEMMA RecoverTokens ==
  ASSUME Tokens, Recover
  PROVE  Tokens' /\ Progress
<1>0. /\ JournalTypeOK /\ MemoryTypeOK /\ up # "up"
      /\ pending \in [Sessions -> Facts \cup {NoFact}]
      /\ \A c \in Callers : pc[c] = "idle"
      /\ \A s \in Sessions : jobs[s] = <<>> /\ pending[s] = NoFact
  BY TypeParts DEF Tokens, Asleep, Recover, Boot, RecoverSession, RecoverRequests, OpenRuntime
<1>1. UNCHANGED <<operations, pc, cur, ownerVars, writerVars, quitVars, worldVars, crashes, call>>
  BY DEF Recover, Boot, RecoverSession, RecoverRequests, OpenRuntime, memoryVars, threadVars,
         hostVars, journalVars, requestTable
<1>2. MemoryTypeOK'
  BY <1>0, <1>1
     DEF MemoryTypeOK, ownerVars, writerVars, quitVars, worldVars, Recover, Boot,
         RecoverSession, RecoverRequests, OpenRuntime, hostVars
<1>3. /\ pending' \in [Sessions -> Facts \cup {NoFact}]
      /\ \A t \in Sessions : pending'[t] = pending[t] \/ (pending'[t] = facts[t] /\ up' = "up")
  BY <1>0 DEF Recover, Boot, RecoverSession, RecoverRequests, OpenRuntime, memoryVars,
              JournalTypeOK
<1>4. Asleep'
  BY <1>0, <1>1, <1>3 DEF Asleep, writerVars
<1>5. /\ facts' \in [Sessions -> Facts \cup {NoFact}]
      /\ \A t \in Sessions : facts'[t] \in {facts[t], NoFact}
  BY <1>0 DEF Recover, Boot, RecoverSession, RecoverRequests, OpenRuntime, journalVars,
              JournalTypeOK, RecoverSessionRow, UpdateSession
<1>6. \A i \in Ids : Retains(i)' => Retains(i)
  BY <1>3, <1>5 DEF Retains, Settles
<1>7. /\ phase' \in [Ids -> OperationPhases \cup {"none"}]
      /\ \A i \in Ids : /\ Advances(phase[i], phase'[i])
                        /\ phase[i] = "none" => phase'[i] = "none"
  <2>1. CASE phase' = phase
    BY <1>0, <2>1 DEF JournalTypeOK, Advances
  <2>2. CASE RecoverRequestRows(SafePhases, "failed")
    BY <1>0, <2>2 DEF JournalTypeOK, Advances, RecoverRequestRows, OpenPhases, SafePhases,
                      UncertainPhases, OperationPhases
  <2>3. CASE RecoverRequestRows(UncertainPhases, "unknown_outcome")
    BY <1>0, <2>3 DEF JournalTypeOK, Advances, RecoverRequestRows, OpenPhases, SafePhases,
                      UncertainPhases, OperationPhases
  <2> QED BY <2>1, <2>2, <2>3
          DEF Recover, Boot, RecoverSession, RecoverRequests, OpenRuntime, journalVars,
              requestTable
<1>8. /\ state' \in [Sessions -> RunStates \cup {"none"}]
      /\ operation' \in [Sessions -> OperationPhases \cup {"none"}]
  <2>1. CASE UNCHANGED sessionTable
    BY <1>0, <2>1 DEF JournalTypeOK, sessionTable
  <2>2. ASSUME NEW s \in Sessions, RecoverSessionRow(s)
        PROVE  /\ state' \in [Sessions -> RunStates \cup {"none"}]
               /\ operation' \in [Sessions -> OperationPhases \cup {"none"}]
    <3>1. RecoveredPhase(s) \in OperationPhases \cup {"none"}
      BY <1>0 DEF JournalTypeOK, RecoveredPhase, RecoveryDisposition, OperationPhases, SafePhases,
                  UncertainPhases
    <3> QED BY <1>0, <2>2, <3>1 DEF RecoverSessionRow, UpdateSession, JournalTypeOK, RunStates
  <2> QED BY <2>1, <2>2
          DEF Recover, Boot, RecoverSession, RecoverRequests, OpenRuntime, journalVars
<1>9. JournalTypeOK'
  BY <1>0, <1>1, <1>5, <1>7, <1>8 DEF JournalTypeOK
<1> QED BY <1>0, <1>1, <1>2, <1>3, <1>4, <1>6, <1>7, <1>9, TypeParts, SleepMoves
        DEF writerVars, worldVars

-----------------------------------------------------------------------------
(* The writer threads.                                                     *)

\* The writer takes the first line, which may have its effect now.
LEMMA LineTaken ==
  ASSUME Tokens, TypeOK', Asleep', NEW s \in Sessions, jobs[s] # <<>>,
         UNCHANGED <<journalVars, pending, pc, cur>>,
         \A t \in Sessions \ {s} : jobs'[t] = jobs[t],
         \A n \in DOMAIN jobs'[s] : /\ n \in 1 .. Len(jobs[s]) /\ n + 1 \in 1 .. Len(jobs[s])
                                    /\ jobs'[s][n] = jobs[s][n + 1],
         \/ effects' = effects
         \/ effects' = [effects EXCEPT ![Head(jobs[s])] = @ + 1]
  PROVE  Tokens' /\ Progress
<1> PICK i : i = Head(jobs[s])
  OBVIOUS
<1>1. /\ jobs[s] \in Seq(Ids) /\ effects \in [Ids -> Nat] /\ JournalTypeOK
      /\ pending \in [Sessions -> Facts \cup {NoFact}]
  BY TypeParts DEF Tokens, MemoryTypeOK
<1>2. 1 \in DOMAIN jobs[s] /\ jobs[s][1] = i /\ i \in Ids /\ DOMAIN jobs[s] = 1 .. Len(jobs[s])
  BY <1>1
<1>3. LineOK(s, i) /\ IdOK(i)
  BY <1>2 DEF Tokens, QueueOK
<1>4. /\ \A k \in Ids \ {i} : effects'[k] = effects[k]
      /\ effects'[i] \in {0, 1}
  BY <1>1, <1>2, <1>3 DEF LineOK
<1>5. \A k : Queued(k)' => Queued(k)
  <2> SUFFICES ASSUME NEW k, NEW t \in Sessions, NEW n \in DOMAIN jobs'[t], jobs'[t][n] = k
               PROVE  Queued(k)
    BY DEF Queued
  <2> QED BY <1>2 DEF Queued
<1>6. JournalFrame({}) /\ JournalFrame({i})
  BY <1>1, <1>2, StillFrame, FrameWidens
<1>7. UNCHANGED <<call, phase>>
  BY DEF journalVars, requestTable
<1>8. ASSUME NEW d \in Callers PROVE CallerOK(d)'
  <2>1. CASE ~(Registered(d) /\ Id(d) = i)
    BY <1>2, <1>4, <1>5, <1>6, <2>1, CallerRests DEF Rests
  <2>2. CASE Registered(d) /\ Id(d) = i
    <3>1. CallerOK(d) /\ HasToken(d, i)
      BY <1>2, <2>2 DEF Tokens, CallerOK
    <3>2. Queued(i)
      BY <1>2 DEF Queued
    <3>3. pc[d] = "await"
      BY <1>3, <2>2, <3>1, <3>2, TypeParts
         DEF CallerOK, HasToken, Registered, LineOK, StartPlaces, WritePlaces, BeforeSend,
             Tokens, MemoryTypeOK
    <3>4. ~Retains(i)'
      BY <1>2, <3>1 DEF Retains, journalVars, HasToken
    <3>5. HasToken(d, i)'
      BY <1>4, <1>7, <3>1, <3>3, <3>4
         DEF HasToken, PhaseAt, EffectAt, BeforeSpawn, BeforeSend
    <3>6. \A k \in Ids : Registered(d)' /\ (Id(d) = k)' => k = i
      BY <2>2 DEF Id
    <3> QED BY <3>1, <3>3, <3>5, <3>6 DEF CallerOK
  <2> QED BY <2>1, <2>2
<1>9. ASSUME NEW k \in Ids PROVE IdOK(k)'
  <2>1. CASE k # i
    BY <1>2, <1>4, <1>5, <1>6, <2>1, IdRests
  <2>2. CASE k = i
    <3>1. call[i] # NoCall
      BY <1>3, JournalAssumption DEF LineOK
    <3> QED BY <1>3, <1>4, <1>7, <2>2, <3>1 DEF IdOK, LineOK, Admitted
  <2> QED BY <2>1, <2>2
<1>10. ASSUME NEW t \in Sessions PROVE QueueOK(t)'
  <2>1. QueueOK(t)
    BY DEF Tokens
  <2>2. CASE t # s
    <3>1. ASSUME NEW n \in DOMAIN jobs[t] PROVE LineOK(t, jobs[t][n])'
      <4>1. LineOK(t, jobs[t][n]) /\ jobs[t][n] # i /\ jobs[t][n] \in Ids
        BY <1>3, <2>1, <2>2, <3>1, TypeParts DEF QueueOK, LineOK, Tokens, MemoryTypeOK
      <4>2. jobs'[t][n] = jobs[t][n]
        BY <2>2
      <4> QED BY <1>4, <1>7, <4>1, <4>2 DEF LineOK, Admitted
    <3> QED BY <2>1, <2>2, <3>1 DEF QueueOK
  <2>3. CASE t = s
    <3>1. ASSUME NEW n \in DOMAIN jobs'[s] PROVE LineOK(s, jobs[s][n])'
      <4> PICK k : k = jobs[s][n + 1]
        OBVIOUS
      <4>1. /\ n + 1 \in DOMAIN jobs[s] /\ n + 1 # 1
            /\ LineOK(s, k) /\ k # i /\ k \in Ids
        BY <1>1, <1>2, <2>1, <2>3, <3>1 DEF QueueOK
      <4>2. jobs'[s][n] = k
        BY <3>1
      <4>3. effects'[k] = effects[k]
        BY <1>4, <4>1
      <4>4. LineOK(s, k)'
        BY <1>7, <4>1, <4>3 DEF LineOK, Admitted
      <4> QED BY <4>2, <4>4 DEF LineOK, Admitted
    <3>2. \A n, m \in DOMAIN jobs'[s] : jobs'[s][n] = jobs'[s][m] => n = m
      BY <1>2, <2>1, <2>3 DEF QueueOK
    <3> QED BY <2>3, <3>1, <3>2 DEF QueueOK
  <2> QED BY <2>2, <2>3
<1>11. OwnersDiffer'
  BY DEF Tokens, OwnersDiffer, Registered, Id
<1>12. Progress
  BY <1>7 DEF Progress, Advances
<1> QED BY <1>8, <1>9, <1>10, <1>11, <1>12 DEF Tokens

\* The writer takes lines from the front of its queue only.
LEMMA WriterTokens ==
  ASSUME Tokens, NEW s \in Sessions, WriterDelivers(s) \/ WriterFails(s)
  PROVE  Tokens' /\ Progress
<1>0. /\ JournalTypeOK /\ MemoryTypeOK /\ pending \in [Sessions -> Facts \cup {NoFact}]
      /\ jobs[s] \in Seq(Ids) /\ jobs[s] # <<>> /\ Head(jobs[s]) \in Ids
      /\ \A t \in Sessions : Len(jobs[t]) \in Nat /\ Len(jobs[t]) <= QueueCapacity
      /\ effects \in [Ids -> Nat]
  BY TypeParts DEF Tokens, MemoryTypeOK, WriterDelivers, WriterFails
<1>1. UNCHANGED <<journalVars, threadVars, pending, up, crashes, ownerVars, quitVars, tree, proven>>
  BY DEF WriterDelivers, WriterFails, hostVars
<1>2. \E q \in {Tail(jobs[s]), <<>>} : jobs' = [jobs EXCEPT ![s] = q]
  BY DEF WriterDelivers, WriterFails
<1>3. \A q \in {Tail(jobs[s]), <<>>} :
         /\ q \in Seq(Ids) /\ Len(q) <= QueueCapacity
         /\ \A n \in DOMAIN q : /\ n \in 1 .. Len(jobs[s]) /\ n + 1 \in 1 .. Len(jobs[s])
                                /\ q[n] = jobs[s][n + 1]
  <2>1. Tail(jobs[s]) \in Seq(Ids) /\ Len(Tail(jobs[s])) = Len(jobs[s]) - 1
        /\ \A n \in 1 .. Len(Tail(jobs[s])) : Tail(jobs[s])[n] = jobs[s][n + 1]
    BY <1>0
  <2>2. Len(jobs[s]) \in Nat /\ Len(jobs[s]) <= QueueCapacity /\ QueueCapacity \in Nat
    BY <1>0, RuntimeAssumption
  <2>3. /\ Len(Tail(jobs[s])) <= QueueCapacity
        /\ \A n \in DOMAIN Tail(jobs[s]) :
             n \in 1 .. Len(jobs[s]) /\ n + 1 \in 1 .. Len(jobs[s])
    BY <2>1, <2>2
  <2>4. /\ <<>> \in Seq(Ids) /\ Len(<<>>) <= QueueCapacity
        /\ \A n \in DOMAIN <<>> : FALSE
    BY <2>2
  <2> SUFFICES ASSUME NEW q \in {Tail(jobs[s]), <<>>}
               PROVE  /\ q \in Seq(Ids) /\ Len(q) <= QueueCapacity
                      /\ \A n \in DOMAIN q : /\ n \in 1 .. Len(jobs[s])
                                             /\ n + 1 \in 1 .. Len(jobs[s])
                                             /\ q[n] = jobs[s][n + 1]
    OBVIOUS
  <2>5. CASE q = Tail(jobs[s])
    <3>1. DOMAIN q = 1 .. Len(Tail(jobs[s]))
      BY <2>1, <2>5
    <3> QED BY <2>1, <2>3, <2>5, <3>1
  <2>6. CASE q = <<>>
    BY <2>4, <2>6
  <2> QED BY <2>5, <2>6
<1>4. \/ effects' = effects
      \/ effects' = [effects EXCEPT ![Head(jobs[s])] = @ + 1]
  BY DEF WriterDelivers, WriterFails
<1>5. effects' \in [Ids -> Nat]
  BY <1>0, <1>4
<1>6. answer' \in [Ids -> {"none", "ok", "error"}] /\ writer' \subseteq Sessions
  <2>1. answer \in [Ids -> {"none", "ok", "error"}] /\ writer \subseteq Sessions
    BY <1>0 DEF MemoryTypeOK
  <2>2. CASE WriterDelivers(s)
    BY <2>1, <2>2 DEF WriterDelivers
  <2>3. CASE WriterFails(s)
    BY <2>1, <2>3 DEF WriterFails
  <2> QED BY <2>2, <2>3
<1>7. /\ jobs' \in [Sessions -> Seq(Ids)]
      /\ \A t \in Sessions : Len(jobs'[t]) <= QueueCapacity
      /\ \A t \in Sessions \ {s} : jobs'[t] = jobs[t]
      /\ \A n \in DOMAIN jobs'[s] : /\ n \in 1 .. Len(jobs[s]) /\ n + 1 \in 1 .. Len(jobs[s])
                                    /\ jobs'[s][n] = jobs[s][n + 1]
  <2> PICK q \in {Tail(jobs[s]), <<>>} : jobs' = [jobs EXCEPT ![s] = q]
    BY <1>2
  <2>1. jobs \in [Sessions -> Seq(Ids)] /\ q \in Seq(Ids) /\ Len(q) <= QueueCapacity
    BY <1>0, <1>3 DEF MemoryTypeOK
  <2>2. jobs'[s] = q /\ \A t \in Sessions \ {s} : jobs'[t] = jobs[t]
    BY <2>1
  <2> QED BY <1>0, <1>3, <2>1, <2>2
<1>8. MemoryTypeOK'
  BY <1>0, <1>1, <1>5, <1>6, <1>7 DEF MemoryTypeOK, threadVars, ownerVars, quitVars
<1>9. TypeOK' /\ Asleep'
  BY <1>0, <1>1, <1>8, TypeParts, AwakeStep
     DEF WriterDelivers, WriterFails, JournalTypeOK, journalVars, requestTable, sessionTable
<1> QED BY <1>0, <1>1, <1>4, <1>7, <1>9, LineTaken DEF threadVars

-----------------------------------------------------------------------------
(* The steps of a caller.                                                  *)

\* The call returns: its identity is nobody's any more.
LEMMA ReturnTokens ==
  ASSUME Tokens, NEW c \in Callers, Registered(c), NEW j \in Ids, j = Id(c),
         up = "up", up' = up, MemoryTypeOK', JournalFrame({j}), call' = call,
         Return(c), UNCHANGED <<jobs, effects>>
  PROVE  Tokens' /\ Progress
<1>0. pc \in [Callers -> {"idle", "cancel", "kill"} \cup StartPlaces \cup WritePlaces]
      /\ cur \in [Callers -> Calls \cup {NoCall}]
  BY TypeParts DEF Tokens, MemoryTypeOK
<1>1. TypeOK' /\ Asleep'
  BY TypeParts, AwakeStep DEF JournalFrame
<1>2. HasToken(c, j) /\ IdOK(j) /\ cur[c] \in Calls
  BY TokenFacts
<1>3. \A d \in Callers \ {c} : Rests(d) /\ (Registered(d) => Id(d) # j)
  BY <1>0, OwnersDistinct DEF Return, Rests
<1>4. pc'[c] = "idle"
  BY <1>0 DEF Return
<1>5. CallerOK(c)'
  BY <1>4 DEF CallerOK, Registered, StartPlaces, WritePlaces, BeforeSpawn, BeforeSend
<1>6. IdOK(j)'
  <2>1. Advances(phase[j], phase'[j]) /\ call'[j] # NoCall
    BY <1>2, JournalAssumption DEF JournalFrame, HasToken
  <2>2. effects'[j] = 1 => Admitted(j)'
    BY <1>2, <2>1, AdvanceAdmitted DEF IdOK, Admitted
  <2> QED BY <1>2, <2>1, <2>2 DEF IdOK
<1>7. ~Registered(c)'
  BY <1>4 DEF Registered
<1> QED BY <1>1, <1>3, <1>5, <1>6, <1>7, CallerMoves

\* The call goes on, at another place of the same method.
LEMMA GotoTokens ==
  ASSUME Tokens, NEW c \in Callers, Registered(c), NEW j \in Ids, j = Id(c),
         NEW place \in StartPlaces \cup WritePlaces,
         pc[c] \in StartPlaces <=> place \in StartPlaces,
         place \in BeforeSend => pc[c] \in BeforeSend,
         pc[c] # "kill",
         up = "up", up' = up, MemoryTypeOK', JournalFrame({j}), call' = call,
         Retains(j)' => Retains(j),
         phase'[j] \in PhaseAt(place), effects'[j] \in EffectAt(place),
         effects'[j] = 1 => phase'[j] \notin EarlyPhases,
         \A i \in Ids \ {j} : effects'[i] = effects[i],
         Queued(j) => effects'[j] = effects[j],
         Goto(c, place), jobs' = jobs
  PROVE  Tokens' /\ Progress
<1>0. pc \in [Callers -> {"idle", "cancel", "kill"} \cup StartPlaces \cup WritePlaces]
      /\ cur \in [Callers -> Calls \cup {NoCall}]
  BY TypeParts DEF Tokens, MemoryTypeOK
<1>1. TypeOK' /\ Asleep'
  BY TypeParts, AwakeStep DEF JournalFrame
<1>2. HasToken(c, j) /\ IdOK(j) /\ cur[c] \in Calls /\ CallerOK(c)
  BY TokenFacts DEF Tokens
<1>3. \A d \in Callers \ {c} : Rests(d) /\ (Registered(d) => Id(d) # j)
  BY <1>0, OwnersDistinct DEF Goto, Rests
<1>4. pc'[c] = place /\ cur'[c] = cur[c]
  BY <1>0 DEF Goto
<1>5. Id(c)' = j
  BY <1>4 DEF Id
<1>6. HasToken(c, j)'
  BY <1>2, <1>4, QueuesRest DEF HasToken
<1>7. pc[c] \in StartPlaces \/ pc[c] \in WritePlaces
  BY <1>0 DEF Registered
<1>8. CallerOK(c)'
  <2>1. /\ cur'[c] \in Calls
        /\ place \in StartPlaces => cur'[c].method = "start"
        /\ place \in WritePlaces => cur'[c].method = "write"
        /\ place \notin {"cancel", "kill"}
    BY <1>2, <1>4, <1>7
       DEF CallerOK, StartPlaces, WritePlaces, BeforeSpawn, BeforeSend, Registered
  <2> QED BY <1>4, <1>5, <1>6, <2>1 DEF CallerOK
<1>9. IdOK(j)'
  <2>1. call'[j] # NoCall
    BY <1>2, JournalAssumption DEF HasToken
  <2>2. effects'[j] \in {0, 1}
    BY DEF EffectAt
  <2> QED BY <2>1, <2>2 DEF IdOK, Admitted
<1> QED BY <1>1, <1>3, <1>5, <1>8, <1>9, CallerMoves

\* What a caller at a place knows.
LEMMA AtPlace ==
  ASSUME Tokens, NEW c \in Callers, Registered(c)
  PROVE  /\ JournalTypeOK /\ MemoryTypeOK /\ pending \in [Sessions -> Facts \cup {NoFact}]
         /\ Id(c) \in Ids /\ Session(c) \in Sessions /\ cur[c] \in Calls
         /\ call[Id(c)] = cur[c] /\ ~Retains(Id(c))
         /\ phase[Id(c)] \in PhaseAt(pc[c]) /\ effects[Id(c)] \in EffectAt(pc[c])
         /\ pc[c] \in StartPlaces => cur[c].method = "start"
         /\ pc[c] \in WritePlaces => cur[c].method = "write"
<1>1. HasToken(c, Id(c)) /\ CallerOK(c)
  BY TokenFacts DEF Tokens
<1> QED BY <1>1, TokenFacts, TypeParts DEF HasToken, CallerOK, Tokens

\* What the mutex and the places of the callers have as types.
LEMMA ThreadTypes ==
  ASSUME MemoryTypeOK, NEW c \in Callers,
         NEW place \in {"idle", "cancel", "kill"} \cup StartPlaces \cup WritePlaces,
         \/ Return(c)
         \/ Goto(c, place) /\ operations' \in {operations, c}
         \/ \E k \in Calls : Enter(c, k, place) /\ operations' \in {operations, c}
  PROVE  /\ pc' \in [Callers -> {"idle", "cancel", "kill"} \cup StartPlaces \cup WritePlaces]
         /\ cur' \in [Callers -> Calls \cup {NoCall}]
         /\ operations' \in Callers \cup {NoCaller, "kill_all"}
<1>1. CASE Return(c)
  BY <1>1 DEF Return, MemoryTypeOK
<1>2. CASE Goto(c, place) /\ operations' \in {operations, c}
  BY <1>2 DEF Goto, MemoryTypeOK
<1>3. CASE \E k \in Calls : Enter(c, k, place) /\ operations' \in {operations, c}
  BY <1>3 DEF Enter, MemoryTypeOK
<1> QED BY <1>1, <1>2, <1>3

\* The probe keeps the identity of its start.
LEMMA ProbeTokens ==
  ASSUME Tokens, NEW c \in Callers, Probe(c)
  PROVE  Tokens' /\ Progress
<1> PICK place \in {"ready", "reject", "unproven"} : Goto(c, place)
  BY DEF Probe
<1> PICK j : j = Id(c)
  OBVIOUS
<1>0. Registered(c) /\ pc[c] = "probe"
  BY DEF Probe, Registered
<1>1. /\ JournalTypeOK /\ MemoryTypeOK /\ pending \in [Sessions -> Facts \cup {NoFact}]
      /\ j \in Ids /\ phase[j] \in PhaseAt("probe") /\ effects[j] \in EffectAt("probe")
  BY <1>0, AtPlace
<1>2. phase[j] = "accepted" /\ effects[j] = 0
  BY <1>1 DEF PhaseAt, EffectAt, BeforeSpawn
<1>3. JournalFrame({j}) /\ call' = call /\ phase' = phase
  BY <1>1, StillFrame, FrameWidens DEF Probe, journalVars, requestTable
<1>4. Retains(j)' => Retains(j)
  BY DEF Retains, Probe, journalVars
<1>5. MemoryTypeOK'
  <2>1. operations' = operations
    BY DEF Probe
  <2>2. place \in StartPlaces
    BY DEF StartPlaces, BeforeSpawn
  <2> QED BY <1>1, <2>1, <2>2, ThreadTypes
          DEF Probe, MemoryTypeOK, ownerVars, writerVars, quitVars, hostVars
<1>6. /\ place \in StartPlaces /\ place \notin BeforeSend /\ pc[c] \in StartPlaces
      /\ phase'[j] \in PhaseAt(place) /\ effects'[j] \in EffectAt(place)
      /\ effects' = effects
  BY <1>0, <1>2, <1>3 DEF StartPlaces, BeforeSpawn, BeforeSend, PhaseAt, EffectAt, Probe
<1> QED BY <1>0, <1>1, <1>2, <1>3, <1>4, <1>5, <1>6, GotoTokens DEF Probe, hostVars, writerVars

\* A start that is rejected gives its identity up.
LEMMA RecordBothTokens ==
  ASSUME Tokens, NEW c \in Callers, ProbeUnproven(c) \/ RejectStart(c)
  PROVE  Tokens' /\ Progress
<1> PICK j : j = Id(c)
  OBVIOUS
<1>0. Registered(c)
  BY DEF ProbeUnproven, RejectStart, Registered
<1>1. /\ JournalTypeOK /\ MemoryTypeOK /\ pending \in [Sessions -> Facts \cup {NoFact}]
      /\ j \in Ids /\ Session(c) \in Sessions
  BY <1>0, AtPlace
<1>2. JournalFrame({j}) /\ call' = call
  <2>1. \E st \in {"unknown_outcome", "failed"} : RecordBoth(j, Session(c), st, st)
    BY DEF ProbeUnproven, RejectStart, MarkTerminationUnknown
  <2> QED BY <1>1, <2>1, RecordBothFrame DEF RunStates, OperationPhases
<1>3. UNCHANGED <<ownerVars, writerVars, quitVars, worldVars, hostVars>> /\ Return(c) /\ up = "up"
  BY DEF ProbeUnproven, RejectStart, Free, Holds
<1>4. MemoryTypeOK'
  BY <1>1, <1>3, ThreadTypes
     DEF MemoryTypeOK, ownerVars, writerVars, quitVars, worldVars, hostVars
<1> QED BY <1>0, <1>1, <1>2, <1>3, <1>4, ReturnTokens DEF hostVars, writerVars, worldVars

\* The dispatch keeps the identity, or fails it.
LEMMA DispatchTokens ==
  ASSUME Tokens, NEW c \in Callers, Dispatch(c)
  PROVE  Tokens' /\ Progress
<1> PICK j : j = Id(c)
  OBVIOUS
<1>0. Registered(c) /\ pc[c] = "ready" /\ up = "up"
  BY DEF Dispatch, Registered, Free
<1>1. /\ JournalTypeOK /\ MemoryTypeOK /\ pending \in [Sessions -> Facts \cup {NoFact}]
      /\ j \in Ids /\ Session(c) \in Sessions
      /\ phase[j] = "accepted" /\ effects[j] = 0
  BY <1>0, AtPlace DEF PhaseAt, EffectAt, BeforeSpawn
<1>2. UNCHANGED <<call, sessionTable, facts, ownerVars, writerVars, quitVars, pending,
                  worldVars, hostVars>>
  BY DEF Dispatch
<1>3. JournalFrame({j}) /\ (Retains(j)' => Retains(j))
  <2>1. \/ Advances(phase[j], "failed") /\ phase' = [phase EXCEPT ![j] = "failed"]
        \/ phase' = phase
    BY <1>1, LifecycleAdvances DEF Dispatch, FailRequest, SetRequestPhase, OperationPhases
  <2> QED BY <1>1, <1>2, <2>1, SetPhaseFrame DEF sessionTable, JournalTypeOK, OperationPhases
<1>4. Return(c) \/ \E place \in {"reject", "accepted"} : Keep(c, place) /\ phase' = phase
  BY DEF Dispatch
<1>5. MemoryTypeOK'
  <2>1. \A place \in {"reject", "accepted"} : place \in StartPlaces
    BY DEF StartPlaces, BeforeSpawn
  <2> QED BY <1>1, <1>2, <1>4, <2>1, ThreadTypes
          DEF MemoryTypeOK, ownerVars, writerVars, quitVars, worldVars, hostVars, Keep
<1>6. CASE Return(c)
  BY <1>0, <1>1, <1>2, <1>3, <1>5, <1>6, ReturnTokens DEF hostVars, writerVars, worldVars
<1>7. ASSUME NEW place \in {"reject", "accepted"}, Keep(c, place), phase' = phase
      PROVE  Tokens' /\ Progress
  <2>1. /\ place \in StartPlaces /\ place \notin BeforeSend /\ pc[c] \in StartPlaces
        /\ phase'[j] \in PhaseAt(place) /\ effects'[j] \in EffectAt(place)
        /\ effects' = effects
    BY <1>0, <1>1, <1>2, <1>7
       DEF StartPlaces, BeforeSpawn, BeforeSend, PhaseAt, EffectAt, worldVars
  <2> QED BY <1>0, <1>1, <1>2, <1>3, <1>5, <1>7, <2>1, GotoTokens DEF hostVars, writerVars, Keep
<1> QED BY <1>4, <1>6, <1>7

\* advance_start_phase moves the identity with the place of the start.
LEMMA AdvanceTokens ==
  ASSUME Tokens, NEW c \in Callers,
         \/ AdvanceStart(c, "accepted", "dispatched", "dispatched")
         \/ AdvanceStart(c, "dispatched", "side_effect_started", "spawn")
  PROVE  Tokens' /\ Progress
<1> PICK j : j = Id(c)
  OBVIOUS
<1>0. Registered(c) /\ pc[c] \in {"accepted", "dispatched"} /\ up = "up"
  BY DEF AdvanceStart, Registered, Holds
<1>1. /\ JournalTypeOK /\ MemoryTypeOK /\ pending \in [Sessions -> Facts \cup {NoFact}]
      /\ j \in Ids /\ Session(c) \in Sessions
      /\ phase[j] = pc[c] /\ effects[j] = 0
  BY <1>0, AtPlace DEF PhaseAt, EffectAt, BeforeSpawn
<1>2. UNCHANGED <<call, state, facts, ownerVars, writerVars, quitVars, pending,
                  worldVars, hostVars>>
  BY DEF AdvanceStart
<1>3. operation' \in [Sessions -> OperationPhases \cup {"none"}]
  BY <1>1 DEF AdvanceStart, SetSessionPhase, JournalTypeOK, OperationPhases
<1>4. \E to \in OperationPhases :
         \/ Advances(phase[j], to) /\ phase' = [phase EXCEPT ![j] = to]
         \/ phase' = phase
  BY <1>1, LifecycleAdvances DEF AdvanceStart, SetRequestPhase, OperationPhases
<1>5. JournalFrame({j}) /\ (Retains(j)' => Retains(j))
  BY <1>1, <1>2, <1>3, <1>4, SetPhaseFrame DEF JournalTypeOK
<1>6. \E place \in {"dispatched", "spawn", "reject"} :
         Keep(c, place) /\ phase'[j] \in PhaseAt(place)
  <2>1. phase \in [Ids -> OperationPhases \cup {"none"}]
    BY <1>1 DEF JournalTypeOK
  <2>2. CASE AdvanceStart(c, "accepted", "dispatched", "dispatched")
    BY <1>1, <2>1, <2>2 DEF AdvanceStart, SetRequestPhase, PhaseAt
  <2>3. CASE AdvanceStart(c, "dispatched", "side_effect_started", "spawn")
    BY <1>1, <2>1, <2>3 DEF AdvanceStart, SetRequestPhase, PhaseAt
  <2> QED BY <2>2, <2>3
<1> PICK place \in {"dispatched", "spawn", "reject"} : /\ Keep(c, place)
                                                     /\ phase'[j] \in PhaseAt(place)
  BY <1>6
<1>7. /\ place \in StartPlaces /\ place \notin BeforeSend /\ pc[c] \in StartPlaces
      /\ effects'[j] \in EffectAt(place) /\ effects' = effects /\ pc[c] # "kill"
  BY <1>0, <1>1, <1>2 DEF StartPlaces, BeforeSpawn, BeforeSend, EffectAt, worldVars
<1>8. MemoryTypeOK'
  BY <1>1, <1>2, <1>7, ThreadTypes
     DEF MemoryTypeOK, ownerVars, writerVars, quitVars, worldVars, hostVars, Keep
<1> QED BY <1>0, <1>1, <1>2, <1>5, <1>7, <1>8, GotoTokens DEF hostVars, writerVars, Keep

\* A queued line is a write.
LEMMA QueuedWrites ==
  ASSUME Tokens, NEW i \in Ids, Queued(i)
  PROVE  call[i] \in Calls /\ call[i].method = "write" /\ effects[i] = 0
  BY DEF Tokens, Queued, QueueOK, LineOK

\* The spawn is the first effect of its identity.
LEMMA SpawnTokens ==
  ASSUME Tokens, NEW c \in Callers, Spawn(c)
  PROVE  Tokens' /\ Progress
<1> PICK j : j = Id(c)
  OBVIOUS
<1>0. Registered(c) /\ pc[c] = "spawn" /\ up = "up"
  BY DEF Spawn, Registered, Holds
<1>1. /\ JournalTypeOK /\ MemoryTypeOK /\ pending \in [Sessions -> Facts \cup {NoFact}]
      /\ j \in Ids /\ Session(c) \in Sessions /\ call[j].method = "start"
      /\ phase[j] = "side_effect_started" /\ effects[j] = 0
  BY <1>0, AtPlace DEF PhaseAt, EffectAt, StartPlaces, BeforeSpawn
<1>2. JournalFrame({j}) /\ call' = call /\ phase' = phase
  BY <1>1, StillFrame, FrameWidens DEF Spawn, journalVars, requestTable
<1>3. Retains(j)' => Retains(j)
  BY DEF Retains, Spawn, journalVars
<1>4. effects \in [Ids -> Nat] /\ tree \in [Sessions -> {"none", "alive", "dead"}]
  BY <1>1 DEF MemoryTypeOK
<1>5. \E place \in {"reject", "own", "teardown"} :
         /\ Keep(c, place)
         /\ \/ place = "reject" /\ effects' = effects
            \/ place # "reject" /\ effects' = [effects EXCEPT ![j] = 1]
  BY <1>1, <1>4 DEF Spawn
<1> PICK place \in {"reject", "own", "teardown"} :
         /\ Keep(c, place)
         /\ \/ place = "reject" /\ effects' = effects
            \/ place # "reject" /\ effects' = [effects EXCEPT ![j] = 1]
  BY <1>5
<1>6. /\ place \in StartPlaces /\ place \notin BeforeSend /\ pc[c] \in StartPlaces
      /\ phase'[j] \in PhaseAt(place) /\ phase'[j] \notin EarlyPhases
  BY <1>0, <1>1, <1>2
     DEF StartPlaces, BeforeSpawn, BeforeSend, PhaseAt, EarlyPhases, SafePhases
<1>7. /\ effects'[j] \in EffectAt(place)
      /\ \A i \in Ids \ {j} : effects'[i] = effects[i]
  BY <1>1, <1>4 DEF EffectAt, BeforeSpawn, BeforeSend
<1>8. ~Queued(j)
  BY <1>1, QueuedWrites
<1>9. MemoryTypeOK'
  <2>1. /\ processes' \subseteq Sessions /\ writer' \subseteq Sessions
        /\ tree' \in [Sessions -> {"none", "alive", "dead"}]
    BY <1>1, <1>4 DEF Spawn, MemoryTypeOK
  <2>2. effects' \in [Ids -> Nat]
    BY <1>4
  <2> QED BY <1>1, <1>6, <2>1, <2>2, ThreadTypes DEF MemoryTypeOK, Spawn, quitVars, hostVars, Keep
<1> QED BY <1>0, <1>1, <1>2, <1>3, <1>6, <1>7, <1>8, <1>9, GotoTokens DEF Spawn, hostVars, Keep

\* The ownership commit completes the identity, or keeps it for the teardown.
LEMMA OwnTokens ==
  ASSUME Tokens, NEW c \in Callers, Own(c)
  PROVE  Tokens' /\ Progress
<1> PICK j : j = Id(c)
  OBVIOUS
<1>0. Registered(c) /\ pc[c] = "own" /\ up = "up"
  BY DEF Own, Registered, Holds
<1>1. /\ JournalTypeOK /\ MemoryTypeOK /\ pending \in [Sessions -> Facts \cup {NoFact}]
      /\ j \in Ids /\ Session(c) \in Sessions
      /\ phase[j] = "side_effect_started" /\ effects[j] = 1
  BY <1>0, AtPlace DEF PhaseAt, EffectAt, BeforeSpawn, BeforeSend
<1>2. UNCHANGED <<call, processes, supervisions, writerVars, quitVars, pending, worldVars, hostVars>>
  BY DEF Own
<1>3. /\ state' \in [Sessions -> RunStates \cup {"none"}]
      /\ operation' \in [Sessions -> OperationPhases \cup {"none"}]
      /\ facts' \in [Sessions -> Facts \cup {NoFact}]
      /\ \A t \in Sessions : facts'[t] \in {facts[t], NoFact}
  BY <1>1 DEF Own, UpdateSession, JournalTypeOK, sessionTable, RunStates, OperationPhases
<1>4. \A i \in Ids : Retains(i)' => Retains(i)
  BY <1>2, <1>3 DEF Retains, Settles
<1>5. /\ phase' \in [Ids -> OperationPhases \cup {"none"}]
      /\ \A i \in Ids \ {j} : phase'[i] = phase[i]
      /\ phase'[j] \in {"side_effect_started", "committed", "completed"}
      /\ Return(c) \/ (Keep(c, "teardown") /\ phase'[j] # "completed")
  BY <1>1 DEF Own, SetRequestPhase, JournalTypeOK, OperationPhases
<1>6. JournalFrame({j})
  <2>1. \A i \in Ids : Advances(phase[i], phase'[i])
    BY <1>1, <1>5 DEF Advances, OpenPhases, SafePhases, UncertainPhases
  <2>2. JournalTypeOK'
    BY <1>1, <1>2, <1>3, <1>5 DEF JournalTypeOK
  <2> QED BY <1>1, <1>2, <1>4, <1>5, <2>1, <2>2 DEF JournalFrame
<1>7. MemoryTypeOK'
  <2>1. /\ monitor' \in [Sessions -> {"off", "watching", "exiting", "proven", "unproven"}]
        /\ reader' \subseteq Sessions
    BY <1>1 DEF MemoryTypeOK, Own
  <2>2. "teardown" \in StartPlaces
    BY DEF StartPlaces
  <2> QED BY <1>1, <1>2, <1>5, <2>1, <2>2, ThreadTypes
          DEF MemoryTypeOK, writerVars, quitVars, worldVars, hostVars, Keep
<1>8. CASE Return(c)
  BY <1>0, <1>1, <1>2, <1>6, <1>7, <1>8, ReturnTokens DEF hostVars, writerVars, worldVars
<1>9. CASE Keep(c, "teardown") /\ phase'[j] # "completed"
  <2>1. /\ "teardown" \in StartPlaces /\ "teardown" \notin BeforeSend /\ pc[c] \in StartPlaces
        /\ phase'[j] \in PhaseAt("teardown") /\ effects'[j] \in EffectAt("teardown")
        /\ effects' = effects /\ phase'[j] \notin EarlyPhases
    BY <1>0, <1>1, <1>2, <1>5, <1>9
       DEF StartPlaces, BeforeSpawn, BeforeSend, PhaseAt, EffectAt, worldVars, EarlyPhases,
           SafePhases
  <2> QED BY <1>0, <1>1, <1>2, <1>4, <1>6, <1>7, <1>9, <2>1, GotoTokens
          DEF hostVars, writerVars, Keep
<1> QED BY <1>5, <1>8, <1>9

\* The teardown leaves the identity to a fact, or to nobody.
LEMMA TeardownTokens ==
  ASSUME Tokens, NEW c \in Callers, Teardown(c)
  PROVE  Tokens' /\ Progress
<1> PICK j : j = Id(c)
  OBVIOUS
<1>0. Registered(c) /\ up = "up" /\ Return(c)
  BY DEF Teardown, Registered, Holds
<1>1. /\ JournalTypeOK /\ MemoryTypeOK /\ pending \in [Sessions -> Facts \cup {NoFact}]
      /\ j \in Ids /\ Session(c) \in Sessions
  BY <1>0, AtPlace
<1>2. PICK ok \in BOOLEAN :
         /\ Terminate(Session(c), ok)
         /\ IF ok THEN PersistTerminalFact(Session(c), RejectedFact(j))
                  ELSE MarkTerminationUnknown(j, Session(c))
  BY DEF Teardown
<1>3. JournalFrame({j}) /\ call' = call
  <2>1. CASE PersistTerminalFact(Session(c), RejectedFact(j))
    <3>1. /\ RejectedFact(j) \in Facts /\ RejectedFact(j).outcome # "none"
          /\ RejectedFact(j).request = j
      BY <1>1 DEF RejectedFact, Fact, Facts, TerminalStates, OperationPhases
    <3> QED BY <1>1, <2>1, <3>1, PersistFrame
  <2>2. CASE MarkTerminationUnknown(j, Session(c))
    BY <1>1, <2>2, RecordBothFrame DEF MarkTerminationUnknown, RunStates, OperationPhases
  <2> QED BY <1>2, <2>1, <2>2
<1>4. MemoryTypeOK'
  BY <1>0, <1>1, <1>2, ThreadTypes, TerminateTypes
     DEF MemoryTypeOK, Teardown, writerVars, quitVars, hostVars
<1> QED BY <1>0, <1>1, <1>3, <1>4, ReturnTokens DEF Teardown, hostVars, writerVars

\* A write that is refused or answered gives its identity up.
LEMMA WriteEndTokens ==
  ASSUME Tokens, NEW c \in Callers, WriteRefuse(c) \/ WriteResult(c)
  PROVE  Tokens' /\ Progress
<1> PICK j : j = Id(c)
  OBVIOUS
<1>0. /\ Registered(c) /\ up = "up" /\ Return(c) /\ pc[c] \in {"refuse", "await"}
      /\ UNCHANGED <<call, sessionTable, facts, ownerVars, writerVars, quitVars, pending,
                     worldVars, hostVars>>
  BY DEF WriteRefuse, WriteResult, Registered, Free
<1>1. /\ JournalTypeOK /\ MemoryTypeOK /\ pending \in [Sessions -> Facts \cup {NoFact}]
      /\ j \in Ids /\ phase[j] = "side_effect_started"
  BY <1>0, AtPlace DEF PhaseAt
<1>2. \E q \in OperationPhases :
         \/ Advances(phase[j], q) /\ phase' = [phase EXCEPT ![j] = q]
         \/ phase' = phase
  <2>1. \/ \E q \in {"failed", "unknown_outcome", "committed", "completed"} :
             phase' = [phase EXCEPT ![j] = q]
        \/ phase' = phase
    BY DEF WriteRefuse, WriteResult, FailRequest, MarkRequestUnknown, SetRequestPhase
  <2> QED BY <1>1, <2>1 DEF Advances, OpenPhases, SafePhases, UncertainPhases, OperationPhases
<1>3. JournalFrame({j})
  BY <1>0, <1>1, <1>2, SetPhaseFrame DEF JournalTypeOK, sessionTable
<1>4. MemoryTypeOK'
  BY <1>0, <1>1, ThreadTypes
     DEF MemoryTypeOK, ownerVars, writerVars, quitVars, worldVars, hostVars
<1> QED BY <1>0, <1>1, <1>3, <1>4, ReturnTokens DEF hostVars, writerVars, worldVars

\* The end of a cancellation leaves its identity to a fact, or to nobody.
LEMMA CancelKillTokens ==
  ASSUME Tokens, NEW c \in Callers, CancelKill(c)
  PROVE  Tokens' /\ Progress
<1> PICK j : j = Id(c)
  OBVIOUS
<1>0. Registered(c) /\ up = "up" /\ Return(c) /\ pc[c] = "kill"
  BY DEF CancelKill, Registered, Holds
<1>1. /\ JournalTypeOK /\ MemoryTypeOK /\ pending \in [Sessions -> Facts \cup {NoFact}]
      /\ j \in Ids /\ Session(c) \in Sessions /\ phase[j] = "side_effect_started"
  BY <1>0, AtPlace DEF PhaseAt
<1>2. RecordCancelled(j, Session(c)) \/ MarkTerminationUnknown(j, Session(c))
  BY DEF CancelKill
<1>3. JournalFrame({j}) /\ call' = call
  <2>1. CASE MarkTerminationUnknown(j, Session(c))
    BY <1>1, <2>1, RecordBothFrame DEF MarkTerminationUnknown, RunStates, OperationPhases
  <2>2. CASE PersistTerminalFact(Session(c), CancelledFact(j))
    <3>1. /\ CancelledFact(j) \in Facts /\ CancelledFact(j).outcome # "none"
          /\ CancelledFact(j).request = j
      BY <1>1 DEF CancelledFact, Fact, Facts, TerminalStates, OperationPhases
    <3> QED BY <1>1, <2>2, <3>1, PersistFrame
  <2>3. CASE /\ \/ \E p \in {"committed", "completed"} : phase' = [phase EXCEPT ![j] = p]
                \/ UNCHANGED phase
             /\ UNCHANGED <<call, sessionTable, facts, pending>>
    <3>1. \E q \in OperationPhases :
             \/ Advances(phase[j], q) /\ phase' = [phase EXCEPT ![j] = q]
             \/ phase' = phase
      BY <1>1, <2>3 DEF Advances, OpenPhases, SafePhases, UncertainPhases, OperationPhases
    <3> QED BY <1>1, <2>3, <3>1, SetPhaseFrame DEF JournalTypeOK, sessionTable
  <2> QED BY <1>2, <2>1, <2>2, <2>3 DEF RecordCancelled
<1>4. MemoryTypeOK'
  <2>1. tree' \in [Sessions -> {"none", "alive", "dead"}] /\ proven' \subseteq Sessions
    <3>1. CASE UNCHANGED <<tree, proven>>
      BY <1>1, <3>1 DEF MemoryTypeOK
    <3>2. CASE \E ok \in BOOLEAN : Terminate(Session(c), ok)
      BY <1>1, <3>2, TerminateTypes
    <3> QED BY <3>1, <3>2 DEF CancelKill
  <2> QED BY <1>0, <1>1, <2>1, ThreadTypes
          DEF MemoryTypeOK, CancelKill, writerVars, quitVars, hostVars
<1> QED BY <1>0, <1>1, <1>3, <1>4, ReturnTokens DEF CancelKill, hostVars, writerVars

\* A caller that has no identity of its own before or after the step.
LEMMA UnregisteredTokens ==
  ASSUME Tokens, MemoryTypeOK', up = "up", up' = up, JournalFrame({}), NEW c \in Callers,
         \A d \in Callers \ {c} : Rests(d),
         ~Registered(c)', CallerOK(c)', UNCHANGED <<jobs, effects>>
  PROVE  Tokens' /\ Progress
<1>0. TypeOK' /\ Asleep'
  BY TypeParts, AwakeStep DEF JournalFrame
<1>1. \A d \in Callers : CallerOK(d)'
  BY CallerRests, QueuesRest
<1>2. \A i \in Ids : IdOK(i)'
  BY IdRests, QueuesRest
<1>3. \A s \in Sessions : QueueOK(s)'
  BY QueueRests
<1>4. OwnersDiffer'
  BY DEF Tokens, OwnersDiffer, Registered, Id, Rests
<1>5. Progress
  BY DEF JournalFrame, Progress
<1> QED BY <1>0, <1>1, <1>2, <1>3, <1>4, <1>5 DEF Tokens

\* A new identity is admitted; the caller keeps it or has returned.
LEMMA AdmitTokens ==
  ASSUME Tokens, MemoryTypeOK', up = "up", up' = up, NEW c \in Callers, NEW k \in Calls,
         NEW j \in Ids, j = k.id, call[j] = NoCall,
         call' = [call EXCEPT ![j] = k],
         NEW q \in SafePhases \cup {"side_effect_started", "failed"},
         phase' = [phase EXCEPT ![j] = q],
         state' \in [Sessions -> RunStates \cup {"none"}],
         operation' \in [Sessions -> OperationPhases \cup {"none"}],
         UNCHANGED <<facts, pending, jobs, effects>>,
         \A d \in Callers \ {c} : Rests(d),
         \/ pc'[c] = "idle"
         \/ /\ cur'[c] = k
            /\ \/ pc'[c] = "probe" /\ k.method = "start" /\ q = "accepted"
               \/ pc'[c] = "send" /\ k.method = "write" /\ q = "side_effect_started"
               \/ pc'[c] = "kill" /\ k.method = "cancel" /\ q = "side_effect_started"
  PROVE  Tokens' /\ Progress
<1>1. JournalTypeOK /\ pending \in [Sessions -> Facts \cup {NoFact}]
  BY TypeParts DEF Tokens
<1>2. IdOK(j)
  BY DEF Tokens
<1>3. phase[j] = "none" /\ effects[j] = 0 /\ ~Queued(j) /\ ~Retains(j)
  BY <1>2 DEF IdOK
<1>4. q \in OperationPhases /\ Advances(phase[j], q)
  BY <1>3 DEF OperationPhases, Advances, SafePhases
<1>5. /\ call' \in [Ids -> Calls \cup {NoCall}]
      /\ \A i \in Ids \ {j} : call'[i] = call[i]
      /\ call'[j] = k /\ phase'[j] = q
  BY <1>1 DEF JournalTypeOK
<1>6. JournalFrame({j}) /\ ~Retains(j)'
  BY <1>1, <1>3, <1>4, <1>5, SetPhaseFrame
<1>7. TypeOK' /\ Asleep'
  BY <1>6, TypeParts, AwakeStep DEF JournalFrame
<1>8. ~Queued(j)'
  BY <1>3, QueuesRest
<1>9. IdOK(j)'
  BY <1>3, <1>5, <1>6, <1>8, JournalAssumption DEF IdOK
<1>10. CallerOK(c)' /\ (Registered(c)' => Id(c)' = j)
  <2>1. CASE pc'[c] = "idle"
    BY <2>1 DEF CallerOK, Registered, StartPlaces, WritePlaces, BeforeSpawn, BeforeSend
  <2>2. CASE /\ cur'[c] = k
             /\ \/ pc'[c] = "probe" /\ k.method = "start" /\ q = "accepted"
                \/ pc'[c] = "send" /\ k.method = "write" /\ q = "side_effect_started"
                \/ pc'[c] = "kill" /\ k.method = "cancel" /\ q = "side_effect_started"
    <3>1. Id(c)' = j
      BY <2>2 DEF Id
    <3>2. q \in PhaseAt(pc'[c]) /\ 0 \in EffectAt(pc'[c])
      BY <2>2 DEF PhaseAt, EffectAt, BeforeSpawn, BeforeSend
    <3>3. HasToken(c, j)'
      BY <1>3, <1>5, <1>6, <1>8, <2>2, <3>2 DEF HasToken
    <3>4. /\ pc'[c] \in StartPlaces => k.method = "start"
          /\ pc'[c] \in WritePlaces => k.method = "write"
          /\ pc'[c] \in {"cancel", "kill"} => k.method = "cancel"
      BY <2>2 DEF StartPlaces, WritePlaces, BeforeSpawn, BeforeSend
    <3> QED BY <2>2, <3>1, <3>3, <3>4 DEF CallerOK
  <2> QED BY <2>1, <2>2
<1>11. \A d \in Callers \ {c} : Registered(d) => Id(d) # j
  BY OwnersDistinct
<1> QED BY <1>6, <1>7, <1>9, <1>10, <1>11, CallerMoves

\* begin_start_request: a new identity, the caller's.
LEMMA StartAdmitTokens ==
  ASSUME Tokens, NEW c \in Callers, NEW k \in Calls, StartAdmit(c, k)
  PROVE  Tokens' /\ Progress
<1>1. JournalTypeOK /\ MemoryTypeOK /\ k.id \in Ids /\ k.session \in Sessions
  BY TypeParts, JournalAssumption DEF Tokens
<1>2. /\ state' \in [Sessions -> RunStates \cup {"none"}]
      /\ operation' \in [Sessions -> OperationPhases \cup {"none"}]
  BY <1>1 DEF StartAdmit, BeginStartRequest, JournalTypeOK, RunStates, OperationPhases
<1>3. MemoryTypeOK'
  <2>1. "probe" \in StartPlaces
    BY DEF StartPlaces, BeforeSpawn
  <2> QED BY <1>1, <2>1, ThreadTypes
          DEF MemoryTypeOK, StartAdmit, ownerVars, writerVars, quitVars, worldVars, hostVars
<1>4. (\A d \in Callers \ {c} : Rests(d)) /\ pc'[c] = "probe" /\ cur'[c] = k
  BY <1>1 DEF StartAdmit, Enter, Rests, MemoryTypeOK
<1> QED BY <1>1, <1>2, <1>3, <1>4, AdmitTokens
        DEF StartAdmit, BeginStartRequest, BeginRequest, IsNew, Free, hostVars, worldVars,
            writerVars, SafePhases

\* The admission of a write: a new identity, settled or the caller's.
LEMMA WriteAdmitTokens ==
  ASSUME Tokens, NEW c \in Callers, NEW k \in Calls, WriteAdmit(c, k)
  PROVE  Tokens' /\ Progress
<1>1. JournalTypeOK /\ MemoryTypeOK /\ k.id \in Ids /\ k.session \in Sessions
  BY TypeParts, JournalAssumption DEF Tokens
<1>2. /\ state' \in [Sessions -> RunStates \cup {"none"}]
      /\ operation' \in [Sessions -> OperationPhases \cup {"none"}]
  BY <1>1 DEF WriteAdmit, JournalTypeOK, sessionTable
<1>3. UNCHANGED <<pc, cur>> \/ Enter(c, k, "send")
  BY DEF WriteAdmit
<1>4. MemoryTypeOK'
  <2>1. "send" \in WritePlaces
    BY DEF WritePlaces, BeforeSend
  <2>2. UNCHANGED <<operations, ownerVars, writerVars, quitVars, worldVars, hostVars>>
    BY DEF WriteAdmit
  <2>3. CASE UNCHANGED <<pc, cur>>
    BY <1>1, <2>2, <2>3
       DEF MemoryTypeOK, ownerVars, writerVars, quitVars, worldVars, hostVars
  <2>4. CASE Enter(c, k, "send")
    BY <1>1, <2>1, <2>2, <2>4, ThreadTypes
       DEF MemoryTypeOK, ownerVars, writerVars, quitVars, worldVars, hostVars
  <2> QED BY <1>3, <2>3, <2>4
<1>5. \A d \in Callers \ {c} : Rests(d)
  BY <1>1, <1>3 DEF Enter, Rests, MemoryTypeOK
<1>6. \E q \in SafePhases \cup {"side_effect_started", "failed"} :
         /\ phase' = [phase EXCEPT ![k.id] = q]
         /\ \/ pc'[c] = "idle"
            \/ cur'[c] = k /\ pc'[c] = "send" /\ q = "side_effect_started"
  BY <1>1 DEF WriteAdmit, Enter, SafePhases, MemoryTypeOK
<1>7. /\ up = "up" /\ up' = up /\ k.method = "write" /\ call[k.id] = NoCall
      /\ call' = [call EXCEPT ![k.id] = k]
      /\ UNCHANGED <<facts, pending, jobs, effects>>
  BY DEF WriteAdmit, IsNew, Free, hostVars, worldVars, writerVars
<1> PICK j \in Ids : j = k.id
  BY <1>1
<1>8. PICK q \in SafePhases \cup {"side_effect_started", "failed"} :
         /\ phase' = [phase EXCEPT ![j] = q]
         /\ \/ pc'[c] = "idle"
            \/ /\ cur'[c] = k
               /\ pc'[c] = "send" /\ k.method = "write" /\ q = "side_effect_started"
  BY <1>6, <1>7
<1> QED BY <1>2, <1>4, <1>5, <1>7, <1>8, AdmitTokens

\* A cancellation has no identity before its admission.
LEMMA CancelFlushTokens ==
  ASSUME Tokens, NEW c \in Callers, NEW k \in Calls, CancelFlush(c, k)
  PROVE  Tokens' /\ Progress
<1>1. /\ JournalTypeOK /\ MemoryTypeOK /\ pending \in [Sessions -> Facts \cup {NoFact}]
      /\ k.session \in Sessions
  BY TypeParts, JournalAssumption DEF Tokens
<1>2. JournalFrame({})
  BY <1>1, StillFrame, FlushFrame DEF CancelFlush
<1>3. (Enter(c, k, "cancel") /\ operations' = c) \/ UNCHANGED threadVars
  BY DEF CancelFlush
<1>4. MemoryTypeOK'
  <2>1. UNCHANGED <<ownerVars, writerVars, quitVars, worldVars, hostVars>>
    BY DEF CancelFlush
  <2>2. CASE UNCHANGED threadVars
    BY <1>1, <2>1, <2>2
       DEF MemoryTypeOK, threadVars, ownerVars, writerVars, quitVars, worldVars, hostVars
  <2>3. CASE Enter(c, k, "cancel") /\ operations' = c
    BY <1>1, <2>1, <2>3, ThreadTypes
       DEF MemoryTypeOK, ownerVars, writerVars, quitVars, worldVars, hostVars
  <2> QED BY <1>3, <2>2, <2>3
<1>5. \A d \in Callers \ {c} : Rests(d)
  BY <1>1, <1>3 DEF Enter, Rests, MemoryTypeOK, threadVars
<1>6. pc'[c] = "idle" \/ (pc'[c] = "cancel" /\ cur'[c] = k)
  BY <1>1, <1>3 DEF Enter, MemoryTypeOK, CancelFlush, threadVars
<1>7. ~Registered(c)' /\ CallerOK(c)'
  BY <1>6 DEF CallerOK, Registered, StartPlaces, WritePlaces, BeforeSpawn, BeforeSend,
              CancelFlush
<1> QED BY <1>2, <1>4, <1>5, <1>7, UnregisteredTokens
        DEF CancelFlush, Free, hostVars, worldVars, writerVars

\* The admission of a cancellation: a new identity, settled or the caller's.
LEMMA CancelAdmitTokens ==
  ASSUME Tokens, NEW c \in Callers, CancelAdmit(c)
  PROVE  Tokens' /\ Progress
<1> PICK k : k = cur[c]
  OBVIOUS
<1>0. CallerOK(c) /\ pc[c] = "cancel" /\ up = "up"
  BY DEF Tokens, CancelAdmit, Holds
<1>1. /\ JournalTypeOK /\ MemoryTypeOK /\ pending \in [Sessions -> Facts \cup {NoFact}]
      /\ k \in Calls /\ k.method = "cancel" /\ k.id \in Ids /\ k.session \in Sessions
  BY <1>0, TypeParts, JournalAssumption DEF Tokens, CallerOK
<1>2. UNCHANGED <<sessionTable, facts, ownerVars, writerVars, quitVars, pending, worldVars, hostVars>>
  BY DEF CancelAdmit
<1>3. Return(c) \/ Keep(c, "kill")
  BY DEF CancelAdmit
<1>4. MemoryTypeOK'
  BY <1>1, <1>2, <1>3, ThreadTypes
     DEF MemoryTypeOK, Keep, ownerVars, writerVars, quitVars, worldVars, hostVars
<1>5. \A d \in Callers \ {c} : Rests(d)
  BY <1>1, <1>3 DEF Return, Keep, Goto, Rests, MemoryTypeOK
<1>6. CASE Return(c) /\ UNCHANGED requestTable
  <2>1. JournalFrame({})
    BY <1>1, <1>2, <1>6, StillFrame DEF journalVars
  <2>2. pc'[c] = "idle"
    BY <1>1, <1>6 DEF Return, MemoryTypeOK
  <2>3. ~Registered(c)' /\ CallerOK(c)'
    BY <2>2 DEF CallerOK, Registered, StartPlaces, WritePlaces, BeforeSpawn, BeforeSend
  <2> QED BY <1>0, <1>2, <1>4, <1>5, <2>1, <2>3, UnregisteredTokens
          DEF hostVars, worldVars, writerVars
<1>7. CASE /\ IsNew(k.id)
           /\ call' = [call EXCEPT ![k.id] = k]
           /\ \E q \in SafePhases \cup {"side_effect_started", "failed"} :
                /\ phase' = [phase EXCEPT ![k.id] = q]
                /\ \/ Return(c)
                   \/ Keep(c, "kill") /\ q = "side_effect_started"
  <2>1. PICK q \in SafePhases \cup {"side_effect_started", "failed"} :
                /\ phase' = [phase EXCEPT ![k.id] = q]
                /\ \/ Return(c)
                   \/ Keep(c, "kill") /\ q = "side_effect_started"
    BY <1>7
  <2>2. \/ pc'[c] = "idle"
        \/ pc'[c] = "kill" /\ cur'[c] = k /\ q = "side_effect_started"
    BY <1>1, <2>1 DEF Return, Keep, Goto, MemoryTypeOK
  <2>3. /\ state' \in [Sessions -> RunStates \cup {"none"}]
        /\ operation' \in [Sessions -> OperationPhases \cup {"none"}]
    BY <1>1, <1>2 DEF JournalTypeOK, sessionTable
  <2> QED BY <1>0, <1>1, <1>2, <1>4, <1>5, <1>7, <2>1, <2>2, <2>3, AdmitTokens
          DEF IsNew, hostVars, worldVars, writerVars
<1> QED BY <1>6, <1>7 DEF CancelAdmit, Id, SafePhases

\* A line is appended once.
LEMMA LineAppended ==
  ASSUME Tokens, MemoryTypeOK', up = "up", up' = up, NEW c \in Callers, pc[c] = "send",
         NEW j \in Ids, j = Id(c), NEW s \in Sessions, s = Session(c),
         UNCHANGED <<journalVars, pending, effects>>,
         jobs' = [jobs EXCEPT ![s] = Append(@, j)],
         Goto(c, "await")
  PROVE  Tokens' /\ Progress
<1>0. /\ Registered(c) /\ JournalTypeOK /\ MemoryTypeOK
      /\ pending \in [Sessions -> Facts \cup {NoFact}]
      /\ jobs \in [Sessions -> Seq(Ids)]
      /\ pc \in [Callers -> {"idle", "cancel", "kill"} \cup StartPlaces \cup WritePlaces]
      /\ cur \in [Callers -> Calls \cup {NoCall}]
  BY TypeParts DEF Tokens, MemoryTypeOK, Registered
<1>1. /\ HasToken(c, j) /\ IdOK(j) /\ cur[c] \in Calls /\ cur[c].method = "write"
      /\ ~Queued(j) /\ effects[j] = 0 /\ phase[j] = "side_effect_started"
      /\ call[j] = cur[c] /\ call[j].session = s
  <2>1. HasToken(c, j) /\ IdOK(j) /\ cur[c] \in Calls
    BY <1>0, TokenFacts
  <2>2. CallerOK(c)
    BY DEF Tokens
  <2> QED BY <2>1, <2>2
          DEF HasToken, CallerOK, Session, WritePlaces, BeforeSpawn, BeforeSend, PhaseAt, EffectAt
<1>2. JournalFrame({j}) /\ call' = call /\ phase' = phase
  BY <1>0, StillFrame, FrameWidens DEF journalVars, requestTable
<1>3. TypeOK' /\ Asleep'
  BY <1>2, TypeParts, AwakeStep DEF JournalFrame
<1>4. PICK q : q = jobs[s]
  OBVIOUS
<1>5. /\ q \in Seq(Ids) /\ Len(q) \in Nat /\ DOMAIN q = 1 .. Len(q)
      /\ jobs'[s] = Append(q, j)
      /\ \A t \in Sessions \ {s} : jobs'[t] = jobs[t]
  BY <1>0, <1>4
<1>6. /\ DOMAIN Append(q, j) = 1 .. (Len(q) + 1)
      /\ Append(q, j)[Len(q) + 1] = j
      /\ \A n \in 1 .. Len(q) : Append(q, j)[n] = q[n]
  BY <1>5
<1>7. \A i \in Ids \ {j} : Queued(i)' => Queued(i)
  <2> SUFFICES ASSUME NEW i \in Ids \ {j}, NEW t \in Sessions, NEW n \in DOMAIN jobs'[t],
                      jobs'[t][n] = i
               PROVE  Queued(i)
    BY DEF Queued
  <2>1. CASE t # s
    BY <1>5, <2>1 DEF Queued
  <2>2. CASE t = s
    <3>1. n \in 1 .. Len(q)
      BY <1>5, <1>6, <2>2
    <3> QED BY <1>4, <1>5, <1>6, <2>2, <3>1 DEF Queued
  <2> QED BY <2>1, <2>2
<1>8. \A d \in Callers \ {c} : Rests(d) /\ (Registered(d) => Id(d) # j)
  BY <1>0, OwnersDistinct DEF Goto, Rests
<1>9. pc'[c] = "await" /\ cur'[c] = cur[c] /\ Id(c)' = j
  BY <1>0 DEF Goto, Id
<1>10. ~Retains(j)'
  BY <1>1 DEF HasToken, Retains, journalVars
<1>11. HasToken(c, j)'
  BY <1>1, <1>2, <1>9, <1>10 DEF HasToken, PhaseAt, EffectAt, BeforeSpawn, BeforeSend
<1>12. CallerOK(c)'
  BY <1>1, <1>9, <1>11 DEF CallerOK, StartPlaces, WritePlaces, BeforeSpawn, BeforeSend
<1>13. \A d \in Callers : CallerOK(d)'
  BY <1>2, <1>7, <1>8, <1>12, CallerRests
<1>14. IdOK(j)'
  <2>1. call'[j] # NoCall
    BY <1>1, <1>2, JournalAssumption
  <2> QED BY <1>1, <1>2, <2>1 DEF IdOK
<1>15. \A i \in Ids : IdOK(i)'
  BY <1>2, <1>7, <1>14, IdRests
<1>16. ASSUME NEW t \in Sessions PROVE QueueOK(t)'
  <2>1. CASE t # s
    BY <1>2, <1>5, <2>1, QueueRests
  <2>2. CASE t = s
    <3>1. QueueOK(s)
      BY DEF Tokens
    <3>2. ASSUME NEW n \in DOMAIN jobs'[s] PROVE LineOK(s, jobs[s][n])'
      <4>1. CASE n = Len(q) + 1
        <5>1. LineOK(s, j)'
          BY <1>1, <1>2 DEF LineOK, Admitted, EarlyPhases, SafePhases
        <5> QED BY <1>5, <1>6, <4>1, <5>1 DEF LineOK, Admitted
      <4>2. CASE n \in 1 .. Len(q)
        <5> PICK i : i = q[n]
          OBVIOUS
        <5>1. LineOK(s, i) /\ jobs'[s][n] = i
          BY <1>4, <1>5, <1>6, <3>1, <4>2 DEF QueueOK
        <5>2. LineOK(s, i)'
          BY <1>2, <5>1 DEF LineOK, Admitted
        <5> QED BY <5>1, <5>2 DEF LineOK, Admitted
      <4> QED BY <1>5, <1>6, <3>2, <4>1, <4>2
    <3>3. \A n \in 1 .. Len(q) : q[n] # j
      BY <1>1, <1>4, <1>5 DEF Queued
    <3>4. \A n, m \in DOMAIN jobs'[s] : jobs'[s][n] = jobs'[s][m] => n = m
      BY <1>4, <1>5, <1>6, <3>1, <3>3 DEF QueueOK
    <3> QED BY <2>2, <3>2, <3>4 DEF QueueOK
  <2> QED BY <2>1, <2>2
<1>17. OwnersDiffer'
  BY <1>8, <1>9 DEF Tokens, OwnersDiffer, Registered, Id, Rests
<1>18. Progress
  BY <1>2 DEF Progress, Advances
<1> QED BY <1>3, <1>13, <1>15, <1>16, <1>17, <1>18 DEF Tokens

\* try_send queues a line that no queue holds, or refuses it.
LEMMA WriteSendTokens ==
  ASSUME Tokens, NEW c \in Callers, WriteSend(c)
  PROVE  Tokens' /\ Progress
<1> PICK j : j = Id(c)
  OBVIOUS
<1> PICK s : s = Session(c)
  OBVIOUS
<1>0. Registered(c) /\ pc[c] = "send" /\ up = "up"
  BY DEF WriteSend, Registered
<1>1. /\ JournalTypeOK /\ MemoryTypeOK /\ pending \in [Sessions -> Facts \cup {NoFact}]
      /\ j \in Ids /\ s \in Sessions
      /\ phase[j] = "side_effect_started" /\ effects[j] = 0
  BY <1>0, AtPlace DEF PhaseAt, EffectAt, BeforeSpawn, BeforeSend
<1>2. UNCHANGED <<journalVars, operations, ownerVars, writer, answer, quitVars, pending,
                  worldVars, hostVars>>
  BY DEF WriteSend
<1>3. "refuse" \in WritePlaces /\ "await" \in WritePlaces
  BY DEF WritePlaces, BeforeSend
<1>4. CASE Goto(c, "refuse") /\ UNCHANGED jobs
  <2>1. MemoryTypeOK'
    BY <1>1, <1>2, <1>3, <1>4, ThreadTypes
       DEF MemoryTypeOK, ownerVars, quitVars, worldVars, hostVars
  <2>2. JournalFrame({j}) /\ call' = call /\ phase' = phase /\ effects' = effects
    BY <1>1, <1>2, StillFrame, FrameWidens DEF journalVars, requestTable, worldVars
  <2>3. Retains(j)' => Retains(j)
    BY <1>2 DEF Retains, journalVars
  <2>4. /\ "refuse" \notin StartPlaces /\ pc[c] \notin StartPlaces /\ pc[c] \in BeforeSend
        /\ phase'[j] \in PhaseAt("refuse") /\ effects'[j] \in EffectAt("refuse")
    BY <1>0, <1>1, <2>2 DEF StartPlaces, BeforeSpawn, BeforeSend, PhaseAt, EffectAt
  <2> QED BY <1>0, <1>1, <1>2, <1>3, <1>4, <2>1, <2>2, <2>3, <2>4, GotoTokens DEF hostVars
<1>5. CASE /\ Len(jobs[s]) < QueueCapacity
           /\ jobs' = [jobs EXCEPT ![s] = Append(@, j)]
           /\ Goto(c, "await")
  <2>1. jobs \in [Sessions -> Seq(Ids)] /\ \A t \in Sessions : Len(jobs[t]) <= QueueCapacity
    BY <1>1 DEF MemoryTypeOK
  <2>2. Append(jobs[s], j) \in Seq(Ids) /\ Len(Append(jobs[s], j)) = Len(jobs[s]) + 1
    BY <1>1, <2>1
  <2>3. Len(jobs[s]) \in Nat /\ QueueCapacity \in Nat
    BY <1>1, <2>1, RuntimeAssumption
  <2>4. jobs' \in [Sessions -> Seq(Ids)] /\ \A t \in Sessions : Len(jobs'[t]) <= QueueCapacity
    BY <1>1, <1>5, <2>1, <2>2, <2>3
  <2>5. MemoryTypeOK'
    BY <1>1, <1>2, <1>3, <1>5, <2>4, ThreadTypes
       DEF MemoryTypeOK, ownerVars, quitVars, worldVars, hostVars
  <2> QED BY <1>0, <1>1, <1>2, <1>5, <2>5, LineAppended DEF hostVars, worldVars
<1> QED BY <1>4, <1>5 DEF WriteSend

-----------------------------------------------------------------------------
(* The invariant.                                                          *)

\* At first no identity is used.
LEMMA TokensInit == Init => Tokens
<1> SUFFICES ASSUME Init PROVE Tokens
  OBVIOUS
<1>1. TypeOK
  <2>1. JournalTypeOK /\ pending \in [Sessions -> Facts \cup {NoFact}]
    BY DEF Init, JournalInit, JournalTypeOK
  <2>2. /\ jobs \in [Sessions -> Seq(Ids)]
        /\ \A s \in Sessions : Len(jobs[s]) <= QueueCapacity
        /\ crashes \in 0 .. MaxCrashes
    BY RuntimeAssumption DEF Init
  <2>3. MemoryTypeOK
    BY <2>2 DEF Init, MemoryTypeOK
  <2> QED BY <2>1, <2>3, TypeParts
<1>2. \A c \in Callers : CallerOK(c) /\ ~Registered(c)
  BY DEF Init, CallerOK, Registered, StartPlaces, WritePlaces, BeforeSpawn, BeforeSend
<1>3. \A i \in Ids : IdOK(i)
  BY DEF Init, JournalInit, IdOK, Queued, Retains, Settles
<1>4. \A s \in Sessions : QueueOK(s)
  BY DEF Init, QueueOK
<1> QED BY <1>1, <1>2, <1>3, <1>4 DEF Tokens, Asleep, OwnersDiffer, Init

\* Every step keeps the identities apart, and takes no row back.
LEMMA TokensStep == Tokens /\ [Next]_vars => Tokens' /\ Progress
<1> SUFFICES ASSUME Tokens, [Next]_vars PROVE Tokens' /\ Progress
  OBVIOUS
<1>1. ASSUME NEW c \in Callers, NEW k \in Calls, Admit(c, k) PROVE Tokens' /\ Progress
  BY <1>1, StartAdmitTokens, WriteAdmitTokens, CancelFlushTokens DEF Admit
<1>2. ASSUME NEW c \in Callers, CallerStep(c) PROVE Tokens' /\ Progress
  BY <1>2, ProbeTokens, RecordBothTokens, DispatchTokens, AdvanceTokens, SpawnTokens, OwnTokens,
     TeardownTokens, WriteSendTokens, WriteEndTokens, CancelAdmitTokens, CancelKillTokens
     DEF CallerStep
<1>3. ASSUME NEW s \in Sessions,
             \/ SessionStep(s)
             \/ ListFlush(s) \/ MonitorPoll(s) \/ ProtocolFailure(s)
             \/ WriterDelivers(s) \/ WriterFails(s) \/ TreeDies(s)
      PROVE  Tokens' /\ Progress
  BY <1>3, MonitorTerminateTokens, MonitorCommitTokens, QuitKillTokens, QuitFlushTokens,
     ListFlushTokens, MonitorPollTokens, ProtocolFailureTokens, WriterTokens, TreeDiesTokens
     DEF SessionStep
<1>4. CASE QuitDrain \/ QuitJoin \/ QuitDone \/ Crash \/ Recover
  BY <1>4, QuitTokens, CrashTokens, RecoverTokens
<1>5. CASE UNCHANGED vars
  <2>1. JournalTypeOK /\ MemoryTypeOK /\ pending \in [Sessions -> Facts \cup {NoFact}]
    BY TypeParts DEF Tokens
  <2>2. JournalFrame({})
    BY <1>5, <2>1, StillFrame DEF vars, memoryVars
  <2>3. MemoryTypeOK' /\ Asleep'
    BY <1>5, <2>1 DEF vars, memoryVars, threadVars, ownerVars, writerVars, quitVars, worldVars,
                      hostVars, MemoryTypeOK, Asleep, Tokens
  <2> QED BY <1>5, <2>2, <2>3, TypeParts, SessionMoves
          DEF JournalFrame, vars, memoryVars, threadVars, writerVars, worldVars
<1> QED BY <1>1, <1>2, <1>3, <1>4, <1>5 DEF Next

\* An identity is one thread's at a time, in every behaviour of the runtime.
THEOREM TokensAlways == Spec => []Tokens
  BY TokensInit, TokensStep, PTL DEF Spec

\* Every variable keeps its type; in particular no queue of lines grows past
\* WRITER_QUEUE_CAPACITY (write_session).
THEOREM TypeCorrect == Spec => []TypeOK
<1>1. Tokens => TypeOK
  BY DEF Tokens
<1> QED BY <1>1, TokensAlways, PTL

\* The side effect of a request identity happens at most once, across retries,
\* duplicate callers, timeouts and restarts (begin_request, recover_incomplete).
THEOREM EffectsOnce == Spec => []SideEffectOnce
<1>1. Tokens => SideEffectOnce
  BY DEF Tokens, IdOK, SideEffectOnce
<1> QED BY <1>1, TokensAlways, PTL

\* The journal admits an effect before it happens and never takes that back
\* (advance_start_phase, write_session, recover_incomplete).
THEOREM EffectsAdmitted == Spec => []EffectIsAdmitted
<1>1. Tokens => EffectIsAdmitted
  BY DEF Tokens, IdOK, EffectIsAdmitted, Admitted, EarlyPhases
<1> QED BY <1>1, TokensAlways, PTL

-----------------------------------------------------------------------------
(* Sessions: who has the provider process, and what the journal may say.    *)

\* Places a start reaches, and leaves, with the operations mutex held.
Locked == {"accepted", "dispatched", "spawn", "own", "teardown"}

OperationAt(place) ==
  CASE place \in SafePhases -> place
    [] OTHER                -> "side_effect_started"

\* A start of the session is on its way, by one caller.
Starts(c, s) == pc[c] \in StartPlaces /\ Session(c) = s

\* What a start knows of its session: nothing of it runs before the spawn, and
\* from the dispatch on nobody else can have touched it.
StartOK(c, s) ==
  /\ state[s] # "none"
  /\ pc[c] \in BeforeSpawn => tree[s] = "none"
  /\ pc[c] \in Locked => operations = c /\ quit = "no"
  /\ pc[c] \in Locked \ {"teardown"} =>
       state[s] = "starting" /\ operation[s] = OperationAt(pc[c])
  /\ pc[c] \in {"own", "teardown"} =>
       tree[s] # "none" /\ monitor[s] = "off" /\ s \notin reader /\ s \notin proven
  /\ pc[c] = "own" => s \in processes
  /\ pc[c] = "teardown" => state[s] \in {"starting", "running"}

\* A cancellation keeps the mutex from its flush to its end.
CancelOK(c, s) ==
  /\ operations = c
  /\ pending[s] = NoFact
  /\ pc[c] = "kill" => s \notin supervisions /\ state[s] # "none"

\* Only a cancellation that was recorded before the spawn may still be waiting.
Calm(f) == f # NoFact => f.state = "cancelled"

Exiting == {"exiting", "unproven", "proven"}

\* What the tables say of a provider tree.
TreeOK(s) ==
  /\ state[s] = "none" => tree[s] = "none"
  /\ IsOpen(s) => operation[s] \in OpenPhases /\ (operation[s] \in SafePhases => tree[s] = "none")
  /\ state[s] = "failed" => tree[s] # "alive"
  /\ monitor[s] = "proven" => tree[s] = "dead"
  /\ \A f \in {facts[s], pending[s]} : f # NoFact /\ f.state = "failed" => tree[s] = "dead"

\* A process in the map belongs to a session that nobody has torn down.
ProcessOK(s) ==
  /\ tree[s] = "none" => /\ s \notin processes /\ s \notin reader /\ monitor[s] = "off"
                         /\ s \notin proven /\ (quit = "killing" => s \notin todo)
                         /\ Calm(facts[s]) /\ Calm(pending[s])
  /\ s \in processes => /\ state[s] \in {"starting", "running", "cancelled"}
                        /\ Calm(pending[s]) /\ s \notin proven
                        /\ monitor[s] \in {"off", "watching"}
  /\ monitor[s] \in Exiting => s \in supervisions /\ s \notin processes

\* Until shutdown begins, the supervisor alone decides about an exited process,
\* and what it has proven is not forgotten.
ProvenOK(s) ==
  /\ monitor[s] \in Exiting => /\ state[s] \in {"starting", "running", "cancelled"}
                              /\ Calm(pending[s])
  /\ monitor[s] \in {"exiting", "unproven"} => s \notin proven
  /\ s \in proven => /\ s \notin processes
                     /\ state[s] # "unknown_outcome"
                     /\ pending[s] # NoFact => pending[s].state # "unknown_outcome"
                     /\ IsOpen(s) => pending[s] # NoFact \/ monitor[s] = "proven"

SessionOK(s) == TreeOK(s) /\ ProcessOK(s) /\ (quit = "no" => ProvenOK(s))

QuitOK ==
  /\ quit = "flushing" => operations = "kill_all"
  /\ quit # "no" => processes = {}

\* Nothing is left in memory of a host process that has ended.
Forgotten ==
  up # "up" => /\ processes = {} /\ proven = {} /\ reader = {} /\ quit = "no"
               /\ \A s \in Sessions : monitor[s] = "off"

Owners ==
  /\ \A s \in Sessions : SessionOK(s)
  /\ \A c \in Callers, s \in Sessions : Starts(c, s) => StartOK(c, s)
  /\ \A c \in Callers, s \in Sessions :
       pc[c] \in {"cancel", "kill"} /\ Session(c) = s => CancelOK(c, s)
  /\ \A c, d \in Callers, s \in Sessions : Starts(c, s) /\ Starts(d, s) => c = d
  /\ QuitOK
  /\ Forgotten

-----------------------------------------------------------------------------
(* What the journal's transactions do to a session.                        *)

JSame(t) ==
  /\ state'[t] = state[t] /\ operation'[t] = operation[t]
  /\ pending'[t] = pending[t] /\ facts'[t] = facts[t]

\* The row moves to an end, once.
JMoves(s, to, ph) ==
  /\ state[s] # "none" /\ (IsTerminal(s) => state[s] = to)
  /\ state'[s] = to /\ operation'[s] = ph /\ facts'[s] = NoFact

JCommits(s, f) == JMoves(s, f.state, f.phase) /\ pending'[s] = NoFact

JKeeps(s, f) ==
  /\ state'[s] = state[s] /\ operation'[s] = operation[s]
  /\ pending'[s] = f /\ facts'[s] \in {facts[s], f}

JDrops(s) ==
  /\ state'[s] = state[s] /\ operation'[s] = operation[s]
  /\ pending'[s] = NoFact /\ facts'[s] = NoFact

\* can_transition: the end of a session is final.
LEMMA TerminalTransition ==
  ASSUME NEW from \in RunStates \cup {"none"}, NEW to \in TerminalStates,
         CanTransition(from, to)
  PROVE  from # "none" /\ (from \in TerminalStates => from = to)
  BY DEF CanTransition, RunSuccessors, RunStates, TerminalStates, Stopped

\* commit_session_event, as the session sees it.
LEMMA MoveSession ==
  ASSUME JournalTypeOK, NEW s \in Sessions, NEW to \in TerminalStates, NEW ph \in OperationPhases,
         UpdateSession(s, to, ph), NEW t \in Sessions
  PROVE  /\ t = s => JMoves(s, to, ph)
         /\ t # s => /\ state'[t] = state[t] /\ operation'[t] = operation[t]
                     /\ facts'[t] = facts[t]
  BY TerminalTransition DEF UpdateSession, JMoves, JournalTypeOK, IsTerminal

\* A terminal fact is committed, or kept.
LEMMA PersistSession ==
  ASSUME JournalTypeOK, pending \in [Sessions -> Facts \cup {NoFact}],
         NEW s \in Sessions, NEW f \in Facts, PersistTerminalFact(s, f)
  PROVE  /\ JCommits(s, f) \/ JKeeps(s, f)
         /\ \A t \in Sessions \ {s} : JSame(t)
<1>1. f.state \in TerminalStates /\ f.phase \in OperationPhases
  BY DEF Facts
<1>2. CASE RetainFact(s, f)
  BY <1>2 DEF RetainFact, JKeeps, JSame, JournalTypeOK, sessionTable
<1>3. CASE CommitFact(s, f) /\ pending' = [pending EXCEPT ![s] = NoFact]
  <2>1. UpdateSession(s, f.state, f.phase)
    BY <1>3 DEF CommitFact
  <2> QED BY <1>1, <1>3, <2>1, MoveSession DEF JCommits, JSame
<1> QED BY <1>2, <1>3 DEF PersistTerminalFact

\* A fact that waits is committed, dropped for an ended session, or kept.
LEMMA FlushSession ==
  ASSUME JournalTypeOK, pending \in [Sessions -> Facts \cup {NoFact}],
         NEW s \in Sessions, FlushFact(s) \/ FlushFails(s)
  PROVE  /\ pending[s] # NoFact /\ pending[s] \in Facts
         /\ \A t \in Sessions \ {s} : JSame(t)
         /\ JCommits(s, pending[s]) \/ (IsTerminal(s) /\ JDrops(s)) \/ JKeeps(s, pending[s])
         /\ FlushFact(s) => pending'[s] = NoFact
<1> DEFINE f == pending[s]
<1>0. f \in Facts /\ f # NoFact
  BY DEF FlushFact, FlushFails
<1>1. f.state \in TerminalStates /\ f.phase \in OperationPhases
  BY <1>0 DEF Facts
<1>2. FlushFact(s) => pending' = [pending EXCEPT ![s] = NoFact]
  BY DEF FlushFact
<1> HIDE DEF f
<1>3. CASE FlushFact(s) /\ IsTerminal(s)
  <2>1. /\ facts' = [facts EXCEPT ![s] = NoFact] /\ UNCHANGED sessionTable
        /\ pending' = [pending EXCEPT ![s] = NoFact]
    BY <1>3 DEF FlushFact, ReconcileFact
  <2> QED BY <1>0, <1>3, <2>1 DEF JDrops, JSame, JournalTypeOK, sessionTable, f
<1>4. CASE FlushFact(s) /\ ~IsTerminal(s)
  <2>1. UpdateSession(s, f.state, f.phase)
    BY <1>4 DEF FlushFact, CommitFact, f
  <2>2. JMoves(s, f.state, f.phase)
    BY <1>1, <2>1, MoveSession
  <2>3. pending'[s] = NoFact /\ \A t \in Sessions \ {s} : pending'[t] = pending[t]
    BY <1>2, <1>4
  <2>4. \A t \in Sessions \ {s} : JSame(t)
    BY <1>1, <2>1, <2>3, MoveSession DEF JSame
  <2> QED BY <1>0, <2>2, <2>3, <2>4 DEF JCommits, f
<1>5. CASE FlushFails(s) /\ ~FlushFact(s)
  <2>1. CASE UNCHANGED <<journalVars, pending>>
    BY <1>0, <1>5, <2>1 DEF JKeeps, JSame, journalVars, sessionTable, f
  <2>2. CASE RetainFact(s, f)
    BY <1>0, <1>5, <2>2 DEF RetainFact, JKeeps, JSame, JournalTypeOK, sessionTable, f
  <2> QED BY <1>5, <2>1, <2>2 DEF FlushFails, f
<1> QED BY <1>3, <1>4, <1>5

\* What the monitor and the reader leave of a session.
LEMMA TerminationSession ==
  ASSUME JournalTypeOK, pending \in [Sessions -> Facts \cup {NoFact}],
         NEW s \in Sessions, NEW f \in Facts, RecordTermination(s, f)
  PROVE  /\ JCommits(s, f) \/ JKeeps(s, f) \/ (IsTerminal(s) /\ JSame(s))
         /\ \A t \in Sessions \ {s} : JSame(t)
<1>1. CASE pending' = [pending EXCEPT ![s] = f] /\ UNCHANGED journalVars
  BY <1>1 DEF JKeeps, JSame, journalVars, sessionTable
<1>2. CASE IsTerminal(s) /\ UNCHANGED <<journalVars, pending>>
  BY <1>2 DEF JSame, journalVars, sessionTable
<1>3. CASE PersistTerminalFact(s, f)
  BY <1>3, PersistSession
<1> QED BY <1>1, <1>2, <1>3 DEF RecordTermination

\* A session row that is recorded with its request.
LEMMA RecordBothSession ==
  ASSUME JournalTypeOK, pending \in [Sessions -> Facts \cup {NoFact}],
         NEW i, NEW s \in Sessions, NEW to \in TerminalStates, NEW ph \in OperationPhases,
         RecordBoth(i, s, to, ph)
  PROVE  /\ JSame(s) \/ (JMoves(s, to, ph) /\ pending'[s] = pending[s])
         /\ \A t \in Sessions \ {s} : JSame(t)
<1>1. CASE UpdateSession(s, to, ph)
  BY <1>1, MoveSession DEF RecordBoth, JSame
<1>2. CASE UNCHANGED <<sessionTable, facts>>
  BY <1>2 DEF RecordBoth, JSame, sessionTable
<1> QED BY <1>1, <1>2 DEF RecordBoth

\* Tables that do not change.
LEMMA StillSession ==
  ASSUME UNCHANGED <<sessionTable, facts, pending>>
  PROVE  \A t \in Sessions : JSame(t)
  BY DEF JSame, sessionTable

-----------------------------------------------------------------------------
(* A session, and a caller, that a step does not concern.                  *)

\* The step touches neither the owners of the session nor its tree.
OSame(t) ==
  /\ tree'[t] = tree[t] /\ monitor'[t] = monitor[t]
  /\ t \in processes' <=> t \in processes
  /\ t \in supervisions' <=> t \in supervisions
  /\ t \in reader' <=> t \in reader
  /\ t \in proven' <=> t \in proven
  /\ t \in todo' => t \in todo

\* A session that the step does not concern keeps its part of the invariant.
LEMMA SessionRests ==
  ASSUME NEW t \in Sessions, SessionOK(t), JSame(t), OSame(t), quit' = quit
  PROVE  SessionOK(t)'
<1>1. TreeOK(t)'
  BY DEF SessionOK, TreeOK, JSame, OSame, IsOpen, IsTerminal
<1>2. ProcessOK(t)'
  BY DEF SessionOK, ProcessOK, JSame, OSame, Calm
<1>3. ProvenOK(t) => ProvenOK(t)'
  BY DEF ProvenOK, JSame, OSame, IsOpen, IsTerminal, Calm
<1> QED BY <1>1, <1>2, <1>3 DEF SessionOK

\* So does a start of such a session, while the mutex stays where it is.
LEMMA StartRests ==
  ASSUME NEW d \in Callers, NEW t \in Sessions, Starts(d, t) => StartOK(d, t), Rests(d),
         JSame(t), OSame(t), quit' = quit, operations = d => operations' = d
  PROVE  Starts(d, t)' => StartOK(d, t)'
  BY DEF Starts, Session, StartOK, Rests, JSame, OSame

\* And a cancellation.
LEMMA CancelRests ==
  ASSUME NEW d \in Callers, NEW t \in Sessions, CancelOK(d, t), Rests(d),
         JSame(t), OSame(t), operations = d => operations' = d
  PROVE  CancelOK(d, t)'
  BY DEF CancelOK, Rests, JSame, OSame

\* A step of the caller c, or of a thread that is no caller, on one session.
LEMMA OwnersMove ==
  ASSUME Owners, NEW c, NEW s \in Sessions, quit' = quit,
         \A t \in Sessions \ {s} : JSame(t) /\ OSame(t),
         \A d \in Callers \ {c} : Rests(d) /\ (operations = d => operations' = d),
         SessionOK(s)',
         \A d \in Callers \ {c} : Starts(d, s) => StartOK(d, s)',
         \A d \in Callers \ {c} :
           pc[d] \in {"cancel", "kill"} /\ Session(d) = s => CancelOK(d, s)',
         c \in Callers => \A t \in Sessions :
           /\ Starts(c, t)' => StartOK(c, t)'
           /\ pc'[c] \in {"cancel", "kill"} /\ Session(c)' = t => CancelOK(c, t)'
           /\ Starts(c, t)' => \A d \in Callers \ {c} : ~Starts(d, t),
         QuitOK', Forgotten'
  PROVE  Owners'
<1>1. \A t \in Sessions : SessionOK(t)'
  BY SessionRests DEF Owners
<1>2. ASSUME NEW d \in Callers \ {c}, NEW t \in Sessions
      PROVE  /\ Starts(d, t)' <=> Starts(d, t)
             /\ Starts(d, t)' => StartOK(d, t)'
             /\ pc'[d] \in {"cancel", "kill"} /\ Session(d)' = t => CancelOK(d, t)'
  <2>1. Starts(d, t)' <=> Starts(d, t)
    BY DEF Starts, Session, Rests
  <2>2. pc'[d] = pc[d] /\ Session(d)' = Session(d)
    BY DEF Session, Rests
  <2>3. CASE t = s
    BY <2>1, <2>2, <2>3
  <2>4. CASE t # s
    BY <2>1, <2>2, <2>4, StartRests, CancelRests DEF Owners
  <2> QED BY <2>1, <2>3, <2>4
<1>3. \A a, b \in Callers, t \in Sessions : Starts(a, t)' /\ Starts(b, t)' => a = b
  BY <1>2 DEF Owners
<1> QED BY <1>1, <1>2, <1>3 DEF Owners

-----------------------------------------------------------------------------
(* Steps under the mutex.                                                  *)

\* Whoever does not hold the mutex is not where it must be held.
LEMMA Excluded ==
  ASSUME Tokens, Owners, NEW d \in Callers, operations # d
  PROVE  pc[d] \notin Locked \cup {"cancel", "kill"}
<1> SUFFICES ASSUME pc[d] \in Locked \cup {"cancel", "kill"} PROVE FALSE
  OBVIOUS
<1>1. cur[d] \in Calls
  BY DEF Tokens, CallerOK, Locked
<1>2. Session(d) \in Sessions
  BY <1>1, JournalAssumption DEF Session
<1>3. CASE pc[d] \in Locked
  <2>1. Starts(d, Session(d))
    BY <1>3 DEF Starts, Locked, StartPlaces, BeforeSpawn
  <2> QED BY <1>2, <1>3, <2>1 DEF Owners, StartOK
<1>4. CASE pc[d] \in {"cancel", "kill"}
  BY <1>2, <1>4 DEF Owners, CancelOK
<1> QED BY <1>3, <1>4

\* A start that waits for the mutex has spawned nothing.
LEMMA WaitingStart ==
  ASSUME Tokens, Owners, NEW d \in Callers, NEW s \in Sessions, Starts(d, s), operations # d
  PROVE  pc[d] \in BeforeSpawn \ Locked /\ tree[s] = "none" /\ state[s] # "none"
<1>1. pc[d] \notin Locked
  BY Excluded
<1>2. StartOK(d, s)
  BY DEF Owners
<1>3. pc[d] \in BeforeSpawn
  BY <1>1 DEF Starts, StartPlaces, Locked
<1> QED BY <1>1, <1>2, <1>3 DEF StartOK

\* The holder of the mutex, or a thread that takes it, works on a session.
LEMMA MutexMove ==
  ASSUME Tokens, Owners, NEW c \in Callers \cup {NoCaller}, operations \in {c, NoCaller},
         NEW s \in Sessions, up = "up", up' = up, quit' = quit,
         quit # "no" => processes' \subseteq processes,
         \A t \in Sessions \ {s} : JSame(t) /\ OSame(t),
         \A d \in Callers \ {c} : Rests(d),
         SessionOK(s)',
         state[s] # "none" => state'[s] # "none",
         tree[s] = "none" => tree'[s] = "none" \/ \A d \in Callers \ {c} : ~Starts(d, s),
         c \in Callers => \A t \in Sessions :
           /\ Starts(c, t)' => StartOK(c, t)'
           /\ pc'[c] \in {"cancel", "kill"} /\ Session(c)' = t => CancelOK(c, t)'
           /\ Starts(c, t)' => \A d \in Callers \ {c} : ~Starts(d, t)
  PROVE  Owners'
<1>1. \A d \in Callers \ {c} : operations # d
  BY RuntimeAssumption
<1>2. ASSUME NEW d \in Callers \ {c}, Starts(d, s) PROVE StartOK(d, s)'
  <2>1. pc[d] \in BeforeSpawn \ Locked /\ tree[s] = "none" /\ state[s] # "none"
    BY <1>1, <1>2, WaitingStart
  <2>2. tree'[s] = "none" /\ state'[s] # "none" /\ pc'[d] = pc[d]
    BY <1>2, <2>1 DEF Rests
  <2> QED BY <2>1, <2>2 DEF StartOK, BeforeSpawn, Locked
<1>3. \A d \in Callers \ {c} : pc[d] \notin {"cancel", "kill"}
  BY <1>1, Excluded
<1>4. QuitOK'
  BY RuntimeAssumption DEF Owners, QuitOK
<1>5. Forgotten'
  BY DEF Forgotten
<1> QED BY <1>1, <1>2, <1>3, <1>4, <1>5, OwnersMove

\* The call returns.
LEMMA ReturnOwners ==
  ASSUME Tokens, Owners, NEW c \in Callers, operations \in {c, NoCaller}, Return(c),
         NEW s \in Sessions, up = "up", up' = up, quit' = quit,
         quit # "no" => processes' \subseteq processes,
         \A t \in Sessions \ {s} : JSame(t) /\ OSame(t),
         SessionOK(s)',
         state[s] # "none" => state'[s] # "none",
         tree[s] = "none" => tree'[s] = "none"
  PROVE  Owners'
<1>1. pc'[c] = "idle" /\ \A d \in Callers \ {c} : Rests(d)
  BY TypeParts DEF Tokens, MemoryTypeOK, Return, Rests
<1>2. \A t \in Sessions : ~Starts(c, t)'
  BY <1>1 DEF Starts, StartPlaces, BeforeSpawn
<1> QED BY <1>1, <1>2, MutexMove

\* The start goes on.
LEMMA GotoOwners ==
  ASSUME Tokens, Owners, NEW c \in Callers, operations \in {c, NoCaller},
         NEW place \in StartPlaces, Goto(c, place), NEW s \in Sessions, Starts(c, s),
         up = "up", up' = up, quit' = quit,
         quit # "no" => processes' \subseteq processes,
         \A t \in Sessions \ {s} : JSame(t) /\ OSame(t),
         SessionOK(s)', StartOK(c, s)',
         state[s] # "none" => state'[s] # "none"
  PROVE  Owners'
<1>1. pc'[c] = place /\ cur'[c] = cur[c] /\ \A d \in Callers \ {c} : Rests(d)
  BY TypeParts DEF Tokens, MemoryTypeOK, Goto, Rests
<1>2. Session(c)' = s
  BY <1>1 DEF Starts, Session
<1>3. \A d \in Callers \ {c} : ~Starts(d, s)
  BY DEF Owners
<1>4. place \notin {"cancel", "kill"}
  BY DEF StartPlaces, BeforeSpawn
<1>5. \A t \in Sessions : Starts(c, t)' => t = s
  BY <1>2 DEF Starts
<1> QED BY <1>1, <1>3, <1>4, <1>5, MutexMove

\* A thread of the runtime works on a session.
LEMMA ThreadOwners ==
  ASSUME Tokens, Owners, operations = NoCaller, UNCHANGED threadVars,
         NEW s \in Sessions, up = "up", up' = up, quit' = quit,
         quit # "no" => processes' \subseteq processes,
         \A t \in Sessions \ {s} : JSame(t) /\ OSame(t),
         SessionOK(s)',
         state[s] # "none" => state'[s] # "none",
         tree[s] = "none" => tree'[s] = "none"
  PROVE  Owners'
<1>1. \A d \in Callers : Rests(d)
  BY DEF threadVars, Rests
<1> QED BY <1>1, MutexMove, RuntimeAssumption

\* A call that is neither a start nor a cancellation moves, and nothing else.
LEMMA WriteOwners ==
  ASSUME Tokens, Owners, NEW c, up = "up", up' = up,
         \A d \in Callers \ {c} : Rests(d) /\ (operations = d => operations' = d),
         operations = "kill_all" => operations' = operations,
         c \in Callers => pc'[c] \notin StartPlaces \cup {"cancel", "kill"},
         UNCHANGED <<sessionTable, facts, pending, ownerVars, quitVars, tree, proven>>
  PROVE  Owners'
<1>1. \A t \in Sessions : JSame(t) /\ OSame(t)
  BY StillSession DEF OSame, ownerVars, quitVars
<1>2. quit' = quit /\ processes' = processes
  BY DEF quitVars, ownerVars
<1>3. \A t \in Sessions : SessionOK(t)'
  BY <1>1, <1>2, SessionRests DEF Owners
<1>4. ASSUME NEW d \in Callers, NEW t \in Sessions
      PROVE  /\ Starts(d, t)' => Starts(d, t) /\ StartOK(d, t)'
             /\ pc'[d] \in {"cancel", "kill"} /\ Session(d)' = t => CancelOK(d, t)'
  <2>1. CASE d = c
    BY <2>1 DEF Starts
  <2>2. CASE d # c
    <3>1. (Starts(d, t)' <=> Starts(d, t)) /\ pc'[d] = pc[d] /\ Session(d)' = Session(d)
      BY <2>2 DEF Starts, Session, Rests
    <3> QED BY <1>1, <1>2, <2>2, <3>1, StartRests, CancelRests DEF Owners
  <2> QED BY <2>1, <2>2
<1>5. QuitOK'
  BY <1>2 DEF Owners, QuitOK
<1>6. Forgotten'
  BY DEF Forgotten
<1> QED BY <1>3, <1>4, <1>5, <1>6 DEF Owners

-----------------------------------------------------------------------------
(* The calls.                                                              *)

\* What is known of a start, and of its session.
LEMMA StartFacts ==
  ASSUME Tokens, Owners, NEW c \in Callers, pc[c] \in StartPlaces
  PROVE  /\ Session(c) \in Sessions
         /\ \A s \in Sessions : s = Session(c) =>
              Starts(c, s) /\ StartOK(c, s) /\ SessionOK(s)
         /\ JournalTypeOK /\ MemoryTypeOK /\ pending \in [Sessions -> Facts \cup {NoFact}]
<1>1. cur[c] \in Calls
  BY DEF Tokens, CallerOK, StartPlaces, BeforeSpawn
<1>2. Session(c) \in Sessions
  BY <1>1, JournalAssumption DEF Session
<1> QED BY <1>2, TypeParts DEF Starts, Owners, Tokens

\* A write owns no session.
LEMMA WriteStepOwners ==
  ASSUME Tokens, Owners, NEW c \in Callers,
         \/ \E k \in Calls : WriteAdmit(c, k)
         \/ WriteSend(c) \/ WriteRefuse(c) \/ WriteResult(c)
  PROVE  Owners'
<1>1. MemoryTypeOK
  BY TypeParts DEF Tokens
<1>2. UNCHANGED <<sessionTable, facts, pending, ownerVars, quitVars, tree, proven>>
  BY DEF WriteAdmit, WriteSend, WriteRefuse, WriteResult, worldVars, journalVars
<1>3. up = "up" /\ up' = up
  BY DEF WriteAdmit, WriteSend, WriteRefuse, WriteResult, Free, hostVars
<1>4. operations' = operations
  BY DEF WriteAdmit, WriteSend, WriteRefuse, WriteResult, Return, Free
<1>5. \A d \in Callers \ {c} : Rests(d)
  BY <1>1 DEF WriteAdmit, WriteSend, WriteRefuse, WriteResult, Return, Goto, Enter, Rests,
              MemoryTypeOK
<1>6. pc'[c] \in {"idle", "send", "await", "refuse"}
  BY <1>1 DEF WriteAdmit, WriteSend, WriteRefuse, WriteResult, Return, Goto, Enter, MemoryTypeOK
<1>7. pc'[c] \notin StartPlaces \cup {"cancel", "kill"}
  BY <1>6 DEF StartPlaces, BeforeSpawn
<1> QED BY <1>2, <1>3, <1>4, <1>5, <1>7, WriteOwners

\* The writer thread owns no session.
LEMMA WriterOwners ==
  ASSUME Tokens, Owners, NEW s \in Sessions, WriterDelivers(s) \/ WriterFails(s)
  PROVE  Owners'
<1>1. UNCHANGED <<sessionTable, facts, pending, ownerVars, quitVars, tree, proven, threadVars>>
  BY DEF WriterDelivers, WriterFails, journalVars
<1>2. up = "up" /\ up' = up
  BY DEF WriterDelivers, WriterFails, hostVars
<1>3. NoCaller \notin Callers /\ operations' = operations /\ \A d \in Callers : Rests(d)
  BY <1>1, RuntimeAssumption DEF Rests, threadVars
<1> QED BY <1>1, <1>2, <1>3, WriteOwners

\* A start owns a session that had no row.
LEMMA StartAdmitOwners ==
  ASSUME Tokens, Owners, NEW c \in Callers, NEW k \in Calls, StartAdmit(c, k)
  PROVE  Owners'
<1> PICK s : s = k.session
  OBVIOUS
<1>1. JournalTypeOK /\ MemoryTypeOK /\ s \in Sessions
  BY TypeParts, JournalAssumption DEF Tokens
<1>2. /\ state[s] = "none" /\ state'[s] = "starting" /\ operation'[s] = "accepted"
      /\ \A t \in Sessions \ {s} : state'[t] = state[t] /\ operation'[t] = operation[t]
  BY <1>1 DEF StartAdmit, BeginStartRequest, JournalTypeOK
<1>3. /\ UNCHANGED <<facts, pending, operations, processes, supervisions, monitor, reader, quit,
                     todo, tree, proven>>
      /\ operations = NoCaller /\ up = "up" /\ up' = up /\ quit = "no"
  BY DEF StartAdmit, ownerVars, quitVars, worldVars, hostVars, Free
<1>4. SessionOK(s)
  BY <1>1 DEF Owners
<1>5. tree[s] = "none" /\ monitor[s] = "off" /\ s \notin proven /\ s \notin processes
  BY <1>2, <1>4 DEF SessionOK, TreeOK, ProcessOK
<1>6. SessionOK(s)'
  <2>1. TreeOK(s)'
    BY <1>2, <1>3, <1>4, <1>5 DEF SessionOK, TreeOK, IsOpen, IsTerminal, TerminalStates,
                                  OpenPhases, SafePhases
  <2>2. ProcessOK(s)'
    BY <1>3, <1>4, <1>5 DEF SessionOK, ProcessOK, Exiting
  <2>3. ProvenOK(s)'
    BY <1>3, <1>5 DEF ProvenOK, Exiting
  <2> QED BY <2>1, <2>2, <2>3 DEF SessionOK
<1>7. \A t \in Sessions \ {s} : JSame(t) /\ OSame(t)
  BY <1>2, <1>3 DEF JSame, OSame
<1>8. pc'[c] = "probe" /\ cur'[c] = k /\ \A d \in Callers \ {c} : Rests(d)
  BY <1>1 DEF StartAdmit, Enter, Rests, MemoryTypeOK
<1>9. \A d \in Callers : ~Starts(d, s)
  BY <1>1, <1>2 DEF Owners, StartOK
<1>10. \A t \in Sessions : Starts(c, t)' => t = s
  BY <1>8 DEF Starts, Session
<1>11. StartOK(c, s)'
  BY <1>2, <1>3, <1>5, <1>8 DEF StartOK, Locked, BeforeSpawn
<1> QED BY <1>1, <1>2, <1>3, <1>6, <1>7, <1>8, <1>9, <1>10, <1>11, MutexMove

\* The probe runs without the mutex and touches nothing.
LEMMA ProbeOwners ==
  ASSUME Tokens, Owners, NEW c \in Callers, Probe(c)
  PROVE  Owners'
<1> PICK s : s = Session(c)
  OBVIOUS
<1>0. pc[c] = "probe" /\ pc[c] \in StartPlaces /\ pc[c] \in BeforeSpawn
  BY DEF Probe, StartPlaces, BeforeSpawn
<1>1. s \in Sessions /\ Starts(c, s) /\ StartOK(c, s) /\ SessionOK(s) /\ MemoryTypeOK
  BY <1>0, StartFacts
<1>2. /\ UNCHANGED <<sessionTable, facts, pending, ownerVars, quitVars, tree, proven>>
      /\ up = "up" /\ up' = up /\ operations' = operations /\ quit' = quit
  BY DEF Probe, journalVars, hostVars, quitVars
<1>3. /\ pc'[c] \in {"ready", "reject", "unproven"} /\ cur'[c] = cur[c]
      /\ \A d \in Callers \ {c} : Rests(d)
  BY <1>1 DEF Probe, Goto, Rests, MemoryTypeOK
<1>4. \A t \in Sessions : JSame(t) /\ OSame(t)
  BY <1>2, StillSession DEF OSame, ownerVars, quitVars
<1>5. SessionOK(s)'
  BY <1>1, <1>2, <1>4, SessionRests
<1>6. \A d \in Callers \ {c} : ~Starts(d, s)
  BY <1>1 DEF Owners
<1>7. \A t \in Sessions : Starts(c, t)' => t = s
  BY <1>3 DEF Starts, Session
<1>8. StartOK(c, s)'
  BY <1>0, <1>1, <1>3, <1>4 DEF StartOK, Locked, BeforeSpawn, JSame, OSame
<1>9. \A d \in Callers \ {c} : pc[d] \in {"cancel", "kill"} /\ Session(d) = s => CancelOK(d, s)'
  BY <1>1, <1>2, <1>3, <1>4, CancelRests DEF Owners
<1>10. QuitOK' /\ Forgotten'
  BY <1>2 DEF Owners, QuitOK, Forgotten, ownerVars
<1> QED BY <1>1, <1>2, <1>3, <1>4, <1>5, <1>6, <1>7, <1>8, <1>9, <1>10, OwnersMove

\* A start that has spawned nothing records its end.
LEMMA RecordBothOwners ==
  ASSUME Tokens, Owners, NEW c \in Callers, ProbeUnproven(c) \/ RejectStart(c)
  PROVE  Owners'
<1> PICK s : s = Session(c)
  OBVIOUS
<1>0. pc[c] \in BeforeSpawn /\ pc[c] \in StartPlaces
  BY DEF ProbeUnproven, RejectStart, StartPlaces, BeforeSpawn
<1>1. /\ s \in Sessions /\ Starts(c, s) /\ StartOK(c, s) /\ SessionOK(s) /\ MemoryTypeOK
      /\ JournalTypeOK /\ pending \in [Sessions -> Facts \cup {NoFact}]
  BY <1>0, StartFacts
<1>2. /\ UNCHANGED <<processes, supervisions, monitor, reader, quit, todo, tree, proven>>
      /\ up = "up" /\ up' = up /\ operations \in {c, NoCaller} /\ Return(c)
  BY DEF ProbeUnproven, RejectStart, ownerVars, quitVars, worldVars, hostVars, Free, Holds
<1>3. PICK to \in {"failed", "unknown_outcome"} :
         /\ JSame(s) \/ (JMoves(s, to, to) /\ pending'[s] = pending[s])
         /\ \A t \in Sessions \ {s} : JSame(t)
  <2>1. \E to \in {"failed", "unknown_outcome"} : RecordBoth(Id(c), s, to, to)
    BY DEF ProbeUnproven, RejectStart, MarkTerminationUnknown
  <2> QED BY <1>1, <2>1, RecordBothSession DEF TerminalStates, OperationPhases
<1>4. tree[s] = "none" /\ state[s] # "none" /\ \A t \in Sessions : OSame(t)
  BY <1>0, <1>1, <1>2 DEF StartOK, OSame
<1>5. SessionOK(s)'
  <2>1. CASE JSame(s)
    BY <1>1, <1>2, <1>4, <2>1, SessionRests
  <2>2. CASE JMoves(s, to, to) /\ pending'[s] = pending[s]
    <3>1. TreeOK(s)'
      BY <1>1, <1>2, <1>4, <2>2
         DEF SessionOK, TreeOK, ProcessOK, JMoves, IsOpen, IsTerminal, TerminalStates, Calm
    <3>2. ProcessOK(s)'
      BY <1>1, <1>2, <1>4, <2>2 DEF SessionOK, ProcessOK, JMoves, Calm, Exiting
    <3>3. ProvenOK(s)'
      BY <1>1, <1>2, <1>4, <2>2 DEF SessionOK, ProcessOK, ProvenOK, Exiting
    <3> QED BY <3>1, <3>2, <3>3 DEF SessionOK
  <2> QED BY <1>3, <2>1, <2>2
<1>6. state'[s] # "none"
  BY <1>3, <1>4 DEF JSame, JMoves
<1> QED BY <1>1, <1>2, <1>3, <1>4, <1>5, <1>6, ReturnOwners

\* The dispatch takes the mutex again, for a session that is as it was.
LEMMA DispatchOwners ==
  ASSUME Tokens, Owners, NEW c \in Callers, Dispatch(c)
  PROVE  Owners'
<1> PICK s : s = Session(c)
  OBVIOUS
<1>0. pc[c] = "ready" /\ pc[c] \in BeforeSpawn /\ pc[c] \in StartPlaces
  BY DEF Dispatch, StartPlaces, BeforeSpawn
<1>1. s \in Sessions /\ Starts(c, s) /\ StartOK(c, s) /\ SessionOK(s)
  BY <1>0, StartFacts
<1>2. /\ UNCHANGED <<sessionTable, facts, pending, processes, supervisions, monitor, reader, quit,
                     todo, tree, proven>>
      /\ up = "up" /\ up' = up /\ operations = NoCaller
  BY DEF Dispatch, ownerVars, quitVars, worldVars, hostVars, Free
<1>3. \A t \in Sessions : JSame(t) /\ OSame(t)
  BY <1>2, StillSession DEF OSame
<1>4. SessionOK(s)' /\ state'[s] = state[s] /\ tree'[s] = tree[s]
  BY <1>1, <1>2, <1>3, SessionRests DEF JSame, OSame
<1>5. CASE Return(c)
  BY <1>1, <1>2, <1>3, <1>4, <1>5, ReturnOwners
<1>6. CASE Keep(c, "reject")
  <2>1. pc'[c] = "reject"
    BY <1>6, TypeParts DEF Keep, Goto, Tokens, MemoryTypeOK
  <2>2. StartOK(c, s)'
    BY <1>0, <1>1, <1>4, <2>1 DEF StartOK, Locked, BeforeSpawn
  <2>3. "reject" \in StartPlaces
    BY DEF StartPlaces, BeforeSpawn
  <2> QED BY <1>1, <1>2, <1>3, <1>4, <1>6, <2>2, <2>3, GotoOwners DEF Keep
<1>7. CASE /\ quit = "no" /\ state[s] = "starting" /\ operation[s] = "accepted"
           /\ Keep(c, "accepted")
  <2>1. pc'[c] = "accepted" /\ operations' = c
    BY <1>7, TypeParts DEF Keep, Goto, Tokens, MemoryTypeOK
  <2>2. StartOK(c, s)'
    BY <1>0, <1>1, <1>2, <1>3, <1>4, <1>7, <2>1
       DEF StartOK, Locked, BeforeSpawn, OperationAt, SafePhases, JSame
  <2>3. "accepted" \in StartPlaces
    BY DEF StartPlaces, BeforeSpawn
  <2> QED BY <1>1, <1>2, <1>3, <1>4, <1>7, <2>2, <2>3, GotoOwners DEF Keep
<1> QED BY <1>5, <1>6, <1>7 DEF Dispatch

\* advance_start_phase keeps the mutex and moves both rows.
LEMMA AdvanceOwners ==
  ASSUME Tokens, Owners, NEW c \in Callers,
         \/ AdvanceStart(c, "accepted", "dispatched", "dispatched")
         \/ AdvanceStart(c, "dispatched", "side_effect_started", "spawn")
  PROVE  Owners'
<1> PICK s : s = Session(c)
  OBVIOUS
<1>0. /\ pc[c] \in {"accepted", "dispatched"} /\ pc[c] \in BeforeSpawn /\ pc[c] \in StartPlaces
      /\ pc[c] \in Locked \ {"teardown"}
  BY DEF AdvanceStart, StartPlaces, BeforeSpawn, Locked
<1>1. /\ s \in Sessions /\ Starts(c, s) /\ StartOK(c, s) /\ SessionOK(s)
      /\ JournalTypeOK /\ MemoryTypeOK
  BY <1>0, StartFacts
<1>2. /\ UNCHANGED <<state, facts, pending, processes, supervisions, monitor, reader, quit,
                     todo, tree, proven>>
      /\ up = "up" /\ up' = up /\ operations \in {c, NoCaller}
  BY DEF AdvanceStart, ownerVars, quitVars, worldVars, hostVars, Holds
<1>3. tree[s] = "none" /\ state[s] = "starting" /\ quit = "no" /\ operation[s] \in SafePhases
  BY <1>0, <1>1 DEF StartOK, OperationAt, SafePhases
<1>4. PICK place \in {"dispatched", "spawn", "reject"} :
         /\ Keep(c, place)
         /\ \/ place = "reject" /\ operation' = operation
            \/ /\ place # "reject"
               /\ operation' = [operation EXCEPT ![s] = OperationAt(place)]
  BY DEF AdvanceStart, SetSessionPhase, OperationAt, SafePhases
<1>5. /\ pc'[c] = place /\ operations' = c /\ place \in StartPlaces /\ place \in BeforeSpawn
      /\ place # "reject" => place \in Locked \ {"teardown"}
      /\ place = "reject" => place \notin Locked
  BY <1>1, <1>4 DEF Keep, Goto, MemoryTypeOK, StartPlaces, BeforeSpawn, Locked
<1>6. /\ operation'[s] \in OpenPhases
      /\ place # "reject" => operation'[s] = OperationAt(place)
      /\ \A t \in Sessions \ {s} : operation'[t] = operation[t]
  BY <1>1, <1>3, <1>4 DEF JournalTypeOK, OperationAt, OpenPhases, SafePhases, UncertainPhases
<1>7. (\A t \in Sessions \ {s} : JSame(t)) /\ (\A t \in Sessions : OSame(t))
  BY <1>2, <1>6 DEF JSame, OSame
<1>8. SessionOK(s)'
  <2>1. TreeOK(s)'
    BY <1>1, <1>2, <1>3, <1>6 DEF SessionOK, TreeOK, IsOpen, IsTerminal
  <2>2. ProcessOK(s)'
    BY <1>1, <1>2 DEF SessionOK, ProcessOK, Calm
  <2>3. ProvenOK(s)'
    BY <1>1, <1>2, <1>3 DEF SessionOK, ProcessOK, ProvenOK, Exiting
  <2> QED BY <2>1, <2>2, <2>3 DEF SessionOK
<1>9. StartOK(c, s)'
  BY <1>2, <1>3, <1>5, <1>6 DEF StartOK, BeforeSpawn
<1> QED BY <1>1, <1>2, <1>4, <1>5, <1>7, <1>8, <1>9, GotoOwners DEF Keep

\* The spawn puts the process into the map under the mutex.
LEMMA SpawnOwners ==
  ASSUME Tokens, Owners, NEW c \in Callers, Spawn(c)
  PROVE  Owners'
<1> PICK s : s = Session(c)
  OBVIOUS
<1>0. /\ pc[c] = "spawn" /\ pc[c] \in BeforeSpawn /\ pc[c] \in StartPlaces
      /\ pc[c] \in Locked \ {"teardown"}
  BY DEF Spawn, StartPlaces, BeforeSpawn, Locked
<1>1. /\ s \in Sessions /\ Starts(c, s) /\ StartOK(c, s) /\ SessionOK(s)
      /\ JournalTypeOK /\ MemoryTypeOK
  BY <1>0, StartFacts
<1>2. /\ UNCHANGED <<sessionTable, facts, pending, supervisions, monitor, reader, quit, todo, proven>>
      /\ up = "up" /\ up' = up /\ operations \in {c, NoCaller}
  BY DEF Spawn, quitVars, hostVars, Holds, journalVars
<1>3. /\ tree[s] = "none" /\ state[s] = "starting" /\ quit = "no"
      /\ operation[s] = "side_effect_started"
  BY <1>0, <1>1 DEF StartOK, OperationAt, SafePhases
<1>4. /\ monitor[s] = "off" /\ s \notin reader /\ s \notin proven /\ s \notin processes
      /\ Calm(facts[s]) /\ Calm(pending[s])
  BY <1>1, <1>3 DEF SessionOK, ProcessOK
<1>5. \A t \in Sessions : JSame(t)
  BY <1>2, StillSession
<1>6. CASE Keep(c, "reject") /\ UNCHANGED <<processes, tree>>
  <2>1. \A t \in Sessions : OSame(t)
    BY <1>2, <1>6 DEF OSame
  <2>2. SessionOK(s)' /\ state'[s] = state[s] /\ tree'[s] = tree[s]
    BY <1>1, <1>2, <1>5, <2>1, SessionRests DEF JSame, OSame
  <2>3. pc'[c] = "reject" /\ "reject" \in StartPlaces
    BY <1>1, <1>6 DEF Keep, Goto, MemoryTypeOK, StartPlaces, BeforeSpawn
  <2>4. StartOK(c, s)'
    BY <1>3, <2>2, <2>3 DEF StartOK, Locked, BeforeSpawn
  <2> QED BY <1>1, <1>2, <1>5, <1>6, <2>1, <2>2, <2>3, <2>4, GotoOwners DEF Keep
<1>7. ASSUME NEW place \in {"own", "teardown"}, Keep(c, place),
             tree' = [tree EXCEPT ![s] = "alive"],
             \/ place = "own" /\ processes' = processes \cup {s}
             \/ place = "teardown" /\ processes' = processes
      PROVE  Owners'
  <2>1. tree'[s] = "alive" /\ \A t \in Sessions \ {s} : tree'[t] = tree[t]
    BY <1>1, <1>7 DEF MemoryTypeOK
  <2>2. \A t \in Sessions \ {s} : OSame(t)
    BY <1>2, <1>7, <2>1 DEF OSame
  <2>3. pc'[c] = place /\ operations' = c /\ place \in StartPlaces
    BY <1>1, <1>7 DEF Keep, Goto, MemoryTypeOK, StartPlaces
  <2>4. state'[s] = "starting" /\ operation'[s] = "side_effect_started"
    BY <1>1, <1>3, <1>5 DEF JSame
  <2>5. SessionOK(s)'
    <3>1. TreeOK(s)'
      BY <1>1, <1>2, <1>4, <2>1, <2>4
         DEF TreeOK, IsOpen, IsTerminal, TerminalStates, Calm, OpenPhases, SafePhases,
             UncertainPhases
    <3>2. ProcessOK(s)'
      BY <1>2, <1>4, <2>1, <2>4 DEF ProcessOK, Exiting
    <3>3. ProvenOK(s)'
      BY <1>2, <1>4 DEF ProvenOK, Exiting
    <3> QED BY <3>1, <3>2, <3>3 DEF SessionOK
  <2>6. StartOK(c, s)'
    BY <1>2, <1>3, <1>4, <1>7, <2>1, <2>3, <2>4
       DEF StartOK, Locked, BeforeSpawn, OperationAt, SafePhases
  <2> QED BY <1>1, <1>2, <1>3, <1>5, <1>7, <2>2, <2>3, <2>4, <2>5, <2>6, GotoOwners DEF Keep
<1> QED BY <1>6, <1>7 DEF Spawn

\* The ownership commit hands the process over to its threads.
LEMMA OwnOwners ==
  ASSUME Tokens, Owners, NEW c \in Callers, Own(c)
  PROVE  Owners'
<1> PICK s : s = Session(c)
  OBVIOUS
<1>0. pc[c] = "own" /\ pc[c] \in StartPlaces /\ pc[c] \in Locked \ {"teardown"}
  BY DEF Own, StartPlaces, BeforeSpawn, Locked
<1>1. /\ s \in Sessions /\ Starts(c, s) /\ StartOK(c, s) /\ SessionOK(s)
      /\ JournalTypeOK /\ MemoryTypeOK
  BY <1>0, StartFacts
<1>2. /\ UNCHANGED <<pending, processes, supervisions, quit, todo, tree, proven>>
      /\ up = "up" /\ up' = up /\ operations \in {c, NoCaller}
  BY DEF Own, quitVars, hostVars, Holds, worldVars
<1>3. /\ tree[s] # "none" /\ state[s] = "starting" /\ quit = "no" /\ s \in processes
      /\ operation[s] = "side_effect_started"
      /\ monitor[s] = "off" /\ s \notin reader /\ s \notin proven
  BY <1>0, <1>1 DEF StartOK, OperationAt, SafePhases
<1>4. /\ \A t \in Sessions \ {s} : JSame(t)
      /\ \/ JSame(s)
         \/ state'[s] = "running" /\ operation'[s] = "committed" /\ facts'[s] = NoFact
  <2>1. CASE UpdateSession(s, "running", "committed")
    BY <1>1, <1>2, <2>1 DEF UpdateSession, JournalTypeOK, JSame
  <2>2. CASE UNCHANGED <<sessionTable, facts>>
    BY <1>1, <1>2, <2>2, StillSession
  <2> QED BY <2>1, <2>2 DEF Own
<1>5. \/ /\ Return(c) /\ monitor' = [monitor EXCEPT ![s] = "watching"]
         /\ reader' = reader \cup {s}
      \/ Keep(c, "teardown") /\ UNCHANGED <<monitor, reader>>
  BY DEF Own
<1>6. \A t \in Sessions \ {s} : OSame(t)
  BY <1>1, <1>2, <1>5 DEF OSame, MemoryTypeOK
<1>7. monitor'[s] \in {"off", "watching"} /\ state'[s] \in {"starting", "running"}
  BY <1>1, <1>3, <1>4, <1>5 DEF MemoryTypeOK, JSame
<1>8. SessionOK(s)'
  <2>1. TreeOK(s)'
    BY <1>1, <1>2, <1>3, <1>4, <1>7
       DEF SessionOK, TreeOK, IsOpen, IsTerminal, TerminalStates, OpenPhases, SafePhases,
           UncertainPhases, JSame
  <2>2. ProcessOK(s)'
    BY <1>1, <1>2, <1>3, <1>7 DEF SessionOK, ProcessOK, Exiting
  <2>3. ProvenOK(s)'
    BY <1>2, <1>3, <1>7 DEF ProvenOK, Exiting
  <2> QED BY <2>1, <2>2, <2>3 DEF SessionOK
<1>9. CASE Return(c)
  BY <1>1, <1>2, <1>3, <1>4, <1>6, <1>7, <1>8, <1>9, ReturnOwners
<1>10. CASE Keep(c, "teardown") /\ UNCHANGED <<monitor, reader>>
  <2>1. pc'[c] = "teardown" /\ operations' = c /\ "teardown" \in StartPlaces
    BY <1>1, <1>10 DEF Keep, Goto, MemoryTypeOK, StartPlaces
  <2>2. StartOK(c, s)'
    BY <1>2, <1>3, <1>7, <1>10, <2>1 DEF StartOK, BeforeSpawn
  <2> QED BY <1>1, <1>2, <1>4, <1>6, <1>7, <1>8, <1>10, <2>1, <2>2, GotoOwners DEF Keep
<1> QED BY <1>5, <1>9, <1>10

-----------------------------------------------------------------------------
(* The end of a session.                                                   *)

\* A tree that exists may be gone after the step.
Falls(s) == tree'[s] = tree[s] \/ (tree[s] # "none" /\ tree'[s] = "dead")

\* What a step may record of a session that ends: it lets it be, settles it with
\* the fact f, keeps the fact for later, drops it, or calls the outcome unknown.
Records(s, f) ==
  \/ JSame(s)
  \/ JDrops(s)
  \/ f \in Facts /\ (f.state = "failed" => tree'[s] = "dead") /\ (JCommits(s, f) \/ JKeeps(s, f))
  \/ JMoves(s, "unknown_outcome", "unknown_outcome") /\ pending'[s] = pending[s]

\* A recorded end says of the tree what was done to it.
LEMMA RecordsTree ==
  ASSUME NEW s \in Sessions, NEW f, TreeOK(s), Falls(s), Records(s, f),
         monitor'[s] = "proven" => tree'[s] = "dead"
  PROVE  TreeOK(s)'
<1>1. CASE JSame(s)
  BY <1>1 DEF TreeOK, Falls, JSame, IsOpen, IsTerminal
<1>2. CASE JDrops(s)
  BY <1>2 DEF TreeOK, Falls, JDrops, IsOpen, IsTerminal
<1>3. CASE f \in Facts /\ (f.state = "failed" => tree'[s] = "dead") /\ JCommits(s, f)
  BY <1>3 DEF TreeOK, JCommits, JMoves, IsOpen, IsTerminal, Facts, TerminalStates
<1>4. CASE f \in Facts /\ (f.state = "failed" => tree'[s] = "dead") /\ JKeeps(s, f)
  <2>1. \A g \in {facts'[s], pending'[s]} : g # NoFact /\ g.state = "failed" => tree'[s] = "dead"
    BY <1>4 DEF TreeOK, JKeeps, Falls
  <2>2. state'[s] = state[s] /\ operation'[s] = operation[s]
    BY <1>4 DEF JKeeps
  <2> QED BY <2>1, <2>2 DEF TreeOK, Falls, IsOpen, IsTerminal
<1>5. CASE JMoves(s, "unknown_outcome", "unknown_outcome") /\ pending'[s] = pending[s]
  BY <1>5 DEF TreeOK, Falls, JMoves, IsOpen, IsTerminal, TerminalStates
<1> QED BY <1>1, <1>2, <1>3, <1>4, <1>5 DEF Records

\* The session has lost its process, if it had one.
LEMMA RecordsProcess ==
  ASSUME NEW s \in Sessions, NEW f, ProcessOK(s), Falls(s), Records(s, f),
         s \notin processes',
         monitor'[s] \in Exiting => s \in supervisions',
         tree[s] = "none" =>
           /\ f \in Facts => f.state = "cancelled"
           /\ reader' \subseteq reader /\ monitor'[s] = monitor[s]
           /\ s \in proven' => s \in proven
           /\ quit' = quit /\ todo' \subseteq todo
  PROVE  ProcessOK(s)'
<1>1. CASE tree[s] # "none"
  BY <1>1 DEF ProcessOK, Falls
<1>2. CASE tree[s] = "none"
  <2>1. Calm(facts[s]) /\ Calm(pending[s]) /\ (f \in Facts => Calm(f))
    BY <1>2 DEF ProcessOK, Calm
  <2>2. Calm(facts'[s]) /\ Calm(pending'[s])
    BY <2>1 DEF Records, JSame, JDrops, JCommits, JMoves, JKeeps, Calm
  <2> QED BY <1>2, <2>2 DEF ProcessOK, Falls
<1> QED BY <1>1, <1>2

\* The facts the runtime states of a session that ends.
LEMMA FactStates ==
  ASSUME NEW i \in Ids
  PROVE  /\ CancelledFact(i) \in Facts /\ CancelledFact(i).state = "cancelled"
         /\ RejectedFact(i) \in Facts /\ RejectedFact(i).state = "failed"
  BY DEF CancelledFact, RejectedFact, Fact, Facts, TerminalStates, OperationPhases

\* The states of the facts that a termination records.
LEMMA TerminationStates ==
  ASSUME NEW ok \in BOOLEAN
  PROVE  /\ TerminationFact(ok) \in Facts
         /\ TerminationFact(ok).state = IF ok THEN "failed" ELSE "unknown_outcome"
         /\ ShutdownFact(ok) \in Facts
         /\ ShutdownFact(ok).state = IF ok THEN "cancelled" ELSE "unknown_outcome"
<1>1. CASE ok
  BY <1>1 DEF TerminationFact, ShutdownFact, Fact, Facts, TerminalStates, OperationPhases
<1>2. CASE ~ok
  BY <1>2 DEF TerminationFact, ShutdownFact, Fact, Facts, TerminalStates, OperationPhases
<1> QED BY <1>1, <1>2

\* The teardown of a start that came too far.
LEMMA TeardownOwners ==
  ASSUME Tokens, Owners, NEW c \in Callers, Teardown(c)
  PROVE  Owners'
<1> PICK s : s = Session(c)
  OBVIOUS
<1>0. pc[c] = "teardown" /\ pc[c] \in StartPlaces /\ pc[c] \in Locked
  BY DEF Teardown, StartPlaces, Locked
<1>1. /\ s \in Sessions /\ Starts(c, s) /\ StartOK(c, s) /\ SessionOK(s)
      /\ JournalTypeOK /\ MemoryTypeOK /\ pending \in [Sessions -> Facts \cup {NoFact}]
  BY <1>0, StartFacts
<1>2. /\ UNCHANGED <<supervisions, monitor, reader, quit, todo>>
      /\ processes' = processes \ {s}
      /\ up = "up" /\ up' = up /\ operations \in {c, NoCaller} /\ Return(c)
  BY DEF Teardown, quitVars, hostVars, Holds
<1>3. /\ tree[s] # "none" /\ state[s] \in {"starting", "running"}
      /\ monitor[s] = "off" /\ s \notin proven
  BY <1>0, <1>1 DEF StartOK
<1>i. Id(c) \in Ids
  <2>1. cur[c] \in Calls
    BY <1>0 DEF Tokens, CallerOK
  <2> QED BY <2>1, JournalAssumption DEF Id
<1> PICK f : f = RejectedFact(Id(c))
  OBVIOUS
<1>f. f \in Facts /\ f.state = "failed"
  BY <1>i, FactStates
<1>4. /\ Falls(s)
      /\ \A t \in Sessions \ {s} : JSame(t) /\ tree'[t] = tree[t] /\ (t \in proven' <=> t \in proven)
      /\ \/ tree'[s] = "dead" /\ (JCommits(s, f) \/ JKeeps(s, f))
         \/ /\ s \notin proven'
            /\ JSame(s) \/ (JMoves(s, "unknown_outcome", "unknown_outcome") /\ pending'[s] = pending[s])
  <2>1. CASE Terminate(s, TRUE) /\ PersistTerminalFact(s, f)
    <3>1. tree' = [tree EXCEPT ![s] = "dead"] /\ proven' = proven \cup {s}
      BY <2>1 DEF Terminate
    <3>2. tree'[s] = "dead" /\ \A t \in Sessions \ {s} : tree'[t] = tree[t]
      BY <1>1, <3>1 DEF MemoryTypeOK
    <3> QED BY <1>1, <1>3, <1>f, <2>1, <3>1, <3>2, PersistSession DEF Falls
  <2>2. CASE Terminate(s, FALSE) /\ MarkTerminationUnknown(Id(c), s)
    <3>1. tree' = tree /\ proven' = proven
      BY <2>2 DEF Terminate
    <3>2. "unknown_outcome" \in TerminalStates /\ "unknown_outcome" \in OperationPhases
      BY DEF TerminalStates, OperationPhases
    <3> QED BY <1>1, <1>3, <2>2, <3>1, <3>2, RecordBothSession DEF Falls, MarkTerminationUnknown
  <2>3. \E ok \in BOOLEAN :
          /\ Terminate(s, ok)
          /\ IF ok THEN PersistTerminalFact(s, f) ELSE MarkTerminationUnknown(Id(c), s)
    BY DEF Teardown
  <2> QED BY <2>1, <2>2, <2>3
<1>5. \A t \in Sessions \ {s} : JSame(t) /\ OSame(t)
  BY <1>2, <1>4 DEF OSame
<1>6. Records(s, f)
  BY <1>4, <1>f DEF Records
<1>7. SessionOK(s)'
  <2>1. TreeOK(s)'
    BY <1>1, <1>2, <1>3, <1>4, <1>6, RecordsTree DEF SessionOK
  <2>2. ProcessOK(s)'
    BY <1>1, <1>2, <1>3, <1>4, <1>6, RecordsProcess DEF SessionOK, Exiting
  <2>3. ProvenOK(s)'
    <3>1. CASE s \notin proven'
      BY <1>2, <1>3, <3>1 DEF ProvenOK, Exiting
    <3>2. CASE JCommits(s, f)
      BY <1>2, <1>3, <1>f, <3>2 DEF ProvenOK, Exiting, JCommits, JMoves, IsOpen, IsTerminal,
                                    TerminalStates
    <3>3. CASE JKeeps(s, f)
      BY <1>2, <1>3, <1>f, <3>3, FactAssumption DEF ProvenOK, Exiting, JKeeps
    <3> QED BY <1>4, <3>1, <3>2, <3>3
  <2> QED BY <2>1, <2>2, <2>3 DEF SessionOK
<1>8. state'[s] # "none"
  BY <1>3, <1>4, <1>f DEF JSame, JCommits, JKeeps, JMoves, Facts, TerminalStates
<1> QED BY <1>1, <1>2, <1>3, <1>5, <1>7, <1>8, ReturnOwners

\* What is known of a cancellation, and of its session.
LEMMA CancelFacts ==
  ASSUME Tokens, Owners, NEW c \in Callers, pc[c] \in {"cancel", "kill"}
  PROVE  /\ Session(c) \in Sessions /\ Id(c) \in Ids
         /\ \A s \in Sessions : s = Session(c) => CancelOK(c, s) /\ SessionOK(s)
         /\ JournalTypeOK /\ MemoryTypeOK /\ pending \in [Sessions -> Facts \cup {NoFact}]
<1>1. cur[c] \in Calls
  BY DEF Tokens, CallerOK
<1>2. Session(c) \in Sessions /\ Id(c) \in Ids
  BY <1>1, JournalAssumption DEF Session, Id
<1> QED BY <1>2, TypeParts DEF Owners, Tokens

\* A cancellation stops the process it finds in the map, under the mutex.
LEMMA CancelKillOwners ==
  ASSUME Tokens, Owners, NEW c \in Callers, CancelKill(c)
  PROVE  Owners'
<1> PICK s : s = Session(c)
  OBVIOUS
<1>0. pc[c] = "kill"
  BY DEF CancelKill
<1>1. /\ s \in Sessions /\ CancelOK(c, s) /\ SessionOK(s) /\ Id(c) \in Ids
      /\ JournalTypeOK /\ MemoryTypeOK /\ pending \in [Sessions -> Facts \cup {NoFact}]
  BY <1>0, CancelFacts
<1>2. /\ UNCHANGED <<supervisions, monitor, reader, quit, todo>>
      /\ processes' = processes \ {s}
      /\ up = "up" /\ up' = up /\ operations \in {c, NoCaller} /\ Return(c)
  BY DEF CancelKill, quitVars, hostVars, Holds
<1>3. pending[s] = NoFact /\ s \notin supervisions /\ state[s] # "none" /\ monitor[s] \notin Exiting
  BY <1>0, <1>1 DEF CancelOK, SessionOK, ProcessOK
<1> PICK f : f = CancelledFact(Id(c))
  OBVIOUS
<1>f. f \in Facts /\ f.state = "cancelled"
  BY <1>1, FactStates
<1>4. ASSUME RecordCancelled(Id(c), s)
      PROVE  /\ \A t \in Sessions \ {s} : JSame(t)
             /\ \/ JCommits(s, f) \/ JKeeps(s, f)
                \/ IsTerminal(s) /\ JSame(s)
  <2>1. CASE IsOpen(s)
    BY <1>1, <1>4, <1>f, <2>1, PersistSession DEF RecordCancelled
  <2>2. CASE ~IsOpen(s)
    BY <1>1, <1>3, <1>4, <2>2, StillSession DEF RecordCancelled, IsOpen
  <2> QED BY <2>1, <2>2
<1>5. ASSUME MarkTerminationUnknown(Id(c), s)
      PROVE  /\ \A t \in Sessions \ {s} : JSame(t)
             /\ \/ JSame(s)
                \/ JMoves(s, "unknown_outcome", "unknown_outcome") /\ pending'[s] = pending[s]
  <2>1. "unknown_outcome" \in TerminalStates /\ "unknown_outcome" \in OperationPhases
    BY DEF TerminalStates, OperationPhases
  <2> QED BY <1>1, <1>5, <2>1, RecordBothSession DEF MarkTerminationUnknown
\* What the step proves, and what it records.
<1>6. /\ Falls(s) /\ Records(s, f) /\ (s \in proven' /\ quit = "no" =>
           /\ state[s] # "unknown_outcome"
           /\ JCommits(s, f) \/ JKeeps(s, f) \/ (IsTerminal(s) /\ JSame(s)))
      /\ tree[s] = "none" => (s \in proven' => s \in proven)
      /\ \A t \in Sessions \ {s} : JSame(t) /\ tree'[t] = tree[t] /\ (t \in proven' <=> t \in proven)
  <2>1. CASE s \in processes /\ Terminate(s, TRUE) /\ RecordCancelled(Id(c), s)
    <3>1. tree' = [tree EXCEPT ![s] = "dead"] /\ proven' = proven \cup {s}
      BY <2>1 DEF Terminate
    <3>2. tree'[s] = "dead" /\ \A t \in Sessions \ {s} : tree'[t] = tree[t]
      BY <1>1, <3>1 DEF MemoryTypeOK
    <3>3. tree[s] # "none" /\ state[s] # "unknown_outcome"
      BY <1>1, <2>1 DEF SessionOK, ProcessOK
    <3> QED BY <1>4, <1>f, <2>1, <3>1, <3>2, <3>3 DEF Falls, Records
  <2>2. CASE s \in processes /\ Terminate(s, FALSE) /\ MarkTerminationUnknown(Id(c), s)
    <3>1. tree' = tree /\ proven' = proven /\ s \notin proven
      BY <1>1, <2>2 DEF Terminate, SessionOK, ProcessOK
    <3> QED BY <1>5, <2>2, <3>1 DEF Falls, Records
  <2>3. CASE /\ s \notin processes /\ UNCHANGED <<tree, proven>>
             /\ IsTerminal(s) \/ AcceptedOnly(s)
             /\ RecordCancelled(Id(c), s)
    <3>1. s \in proven /\ quit = "no" => state[s] # "unknown_outcome"
      BY <1>1 DEF SessionOK, ProvenOK
    <3> QED BY <1>4, <1>f, <2>3, <3>1 DEF Falls, Records
  <2>4. CASE /\ s \notin processes /\ UNCHANGED <<tree, proven>>
             /\ ~IsTerminal(s)
             /\ MarkTerminationUnknown(Id(c), s)
    <3>1. s \in proven => quit # "no"
      BY <1>1, <1>3, <2>4 DEF SessionOK, ProvenOK, IsOpen, Exiting
    <3> QED BY <1>5, <2>4, <3>1 DEF Falls, Records
  <2>5. \/ /\ s \in processes
           /\ \E ok \in BOOLEAN :
                /\ Terminate(s, ok)
                /\ IF ok THEN RecordCancelled(Id(c), s) ELSE MarkTerminationUnknown(Id(c), s)
        \/ /\ s \notin processes
           /\ IF IsTerminal(s) \/ AcceptedOnly(s)
              THEN RecordCancelled(Id(c), s) ELSE MarkTerminationUnknown(Id(c), s)
           /\ UNCHANGED <<tree, proven>>
    BY DEF CancelKill
  <2> QED BY <2>1, <2>2, <2>3, <2>4, <2>5
<1>7. \A t \in Sessions \ {s} : JSame(t) /\ OSame(t)
  BY <1>2, <1>6 DEF OSame
<1>8. SessionOK(s)'
  <2>1. TreeOK(s)'
    BY <1>1, <1>2, <1>3, <1>6, RecordsTree DEF SessionOK, Exiting
  <2>2. ProcessOK(s)'
    BY <1>1, <1>2, <1>3, <1>6, <1>f, RecordsProcess DEF SessionOK
  <2>3. ASSUME quit' = "no" PROVE ProvenOK(s)'
    <3>1. CASE s \notin proven'
      BY <1>2, <1>3, <3>1 DEF ProvenOK, Exiting
    <3>2. CASE s \in proven' /\ JCommits(s, f)
      BY <1>2, <1>3, <1>f, <3>2 DEF ProvenOK, Exiting, JCommits, JMoves, IsOpen, IsTerminal,
                                    TerminalStates
    <3>3. CASE s \in proven' /\ JKeeps(s, f)
      BY <1>2, <1>3, <1>6, <1>f, <2>3, <3>3, FactAssumption DEF ProvenOK, Exiting, JKeeps
    <3>4. CASE s \in proven' /\ IsTerminal(s) /\ JSame(s)
      BY <1>2, <1>3, <1>6, <2>3, <3>4 DEF ProvenOK, Exiting, JSame, IsOpen, IsTerminal
    <3> QED BY <1>2, <1>6, <2>3, <3>1, <3>2, <3>3, <3>4
  <2> QED BY <2>1, <2>2, <2>3 DEF SessionOK
<1>9. state'[s] # "none"
  BY <1>3, <1>6, <1>f
     DEF Records, JSame, JCommits, JKeeps, JDrops, JMoves, Facts, TerminalStates
<1> QED BY <1>1, <1>2, <1>6, <1>7, <1>8, <1>9, ReturnOwners DEF Falls

\* A fact that waits for its commit is committed, dropped or kept.
LEMMA FlushSessionOK ==
  ASSUME JournalTypeOK, pending \in [Sessions -> Facts \cup {NoFact}],
         NEW s \in Sessions, SessionOK(s), FlushFact(s) \/ FlushFails(s), OSame(s), quit' = quit
  PROVE  SessionOK(s)' /\ (state[s] # "none" => state'[s] # "none")
<1> PICK f : f = pending[s]
  OBVIOUS
<1>1. /\ f # NoFact /\ f \in Facts
      /\ JCommits(s, f) \/ (IsTerminal(s) /\ JDrops(s)) \/ JKeeps(s, f)
  BY FlushSession
<1>2. f.state = "failed" => tree'[s] = "dead"
  BY <1>1 DEF SessionOK, TreeOK, OSame
<1>3. Falls(s) /\ Records(s, f)
  BY <1>1, <1>2 DEF Falls, Records, OSame
<1>4. TreeOK(s)'
  BY <1>3, RecordsTree DEF SessionOK, TreeOK, OSame
<1>5. ProcessOK(s)'
  <2>1. (Calm(pending[s]) => Calm(pending'[s])) /\ (Calm(facts[s]) /\ Calm(pending[s]) => Calm(facts'[s]))
    BY <1>1 DEF JCommits, JMoves, JDrops, JKeeps, Calm
  <2>2. Calm(pending[s]) => state'[s] \in {state[s], "cancelled"}
    BY <1>1 DEF JCommits, JMoves, JDrops, JKeeps, Calm
  <2> QED BY <2>1, <2>2 DEF SessionOK, ProcessOK, OSame
<1>6. ASSUME ProvenOK(s) PROVE ProvenOK(s)'
  <2>1. CASE JCommits(s, f)
    BY <1>1, <1>6, <2>1 DEF ProvenOK, OSame, JCommits, JMoves, Calm, IsOpen, IsTerminal, Facts
  <2>2. CASE IsTerminal(s) /\ JDrops(s)
    BY <1>1, <1>6, <2>2 DEF ProvenOK, OSame, JDrops, Calm, IsOpen, IsTerminal
  <2>3. CASE JKeeps(s, f)
    BY <1>1, <1>6, <2>3 DEF ProvenOK, OSame, JKeeps, Calm, IsOpen, IsTerminal
  <2> QED BY <1>1, <2>1, <2>2, <2>3
<1> QED BY <1>1, <1>4, <1>5, <1>6
        DEF SessionOK, JCommits, JMoves, JDrops, JKeeps, Facts, TerminalStates

\* A cancellation begins with an empty slot for the session's fact.
LEMMA CancelFlushOwners ==
  ASSUME Tokens, Owners, NEW c \in Callers, NEW k \in Calls, CancelFlush(c, k)
  PROVE  Owners'
<1> PICK s : s = k.session
  OBVIOUS
<1>1. /\ JournalTypeOK /\ MemoryTypeOK /\ pending \in [Sessions -> Facts \cup {NoFact}]
      /\ s \in Sessions /\ SessionOK(s)
  BY TypeParts, JournalAssumption DEF Tokens, Owners
<1>2. /\ UNCHANGED <<processes, supervisions, monitor, reader, quit, todo, tree, proven>>
      /\ up = "up" /\ up' = up /\ operations = NoCaller
  BY DEF CancelFlush, ownerVars, quitVars, worldVars, hostVars, Free
<1>3. \A t \in Sessions : OSame(t)
  BY <1>2 DEF OSame
<1>4. /\ \A t \in Sessions \ {s} : JSame(t)
      /\ SessionOK(s)' /\ (state[s] # "none" => state'[s] # "none")
  <2>1. CASE FlushFact(s) \/ FlushFails(s)
    BY <1>1, <1>2, <1>3, <2>1, FlushSession, FlushSessionOK
  <2>2. CASE UNCHANGED <<journalVars, pending>>
    <3>1. \A t \in Sessions : JSame(t)
      BY <2>2, StillSession DEF journalVars
    <3> QED BY <1>1, <1>2, <1>3, <3>1, SessionRests DEF JSame
  <2> QED BY <2>1, <2>2 DEF CancelFlush
<1>5. CASE UNCHANGED threadVars
  BY <1>1, <1>2, <1>3, <1>4, <1>5, ThreadOwners DEF OSame
<1>6. CASE Enter(c, k, "cancel") /\ operations' = c /\ pending'[s] = NoFact
  <2>1. pc'[c] = "cancel" /\ cur'[c] = k /\ \A d \in Callers \ {c} : Rests(d)
    BY <1>1, <1>6 DEF Enter, Rests, MemoryTypeOK
  <2>2. \A t \in Sessions : ~Starts(c, t)'
    BY <2>1 DEF Starts, StartPlaces, BeforeSpawn
  <2>3. \A t \in Sessions : Session(c)' = t => CancelOK(c, t)'
    BY <1>6, <2>1 DEF CancelOK, Session
  <2> QED BY <1>1, <1>2, <1>3, <1>4, <2>1, <2>2, <2>3, MutexMove DEF OSame
<1>7. FlushFact(s) => pending'[s] = NoFact
  BY <1>1, FlushSession
<1> QED BY <1>5, <1>6, <1>7 DEF CancelFlush

\* It goes on only when no exit supervision has the session.
LEMMA CancelAdmitOwners ==
  ASSUME Tokens, Owners, NEW c \in Callers, CancelAdmit(c)
  PROVE  Owners'
<1> PICK s : s = Session(c)
  OBVIOUS
<1>0. pc[c] = "cancel"
  BY DEF CancelAdmit
<1>1. s \in Sessions /\ CancelOK(c, s) /\ SessionOK(s) /\ MemoryTypeOK
  BY <1>0, CancelFacts
<1>2. /\ UNCHANGED <<processes, supervisions, monitor, reader, quit, todo, tree, proven>>
      /\ up = "up" /\ up' = up /\ operations \in {c, NoCaller}
      /\ UNCHANGED <<sessionTable, facts, pending>>
  BY DEF CancelAdmit, ownerVars, quitVars, worldVars, hostVars, Holds
<1>3. \A t \in Sessions : JSame(t) /\ OSame(t)
  BY <1>2, StillSession DEF OSame
<1>4. SessionOK(s)' /\ state'[s] = state[s] /\ tree'[s] = tree[s]
  BY <1>1, <1>2, <1>3, SessionRests DEF JSame, OSame
<1>5. CASE Return(c)
  BY <1>1, <1>2, <1>3, <1>4, <1>5, ReturnOwners
<1>6. CASE Keep(c, "kill") /\ s \notin supervisions /\ state[s] # "none"
  <2>1. /\ pc'[c] = "kill" /\ cur'[c] = cur[c] /\ operations' = c
        /\ \A d \in Callers \ {c} : Rests(d)
    BY <1>1, <1>6 DEF Keep, Goto, Rests, MemoryTypeOK
  <2>2. \A t \in Sessions : ~Starts(c, t)'
    BY <2>1 DEF Starts, StartPlaces, BeforeSpawn
  <2>3. CancelOK(c, s)'
    BY <1>1, <1>2, <1>4, <1>6, <2>1 DEF CancelOK
  <2>4. Session(c)' = s
    BY <2>1 DEF Session
  <2> QED BY <1>1, <1>2, <1>3, <1>4, <2>1, <2>2, <2>3, <2>4, MutexMove
<1> QED BY <1>5, <1>6 DEF CancelAdmit

\* list_sessions.
LEMMA ListFlushOwners ==
  ASSUME Tokens, Owners, NEW s \in Sessions, ListFlush(s)
  PROVE  Owners'
<1>1. /\ JournalTypeOK /\ pending \in [Sessions -> Facts \cup {NoFact}] /\ SessionOK(s)
  BY TypeParts DEF Tokens, Owners
<1>2. /\ UNCHANGED <<processes, supervisions, monitor, reader, quit, todo, tree, proven, threadVars>>
      /\ up = "up" /\ up' = up /\ operations = NoCaller /\ (FlushFact(s) \/ FlushFails(s))
  BY DEF ListFlush, ownerVars, quitVars, worldVars, hostVars, Free
<1>3. \A t \in Sessions : OSame(t)
  BY <1>2 DEF OSame
<1>4. /\ \A t \in Sessions \ {s} : JSame(t)
      /\ SessionOK(s)' /\ (state[s] # "none" => state'[s] # "none")
  BY <1>1, <1>2, <1>3, FlushSession, FlushSessionOK
<1> QED BY <1>2, <1>3, <1>4, ThreadOwners DEF OSame

-----------------------------------------------------------------------------
(* The monitor and the reader.                                             *)

\* The supervision is published before the process leaves the map.
LEMMA MonitorPollOwners ==
  ASSUME Tokens, Owners, NEW s \in Sessions, MonitorPoll(s)
  PROVE  Owners'
<1>1. MemoryTypeOK /\ SessionOK(s) /\ monitor[s] = "watching"
  BY TypeParts DEF Tokens, Owners, MonitorPoll
<1>2. /\ UNCHANGED <<sessionTable, facts, pending, reader, quit, todo, tree, proven, threadVars>>
      /\ up = "up" /\ up' = up /\ operations = NoCaller
  BY DEF MonitorPoll, journalVars, quitVars, worldVars, hostVars, Free
<1>3. \A t \in Sessions : JSame(t)
  BY <1>2, StillSession
<1>4. \/ /\ s \in processes /\ monitor'[s] = "exiting" /\ s \in supervisions'
         /\ s \notin processes'
      \/ s \notin processes /\ s \notin processes' /\ monitor'[s] = "off"
  BY <1>1 DEF MonitorPoll, MemoryTypeOK
<1>5. processes' \subseteq processes /\ \A t \in Sessions \ {s} : OSame(t)
  BY <1>1, <1>2 DEF MonitorPoll, MemoryTypeOK, OSame
<1>6. SessionOK(s)'
  <2>1. TreeOK(s)'
    BY <1>1, <1>2, <1>3, <1>4 DEF SessionOK, TreeOK, JSame, IsOpen, IsTerminal
  <2>2. ProcessOK(s)'
    BY <1>1, <1>2, <1>4 DEF SessionOK, ProcessOK, Exiting
  <2>3. ASSUME quit = "no" PROVE ProvenOK(s)'
    <3>1. ProvenOK(s) /\ ProcessOK(s)
      BY <1>1, <2>3 DEF SessionOK
    <3>2. CASE monitor'[s] = "exiting" /\ s \in processes
      BY <1>2, <1>3, <3>1, <3>2 DEF ProcessOK, ProvenOK, JSame
    <3>3. CASE monitor'[s] = "off"
      BY <1>1, <1>2, <1>3, <1>4, <3>1, <3>3 DEF ProvenOK, JSame, Exiting, IsOpen, IsTerminal
    <3> QED BY <1>4, <3>2, <3>3
  <2> QED BY <1>2, <2>1, <2>2, <2>3 DEF SessionOK
<1> QED BY <1>2, <1>3, <1>5, <1>6, ThreadOwners DEF JSame

\* The tree of a session changes, and nobody holds the mutex for it.
LEMMA TreeOwners ==
  ASSUME Tokens, Owners, NEW s \in Sessions,
         UNCHANGED <<sessionTable, facts, pending, processes, supervisions, reader, quit, todo,
                     threadVars, up>>,
         \A t \in Sessions \ {s} : tree'[t] = tree[t] /\ monitor'[t] = monitor[t]
                                   /\ (t \in proven' <=> t \in proven),
         tree[s] # "none", Falls(s), SessionOK(s)', Forgotten',
         monitor[s] = "off" => monitor'[s] = "off" /\ (s \in proven' => s \in proven)
  PROVE  Owners'
<1>1. \A t \in Sessions : JSame(t)
  BY StillSession
<1>2. \A t \in Sessions \ {s} : OSame(t)
  BY DEF OSame
<1>3. \A d \in Callers : Rests(d) /\ operations' = operations
  BY DEF threadVars, Rests
<1>4. ASSUME NEW d \in Callers, Starts(d, s) PROVE StartOK(d, s)'
  <2>1. StartOK(d, s) /\ pc'[d] = pc[d]
    BY <1>3, <1>4 DEF Owners, Rests
  <2>2. tree'[s] # "none" /\ pc[d] \notin BeforeSpawn
    BY <2>1 DEF Falls, StartOK
  <2>3. pc[d] \in {"own", "teardown"}
    BY <1>4, <2>2 DEF Starts, StartPlaces
  <2> QED BY <1>1, <1>3, <2>1, <2>2, <2>3 DEF StartOK, JSame
<1>5. ASSUME NEW d \in Callers, pc[d] \in {"cancel", "kill"}, Session(d) = s PROVE CancelOK(d, s)'
  BY <1>1, <1>3, <1>5 DEF Owners, CancelOK, JSame, Rests
<1>6. QuitOK'
  BY <1>3 DEF Owners, QuitOK, threadVars
<1> QED BY <1>1, <1>2, <1>3, <1>4, <1>5, <1>6, OwnersMove, RuntimeAssumption DEF Owners

\* A provider that ends by itself proves nothing.
LEMMA TreeDiesOwners ==
  ASSUME Tokens, Owners, NEW s \in Sessions, TreeDies(s)
  PROVE  Owners'
<1>1. MemoryTypeOK /\ SessionOK(s) /\ Forgotten
  BY TypeParts DEF Tokens, Owners
<1>2. /\ UNCHANGED <<sessionTable, facts, pending, processes, supervisions, monitor, reader, quit,
                     todo, threadVars, up, proven>>
      /\ tree[s] = "alive" /\ tree'[s] = "dead" /\ \A t \in Sessions \ {s} : tree'[t] = tree[t]
  BY <1>1 DEF TreeDies, journalVars, memoryVars, ownerVars, quitVars, hostVars, MemoryTypeOK
<1>3. Falls(s) /\ JSame(s)
  BY <1>2, StillSession DEF Falls
<1>4. Forgotten'
  BY <1>1, <1>2 DEF Forgotten
<1>5. SessionOK(s)'
  <2>1. TreeOK(s)'
    BY <1>1, <1>2, <1>3 DEF SessionOK, TreeOK, JSame, IsOpen, IsTerminal
  <2>2. ProcessOK(s)'
    BY <1>1, <1>2, <1>3 DEF SessionOK, ProcessOK, JSame
  <2>3. ProvenOK(s) => ProvenOK(s)'
    BY <1>1, <1>2, <1>3 DEF ProvenOK, JSame, IsOpen, IsTerminal
  <2> QED BY <1>1, <1>2, <2>1, <2>2, <2>3 DEF SessionOK
<1> QED BY <1>2, <1>3, <1>4, <1>5, TreeOwners

\* The supervisor learns whether the tree is gone.
LEMMA MonitorTerminateOwners ==
  ASSUME Tokens, Owners, NEW s \in Sessions, MonitorTerminate(s)
  PROVE  Owners'
<1>1. MemoryTypeOK /\ SessionOK(s) /\ Forgotten /\ up = "up" /\ monitor[s] = "exiting"
  BY TypeParts DEF Tokens, Owners, MonitorTerminate
<1>2. UNCHANGED <<sessionTable, facts, pending, processes, supervisions, reader, quit, todo,
                  threadVars, up>>
  BY DEF MonitorTerminate, journalVars, quitVars, hostVars
<1>3. tree[s] # "none" /\ s \in supervisions /\ s \notin processes
  BY <1>1 DEF SessionOK, ProcessOK, Exiting
<1>4. \/ /\ monitor'[s] = "proven" /\ tree'[s] = "dead"
      \/ /\ monitor'[s] = "unproven" /\ tree'[s] = tree[s] /\ proven' = proven
  <2>1. CASE Terminate(s, TRUE) /\ monitor' = [monitor EXCEPT ![s] = "proven"]
    BY <1>1, <2>1 DEF Terminate, MemoryTypeOK
  <2>2. CASE Terminate(s, FALSE) /\ monitor' = [monitor EXCEPT ![s] = "unproven"]
    BY <1>1, <2>2 DEF Terminate, MemoryTypeOK
  <2>3. \E ok \in BOOLEAN :
          Terminate(s, ok) /\ monitor' = [monitor EXCEPT ![s] = IF ok THEN "proven" ELSE "unproven"]
    BY DEF MonitorTerminate
  <2> QED BY <2>1, <2>2, <2>3
<1>5. \A t \in Sessions \ {s} : tree'[t] = tree[t] /\ monitor'[t] = monitor[t]
                               /\ (t \in proven' <=> t \in proven)
  <2>1. CASE Terminate(s, TRUE)
    BY <1>1, <2>1 DEF MonitorTerminate, Terminate, MemoryTypeOK
  <2>2. CASE Terminate(s, FALSE)
    BY <1>1, <2>2 DEF MonitorTerminate, Terminate, MemoryTypeOK
  <2>3. \E ok \in BOOLEAN : Terminate(s, ok)
    BY DEF MonitorTerminate
  <2> QED BY <2>1, <2>2, <2>3
<1>6. Falls(s) /\ JSame(s)
  BY <1>2, <1>3, <1>4, StillSession DEF Falls
<1>7. Forgotten'
  BY <1>1, <1>2 DEF Forgotten
<1>8. SessionOK(s)'
  <2>1. TreeOK(s)'
    BY <1>1, <1>3, <1>4, <1>6 DEF SessionOK, TreeOK, Falls, JSame, IsOpen, IsTerminal
  <2>2. ProcessOK(s)'
    BY <1>2, <1>3, <1>4 DEF ProcessOK
  <2>3. ASSUME quit = "no" PROVE ProvenOK(s)'
    <3>1. /\ state[s] \in {"starting", "running", "cancelled"} /\ Calm(pending[s])
          /\ s \notin proven
      BY <1>1, <2>3 DEF SessionOK, ProvenOK, Exiting
    <3>2. state'[s] = state[s] /\ pending'[s] = pending[s] /\ s \notin processes'
      BY <1>2, <1>3, <1>6 DEF JSame
    <3> QED BY <1>4, <3>1, <3>2 DEF ProvenOK, Calm
  <2> QED BY <1>2, <2>1, <2>2, <2>3 DEF SessionOK
<1> QED BY <1>1, <1>2, <1>3, <1>5, <1>6, <1>7, <1>8, TreeOwners

\* The supervisor records what it has learned, and lets go.
LEMMA MonitorCommitOwners ==
  ASSUME Tokens, Owners, NEW s \in Sessions, MonitorCommit(s)
  PROVE  Owners'
<1>1. /\ JournalTypeOK /\ MemoryTypeOK /\ pending \in [Sessions -> Facts \cup {NoFact}]
      /\ SessionOK(s) /\ monitor[s] \in {"proven", "unproven"}
  BY TypeParts DEF Tokens, Owners, MonitorCommit
<1>2. /\ UNCHANGED <<processes, reader, quit, todo, tree, proven, threadVars>>
      /\ supervisions' = supervisions \ {s}
      /\ up = "up" /\ up' = up /\ operations = NoCaller
  BY DEF MonitorCommit, quitVars, worldVars, hostVars, Free
<1>3. monitor'[s] = "off" /\ \A t \in Sessions \ {s} : monitor'[t] = monitor[t]
  BY <1>1 DEF MonitorCommit, MemoryTypeOK
<1>4. tree[s] # "none" /\ s \notin processes /\ (monitor[s] = "proven" => tree[s] = "dead")
  BY <1>1 DEF SessionOK, TreeOK, ProcessOK, Exiting
<1> PICK f : f = TerminationFact(monitor[s] = "proven")
  OBVIOUS
<1>5. /\ f \in Facts
      /\ f.state = "failed" => monitor[s] = "proven"
      /\ monitor[s] = "proven" => f.state = "failed"
  <2>1. CASE monitor[s] = "proven"
    BY <2>1, TerminationStates
  <2>2. CASE monitor[s] # "proven"
    BY <2>2, TerminationStates
  <2> QED BY <2>1, <2>2
<1>6. /\ JCommits(s, f) \/ JKeeps(s, f) \/ (IsTerminal(s) /\ JSame(s))
      /\ \A t \in Sessions \ {s} : JSame(t)
  BY <1>1, <1>5, TerminationSession DEF MonitorCommit
<1>7. Falls(s) /\ Records(s, f)
  BY <1>2, <1>4, <1>5, <1>6 DEF Falls, Records
<1>8. \A t \in Sessions \ {s} : OSame(t)
  BY <1>2, <1>3 DEF OSame
<1>9. SessionOK(s)'
  <2>1. TreeOK(s)'
    BY <1>1, <1>3, <1>7, RecordsTree DEF SessionOK
  <2>2. ProcessOK(s)'
    BY <1>2, <1>3, <1>4 DEF ProcessOK, Exiting
  <2>3. ASSUME quit = "no" PROVE ProvenOK(s)'
    <3>1. ProvenOK(s)
      BY <1>1, <2>3 DEF SessionOK
    <3>2. CASE s \notin proven
      BY <1>2, <1>3, <3>2 DEF ProvenOK, Exiting
    <3>3. CASE s \in proven
      <4>1. /\ f.state = "failed" /\ state[s] # "unknown_outcome"
            /\ pending[s] # NoFact => pending[s].state # "unknown_outcome"
        BY <1>1, <1>5, <3>1, <3>3 DEF ProvenOK
      <4>2. CASE JCommits(s, f)
        BY <1>2, <1>3, <1>4, <4>1, <4>2
           DEF ProvenOK, Exiting, JCommits, JMoves, IsOpen, IsTerminal, TerminalStates
      <4>3. CASE JKeeps(s, f)
        BY <1>2, <1>3, <1>4, <1>5, <4>1, <4>3, FactAssumption DEF ProvenOK, Exiting, JKeeps
      <4>4. CASE IsTerminal(s) /\ JSame(s)
        BY <1>2, <1>3, <1>4, <4>1, <4>4 DEF ProvenOK, Exiting, JSame, IsOpen, IsTerminal
      <4> QED BY <1>6, <4>2, <4>3, <4>4
    <3> QED BY <3>2, <3>3
  <2> QED BY <1>2, <2>1, <2>2, <2>3 DEF SessionOK
<1>10. state[s] # "none" => state'[s] # "none"
  BY <1>5, <1>6 DEF JSame, JCommits, JKeeps, JMoves, Facts, TerminalStates
<1> QED BY <1>2, <1>4, <1>6, <1>8, <1>9, <1>10, ThreadOwners

\* The session in the process map is torn down by a thread of the runtime.
LEMMA TerminateEffect ==
  ASSUME NEW s \in Sessions, NEW ok \in BOOLEAN, Terminate(s, ok), MemoryTypeOK, tree[s] # "none"
  PROVE  /\ Falls(s) /\ (ok => tree'[s] = "dead") /\ (~ok => proven' = proven)
         /\ \A t \in Sessions \ {s} : tree'[t] = tree[t] /\ (t \in proven' <=> t \in proven)
<1>1. CASE ok
  BY <1>1 DEF Terminate, Falls, MemoryTypeOK
<1>2. CASE ~ok
  BY <1>2 DEF Terminate, Falls
<1> QED BY <1>1, <1>2

\* The reader ends a session only if its process is in the map.
LEMMA ProtocolFailureOwners ==
  ASSUME Tokens, Owners, NEW s \in Sessions, ProtocolFailure(s)
  PROVE  Owners'
<1>1. /\ JournalTypeOK /\ MemoryTypeOK /\ pending \in [Sessions -> Facts \cup {NoFact}]
      /\ SessionOK(s)
  BY TypeParts DEF Tokens, Owners
<1>2. /\ UNCHANGED <<supervisions, monitor, quit, todo, threadVars>>
      /\ s \in reader /\ reader' = reader \ {s}
      /\ up = "up" /\ up' = up /\ operations = NoCaller
  BY DEF ProtocolFailure, quitVars, hostVars, Free
<1>3. tree[s] # "none"
  BY <1>1, <1>2 DEF SessionOK, ProcessOK
<1>4. CASE UNCHANGED <<journalVars, pending, processes, tree, proven>>
  <2>1. \A t \in Sessions : JSame(t)
    BY <1>4, StillSession DEF journalVars
  <2>2. \A t \in Sessions \ {s} : OSame(t)
    BY <1>2, <1>4 DEF OSame
  <2>3. SessionOK(s)'
    <3>1. TreeOK(s)'
      BY <1>1, <1>2, <1>4, <2>1 DEF SessionOK, TreeOK, JSame, IsOpen, IsTerminal
    <3>2. ProcessOK(s)'
      BY <1>1, <1>2, <1>3, <1>4, <2>1 DEF SessionOK, ProcessOK, JSame
    <3>3. ProvenOK(s) => ProvenOK(s)'
      BY <1>2, <1>4, <2>1 DEF ProvenOK, JSame, IsOpen, IsTerminal
    <3> QED BY <1>1, <1>2, <3>1, <3>2, <3>3 DEF SessionOK
  <2> QED BY <1>2, <1>4, <2>1, <2>2, <2>3, ThreadOwners DEF JSame
<1>5. ASSUME s \in processes, processes' = processes \ {s}, NEW ok \in BOOLEAN,
             Terminate(s, ok), RecordTermination(s, TerminationFact(ok))
      PROVE  Owners'
  <2> PICK f : f = TerminationFact(ok)
    OBVIOUS
  <2>1. f \in Facts /\ f.state = IF ok THEN "failed" ELSE "unknown_outcome"
    BY TerminationStates
  <2>2. /\ JCommits(s, f) \/ JKeeps(s, f) \/ (IsTerminal(s) /\ JSame(s))
        /\ \A t \in Sessions \ {s} : JSame(t)
    BY <1>1, <1>5, <2>1, TerminationSession
  <2>3. /\ Falls(s) /\ (ok => tree'[s] = "dead") /\ (~ok => proven' = proven)
        /\ \A t \in Sessions \ {s} : tree'[t] = tree[t] /\ (t \in proven' <=> t \in proven)
    BY <1>1, <1>3, <1>5, TerminateEffect
  <2>4. Records(s, f)
    BY <2>1, <2>2, <2>3 DEF Records
  <2>5. /\ state[s] \in {"starting", "running", "cancelled"} /\ Calm(pending[s]) /\ s \notin proven
        /\ monitor[s] \in {"off", "watching"}
    BY <1>1, <1>5 DEF SessionOK, ProcessOK
  <2>6. \A t \in Sessions \ {s} : OSame(t)
    BY <1>2, <1>5, <2>3 DEF OSame
  <2>7. TreeOK(s)'
    BY <1>1, <1>2, <2>3, <2>4, <2>5, RecordsTree DEF SessionOK
  <2>8. ProcessOK(s)'
    BY <1>2, <1>3, <1>5, <2>3, <2>5 DEF ProcessOK, Falls, Exiting
  <2>9. ProvenOK(s)'
    <3>1. CASE ~ok
      BY <1>2, <2>3, <2>5, <3>1 DEF ProvenOK, Exiting
    <3>2. CASE ok
      <4>1. CASE JCommits(s, f)
        BY <1>2, <1>5, <2>1, <2>5, <3>2, <4>1
           DEF ProvenOK, Exiting, JCommits, JMoves, IsOpen, IsTerminal, TerminalStates
      <4>2. CASE JKeeps(s, f)
        BY <1>2, <1>5, <2>1, <2>5, <3>2, <4>2, FactAssumption DEF ProvenOK, Exiting, JKeeps
      <4>3. CASE IsTerminal(s) /\ JSame(s)
        BY <1>2, <1>5, <2>5, <4>3 DEF ProvenOK, Exiting, JSame, IsOpen, IsTerminal, Calm
      <4> QED BY <2>2, <4>1, <4>2, <4>3
    <3> QED BY <3>1, <3>2
  <2>10. SessionOK(s)'
    BY <2>7, <2>8, <2>9 DEF SessionOK
  <2>11. state[s] # "none" => state'[s] # "none"
    BY <2>1, <2>2 DEF JSame, JCommits, JKeeps, JMoves, Facts, TerminalStates
  <2> QED BY <1>2, <1>3, <1>5, <2>2, <2>6, <2>10, <2>11, ThreadOwners
<1> QED BY <1>4, <1>5 DEF ProtocolFailure

-----------------------------------------------------------------------------
(* kill_all.                                                               *)

\* kill_all moves on; it takes the mutex or lets go of it.
LEMMA QuitOwners ==
  ASSUME Tokens, Owners, QuitDrain \/ QuitJoin \/ QuitDone
  PROVE  Owners'
<1>1. UNCHANGED <<sessionTable, facts, pending, supervisions, monitor, reader, tree, proven, pc, cur, up>>
  BY DEF QuitDrain, QuitJoin, QuitDone, journalVars, ownerVars, worldVars, hostVars, threadVars
<1>2. /\ quit' # "no" /\ up = "up" /\ QuitOK'
      /\ processes' = {}
  BY DEF QuitDrain, QuitJoin, QuitDone, Owners, QuitOK, ownerVars, Free
<1>3. \A d \in Callers : operations # d
  BY RuntimeAssumption DEF QuitDrain, QuitJoin, QuitDone, Owners, QuitOK, Free
<1>4. \A t \in Sessions : JSame(t)
  BY <1>1, StillSession
<1>5. ASSUME NEW t \in Sessions PROVE SessionOK(t)'
  <2>1. SessionOK(t)
    BY DEF Owners
  <2>2. TreeOK(t)'
    BY <1>1, <1>4, <2>1 DEF SessionOK, TreeOK, JSame, IsOpen, IsTerminal
  <2>3. tree[t] = "none" /\ quit' = "killing" => t \notin todo'
    BY <2>1 DEF SessionOK, ProcessOK, QuitDrain, QuitJoin, QuitDone
  <2>4. ProcessOK(t)'
    BY <1>1, <1>2, <1>4, <2>1, <2>3 DEF SessionOK, ProcessOK, JSame, Exiting
  <2> QED BY <1>2, <2>2, <2>4 DEF SessionOK
<1>6. \A d \in Callers : pc[d] \notin Locked \cup {"cancel", "kill"}
  BY <1>3, Excluded
<1>7. ASSUME NEW d \in Callers, NEW t \in Sessions
      PROVE  /\ Starts(d, t)' <=> Starts(d, t)
             /\ Starts(d, t) => StartOK(d, t)'
  <2>1. Starts(d, t)' <=> Starts(d, t)
    BY <1>1 DEF Starts, Session
  <2>2. ASSUME Starts(d, t) PROVE StartOK(d, t)'
    <3>1. pc[d] \in BeforeSpawn \ Locked /\ tree[t] = "none" /\ state[t] # "none"
      BY <1>3, <2>2, WaitingStart
    <3> QED BY <1>1, <1>4, <3>1 DEF StartOK, BeforeSpawn, Locked, JSame
  <2> QED BY <2>1, <2>2
<1>8. Forgotten'
  BY <1>1, <1>2 DEF Forgotten
<1> QED BY <1>1, <1>2, <1>5, <1>6, <1>7, <1>8 DEF Owners

\* kill_all stops the processes it took out of the map.
LEMMA QuitKillOwners ==
  ASSUME Tokens, Owners, NEW s \in Sessions, QuitKill(s)
  PROVE  Owners'
<1>1. /\ JournalTypeOK /\ MemoryTypeOK /\ pending \in [Sessions -> Facts \cup {NoFact}]
      /\ SessionOK(s) /\ quit = "killing" /\ s \in todo /\ processes = {}
  BY TypeParts DEF Tokens, Owners, QuitOK, QuitKill
<1>2. /\ UNCHANGED <<processes, supervisions, monitor, reader, quit, threadVars>>
      /\ todo' = todo \ {s}
      /\ up = "up" /\ up' = up /\ operations = NoCaller
  BY DEF QuitKill, ownerVars, hostVars, Free
<1>3. tree[s] # "none"
  BY <1>1 DEF SessionOK, ProcessOK
<1>4. PICK ok \in BOOLEAN :
         /\ Terminate(s, ok)
         /\ \/ IsTerminal(s) /\ UNCHANGED <<journalVars, pending>>
            \/ PersistTerminalFact(s, ShutdownFact(ok))
  BY DEF QuitKill
<1> PICK f : f = ShutdownFact(ok)
  OBVIOUS
<1>5. f \in Facts /\ f.state # "failed"
  BY TerminationStates
<1>6. /\ JSame(s) \/ JCommits(s, f) \/ JKeeps(s, f)
      /\ \A t \in Sessions \ {s} : JSame(t)
  <2>1. CASE UNCHANGED <<journalVars, pending>>
    BY <2>1, StillSession DEF journalVars
  <2>2. CASE PersistTerminalFact(s, f)
    BY <1>1, <1>5, <2>2, PersistSession
  <2> QED BY <1>4, <2>1, <2>2
<1>7. /\ Falls(s)
      /\ \A t \in Sessions \ {s} : tree'[t] = tree[t] /\ (t \in proven' <=> t \in proven)
  BY <1>1, <1>3, <1>4, TerminateEffect
<1>8. Records(s, f)
  BY <1>5, <1>6 DEF Records
<1>9. SessionOK(s)'
  <2>1. monitor'[s] = "proven" => tree'[s] = "dead"
    BY <1>1, <1>2, <1>7 DEF SessionOK, TreeOK, Falls
  <2>2. TreeOK(s)'
    BY <1>1, <1>7, <1>8, <2>1, RecordsTree DEF SessionOK
  <2>3. ProcessOK(s)'
    BY <1>1, <1>2, <1>3, <1>7 DEF SessionOK, ProcessOK, Falls
  <2> QED BY <1>1, <1>2, <2>2, <2>3 DEF SessionOK
<1>10. state[s] # "none" => state'[s] # "none"
  BY <1>5, <1>6 DEF JSame, JCommits, JKeeps, JMoves, Facts, TerminalStates
<1>11. \A t \in Sessions \ {s} : OSame(t)
  BY <1>2, <1>7 DEF OSame
<1> QED BY <1>2, <1>3, <1>6, <1>9, <1>10, <1>11, ThreadOwners

\* kill_all holds the mutex over its flushes.
LEMMA QuitFlushOwners ==
  ASSUME Tokens, Owners, NEW s \in Sessions, QuitFlush(s)
  PROVE  Owners'
<1>1. /\ JournalTypeOK /\ pending \in [Sessions -> Facts \cup {NoFact}] /\ SessionOK(s)
      /\ operations = "kill_all"
  BY TypeParts DEF Tokens, Owners, QuitOK, QuitFlush
<1>2. /\ UNCHANGED <<processes, supervisions, monitor, reader, quit, tree, proven, threadVars, up>>
      /\ todo' = todo \ {s} /\ up = "up" /\ (FlushFact(s) \/ FlushFails(s))
  BY DEF QuitFlush, ownerVars, worldVars, hostVars
<1>3. \A t \in Sessions : OSame(t)
  BY <1>2 DEF OSame
<1>4. /\ \A t \in Sessions \ {s} : JSame(t)
      /\ SessionOK(s)' /\ (state[s] # "none" => state'[s] # "none")
  BY <1>1, <1>2, <1>3, FlushSession, FlushSessionOK
<1>5. \A d \in Callers : Rests(d) /\ operations # d /\ operations' = operations
  BY <1>1, <1>2, RuntimeAssumption DEF Rests, threadVars
<1>6. \A d \in Callers : pc[d] \notin {"cancel", "kill"}
  BY <1>5, Excluded
<1>7. ASSUME NEW d \in Callers, Starts(d, s) PROVE StartOK(d, s)'
  <2>1. pc[d] \in BeforeSpawn \ Locked /\ tree[s] = "none" /\ state[s] # "none"
    BY <1>5, <1>7, WaitingStart
  <2>2. tree'[s] = "none" /\ state'[s] # "none" /\ pc'[d] = pc[d]
    BY <1>2, <1>4, <1>5, <2>1 DEF Rests
  <2> QED BY <2>1, <2>2 DEF StartOK, BeforeSpawn, Locked
<1>8. QuitOK' /\ Forgotten'
  BY <1>2 DEF Owners, QuitOK, Forgotten, threadVars
<1> QED BY <1>2, <1>3, <1>4, <1>5, <1>6, <1>7, <1>8, OwnersMove, RuntimeAssumption

-----------------------------------------------------------------------------
(* The end of the host process and its next start.                         *)

\* While no thread runs, only the sessions matter.
LEMMA SleepOwners ==
  ASSUME \A d \in Callers : pc'[d] = "idle", \A t \in Sessions : SessionOK(t)', QuitOK', Forgotten'
  PROVE  Owners'
<1>1. \A d \in Callers, t \in Sessions : ~Starts(d, t)'
  BY DEF Starts, StartPlaces, BeforeSpawn
<1> QED BY <1>1 DEF Owners

\* Nothing in memory survives the host process.
LEMMA CrashOwners ==
  ASSUME Tokens, Owners, Crash
  PROVE  Owners'
<1>1. /\ UNCHANGED <<sessionTable, facts, tree>> /\ up' = "down"
      /\ processes' = {} /\ proven' = {} /\ reader' = {} /\ quit' = "no"
      /\ \A d \in Callers : pc'[d] = "idle"
      /\ \A t \in Sessions : monitor'[t] = "off" /\ pending'[t] = NoFact
  BY DEF Crash, journalVars
<1>2. ASSUME NEW t \in Sessions PROVE SessionOK(t)'
  <2>1. SessionOK(t) /\ state'[t] = state[t] /\ operation'[t] = operation[t] /\ facts'[t] = facts[t]
        /\ tree'[t] = tree[t]
    BY <1>1 DEF Owners, sessionTable
  <2>2. TreeOK(t)'
    BY <1>1, <2>1 DEF SessionOK, TreeOK, IsOpen, IsTerminal
  <2>3. ProcessOK(t)'
    BY <1>1, <2>1 DEF SessionOK, ProcessOK, Calm, Exiting
  <2>4. ProvenOK(t)'
    BY <1>1 DEF ProvenOK, Exiting
  <2> QED BY <2>2, <2>3, <2>4 DEF SessionOK
<1>3. QuitOK' /\ Forgotten'
  BY <1>1 DEF QuitOK, Forgotten
<1> QED BY <1>1, <1>2, <1>3, SleepOwners

\* The recovery calls failed only what has not reached its spawn.
LEMMA RecoverOwners ==
  ASSUME Tokens, Owners, Recover
  PROVE  Owners'
<1>1. /\ up # "up" /\ JournalTypeOK /\ Forgotten
      /\ \A d \in Callers : pc[d] = "idle"
      /\ \A t \in Sessions : pending[t] = NoFact
  BY TypeParts DEF Tokens, Asleep, Owners, Recover, Boot, RecoverSession, RecoverRequests, OpenRuntime
<1>2. /\ processes = {} /\ proven = {} /\ reader = {} /\ quit = "no"
      /\ \A t \in Sessions : monitor[t] = "off"
  BY <1>1 DEF Forgotten
<1>3. UNCHANGED <<pc, processes, supervisions, monitor, reader, quit, todo, tree, proven>>
  BY DEF Recover, Boot, RecoverSession, RecoverRequests, OpenRuntime, memoryVars, threadVars,
         ownerVars, quitVars, worldVars
<1>4. \A t \in Sessions : pending'[t] = NoFact \/ (pending'[t] = facts[t] /\ facts' = facts)
  BY <1>1 DEF Recover, Boot, RecoverSession, RecoverRequests, OpenRuntime, memoryVars
\* A session whose operation was still safe has no provider; every other one
\* is called unknown.
<1>5. ASSUME NEW t \in Sessions
      PROVE  \/ /\ state'[t] = state[t] /\ operation'[t] = operation[t] /\ facts'[t] = facts[t]
             \/ /\ facts'[t] = NoFact
                /\ state'[t] = "unknown_outcome" \/ (state'[t] = "failed" /\ tree[t] = "none")
  <2>1. CASE UNCHANGED <<sessionTable, facts>>
    BY <2>1 DEF sessionTable
  <2>2. ASSUME NEW s \in Sessions, RecoverSessionRow(s), t = s
        PROVE  /\ facts'[t] = NoFact
               /\ state'[t] = "unknown_outcome" \/ (state'[t] = "failed" /\ tree[t] = "none")
    <3>1. TreeOK(t)
      BY DEF Owners, SessionOK
    <3>2. /\ operation[t] \in OpenPhases /\ (operation[t] \in SafePhases => tree[t] = "none")
      BY <2>2, <3>1 DEF RecoverSessionRow, MustRecover, TreeOK
    <3>3. \/ RecoveredPhase(t) = "unknown_outcome"
          \/ RecoveredPhase(t) = "failed" /\ tree[t] = "none"
      BY <3>2 DEF RecoveredPhase, RecoveryDisposition, OpenPhases, SafePhases, UncertainPhases
    <3>4. /\ state'[t] = IF RecoveredPhase(t) = "unknown_outcome" THEN "unknown_outcome" ELSE "failed"
          /\ facts'[t] = NoFact
      BY <1>1, <2>2 DEF RecoverSessionRow, UpdateSession, JournalTypeOK
    <3> QED BY <3>3, <3>4
  <2>3. ASSUME NEW s \in Sessions, RecoverSessionRow(s), t # s
        PROVE  state'[t] = state[t] /\ operation'[t] = operation[t] /\ facts'[t] = facts[t]
    BY <1>1, <2>3 DEF RecoverSessionRow, UpdateSession, JournalTypeOK
  <2>4. UNCHANGED <<sessionTable, facts>> \/ \E s \in Sessions : RecoverSessionRow(s)
    BY DEF Recover, Boot, RecoverSession, RecoverRequests, OpenRuntime, journalVars
  <2> QED BY <2>1, <2>2, <2>3, <2>4
<1>6. ASSUME NEW t \in Sessions PROVE SessionOK(t)'
  <2>1. SessionOK(t)
    BY DEF Owners
  <2>2. /\ tree'[t] = tree[t] /\ monitor'[t] = "off" /\ t \notin proven' /\ t \notin processes'
        /\ t \notin reader' /\ quit' = "no"
    BY <1>2, <1>3
  <2>3. pending'[t] = NoFact \/ pending'[t] = facts'[t]
    BY <1>4
  <2>4. TreeOK(t)'
    <3>1. CASE state'[t] = state[t] /\ operation'[t] = operation[t] /\ facts'[t] = facts[t]
      BY <2>1, <2>2, <2>3, <3>1 DEF SessionOK, TreeOK, IsOpen, IsTerminal
    <3>2. CASE /\ facts'[t] = NoFact
               /\ state'[t] = "unknown_outcome" \/ (state'[t] = "failed" /\ tree[t] = "none")
      BY <2>2, <2>3, <3>2 DEF TreeOK, IsOpen, IsTerminal, TerminalStates
    <3> QED BY <1>5, <3>1, <3>2
  <2>5. ProcessOK(t)'
    BY <1>5, <2>1, <2>2, <2>3 DEF SessionOK, ProcessOK, Calm, Exiting
  <2>6. ProvenOK(t)'
    BY <2>2 DEF ProvenOK, Exiting
  <2> QED BY <2>4, <2>5, <2>6 DEF SessionOK
<1>7. QuitOK' /\ Forgotten'
  BY <1>2, <1>3 DEF QuitOK, Forgotten
<1> QED BY <1>1, <1>3, <1>6, <1>7, SleepOwners

-----------------------------------------------------------------------------
(* The theorems about sessions.                                            *)

\* At first there is no session.
LEMMA OwnersInit == Init => Owners
<1> SUFFICES ASSUME Init PROVE Owners
  OBVIOUS
<1>1. /\ \A c \in Callers : pc[c] = "idle"
      /\ processes = {} /\ proven = {} /\ reader = {} /\ quit = "no" /\ up = "up"
  BY DEF Init
<1>2. ASSUME NEW s \in Sessions PROVE SessionOK(s)
  <2>1. /\ tree[s] = "none" /\ state[s] = "none" /\ monitor[s] = "off"
        /\ facts[s] = NoFact /\ pending[s] = NoFact
    BY DEF Init, JournalInit
  <2> QED BY <1>1, <2>1 DEF SessionOK, TreeOK, ProcessOK, ProvenOK, Calm, Exiting, IsOpen
<1>3. \A d \in Callers, t \in Sessions : ~Starts(d, t)
  BY <1>1 DEF Starts, StartPlaces, BeforeSpawn
<1> QED BY <1>1, <1>2, <1>3 DEF Owners, QuitOK, Forgotten

\* Every step keeps the owners.
LEMMA OwnersStep == Tokens /\ Owners /\ [Next]_vars => Owners'
<1> SUFFICES ASSUME Tokens, Owners, [Next]_vars PROVE Owners'
  OBVIOUS
<1>1. ASSUME NEW c \in Callers, NEW k \in Calls, Admit(c, k) PROVE Owners'
  BY <1>1, StartAdmitOwners, WriteStepOwners, CancelFlushOwners DEF Admit
<1>2. ASSUME NEW c \in Callers, CallerStep(c) PROVE Owners'
  <2>1. CASE Probe(c) \/ ProbeUnproven(c) \/ RejectStart(c) \/ Dispatch(c)
    BY <2>1, ProbeOwners, RecordBothOwners, DispatchOwners
  <2>2. CASE \/ AdvanceStart(c, "accepted", "dispatched", "dispatched")
             \/ AdvanceStart(c, "dispatched", "side_effect_started", "spawn")
    BY <2>2, AdvanceOwners
  <2>3. CASE Spawn(c) \/ Own(c) \/ Teardown(c)
    BY <2>3, SpawnOwners, OwnOwners, TeardownOwners
  <2>4. CASE WriteSend(c) \/ WriteRefuse(c) \/ WriteResult(c)
    BY <2>4, WriteStepOwners
  <2>5. CASE CancelAdmit(c) \/ CancelKill(c)
    BY <2>5, CancelAdmitOwners, CancelKillOwners
  <2> QED BY <1>2, <2>1, <2>2, <2>3, <2>4, <2>5 DEF CallerStep
<1>3. ASSUME NEW s \in Sessions, SessionStep(s) PROVE Owners'
  BY <1>3, MonitorTerminateOwners, MonitorCommitOwners, QuitKillOwners, QuitFlushOwners
     DEF SessionStep
<1>4. ASSUME NEW s \in Sessions, ListFlush(s) \/ MonitorPoll(s) \/ ProtocolFailure(s) PROVE Owners'
  BY <1>4, ListFlushOwners, MonitorPollOwners, ProtocolFailureOwners
<1>5. ASSUME NEW s \in Sessions, WriterDelivers(s) \/ WriterFails(s) \/ TreeDies(s) PROVE Owners'
  BY <1>5, WriterOwners, TreeDiesOwners
<1>6. CASE QuitDrain \/ QuitJoin \/ QuitDone
  BY <1>6, QuitOwners
<1>7. CASE Crash \/ Recover
  BY <1>7, CrashOwners, RecoverOwners
<1>8. CASE UNCHANGED vars
  <2>1. /\ UNCHANGED <<sessionTable, facts, pending, ownerVars, quitVars, tree, proven, pc, cur,
                       operations, up>>
        /\ UNCHANGED <<state, operation, processes, supervisions, monitor, reader, quit, todo>>
    BY <1>8 DEF vars, journalVars, memoryVars, threadVars, worldVars, hostVars, sessionTable,
                ownerVars, quitVars
  <2>2. \A t \in Sessions : JSame(t) /\ OSame(t)
    BY <2>1, StillSession DEF OSame
  <2>3. \A d \in Callers : Rests(d)
    BY <2>1 DEF Rests
  <2>4. \A t \in Sessions : SessionOK(t)'
    BY <2>1, <2>2, SessionRests DEF Owners
  <2>5. ASSUME NEW d \in Callers, NEW t \in Sessions
        PROVE  /\ Starts(d, t)' <=> Starts(d, t)
               /\ Starts(d, t)' => StartOK(d, t)'
               /\ pc'[d] \in {"cancel", "kill"} /\ Session(d)' = t => CancelOK(d, t)'
    <3>1. (Starts(d, t)' <=> Starts(d, t)) /\ pc'[d] = pc[d] /\ Session(d)' = Session(d)
      BY <2>1 DEF Starts, Session
    <3> QED BY <2>1, <2>2, <2>3, <3>1, StartRests, CancelRests DEF Owners
  <2>6. QuitOK' /\ Forgotten'
    BY <2>1 DEF Owners, QuitOK, Forgotten
  <2> QED BY <2>4, <2>5, <2>6 DEF Owners
<1> QED BY <1>1, <1>2, <1>3, <1>4, <1>5, <1>6, <1>7, <1>8 DEF Next

\* Every session has at most one party that may touch its provider, and the
\* tables say of the tree no more than that party knows.
THEOREM OwnersAlways == Spec => []Owners
<1>1. Tokens /\ Owners /\ [Next]_vars => Owners'
  BY OwnersStep
<1> QED BY <1>1, OwnersInit, TokensAlways, PTL DEF Spec

\* A session is called failed, which permits a replacement, only when no
\* provider tree of it is left (classify_spawn_failure, poll_process_exit,
\* recover_incomplete).
THEOREM FailedTerminated == Spec => []FailedMeansTerminated
<1>1. Owners => FailedMeansTerminated
  BY DEF Owners, SessionOK, TreeOK, FailedMeansTerminated
<1> QED BY <1>1, OwnersAlways, PTL

\* FR-042: until shutdown begins, a session whose termination this runtime has
\* proven is never recorded as unknown (poll_process_exit, cancel_session).
THEOREM ProvenKnown == Spec => []ProvenIsNotUnknown
<1>1. Tokens /\ Owners => ProvenIsNotUnknown
  BY TypeParts DEF Tokens, MemoryTypeOK, Owners, SessionOK, ProvenOK, ProvenIsNotUnknown
<1> QED BY <1>1, OwnersAlways, TokensAlways, PTL

\* Once kill_all has closed the runtime no process enters the map any more, a
\* start that was probing its provider included (kill_all, start_session).
THEOREM ShutdownClosed == Spec => ShutdownIsClosed
<1>1. Owners /\ Owners' /\ [Next]_vars => [quit # "no" => processes' = {}]_vars
  <2> SUFFICES ASSUME Owners, Owners', Next, quit # "no" PROVE processes' = {}
    OBVIOUS
  <2>2. CASE quit' # "no"
    BY <2>2 DEF Owners, QuitOK
  <2>3. CASE Crash
    BY <2>3 DEF Crash
  <2>4. ASSUME NEW c \in Callers, NEW k \in Calls, Admit(c, k) PROVE quit' = quit
    BY <2>4 DEF Admit, StartAdmit, WriteAdmit, CancelFlush, quitVars
  <2>5. ASSUME NEW c \in Callers, CallerStep(c) PROVE quit' = quit
    BY <2>5 DEF CallerStep, Probe, ProbeUnproven, RejectStart, Dispatch, AdvanceStart, Spawn, Own,
                Teardown, WriteSend, WriteRefuse, WriteResult, CancelAdmit, CancelKill, quitVars
  <2>6. ASSUME NEW s \in Sessions, SessionStep(s) PROVE quit' = quit
    BY <2>6 DEF SessionStep, MonitorTerminate, MonitorCommit, QuitKill, QuitFlush, quitVars
  <2>7. ASSUME NEW s \in Sessions,
               \/ ListFlush(s) \/ MonitorPoll(s) \/ ProtocolFailure(s)
               \/ WriterDelivers(s) \/ WriterFails(s) \/ TreeDies(s)
        PROVE  quit' = quit
    BY <2>7 DEF ListFlush, MonitorPoll, ProtocolFailure, WriterDelivers, WriterFails, TreeDies,
                memoryVars, quitVars
  <2>8. QuitDrain \/ QuitJoin \/ QuitDone => quit' # "no"
    BY DEF QuitDrain, QuitJoin, QuitDone
  <2>9. Recover => quit' = quit
    BY DEF Recover, Boot, RecoverSession, RecoverRequests, OpenRuntime, memoryVars, quitVars
  <2> QED BY <2>2, <2>3, <2>4, <2>5, <2>6, <2>7, <2>8, <2>9 DEF Next
<1> QED BY <1>1, OwnersAlways, PTL DEF Spec, ShutdownIsClosed

-----------------------------------------------------------------------------
(* Requests: what an outcome means.                                        *)

\* The effect of the request may have happened, or may still happen.
Started == UncertainPhases \cup {"unknown_outcome"}

\* A retained fact completes a cancellation of its session, or fails the start
\* of it whose provider is gone.
FactOK(f, s) ==
  f # NoFact /\ f.outcome # "none" =>
    /\ f.request \in Ids /\ call[f.request] \in Calls
    /\ call[f.request].session = s
    /\ f.outcome = "completed" => call[f.request].method = "cancel"
    /\ f.outcome = "failed" => call[f.request].method = "start" /\ f.state = "failed"

\* The request did what it says, or has left nothing behind.
Accomplished(i) ==
  IF call[i].method = "cancel" THEN IsTerminal(call[i].session) ELSE effects[i] = 1

Undone(i) == effects[i] = 0 \/ (call[i].method = "start" /\ tree[call[i].session] = "dead")

OutcomeOK(i) ==
  /\ answer[i] = "ok" => effects[i] = 1
  /\ phase[i] = "completed" => Accomplished(i)
  /\ phase[i] = "failed" => Undone(i)
  /\ Queued(i) => phase[i] \in Started

Outcomes ==
  /\ \A s \in Sessions : FactOK(facts[s], s) /\ FactOK(pending[s], s)
  /\ \A i \in Ids : OutcomeOK(i)

\* The effect happens in this step, of a request that admits it.
Takes(i) ==
  /\ effects[i] = 0 /\ effects'[i] = 1
  /\ phase[i] \in Started /\ phase'[i] = phase[i]
  /\ ~(call[i].method = "start" /\ tree'[call[i].session] = "dead")

\* What a step may do to the world: a provider that is gone stays gone.
World ==
  /\ \A s \in Sessions : tree[s] = "dead" => tree'[s] = "dead"
  /\ \A i \in Ids : effects'[i] = effects[i] \/ Takes(i)

\* The end of a session is final.
Ends == \A s \in Sessions : IsTerminal(s) => IsTerminal(s)'

\* An outcome keeps its meaning, and a new one has it.
LEMMA OutcomeMoves ==
  ASSUME Tokens, Progress, World, Ends, NEW i \in Ids, OutcomeOK(i),
         answer'[i] = "ok" => answer[i] = "ok" \/ effects'[i] = 1,
         phase'[i] = "completed" => phase[i] = "completed" \/ Accomplished(i)',
         phase'[i] = "failed" => phase[i] = "failed" \/ Undone(i)',
         Queued(i)' => phase'[i] \in Started
  PROVE  OutcomeOK(i)'
<1>1. effects'[i] = effects[i] \/ (effects[i] = 0 /\ effects'[i] = 1 /\ phase[i] \in Started)
  BY DEF World, Takes
<1>2. ASSUME phase[i] \in {"completed", "failed"}
      PROVE  /\ call'[i] = call[i] /\ call[i].session \in Sessions /\ effects'[i] = effects[i]
  <2>1. IdOK(i) /\ JournalTypeOK
    BY TypeParts DEF Tokens
  <2>2. call[i] \in Calls
    BY <1>2, <2>1 DEF IdOK, JournalTypeOK
  <2>3. call[i].session \in Sessions /\ call[i] # NoCall
    BY <2>2, JournalAssumption
  <2> QED BY <1>1, <1>2, <2>3 DEF Progress, Started, UncertainPhases
<1>3. phase'[i] = "completed" => Accomplished(i)'
  BY <1>2 DEF OutcomeOK, Accomplished, Ends
<1>4. phase'[i] = "failed" => Undone(i)'
  BY <1>2 DEF OutcomeOK, Undone, World
<1>5. answer'[i] = "ok" => effects'[i] = 1
  BY <1>1 DEF OutcomeOK
<1> QED BY <1>3, <1>4, <1>5 DEF OutcomeOK

\* The facts that stay, move or are new.
LEMMA FactsMove ==
  ASSUME Progress, Outcomes, NEW s, NEW f, FactOK(f, s),
         \A t \in Sessions :
           /\ facts'[t] \in {facts[t], pending[t], NoFact} \/ (t = s /\ facts'[t] = f)
           /\ pending'[t] \in {facts[t], pending[t], NoFact} \/ (t = s /\ pending'[t] = f)
  PROVE  \A t \in Sessions : FactOK(facts[t], t)' /\ FactOK(pending[t], t)'
<1>1. ASSUME NEW t, NEW g, FactOK(g, t)
      PROVE  g # NoFact /\ g.outcome # "none" =>
               /\ g.request \in Ids /\ call'[g.request] \in Calls
               /\ call'[g.request].session = t
               /\ g.outcome = "completed" => call'[g.request].method = "cancel"
               /\ g.outcome = "failed" => call'[g.request].method = "start" /\ g.state = "failed"
  BY <1>1, JournalAssumption DEF FactOK, Progress
<1> SUFFICES ASSUME NEW t \in Sessions PROVE FactOK(facts[t], t)' /\ FactOK(pending[t], t)'
  OBVIOUS
<1>2. FactOK(facts[t], t) /\ FactOK(pending[t], t) /\ FactOK(NoFact, t)
  BY DEF Outcomes, FactOK
<1>3. PICK g : g = facts'[t]
  OBVIOUS
<1>4. FactOK(g, t)
  BY <1>2, <1>3
<1>5. PICK h : h = pending'[t]
  OBVIOUS
<1>6. FactOK(h, t)
  BY <1>2, <1>5
<1> QED BY <1>1, <1>3, <1>4, <1>5, <1>6 DEF FactOK

\* The step settles the request of a fact, or keeps the fact for later.
LEMMA SettleOutcomes ==
  ASSUME Tokens, Outcomes, Progress, World, Ends,
         NEW s \in Sessions, NEW f \in Facts, FactOK(f, s),
         \A i \in Ids : \/ phase'[i] = phase[i]
                        \/ /\ f.outcome # "none" /\ i = f.request /\ phase'[i] = f.outcome
                           /\ IsTerminal(s)',
         f.outcome = "failed" => tree'[s] = "dead",
         UNCHANGED <<effects, answer, jobs>>,
         \A t \in Sessions :
           /\ facts'[t] \in {facts[t], pending[t], NoFact} \/ (t = s /\ facts'[t] = f)
           /\ pending'[t] \in {facts[t], pending[t], NoFact} \/ (t = s /\ pending'[t] = f)
  PROVE  Outcomes'
<1>1. \A t \in Sessions : FactOK(facts[t], t)' /\ FactOK(pending[t], t)'
  BY FactsMove
<1>2. ASSUME NEW i \in Ids PROVE OutcomeOK(i)'
  <2>1. OutcomeOK(i) /\ (Queued(i)' <=> Queued(i))
    BY QueuesRest DEF Outcomes
  <2>2. CASE phase'[i] = phase[i]
    BY <2>1, <2>2, OutcomeMoves DEF OutcomeOK
  <2>3. CASE /\ f.outcome # "none" /\ i = f.request /\ phase'[i] = f.outcome
             /\ IsTerminal(s)'
    <3>1. /\ call[i] \in Calls /\ call[i].session = s
          /\ f.outcome = "completed" => call[i].method = "cancel"
          /\ f.outcome = "failed" => call[i].method = "start"
      BY <2>3, FactAssumption DEF FactOK
    <3>2. f.outcome \in {"completed", "failed"}
      BY <2>3 DEF Facts
    <3>3. ~Queued(i)
      BY <3>1, <3>2, QueuedWrites
    <3>4. call'[i] = call[i]
      BY <3>1, JournalAssumption DEF Progress
    <3>5. f.outcome = "completed" => Accomplished(i)'
      BY <2>3, <3>1, <3>4 DEF Accomplished
    <3>6. f.outcome = "failed" => Undone(i)'
      BY <3>1, <3>4 DEF Undone
    <3> QED BY <2>1, <2>3, <3>2, <3>3, <3>5, <3>6, OutcomeMoves
  <2> QED BY <2>2, <2>3
<1> QED BY <1>1, <1>2 DEF Outcomes

\* A call moves its own request; facts may be dropped.
LEMMA OwnOutcomes ==
  ASSUME Tokens, Outcomes, Progress, World, Ends, NEW j \in Ids,
         \A i \in Ids \ {j} : phase'[i] = phase[i] /\ (Queued(i)' => Queued(i)),
         answer' = answer,
         phase'[j] = "completed" => phase[j] = "completed" \/ Accomplished(j)',
         phase'[j] = "failed" => phase[j] = "failed" \/ Undone(j)',
         Queued(j)' => phase'[j] \in Started,
         \A t \in Sessions : facts'[t] \in {facts[t], NoFact} /\ pending'[t] = pending[t]
  PROVE  Outcomes'
<1>1. \A t \in Sessions : FactOK(facts[t], t)' /\ FactOK(pending[t], t)'
  <2>1. FactOK(NoFact, NoFact)
    BY DEF FactOK
  <2> QED BY <2>1, FactsMove
<1>2. ASSUME NEW i \in Ids PROVE OutcomeOK(i)'
  <2>1. OutcomeOK(i)
    BY DEF Outcomes
  <2>2. CASE i = j
    BY <2>1, <2>2, OutcomeMoves
  <2>3. CASE i # j
    BY <2>1, <2>3, OutcomeMoves DEF OutcomeOK
  <2> QED BY <2>2, <2>3
<1> QED BY <1>1, <1>2 DEF Outcomes

\* The journal is not written.
LEMMA StillOutcomes ==
  ASSUME Tokens, Outcomes, Progress, World, UNCHANGED journalVars,
         \A t \in Sessions : pending'[t] \in {facts[t], pending[t], NoFact},
         \A i \in Ids : Queued(i)' => Queued(i),
         \A i \in Ids : answer'[i] = "ok" => answer[i] = "ok" \/ effects'[i] = 1
  PROVE  Outcomes'
<1>1. UNCHANGED <<phase, state, facts>>
  BY DEF journalVars, requestTable, sessionTable
<1>2. \A t \in Sessions : FactOK(facts[t], t)' /\ FactOK(pending[t], t)'
  <2>1. FactOK(NoFact, NoFact)
    BY DEF FactOK
  <2> QED BY <1>1, <2>1, FactsMove
<1>3. Ends
  BY <1>1 DEF Ends, IsTerminal
<1>4. \A i \in Ids : OutcomeOK(i)'
  BY <1>1, <1>3, OutcomeMoves DEF Outcomes, OutcomeOK
<1> QED BY <1>2, <1>4 DEF Outcomes

-----------------------------------------------------------------------------
(* The steps, and what they do to the requests.                            *)

\* Nothing happens to the world.
LEMMA StillWorld ==
  ASSUME UNCHANGED <<tree, effects>> PROVE World
  BY DEF World

\* A termination only ends a provider.
LEMMA TerminateWorld ==
  ASSUME Tokens, NEW s \in Sessions, NEW ok \in BOOLEAN, Terminate(s, ok), effects' = effects
  PROVE  World
<1>1. MemoryTypeOK
  BY TypeParts DEF Tokens
<1>2. CASE ok
  BY <1>1, <1>2 DEF Terminate, World, MemoryTypeOK
<1>3. CASE ~ok
  BY <1>3 DEF Terminate, World
<1> QED BY <1>2, <1>3

\* What a committed fact does to the requests.
LEMMA CommitPhases ==
  ASSUME JournalTypeOK, NEW s \in Sessions, NEW f \in Facts, CommitFact(s, f)
  PROVE  /\ IsTerminal(s)'
         /\ \A i \in Ids : \/ phase'[i] = phase[i]
                           \/ f.outcome # "none" /\ i = f.request /\ phase'[i] = f.outcome
<1>1. IsTerminal(s)'
  BY DEF CommitFact, UpdateSession, IsTerminal, JournalTypeOK, Facts
<1>2. \A i \in Ids : \/ phase'[i] = phase[i]
                     \/ f.outcome # "none" /\ i = f.request /\ phase'[i] = f.outcome
  BY DEF CommitFact, CommitOutcome, SetRequestPhase, JournalTypeOK
<1> QED BY <1>1, <1>2

\* A terminal fact never opens a session again.
LEMMA FactEnds ==
  ASSUME NEW s \in Sessions, NEW f \in Facts,
         \/ JCommits(s, f) \/ JKeeps(s, f) \/ JSame(s) \/ JDrops(s)
         \/ JMoves(s, "unknown_outcome", "unknown_outcome"),
         \A t \in Sessions \ {s} : JSame(t)
  PROVE  Ends
<1>1. f.state \in TerminalStates /\ "unknown_outcome" \in TerminalStates
  BY DEF Facts, TerminalStates
<1>2. IsTerminal(s) => IsTerminal(s)'
  BY <1>1 DEF JCommits, JMoves, JKeeps, JSame, JDrops, IsTerminal
<1> QED BY <1>2 DEF Ends, JSame, IsTerminal

\* A fact is committed, or kept.
LEMMA PersistOutcomes ==
  ASSUME Tokens, Outcomes, Progress, World, NEW s \in Sessions, NEW f \in Facts, FactOK(f, s),
         f.outcome = "failed" => tree'[s] = "dead",
         PersistTerminalFact(s, f), UNCHANGED <<effects, answer, jobs>>
  PROVE  Outcomes'
<1>1. JournalTypeOK /\ pending \in [Sessions -> Facts \cup {NoFact}]
  BY TypeParts DEF Tokens
<1>2. /\ JCommits(s, f) \/ JKeeps(s, f)
      /\ \A t \in Sessions \ {s} : JSame(t)
  BY <1>1, PersistSession
<1>3. Ends
  BY <1>2, FactEnds
<1>4. \A i \in Ids : \/ phase'[i] = phase[i]
                     \/ /\ f.outcome # "none" /\ i = f.request /\ phase'[i] = f.outcome
                        /\ IsTerminal(s)'
  BY <1>1, CommitPhases DEF PersistTerminalFact, RetainFact, requestTable
<1>5. \A t \in Sessions :
         /\ facts'[t] \in {facts[t], pending[t], NoFact} \/ (t = s /\ facts'[t] = f)
         /\ pending'[t] \in {facts[t], pending[t], NoFact} \/ (t = s /\ pending'[t] = f)
  BY <1>2 DEF JCommits, JMoves, JKeeps, JSame
<1> QED BY <1>3, <1>4, <1>5, SettleOutcomes

\* A fact that waits is committed, dropped or kept.
LEMMA FlushOutcomes ==
  ASSUME Tokens, Owners, Outcomes, Progress, NEW s \in Sessions, FlushFact(s) \/ FlushFails(s),
         UNCHANGED <<tree, effects, answer, jobs>>
  PROVE  Outcomes' /\ World
<1>1. JournalTypeOK /\ pending \in [Sessions -> Facts \cup {NoFact}] /\ TreeOK(s)
  BY TypeParts DEF Tokens, Owners, SessionOK
<1> PICK f : f = pending[s]
  OBVIOUS
<1>2. /\ f # NoFact /\ f \in Facts
      /\ \A t \in Sessions \ {s} : JSame(t)
      /\ JCommits(s, f) \/ (IsTerminal(s) /\ JDrops(s)) \/ JKeeps(s, f)
  BY <1>1, FlushSession
<1>3. Ends /\ World
  BY <1>2, FactEnds, StillWorld
<1>4. FactOK(f, s) /\ (f.outcome = "failed" => tree'[s] = "dead")
  BY <1>1, <1>2 DEF Outcomes, FactOK, TreeOK
<1>5. \A i \in Ids : \/ phase'[i] = phase[i]
                     \/ /\ f.outcome # "none" /\ i = f.request /\ phase'[i] = f.outcome
                        /\ IsTerminal(s)'
  <2>1. CASE CommitFact(s, f)
    BY <1>1, <1>2, <2>1, CommitPhases
  <2>2. CASE ReconcileFact(s, f) /\ IsTerminal(s) /\ UNCHANGED sessionTable
    BY <1>1, <2>2 DEF ReconcileFact, JournalTypeOK, IsTerminal, sessionTable
  <2>3. CASE UNCHANGED phase
    BY <2>3
  <2> QED BY <2>1, <2>2, <2>3
          DEF FlushFact, FlushFails, RetainFact, requestTable, journalVars
<1>6. \A t \in Sessions :
         /\ facts'[t] \in {facts[t], pending[t], NoFact} \/ (t = s /\ facts'[t] = f)
         /\ pending'[t] \in {facts[t], pending[t], NoFact} \/ (t = s /\ pending'[t] = f)
  BY <1>2 DEF JCommits, JMoves, JKeeps, JDrops, JSame
<1> QED BY <1>2, <1>3, <1>4, <1>5, <1>6, SettleOutcomes

\* A termination settles no request.
LEMMA TerminationOutcomes ==
  ASSUME Tokens, Outcomes, Progress, World, NEW s \in Sessions, NEW ok \in BOOLEAN,
         RecordTermination(s, TerminationFact(ok)), UNCHANGED <<effects, answer, jobs>>
  PROVE  Outcomes'
<1> PICK f : f = TerminationFact(ok)
  OBVIOUS
<1>1. f \in Facts /\ f.outcome = "none"
  BY DEF TerminationFact, Fact, Facts, TerminalStates, OperationPhases
<1>2. FactOK(f, s)
  BY <1>1 DEF FactOK
<1>3. CASE PersistTerminalFact(s, f)
  BY <1>1, <1>2, <1>3, PersistOutcomes
<1>4. CASE UNCHANGED journalVars /\ pending' = [pending EXCEPT ![s] = f]
  <2>1. Ends /\ UNCHANGED <<phase, facts>>
    BY <1>4 DEF Ends, IsTerminal, journalVars, requestTable, sessionTable
  <2>2. \A t \in Sessions : pending'[t] = pending[t] \/ (t = s /\ pending'[t] = f)
    BY <1>4, TypeParts DEF Tokens
  <2> QED BY <1>1, <1>2, <2>1, <2>2, SettleOutcomes
<1>5. CASE UNCHANGED <<journalVars, pending>>
  BY <1>5, QueuesRest, StillOutcomes
<1> QED BY <1>3, <1>4, <1>5 DEF RecordTermination

\* The steps of the runtime's own threads.
LEMMA ThreadOutcomes ==
  ASSUME Tokens, Owners, Outcomes, Progress, NEW s \in Sessions,
         \/ ListFlush(s) \/ QuitFlush(s) \/ QuitKill(s)
         \/ MonitorPoll(s) \/ MonitorTerminate(s) \/ MonitorCommit(s) \/ ProtocolFailure(s)
         \/ TreeDies(s)
  PROVE  Outcomes' /\ World
<1>1. UNCHANGED <<effects, answer, jobs>>
  BY DEF ListFlush, QuitFlush, QuitKill, MonitorPoll, MonitorTerminate, MonitorCommit,
         ProtocolFailure, TreeDies, memoryVars, writerVars, worldVars
<1>2. CASE ListFlush(s) \/ QuitFlush(s)
  BY <1>1, <1>2, FlushOutcomes DEF ListFlush, QuitFlush, worldVars
<1>3. CASE QuitKill(s)
  <2>1. PICK ok \in BOOLEAN :
           /\ Terminate(s, ok)
           /\ \/ UNCHANGED <<journalVars, pending>>
              \/ PersistTerminalFact(s, ShutdownFact(ok))
    BY <1>3 DEF QuitKill
  <2>2. World
    BY <1>1, <2>1, TerminateWorld
  <2>3. ShutdownFact(ok) \in Facts /\ ShutdownFact(ok).outcome = "none" /\ FactOK(ShutdownFact(ok), s)
    BY DEF ShutdownFact, Fact, Facts, TerminalStates, OperationPhases, FactOK
  <2> QED BY <1>1, <2>1, <2>2, <2>3, PersistOutcomes, StillOutcomes, QueuesRest
<1>4. CASE MonitorPoll(s)
  <2>1. World /\ UNCHANGED <<journalVars, pending>>
    BY <1>4, StillWorld DEF MonitorPoll, worldVars
  <2> QED BY <1>1, <2>1, StillOutcomes, QueuesRest
<1>5. CASE MonitorTerminate(s)
  <2>1. World /\ UNCHANGED <<journalVars, pending>>
    BY <1>1, <1>5, TerminateWorld DEF MonitorTerminate
  <2> QED BY <1>1, <2>1, StillOutcomes, QueuesRest
<1>6. CASE MonitorCommit(s)
  <2>1. World
    BY <1>6, StillWorld DEF MonitorCommit, worldVars
  <2>2. PICK ok \in BOOLEAN : RecordTermination(s, TerminationFact(ok))
    BY <1>6 DEF MonitorCommit
  <2> QED BY <1>1, <2>1, <2>2, TerminationOutcomes
<1>7. CASE ProtocolFailure(s)
  <2>1. CASE UNCHANGED <<journalVars, pending, tree>>
    BY <1>1, <2>1, StillWorld, StillOutcomes, QueuesRest
  <2>2. ASSUME NEW ok \in BOOLEAN, Terminate(s, ok), RecordTermination(s, TerminationFact(ok))
        PROVE  Outcomes' /\ World
    BY <1>1, <2>2, TerminateWorld, TerminationOutcomes
  <2> QED BY <1>7, <2>1, <2>2 DEF ProtocolFailure
<1>8. CASE TreeDies(s)
  <2>1. MemoryTypeOK
    BY TypeParts DEF Tokens
  <2>2. World /\ UNCHANGED <<journalVars, pending>>
    BY <1>8, <2>1 DEF TreeDies, World, memoryVars, MemoryTypeOK
  <2> QED BY <1>1, <2>2, StillOutcomes, QueuesRest
<1> QED BY <1>2, <1>3, <1>4, <1>5, <1>6, <1>7, <1>8

\* The steps of kill_all that write nothing.
LEMMA QuitOutcomes ==
  ASSUME Tokens, Outcomes, Progress, QuitDrain \/ QuitJoin \/ QuitDone
  PROVE  Outcomes' /\ World
<1>1. UNCHANGED <<journalVars, pending, tree, effects, answer, jobs>>
  BY DEF QuitDrain, QuitJoin, QuitDone, writerVars, worldVars
<1> QED BY <1>1, StillWorld, StillOutcomes, QueuesRest

\* A crash settles nothing.
LEMMA CrashOutcomes ==
  ASSUME Tokens, Outcomes, Progress, Crash
  PROVE  Outcomes' /\ World
<1>1. /\ UNCHANGED <<journalVars, tree, effects>>
      /\ \A t \in Sessions : pending'[t] = NoFact /\ jobs'[t] = <<>>
      /\ \A i \in Ids : answer'[i] = "none"
  BY DEF Crash
<1>2. \A i \in Ids : ~Queued(i)'
  BY <1>1 DEF Queued
<1> QED BY <1>1, <1>2, StillWorld, StillOutcomes

\* The recovery fails only requests whose effect was never admitted.
LEMMA RecoverOutcomes ==
  ASSUME Tokens, Outcomes, Progress, Recover
  PROVE  Outcomes' /\ World
<1>1. /\ JournalTypeOK /\ \A t \in Sessions : jobs[t] = <<>>
  BY TypeParts DEF Tokens, Asleep, Recover, Boot, RecoverSession, RecoverRequests, OpenRuntime
<1>2. UNCHANGED <<tree, effects, answer, jobs, call>>
  BY DEF Recover, Boot, RecoverSession, RecoverRequests, OpenRuntime, memoryVars, writerVars,
         worldVars, journalVars, requestTable
<1>3. World
  BY <1>2, StillWorld
<1>4. \A i \in Ids : ~Queued(i)'
  BY <1>1, <1>2 DEF Queued
<1>5. Ends
  <2>1. CASE UNCHANGED sessionTable
    BY <2>1 DEF Ends, IsTerminal, sessionTable
  <2>2. ASSUME NEW s \in Sessions, RecoverSessionRow(s) PROVE Ends
    BY <1>1, <2>2 DEF RecoverSessionRow, MustRecover, IsOpen, UpdateSession, Ends, IsTerminal,
                      JournalTypeOK
  <2> QED BY <2>1, <2>2
          DEF Recover, Boot, RecoverSession, RecoverRequests, OpenRuntime, journalVars
<1>6. \A t \in Sessions : FactOK(facts[t], t)' /\ FactOK(pending[t], t)'
  <2>1. \A t \in Sessions : facts'[t] \in {facts[t], NoFact} /\ pending'[t] \in {facts[t], pending[t]}
    BY <1>1 DEF Recover, Boot, RecoverSession, RecoverRequests, OpenRuntime, journalVars, memoryVars,
                RecoverSessionRow, UpdateSession, JournalTypeOK
  <2>2. FactOK(NoFact, NoFact)
    BY DEF FactOK
  <2> QED BY <2>1, <2>2, FactsMove
<1>7. ASSUME NEW i \in Ids PROVE OutcomeOK(i)'
  <2>1. OutcomeOK(i) /\ IdOK(i)
    BY DEF Outcomes, Tokens
  <2>2. \/ phase'[i] = phase[i]
        \/ phase[i] \in SafePhases /\ phase'[i] = "failed"
        \/ phase'[i] = "unknown_outcome"
    BY DEF Recover, Boot, RecoverSession, RecoverRequests, OpenRuntime, RecoverRequestRows,
           journalVars, requestTable
  <2>3. phase[i] \in SafePhases => effects[i] = 0
    BY <2>1 DEF IdOK, Admitted, EarlyPhases
  <2>4. phase'[i] = "failed" => phase[i] = "failed" \/ Undone(i)'
    BY <1>2, <2>2, <2>3 DEF Undone
  <2>5. phase'[i] = "completed" => phase[i] = "completed"
    BY <2>2
  <2> QED BY <1>2, <1>3, <1>4, <1>5, <2>1, <2>4, <2>5, OutcomeMoves
<1> QED BY <1>3, <1>6, <1>7 DEF Outcomes

\* Both rows are moved, or one of them, or none.
LEMMA RecordOutcomes ==
  ASSUME Tokens, Outcomes, Progress, World, NEW j \in Ids, NEW s \in Sessions,
         NEW to \in {"failed", "unknown_outcome"}, RecordBoth(j, s, to, to),
         to = "failed" => effects[j] = 0, ~Queued(j), UNCHANGED <<effects, answer, jobs>>
  PROVE  Outcomes'
<1>1. /\ JournalTypeOK /\ pending \in [Sessions -> Facts \cup {NoFact}]
      /\ to \in TerminalStates /\ to \in OperationPhases
  BY TypeParts DEF Tokens, TerminalStates, OperationPhases
<1>2. /\ JSame(s) \/ (JMoves(s, to, to) /\ pending'[s] = pending[s])
      /\ \A t \in Sessions \ {s} : JSame(t)
  BY <1>1, RecordBothSession
<1>3. Ends
  BY <1>1, <1>2 DEF Ends, JSame, JMoves, IsTerminal
<1>4. /\ phase'[j] \in {phase[j], to}
      /\ \A i \in Ids \ {j} : phase'[i] = phase[i]
  BY <1>1 DEF RecordBoth, SetRequestPhase, JournalTypeOK
<1>5. \A t \in Sessions : facts'[t] \in {facts[t], NoFact} /\ pending'[t] = pending[t]
  BY <1>2 DEF JSame, JMoves
<1>6. /\ phase'[j] = "failed" => phase[j] = "failed" \/ Undone(j)'
      /\ phase'[j] = "completed" => phase[j] = "completed"
  BY <1>4 DEF Undone
<1> QED BY <1>3, <1>4, <1>5, <1>6, OwnOutcomes, QueuesRest

\* What a call knows of its request.
LEMMA CallFacts ==
  ASSUME Tokens, NEW c \in Callers, Registered(c)
  PROVE  /\ JournalTypeOK /\ MemoryTypeOK /\ pending \in [Sessions -> Facts \cup {NoFact}]
         /\ Id(c) \in Ids /\ Session(c) \in Sessions
         /\ call[Id(c)] = cur[c] /\ cur[c].session = Session(c) /\ cur[c] \in Calls
         /\ phase[Id(c)] \in PhaseAt(pc[c]) /\ effects[Id(c)] \in EffectAt(pc[c])
         /\ pc[c] \in StartPlaces => cur[c].method = "start"
         /\ pc[c] \in WritePlaces => cur[c].method = "write"
         /\ pc[c] = "kill" => cur[c].method = "cancel"
         /\ pc[c] \notin WritePlaces => ~Queued(Id(c))
<1>1. CallerOK(c)
  BY DEF Tokens
<1>2. pc[c] = "kill" => cur[c].method = "cancel"
  BY <1>1 DEF CallerOK
<1>3. pc[c] \notin WritePlaces => cur[c].method # "write"
  <2>1. pc[c] \in {"kill"} \cup StartPlaces \cup WritePlaces
    BY AtPlace DEF MemoryTypeOK, Registered
  <2> QED BY <1>1, <2>1 DEF CallerOK
<1>4. /\ Id(c) \in Ids /\ call[Id(c)] = cur[c]
  BY AtPlace
<1>5. pc[c] \notin WritePlaces => ~Queued(Id(c))
  BY <1>3, <1>4, QueuedWrites
<1> QED BY <1>2, <1>5, AtPlace DEF Session

\* Only the request of the call moves, and it is not settled.
LEMMA PhaseOutcomes ==
  ASSUME Tokens, Outcomes, Progress, World, NEW j \in Ids,
         UNCHANGED <<state, facts, pending, answer, jobs>>,
         \A i \in Ids \ {j} : phase'[i] = phase[i],
         phase'[j] = "completed" => phase[j] = "completed" \/ Accomplished(j)',
         phase'[j] = "failed" => phase[j] = "failed" \/ Undone(j)',
         Queued(j) => phase'[j] \in Started
  PROVE  Outcomes'
<1>1. Ends
  BY DEF Ends, IsTerminal
<1> QED BY <1>1, OwnOutcomes, QueuesRest

\* An identity is admitted.
LEMMA AdmitOutcomes ==
  ASSUME Tokens, Outcomes, Progress, NEW j \in Ids, call[j] = NoCall,
         NEW p \in SafePhases \cup {"side_effect_started", "failed"},
         phase' = [phase EXCEPT ![j] = p],
         \A t \in Sessions : IsTerminal(t) => state'[t] = state[t],
         UNCHANGED <<facts, pending, tree, effects, answer, jobs>>
  PROVE  Outcomes' /\ World
<1>1. JournalTypeOK /\ effects[j] = 0 /\ ~Queued(j)
  BY TypeParts DEF Tokens, IdOK
<1>2. World /\ Ends
  BY StillWorld DEF Ends, IsTerminal
<1>3. phase'[j] = p /\ \A i \in Ids \ {j} : phase'[i] = phase[i]
  BY <1>1 DEF JournalTypeOK
<1>4. Undone(j)' /\ p # "completed"
  BY <1>1 DEF Undone, SafePhases
<1> QED BY <1>1, <1>2, <1>3, <1>4, OwnOutcomes, QueuesRest

\* The admission of a call; a cancellation flushes a fact first.
LEMMA AdmitStepOutcomes ==
  ASSUME Tokens, Owners, Outcomes, Progress, NEW c \in Callers, NEW k \in Calls, Admit(c, k)
  PROVE  Outcomes' /\ World
<1>1. k.id \in Ids /\ k.session \in Sessions /\ JournalTypeOK
  BY TypeParts, JournalAssumption DEF Tokens
<1>2. CASE StartAdmit(c, k)
  <2>1. /\ call[k.id] = NoCall /\ phase' = [phase EXCEPT ![k.id] = "accepted"]
        /\ UNCHANGED <<facts, pending, tree, effects, answer, jobs>>
    BY <1>2 DEF StartAdmit, BeginStartRequest, BeginRequest, IsNew, writerVars, worldVars
  <2>2. \A t \in Sessions : IsTerminal(t) => state'[t] = state[t]
    BY <1>1, <1>2
       DEF StartAdmit, BeginStartRequest, IsTerminal, TerminalStates, JournalTypeOK
  <2>3. "accepted" \in SafePhases
    BY DEF SafePhases
  <2> QED BY <1>1, <2>1, <2>2, <2>3, AdmitOutcomes
<1>3. CASE WriteAdmit(c, k)
  <2>1. /\ call[k.id] = NoCall
        /\ UNCHANGED <<state, facts, pending, tree, effects, answer, jobs>>
        /\ \E p \in SafePhases \cup {"side_effect_started", "failed"} :
             phase' = [phase EXCEPT ![k.id] = p]
    BY <1>3 DEF WriteAdmit, IsNew, writerVars, worldVars, sessionTable, SafePhases
  <2> QED BY <1>1, <2>1, AdmitOutcomes
<1>4. CASE CancelFlush(c, k)
  <2>1. UNCHANGED <<tree, effects, answer, jobs>>
    BY <1>4 DEF CancelFlush, writerVars, worldVars
  <2>2. CASE FlushFact(k.session) \/ FlushFails(k.session)
    BY <1>1, <2>1, <2>2, FlushOutcomes
  <2>3. CASE UNCHANGED <<journalVars, pending>>
    BY <2>1, <2>3, StillWorld, StillOutcomes, QueuesRest
  <2> QED BY <1>4, <2>2, <2>3 DEF CancelFlush
<1> QED BY <1>2, <1>3, <1>4 DEF Admit

\* A start before its spawn.
LEMMA StartOutcomes ==
  ASSUME Tokens, Owners, Outcomes, Progress, NEW c \in Callers,
         \/ Probe(c) \/ ProbeUnproven(c) \/ RejectStart(c) \/ Dispatch(c)
         \/ AdvanceStart(c, "accepted", "dispatched", "dispatched")
         \/ AdvanceStart(c, "dispatched", "side_effect_started", "spawn")
  PROVE  Outcomes' /\ World
<1> PICK j : j = Id(c)
  OBVIOUS
<1> PICK s : s = Session(c)
  OBVIOUS
<1>0. pc[c] \in BeforeSpawn /\ pc[c] \notin WritePlaces /\ Registered(c)
  BY DEF Probe, ProbeUnproven, RejectStart, Dispatch, AdvanceStart, BeforeSpawn, WritePlaces,
         BeforeSend, Registered
<1>1. /\ j \in Ids /\ s \in Sessions /\ JournalTypeOK /\ ~Queued(j) /\ effects[j] = 0
  <2>1. EffectAt(pc[c]) = {0}
    BY <1>0 DEF EffectAt, BeforeSpawn
  <2> QED BY <1>0, <2>1, CallFacts
<1>2. UNCHANGED <<tree, effects, answer, jobs>>
  BY DEF Probe, ProbeUnproven, RejectStart, Dispatch, AdvanceStart, writerVars, worldVars
<1>3. World
  BY <1>2, StillWorld
<1>4. CASE Probe(c)
  BY <1>2, <1>3, <1>4, StillOutcomes, QueuesRest DEF Probe
<1>5. CASE ProbeUnproven(c) \/ RejectStart(c)
  <2>1. \E to \in {"failed", "unknown_outcome"} : RecordBoth(j, s, to, to)
    BY <1>5 DEF ProbeUnproven, RejectStart, MarkTerminationUnknown
  <2> QED BY <1>1, <1>2, <1>3, <2>1, RecordOutcomes
<1>6. CASE Dispatch(c)
  <2>1. /\ UNCHANGED <<state, facts, pending>>
        /\ phase' = phase \/ phase' = [phase EXCEPT ![j] = "failed"]
    BY <1>6 DEF Dispatch, FailRequest, SetRequestPhase, sessionTable
  <2>2. (\A i \in Ids \ {j} : phase'[i] = phase[i]) /\ phase'[j] \in {phase[j], "failed"}
    BY <1>1, <2>1 DEF JournalTypeOK
  <2>3. Undone(j)'
    BY <1>1, <1>2 DEF Undone
  <2> QED BY <1>1, <1>2, <1>3, <2>1, <2>2, <2>3, PhaseOutcomes
<1>7. CASE \/ AdvanceStart(c, "accepted", "dispatched", "dispatched")
           \/ AdvanceStart(c, "dispatched", "side_effect_started", "spawn")
  <2>1. /\ UNCHANGED <<state, facts, pending>>
        /\ \/ phase' = phase
           \/ \E p \in {"dispatched", "side_effect_started"} : phase' = [phase EXCEPT ![j] = p]
    BY <1>7 DEF AdvanceStart, SetRequestPhase
  <2>2. /\ \A i \in Ids \ {j} : phase'[i] = phase[i]
        /\ phase'[j] \in {phase[j], "dispatched", "side_effect_started"}
    BY <1>1, <2>1 DEF JournalTypeOK
  <2> QED BY <1>1, <1>2, <1>3, <2>1, <2>2, PhaseOutcomes
<1> QED BY <1>4, <1>5, <1>6, <1>7

\* The spawn is the effect of a start, in a session that had no provider.
LEMMA SpawnOutcomes ==
  ASSUME Tokens, Owners, Outcomes, Progress, NEW c \in Callers, Spawn(c)
  PROVE  Outcomes' /\ World
<1> PICK j : j = Id(c)
  OBVIOUS
<1> PICK s : s = Session(c)
  OBVIOUS
<1>0. /\ pc[c] = "spawn" /\ pc[c] \in StartPlaces /\ pc[c] \in BeforeSpawn /\ Registered(c)
      /\ EffectAt(pc[c]) = {0} /\ PhaseAt(pc[c]) = {"side_effect_started"}
  BY DEF Spawn, StartPlaces, BeforeSpawn, Registered, EffectAt, PhaseAt
<1>1. /\ j \in Ids /\ s \in Sessions /\ MemoryTypeOK
      /\ call[j].session = s /\ effects[j] = 0 /\ phase[j] = "side_effect_started"
  BY <1>0, CallFacts
<1>2. tree[s] = "none"
  BY <1>0, <1>1, StartFacts DEF StartOK
<1>3. UNCHANGED <<journalVars, jobs, answer, pending>> /\ phase' = phase
  BY DEF Spawn, journalVars, requestTable
<1>4. World
  <2>1. CASE UNCHANGED <<tree, effects>>
    BY <2>1, StillWorld
  <2>2. CASE /\ tree' = [tree EXCEPT ![s] = "alive"]
             /\ effects' = [effects EXCEPT ![j] = @ + 1]
    <3>1. tree \in [Sessions -> {"none", "alive", "dead"}] /\ effects \in [Ids -> Nat]
      BY <1>1 DEF MemoryTypeOK
    <3>2. tree'[s] = "alive" /\ \A t \in Sessions \ {s} : tree'[t] = tree[t]
      BY <1>1, <2>2, <3>1
    <3>3. effects'[j] = 1 /\ \A i \in Ids \ {j} : effects'[i] = effects[i]
      BY <1>1, <2>2, <3>1
    <3>4. Takes(j)
      BY <1>1, <1>3, <3>2, <3>3 DEF Takes, Started, UncertainPhases
    <3> QED BY <1>2, <3>2, <3>3, <3>4 DEF World
  <2> QED BY <2>1, <2>2 DEF Spawn
<1> QED BY <1>3, <1>4, StillOutcomes, QueuesRest

\* The ownership commit completes a start that has spawned.
LEMMA OwnershipOutcomes ==
  ASSUME Tokens, Owners, Outcomes, Progress, NEW c \in Callers, Own(c)
  PROVE  Outcomes' /\ World
<1> PICK j : j = Id(c)
  OBVIOUS
<1> PICK s : s = Session(c)
  OBVIOUS
<1>0. /\ pc[c] = "own" /\ pc[c] \in StartPlaces /\ pc[c] \in Locked \ {"teardown"} /\ Registered(c)
      /\ EffectAt(pc[c]) = {1} /\ pc[c] \notin WritePlaces
  BY DEF Own, StartPlaces, BeforeSpawn, BeforeSend, WritePlaces, Locked, Registered, EffectAt
<1>1. /\ j \in Ids /\ s \in Sessions /\ JournalTypeOK /\ ~Queued(j)
      /\ call[j].method = "start" /\ effects[j] = 1
  BY <1>0, CallFacts
<1>2. state[s] = "starting"
  BY <1>0, <1>1, StartFacts DEF StartOK
<1>3. UNCHANGED <<call, tree, effects, jobs, answer, pending>>
  BY DEF Own, writerVars, worldVars
<1>4. World
  BY <1>3, StillWorld
<1>5. /\ \A t \in Sessions \ {s} : state'[t] = state[t]
      /\ \A t \in Sessions : facts'[t] \in {facts[t], NoFact}
  <2>1. CASE UpdateSession(s, "running", "committed")
    BY <1>1, <2>1 DEF UpdateSession, JournalTypeOK
  <2>2. CASE UNCHANGED <<sessionTable, facts>>
    BY <2>2 DEF sessionTable
  <2> QED BY <2>1, <2>2 DEF Own
<1>6. Ends
  BY <1>2, <1>5 DEF Ends, IsTerminal, TerminalStates
<1>7. /\ \A i \in Ids \ {j} : phase'[i] = phase[i]
      /\ phase'[j] \in {phase[j], "committed", "completed"}
  <2>1. \/ phase' = phase
        \/ \E p \in {"committed", "completed"} : phase' = [phase EXCEPT ![j] = p]
    BY DEF Own, SetRequestPhase
  <2> QED BY <1>1, <2>1 DEF JournalTypeOK
<1>8. Accomplished(j)'
  BY <1>1, <1>3 DEF Accomplished
<1> QED BY <1>1, <1>3, <1>4, <1>5, <1>6, <1>7, <1>8, OwnOutcomes, QueuesRest

\* A start that came too far is torn down; it fails when its provider is gone.
LEMMA TeardownOutcomes ==
  ASSUME Tokens, Owners, Outcomes, Progress, NEW c \in Callers, Teardown(c)
  PROVE  Outcomes' /\ World
<1> PICK j : j = Id(c)
  OBVIOUS
<1> PICK s : s = Session(c)
  OBVIOUS
<1>0. /\ pc[c] = "teardown" /\ pc[c] \in StartPlaces /\ Registered(c) /\ pc[c] \notin WritePlaces
  BY DEF Teardown, StartPlaces, BeforeSend, WritePlaces, Registered
<1>1. /\ j \in Ids /\ s \in Sessions /\ JournalTypeOK /\ MemoryTypeOK /\ ~Queued(j)
      /\ call[j] \in Calls /\ call[j].method = "start" /\ call[j].session = s
  BY <1>0, CallFacts
<1>2. UNCHANGED <<effects, jobs, answer>>
  BY DEF Teardown, writerVars
<1>3. PICK ok \in BOOLEAN :
         /\ Terminate(s, ok)
         /\ IF ok THEN PersistTerminalFact(s, RejectedFact(j)) ELSE MarkTerminationUnknown(j, s)
  BY DEF Teardown
<1>4. World
  BY <1>1, <1>2, <1>3, TerminateWorld
<1>5. CASE ok
  <2> PICK f : f = RejectedFact(j)
    OBVIOUS
  <2>1. f \in Facts /\ f.request = j /\ f.outcome = "failed" /\ f.state = "failed"
    BY <1>1 DEF RejectedFact, Fact, Facts, TerminalStates, OperationPhases
  <2>2. FactOK(f, s)
    BY <1>1, <2>1 DEF FactOK
  <2>3. tree'[s] = "dead" /\ PersistTerminalFact(s, f)
    BY <1>1, <1>3, <1>5 DEF Terminate, MemoryTypeOK
  <2> QED BY <1>1, <1>2, <1>4, <2>1, <2>2, <2>3, PersistOutcomes
<1>6. CASE ~ok
  <2>1. RecordBoth(j, s, "unknown_outcome", "unknown_outcome")
    BY <1>3, <1>6 DEF MarkTerminationUnknown
  <2> QED BY <1>1, <1>2, <1>4, <2>1, RecordOutcomes
<1> QED BY <1>4, <1>5, <1>6

\* The steps of a write that touch no other line.
LEMMA WriteOutcomes ==
  ASSUME Tokens, Owners, Outcomes, Progress, NEW c \in Callers,
         WriteSend(c) \/ WriteRefuse(c) \/ WriteResult(c)
  PROVE  Outcomes' /\ World
<1> PICK j : j = Id(c)
  OBVIOUS
<1>0. /\ Registered(c) /\ pc[c] \in WritePlaces
  BY DEF WriteSend, WriteRefuse, WriteResult, WritePlaces, BeforeSend, Registered
<1>1. /\ j \in Ids /\ Session(c) \in Sessions /\ JournalTypeOK /\ MemoryTypeOK
      /\ call[j] \in Calls /\ call[j].method = "write" /\ HasToken(c, j)
  BY <1>0, CallFacts, TokenFacts
<1>2. OutcomeOK(j)
  BY <1>1 DEF Outcomes
<1>3. UNCHANGED <<state, facts, pending, tree, effects, answer>>
  BY DEF WriteSend, WriteRefuse, WriteResult, writerVars, worldVars, journalVars, sessionTable
<1>4. World
  BY <1>3, StillWorld
<1>5. CASE WriteSend(c)
  <2>1. pc[c] = "send" /\ UNCHANGED <<phase, journalVars>>
    BY <1>5 DEF WriteSend, journalVars, requestTable
  <2>2. phase[j] = "side_effect_started"
    BY <1>1, <2>1 DEF HasToken, PhaseAt
  <2>3. \A i \in Ids \ {j} : Queued(i)' => Queued(i)
    <3>1. CASE UNCHANGED jobs
      BY <3>1, QueuesRest
    <3>2. CASE jobs' = [jobs EXCEPT ![Session(c)] = Append(@, j)]
      <4> PICK s : s = Session(c)
        OBVIOUS
      <4> PICK q : q = jobs[s]
        OBVIOUS
      <4>1. jobs \in [Sessions -> Seq(Ids)]
        BY <1>1 DEF MemoryTypeOK
      <4>2. /\ q \in Seq(Ids) /\ Len(q) \in Nat /\ DOMAIN q = 1 .. Len(q)
            /\ jobs'[s] = Append(q, j)
            /\ \A t \in Sessions \ {s} : jobs'[t] = jobs[t]
        BY <1>1, <3>2, <4>1
      <4>3. /\ DOMAIN Append(q, j) = 1 .. (Len(q) + 1)
            /\ Append(q, j)[Len(q) + 1] = j
            /\ \A n \in 1 .. Len(q) : Append(q, j)[n] = q[n]
        BY <1>1, <4>2
      <4> SUFFICES ASSUME NEW i \in Ids \ {j}, NEW t \in Sessions, NEW n \in DOMAIN jobs'[t],
                          jobs'[t][n] = i
                   PROVE  Queued(i)
        BY DEF Queued
      <4>4. CASE t # s
        BY <4>2, <4>4 DEF Queued
      <4>5. CASE t = s
        <5>1. n \in 1 .. Len(q)
          BY <4>2, <4>3, <4>5
        <5> QED BY <4>2, <4>3, <4>5, <5>1 DEF Queued
      <4> QED BY <4>4, <4>5
    <3> QED BY <1>5, <3>1, <3>2 DEF WriteSend
  <2>4. Ends
    BY <1>3 DEF Ends, IsTerminal
  <2>5. phase'[j] \in Started /\ phase'[j] = phase[j]
    BY <2>1, <2>2 DEF Started, UncertainPhases
  <2> QED BY <1>1, <1>3, <1>4, <2>1, <2>3, <2>4, <2>5, OwnOutcomes
<1>6. CASE WriteRefuse(c)
  <2>1. pc[c] = "refuse" /\ UNCHANGED jobs
    BY <1>6 DEF WriteRefuse, writerVars
  <2>2. effects[j] = 0 /\ ~Queued(j)
    BY <1>1, <2>1 DEF HasToken, EffectAt, BeforeSpawn, BeforeSend
  <2>3. phase' = phase \/ phase' = [phase EXCEPT ![j] = "failed"]
    BY <1>6 DEF WriteRefuse, FailRequest, SetRequestPhase
  <2>4. (\A i \in Ids \ {j} : phase'[i] = phase[i]) /\ phase'[j] \in {phase[j], "failed"}
    BY <1>1, <2>3 DEF JournalTypeOK
  <2>5. Undone(j)'
    BY <1>3, <2>2 DEF Undone
  <2> QED BY <1>1, <1>3, <1>4, <2>1, <2>2, <2>4, <2>5, PhaseOutcomes
<1>7. CASE WriteResult(c)
  <2>1. UNCHANGED <<jobs, call>>
    BY <1>7 DEF WriteResult, writerVars
  <2>2. \/ phase' = phase
        \/ /\ answer[j] = "ok"
           /\ \E p \in {"committed", "completed"} : phase' = [phase EXCEPT ![j] = p]
        \/ phase' = [phase EXCEPT ![j] = "unknown_outcome"]
    BY <1>7 DEF WriteResult, MarkRequestUnknown, SetRequestPhase
  <2>3. /\ \A i \in Ids \ {j} : phase'[i] = phase[i]
        /\ \/ phase'[j] \in {phase[j], "unknown_outcome"}
           \/ answer[j] = "ok" /\ phase'[j] \in {"committed", "completed"}
    BY <1>1, <2>2 DEF JournalTypeOK
  <2>4. answer[j] = "ok" => effects[j] = 1 /\ ~Queued(j)
    BY <1>1, <1>2, QueuedWrites DEF OutcomeOK
  <2>5. effects[j] = 1 => Accomplished(j)'
    BY <1>1, <1>3, <2>1 DEF Accomplished
  <2>6. Queued(j) => phase'[j] \in Started
    BY <1>2, <2>3, <2>4 DEF OutcomeOK, Started
  <2> QED BY <1>1, <1>3, <1>4, <2>1, <2>3, <2>4, <2>5, <2>6, PhaseOutcomes
<1> QED BY <1>4, <1>5, <1>6, <1>7

\* A line is delivered while its request is open, or given up as unknown.
LEMMA WriterOutcomes ==
  ASSUME Tokens, Outcomes, Progress, NEW s \in Sessions, WriterDelivers(s) \/ WriterFails(s)
  PROVE  Outcomes' /\ World
<1> PICK i : i = Head(jobs[s])
  OBVIOUS
<1>1. /\ MemoryTypeOK /\ jobs[s] \in Seq(Ids) /\ jobs[s] # <<>>
      /\ effects \in [Ids -> Nat] /\ answer \in [Ids -> {"none", "ok", "error"}]
      /\ jobs \in [Sessions -> Seq(Ids)]
  BY TypeParts DEF Tokens, MemoryTypeOK, WriterDelivers, WriterFails
<1>2. 1 \in DOMAIN jobs[s] /\ jobs[s][1] = i /\ i \in Ids /\ DOMAIN jobs[s] = 1 .. Len(jobs[s])
  BY <1>1
<1>3. Queued(i)
  BY <1>2 DEF Queued
<1>4. call[i].method = "write" /\ effects[i] = 0 /\ phase[i] \in Started
  BY <1>2, <1>3, QueuedWrites DEF Outcomes, OutcomeOK
<1>5. UNCHANGED <<journalVars, pending, tree>> /\ phase' = phase
  BY DEF WriterDelivers, WriterFails, journalVars, requestTable
<1>6. \/ effects' = effects
      \/ effects' = [effects EXCEPT ![i] = @ + 1]
  BY DEF WriterDelivers, WriterFails
<1>7. World
  <2>1. CASE effects' = effects
    BY <1>5, <2>1, StillWorld
  <2>2. CASE effects' = [effects EXCEPT ![i] = @ + 1]
    <3>1. effects'[i] = 1 /\ \A k \in Ids \ {i} : effects'[k] = effects[k]
      BY <1>1, <1>2, <1>4, <2>2
    <3>2. Takes(i)
      BY <1>4, <1>5, <3>1 DEF Takes
    <3> QED BY <1>5, <3>1, <3>2 DEF World
  <2> QED BY <1>6, <2>1, <2>2
<1>8. \A k \in Ids : answer'[k] = "ok" => answer[k] = "ok" \/ effects'[k] = 1
  <2>1. CASE WriterDelivers(s)
    BY <1>1, <1>2, <1>4, <2>1 DEF WriterDelivers
  <2>2. CASE WriterFails(s)
    BY <1>1, <2>2 DEF WriterFails
  <2> QED BY <2>1, <2>2
<1>9. \A k \in Ids : Queued(k)' => Queued(k)
  <2>1. \E q \in {Tail(jobs[s]), <<>>} : jobs' = [jobs EXCEPT ![s] = q]
    BY DEF WriterDelivers, WriterFails
  <2> PICK q \in {Tail(jobs[s]), <<>>} : jobs' = [jobs EXCEPT ![s] = q]
    BY <2>1
  <2>2. \A n \in DOMAIN q : n + 1 \in DOMAIN jobs[s] /\ q[n] = jobs[s][n + 1]
    <3>1. CASE q = <<>>
      BY <3>1
    <3>2. CASE q = Tail(jobs[s])
      <4>1. /\ Len(Tail(jobs[s])) = Len(jobs[s]) - 1 /\ Len(jobs[s]) \in Nat
            /\ DOMAIN Tail(jobs[s]) = 1 .. Len(Tail(jobs[s]))
            /\ \A n \in 1 .. Len(Tail(jobs[s])) : Tail(jobs[s])[n] = jobs[s][n + 1]
        BY <1>1
      <4> QED BY <1>2, <3>2, <4>1
    <3> QED BY <3>1, <3>2
  <2>3. jobs'[s] = q /\ \A t \in Sessions \ {s} : jobs'[t] = jobs[t]
    BY <1>1
  <2> QED BY <2>2, <2>3 DEF Queued
<1> QED BY <1>5, <1>7, <1>8, <1>9, StillOutcomes

\* A cancellation is admitted, or refused.
LEMMA CancelAdmitOutcomes ==
  ASSUME Tokens, Owners, Outcomes, Progress, NEW c \in Callers, CancelAdmit(c)
  PROVE  Outcomes' /\ World
<1>1. Id(c) \in Ids
  BY CancelFacts DEF CancelAdmit
<1>2. UNCHANGED <<sessionTable, facts, pending, tree, effects, answer, jobs>>
  BY DEF CancelAdmit, writerVars, worldVars
<1>3. CASE UNCHANGED requestTable
  BY <1>2, <1>3, StillWorld, StillOutcomes, QueuesRest DEF journalVars
<1>4. ASSUME IsNew(Id(c)), NEW p \in {"accepted", "dispatched", "failed", "side_effect_started"},
             phase' = [phase EXCEPT ![Id(c)] = p]
      PROVE  Outcomes' /\ World
  <2>1. p \in SafePhases \cup {"side_effect_started", "failed"}
    BY DEF SafePhases
  <2>2. call[Id(c)] = NoCall /\ UNCHANGED state
    BY <1>2, <1>4 DEF IsNew, sessionTable
  <2> QED BY <1>1, <1>2, <1>4, <2>1, <2>2, AdmitOutcomes
<1> QED BY <1>3, <1>4 DEF CancelAdmit

\* A cancellation completes when its session is over.
LEMMA CancelKillOutcomes ==
  ASSUME Tokens, Owners, Outcomes, Progress, NEW c \in Callers, CancelKill(c)
  PROVE  Outcomes' /\ World
<1> PICK j : j = Id(c)
  OBVIOUS
<1> PICK s : s = Session(c)
  OBVIOUS
<1>0. pc[c] = "kill" /\ Registered(c) /\ pc[c] \notin WritePlaces
  BY DEF CancelKill, Registered, WritePlaces, BeforeSend
<1>1. /\ j \in Ids /\ s \in Sessions /\ JournalTypeOK /\ ~Queued(j)
      /\ call[j] \in Calls /\ call[j].method = "cancel" /\ call[j].session = s
  BY <1>0, CallFacts
<1>2. state[s] # "none"
  BY <1>0, <1>1, CancelFacts DEF CancelOK
<1>3. UNCHANGED <<effects, answer, jobs>>
  BY DEF CancelKill, writerVars
<1>4. World
  <2>1. CASE UNCHANGED <<tree, proven>>
    BY <1>3, <2>1, StillWorld
  <2>2. CASE \E ok \in BOOLEAN : Terminate(s, ok)
    BY <1>1, <1>3, <2>2, TerminateWorld
  <2> QED BY <2>1, <2>2 DEF CancelKill
<1>5. CASE MarkTerminationUnknown(j, s)
  <2>1. RecordBoth(j, s, "unknown_outcome", "unknown_outcome")
    BY <1>5 DEF MarkTerminationUnknown
  <2> QED BY <1>1, <1>3, <1>4, <2>1, RecordOutcomes
<1>6. CASE PersistTerminalFact(s, CancelledFact(j))
  <2> PICK f : f = CancelledFact(j)
    OBVIOUS
  <2>1. f \in Facts /\ f.request = j /\ f.outcome = "completed"
    BY <1>1 DEF CancelledFact, Fact, Facts, TerminalStates, OperationPhases
  <2>2. FactOK(f, s)
    BY <1>1, <2>1 DEF FactOK
  <2> QED BY <1>1, <1>3, <1>4, <1>6, <2>1, <2>2, PersistOutcomes
<1>7. CASE /\ ~IsOpen(s)
           /\ \/ \E p \in {"committed", "completed"} : phase' = [phase EXCEPT ![j] = p]
              \/ UNCHANGED phase
           /\ UNCHANGED <<call, sessionTable, facts, pending>>
  <2>1. UNCHANGED <<state, facts, pending, call>> /\ IsTerminal(s)
    BY <1>2, <1>7 DEF IsOpen, sessionTable
  <2>2. Accomplished(j)'
    BY <1>1, <2>1 DEF Accomplished, IsTerminal
  <2>3. /\ \A i \in Ids \ {j} : phase'[i] = phase[i]
        /\ phase'[j] \in {phase[j], "committed", "completed"}
    BY <1>1, <1>7 DEF JournalTypeOK
  <2> QED BY <1>1, <1>3, <1>4, <2>1, <2>2, <2>3, PhaseOutcomes
<1>8. RecordCancelled(j, s) \/ MarkTerminationUnknown(j, s)
  BY DEF CancelKill
<1> QED BY <1>4, <1>5, <1>6, <1>7, <1>8 DEF RecordCancelled

-----------------------------------------------------------------------------
(* The outcomes, in every behaviour.                                       *)

\* At first there is no outcome.
LEMMA OutcomesInit == Init => Outcomes
<1> SUFFICES ASSUME Init PROVE Outcomes
  OBVIOUS
<1>1. \A s \in Sessions : FactOK(facts[s], s) /\ FactOK(pending[s], s)
  BY DEF Init, JournalInit, FactOK
<1>2. \A i \in Ids : OutcomeOK(i)
  BY DEF Init, JournalInit, OutcomeOK, Queued
<1> QED BY <1>1, <1>2 DEF Outcomes

\* Every step keeps the meaning of the outcomes.
LEMMA OutcomesStep ==
  Tokens /\ Owners /\ Outcomes /\ Progress /\ [Next]_vars => Outcomes' /\ World
<1> SUFFICES ASSUME Tokens, Owners, Outcomes, Progress, [Next]_vars PROVE Outcomes' /\ World
  OBVIOUS
<1>1. ASSUME NEW c \in Callers, NEW k \in Calls, Admit(c, k) PROVE Outcomes' /\ World
  BY <1>1, AdmitStepOutcomes
<1>2. ASSUME NEW c \in Callers, CallerStep(c) PROVE Outcomes' /\ World
  <2>1. CASE \/ Probe(c) \/ ProbeUnproven(c) \/ RejectStart(c) \/ Dispatch(c)
             \/ AdvanceStart(c, "accepted", "dispatched", "dispatched")
             \/ AdvanceStart(c, "dispatched", "side_effect_started", "spawn")
    BY <2>1, StartOutcomes
  <2>2. CASE Spawn(c) \/ Own(c) \/ Teardown(c)
    BY <2>2, SpawnOutcomes, OwnershipOutcomes, TeardownOutcomes
  <2>3. CASE WriteSend(c) \/ WriteRefuse(c) \/ WriteResult(c)
    BY <2>3, WriteOutcomes
  <2>4. CASE CancelAdmit(c) \/ CancelKill(c)
    BY <2>4, CancelAdmitOutcomes, CancelKillOutcomes
  <2> QED BY <1>2, <2>1, <2>2, <2>3, <2>4 DEF CallerStep
<1>3. ASSUME NEW s \in Sessions,
             \/ SessionStep(s) \/ ListFlush(s) \/ MonitorPoll(s) \/ ProtocolFailure(s)
             \/ TreeDies(s)
      PROVE  Outcomes' /\ World
  BY <1>3, ThreadOutcomes DEF SessionStep
<1>4. ASSUME NEW s \in Sessions, WriterDelivers(s) \/ WriterFails(s) PROVE Outcomes' /\ World
  BY <1>4, WriterOutcomes
<1>5. CASE QuitDrain \/ QuitJoin \/ QuitDone
  BY <1>5, QuitOutcomes
<1>6. CASE Crash \/ Recover
  BY <1>6, CrashOutcomes, RecoverOutcomes
<1>7. CASE UNCHANGED vars
  <2>1. UNCHANGED <<journalVars, pending, tree, effects, answer, jobs>>
    BY <1>7 DEF vars, memoryVars, writerVars, worldVars
  <2> QED BY <2>1, StillWorld, StillOutcomes, QueuesRest
<1> QED BY <1>1, <1>2, <1>3, <1>4, <1>5, <1>6, <1>7 DEF Next

\* What the journal calls completed was done, what it calls failed has left
\* nothing behind, and a line that waits belongs to a request that admits it.
THEOREM OutcomesAlways == Spec => []Outcomes
<1>1. Tokens /\ Owners /\ Outcomes /\ [Next]_vars => Outcomes'
  BY TokensStep, OutcomesStep
<1> QED BY <1>1, OutcomesInit, TokensAlways, OwnersAlways, PTL DEF Spec

\* A completed request did what it says: the provider was spawned, the line was
\* delivered, the cancelled session is over (write_session, cancel_session).
THEOREM CompletedDone == Spec => []CompletedMeansDone
<1>1. Outcomes => CompletedMeansDone
  BY DEF Outcomes, OutcomeOK, Accomplished, CompletedMeansDone
<1> QED BY <1>1, OutcomesAlways, PTL

-----------------------------------------------------------------------------
(* The runtime implements RequestOnce.                                     *)

\* One identity's share of a step: its row advances, its effect happens or is
\* undone by the end of its provider, and a failed row has no effect left.
LEMMA IdentitySteps ==
  ASSUME Tokens, Tokens', Outcomes', Progress, World, NEW i \in Ids
  PROVE  /\ StatusOf(i)' \in Once!Decisions[StatusOf(i)]
         /\ EffectOf(i)' \in Once!Effects[EffectOf(i)]
         /\ EffectOf(i) = "none" /\ EffectOf(i)' = "done" => StatusOf(i) \in {"open", "unknown"}
         /\ StatusOf(i)' = "failed" => EffectOf(i)' # "done"
<1>1. /\ phase[i] \in OperationPhases \cup {"none"} /\ phase'[i] \in OperationPhases \cup {"none"}
      /\ effects[i] \in {0, 1} /\ effects'[i] \in {0, 1}
      /\ Advances(phase[i], phase'[i]) /\ OutcomeOK(i)'
      /\ effects'[i] = effects[i] \/ Takes(i)
  BY TypeParts DEF Tokens, JournalTypeOK, IdOK, Outcomes, Progress, World
<1>2. effects[i] = 1 \/ Takes(i) => call'[i] = call[i] /\ call[i].session \in Sessions
  <2>1. effects[i] = 1 \/ Takes(i) => call[i] # NoCall
    BY DEF Tokens, IdOK, Takes, Started, UncertainPhases
  <2>2. call[i] \in Calls \cup {NoCall}
    BY TypeParts DEF Tokens, JournalTypeOK
  <2> QED BY <2>1, <2>2, JournalAssumption DEF Progress
<1>3. StatusOf(i)' \in Once!Decisions[StatusOf(i)]
  BY <1>1 DEF StatusOf, Advances, OpenPhases, SafePhases, UncertainPhases, OperationPhases,
              Once!Decisions
<1>4. CASE effects'[i] = effects[i]
  <2>1. CASE effects[i] = 0
    BY <1>3, <1>4, <2>1 DEF EffectOf, Once!Effects
  <2>2. CASE effects[i] = 1
    <3>1. /\ EffectOf(i) = IF call[i].method = "start" /\ tree[call[i].session] = "dead"
                           THEN "undone" ELSE "done"
          /\ EffectOf(i)' = IF call[i].method = "start" /\ tree'[call[i].session] = "dead"
                            THEN "undone" ELSE "done"
      BY <1>2, <1>4, <2>2 DEF EffectOf
    <3>2. tree[call[i].session] = "dead" => tree'[call[i].session] = "dead"
      BY <1>2, <2>2 DEF World
    <3>3. EffectOf(i)' \in Once!Effects[EffectOf(i)] /\ EffectOf(i) # "none"
      BY <3>1, <3>2 DEF Once!Effects
    <3>4. StatusOf(i)' = "failed" => phase'[i] = "failed"
      BY <1>1 DEF StatusOf, OperationPhases, SafePhases, UncertainPhases
    <3>5. phase'[i] = "failed" => EffectOf(i)' # "done"
      BY <1>1, <1>2, <1>4, <2>2, <3>1 DEF OutcomeOK, Undone
    <3> QED BY <1>3, <3>3, <3>4, <3>5
  <2> QED BY <1>1, <2>1, <2>2
<1>5. CASE Takes(i)
  <2>1. EffectOf(i) = "none" /\ EffectOf(i)' = "done"
    BY <1>2, <1>5 DEF Takes, EffectOf
  <2>2. StatusOf(i) \in {"open", "unknown"} /\ StatusOf(i)' # "failed"
    BY <1>5 DEF Takes, Started, StatusOf, SafePhases, UncertainPhases
  <2>3. EffectOf(i)' \in Once!Effects[EffectOf(i)]
    BY <2>1 DEF Once!Effects
  <2> QED BY <1>3, <2>1, <2>2, <2>3
<1> QED BY <1>1, <1>4, <1>5

\* Every step is a step of RequestOnce for all identities at once.
LEMMA StepRefines ==
  ASSUME Tokens, Tokens', Outcomes', Progress, World
  PROVE  Once!Next
<1> DEFINE status == [i \in Ids |-> StatusOf(i)]
           effect == [i \in Ids |-> EffectOf(i)]
<1>1. \A i \in Ids : StatusOf(i)' \in {"new", "open", "completed", "failed", "unknown"}
  <2>1. \A i \in Ids : phase'[i] \in OperationPhases \cup {"none"}
    BY TypeParts DEF Tokens, JournalTypeOK
  <2> QED BY <2>1 DEF StatusOf, OperationPhases, SafePhases, UncertainPhases
<1>2. \A i \in Ids : EffectOf(i)' \in {"none", "done", "undone"}
  <2>1. \A i \in Ids : effects'[i] \in {0, 1}
    BY DEF Tokens, IdOK
  <2> QED BY <2>1 DEF EffectOf
<1>3. status' \in [Ids -> DOMAIN Once!Decisions]
  BY <1>1 DEF Once!Decisions
<1>4. effect' \in [Ids -> DOMAIN Once!Effects]
  BY <1>2 DEF Once!Effects
<1>5. ASSUME NEW i \in Ids PROVE Once!IdStep(i)
  <2>1. status[i] = StatusOf(i) /\ status'[i] = StatusOf(i)'
    BY <1>5
  <2>2. effect[i] = EffectOf(i) /\ effect'[i] = EffectOf(i)'
    BY <1>5
  <2>3. /\ StatusOf(i)' \in Once!Decisions[StatusOf(i)]
        /\ EffectOf(i)' \in Once!Effects[EffectOf(i)]
        /\ EffectOf(i) = "none" /\ EffectOf(i)' = "done" => StatusOf(i) \in {"open", "unknown"}
        /\ StatusOf(i)' = "failed" => EffectOf(i)' # "done"
    BY <1>5, IdentitySteps
  <2> HIDE DEF status, effect
  <2> QED BY <2>1, <2>2, <2>3 DEF Once!IdStep, status, effect
<1> QED BY <1>3, <1>4, <1>5 DEF Once!Next

\* The runtime implements RequestOnce: across duplicate callers, timeouts, late
\* deliveries, crashes and recovery an effect happens at most once, an outcome is
\* final, and a request that is called failed has left no effect behind
\* (journal.rs transactions and recovery, runtime.rs calls).
THEOREM RuntimeRequestsOnce == Spec => ImplementsRequestOnce
<1>1. Init => Once!Init
  <2> SUFFICES ASSUME Init PROVE Once!Init
    OBVIOUS
  <2>1. \A i \in Ids : StatusOf(i) = "new" /\ EffectOf(i) = "none"
    BY DEF Init, JournalInit, StatusOf, EffectOf, SafePhases, UncertainPhases
  <2> QED BY <2>1 DEF Once!Init
<1>2. /\ Tokens /\ Tokens' /\ Owners /\ Outcomes /\ Outcomes' /\ [Next]_vars
      => [Once!Next]_(Once!vars)
  BY TokensStep, OutcomesStep, StepRefines
<1> QED
  BY <1>1, <1>2, TokensAlways, OwnersAlways, OutcomesAlways, PTL
     DEF Spec, ImplementsRequestOnce, Once!Spec

=============================================================================
