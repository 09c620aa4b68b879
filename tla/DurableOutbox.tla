--------------------------- MODULE DurableOutbox ---------------------------
(***************************************************************************)
(* The renderer's durable message outbox (neko-chill/durable-outbox.ts) and *)
(* the store that drives it (stores/neko-outbox-store.ts).  JavaScript runs *)
(* one callback at a time: an action is what happens between two awaits.    *)
(*                                                                         *)
(* `transact` chains its work on `tail`, so that transactions run one after *)
(* the other: each clones the snapshot, applies its change (which may       *)
(* throw), writes the clone and makes it the snapshot.  The caller that     *)
(* awaits a transaction goes on before the next one begins: its             *)
(* continuation is registered on the same promise and belongs to the action *)
(* that ends the transaction.                                               *)
(***************************************************************************)
EXTENDS Naturals, Sequences, FiniteSets, Functions

CONSTANTS
  Sessions,
  Ids,         \* message identities (uuids): each is enqueued once
  Texts,       \* message texts
  Contexts,    \* workspace, task and model of a session
  NoQueue,     \* a session that has no queue yet
  NoItem,
  NoWrite,     \* no transaction is being written
  Capacity,    \* messages a queue may hold
  MaxPending,  \* bound: transactions that callers leave waiting
  MaxRestarts  \* bound: restarts of the application

Items == [id : Ids, text : Texts, context : Contexts,
          state : {"queued", "delivering", "uncertain"}]

ASSUME OutboxAssumption ==
  /\ IsFiniteSet(Sessions)
  /\ Capacity \in Nat \ {0}
  /\ MaxPending \in Nat \ {0}
  /\ MaxRestarts \in Nat
  /\ NoQueue \notin [paused : BOOLEAN, items : Seq(Items)]

NewQueue == [paused |-> FALSE, items |-> <<>>]

VARIABLES
  disk,      \* what the storage holds
  snapshot,  \* this.snapshot
  ready,     \* this.ready
  error,     \* this.error # null
  tail,      \* transactions that wait for their turn, the running one first
  writing,   \* the clone storage.write is busy with
  blocked,   \* this.blocked
  pc,        \* the dispatch of each session: "idle" unless it is in flight
  job,       \* its item
  invoked,   \* whether send has reported `accepted`
  pausing,   \* sessions whose pause by the store is under way
  owners,    \* the workspace that owns the outbox is mounted
  context,   \* sessionOutboxBinding of each session
  fresh,     \* identities not yet used
  accepted,  \* how often a message was handed to the agent
  restarts

memoryVars == <<snapshot, ready, error, tail, writing, blocked, pc, job, invoked,
                pausing, owners>>
worldVars == <<context, fresh, accepted, restarts>>
vars == <<disk, memoryVars, worldVars>>

Tx(kind, s, i, arg) == [kind |-> kind, session |-> s, id |-> i, arg |-> arg]

\* Dispatches of a session: waiting for the delivery barrier, inside `send`, and
\* waiting for the transaction that settles the item or puts it back.
Flights == {"barrier", "sending", "settle"}

QueuesOK(v) ==
  \A s \in Sessions :
    v[s] # NoQueue =>
      /\ v[s].paused \in BOOLEAN
      /\ v[s].items \in Seq(Items)
      /\ Len(v[s].items) <= Capacity
      /\ \A m, n \in DOMAIN v[s].items :
           v[s].items[m].id = v[s].items[n].id => m = n

TypeOK ==
  /\ QueuesOK(disk) /\ QueuesOK(snapshot)
  /\ writing # NoWrite => QueuesOK(writing)
  /\ ready \in BOOLEAN /\ error \in BOOLEAN /\ owners \in BOOLEAN
  /\ \A n \in DOMAIN tail : tail[n].session \in Sessions
  /\ blocked \subseteq Sessions
  /\ pc \in [Sessions -> Flights \cup {"idle"}]
  /\ job \in [Sessions -> Items \cup {NoItem}]
  /\ invoked \in [Sessions -> BOOLEAN]
  /\ pausing \subseteq Sessions
  /\ context \in [Sessions -> Contexts]
  /\ fresh \subseteq Ids
  /\ accepted \in [Ids -> Nat]
  /\ restarts \in 0 .. MaxRestarts

Init ==
  /\ disk = [s \in Sessions |-> NoQueue]
  /\ snapshot = disk
  /\ ready = FALSE /\ error = FALSE
  /\ tail = <<>> /\ writing = NoWrite
  /\ blocked = {}
  /\ pc = [s \in Sessions |-> "idle"]
  /\ job = [s \in Sessions |-> NoItem]
  /\ invoked = [s \in Sessions |-> FALSE]
  /\ pausing = {} /\ owners = TRUE
  /\ context \in [Sessions -> Contexts]
  /\ fresh = Ids
  /\ accepted = [i \in Ids |-> 0]
  /\ restarts = 0

-----------------------------------------------------------------------------
(* Queues *)

ItemsOf(v, s) == IF v[s] = NoQueue THEN <<>> ELSE v[s].items

Has(v, s, i) == \E n \in DOMAIN ItemsOf(v, s) : ItemsOf(v, s)[n].id = i

InState(v, s, i, states) ==
  \E n \in DOMAIN ItemsOf(v, s) :
    ItemsOf(v, s)[n].id = i /\ ItemsOf(v, s)[n].state \in states

\* The queue with the item `i` changed by `F`.
MapItem(q, i, F(_)) ==
  [q EXCEPT !.items = [n \in DOMAIN @ |-> IF @[n].id = i THEN F(@[n]) ELSE @[n]]]

WithState(q, i, st) ==
  LET set(x) == [x EXCEPT !.state = st] IN MapItem(q, i, set)

\* Where the item `i` is; a queue holds an identity once.
Position(items, i) == CHOOSE n \in DOMAIN items : items[n].id = i

Without(q, i) ==
  IF \E n \in DOMAIN q.items : q.items[n].id = i
  THEN LET n == Position(q.items, i)
       IN  [q EXCEPT !.items = SubSeq(@, 1, n - 1) \o SubSeq(@, n + 1, Len(@))]
  ELSE q

Pause(q) == [q EXCEPT !.paused = TRUE]

-----------------------------------------------------------------------------
(* transact *)

\* Mutant: a queue without a limit.
ThrowsNotFull(t, v) ==
  \/ t.kind = "edit" /\ ~InState(v, t.session, t.id, {"queued"})
  \/ t.kind = "remove" /\ InState(v, t.session, t.id, {"delivering"})
  \/ t.kind \in {"deliver", "revert", "settle"} /\ ~Has(v, t.session, t.id)

\* The change of a transaction throws.
Throws(t, v) ==
  \/ t.kind = "enqueue" /\ Len(ItemsOf(v, t.session)) >= Capacity
  \/ /\ t.kind = "resume"
     /\ \E n \in DOMAIN ItemsOf(v, t.session) :
          ItemsOf(v, t.session)[n].state # "queued"
  \/ t.kind = "edit" /\ ~InState(v, t.session, t.id, {"queued"})
  \/ t.kind = "remove" /\ InState(v, t.session, t.id, {"delivering"})
  \/ t.kind \in {"deliver", "revert"} /\ ~Has(v, t.session, t.id)
  \/ t.kind = "settle" /\ t.arg # "done" /\ ~Has(v, t.session, t.id)

\* What the change makes of the session's queue.
Changed(t, q) ==
  CASE t.kind = "enqueue" -> [q EXCEPT !.items = Append(@, t.arg)]
    [] t.kind = "pause"   -> Pause(q)
    [] t.kind = "resume"  -> [q EXCEPT !.paused = FALSE]
    [] t.kind = "edit"    -> LET rewrite(x) == [x EXCEPT !.text = t.arg]
                             IN  MapItem(q, t.id, rewrite)
    [] t.kind = "remove"  -> Without(q, t.id)
    [] t.kind = "deliver" -> WithState(q, t.id, "delivering")
    [] t.kind = "revert"  -> Pause(WithState(q, t.id, "queued"))
    [] t.kind = "settle"  -> IF t.arg = "done" THEN Without(q, t.id)
                             ELSE Pause(WithState(q, t.id, t.arg))

Apply(t, v) ==
  CASE v[t.session] # NoQueue -> [v EXCEPT ![t.session] = Changed(t, @)]
    [] v[t.session] = NoQueue /\ t.kind = "enqueue" ->
         [v EXCEPT ![t.session] = Changed(t, NewQueue)]
    [] OTHER -> v

Running == Head(tail)

\* The catch and finally clauses of dispatch: stop the queue, and hold the item
\* in memory only.
Hold(s) ==
  /\ blocked' = blocked \cup {s}
  /\ error' = TRUE
  /\ snapshot' = IF snapshot[s] = NoQueue THEN snapshot
                 ELSE [snapshot EXCEPT ![s] =
                        Pause(IF InState(snapshot, s, job[s].id, {"delivering"})
                              THEN WithState(@, job[s].id, "uncertain") ELSE @)]
  /\ pc' = [pc EXCEPT ![s] = "idle"]
  /\ job' = [job EXCEPT ![s] = NoItem]
  /\ invoked' = [invoked EXCEPT ![s] = FALSE]

\* The transaction at the head is rejected: `error` is set, and a dispatch that
\* awaits it holds its queue.
Reject ==
  /\ tail' = Tail(tail)
  /\ writing' = NoWrite
  /\ pausing' = IF Running.kind = "pause" THEN pausing \ {Running.session} ELSE pausing
  /\ IF Running.kind \in {"deliver", "revert", "settle"}
     THEN Hold(Running.session)
     ELSE error' = TRUE /\ UNCHANGED <<snapshot, blocked, pc, job, invoked>>
  /\ UNCHANGED <<ready, owners, worldVars>>

TxBegin ==
  /\ ready /\ tail # <<>> /\ writing = NoWrite
  /\ ~Throws(Running, snapshot)
  /\ writing' = Apply(Running, snapshot)
  /\ UNCHANGED <<disk, snapshot, ready, error, tail, blocked, pc, job, invoked,
                 pausing, owners, worldVars>>

TxThrows ==
  /\ ready /\ tail # <<>> /\ writing = NoWrite
  /\ Throws(Running, snapshot)
  /\ Reject
  /\ UNCHANGED disk

\* storage.write fails; saveStoreStrict tries to restore the old value and may
\* not succeed.
TxFails ==
  /\ writing # NoWrite
  /\ disk' \in {disk, writing}
  /\ Reject

\* The write succeeded.
Committed ==
  /\ writing # NoWrite
  /\ disk' = writing /\ snapshot' = writing
  /\ writing' = NoWrite
  /\ error' = FALSE

\* enqueue, pause, edit, remove; and resume, which opens the gate.
TxCommits ==
  /\ Committed
  /\ Running.kind \in {"enqueue", "pause", "edit", "remove", "resume"}
  /\ blocked' = IF Running.kind = "resume" THEN blocked \ {Running.session} ELSE blocked
  /\ pausing' = IF Running.kind = "pause" THEN pausing \ {Running.session} ELSE pausing
  /\ tail' = Tail(tail)
  /\ UNCHANGED <<ready, pc, job, invoked, owners, worldVars>>

-----------------------------------------------------------------------------
(* The callers *)

Transact(t) == ready /\ tail' = Append(tail, t)

\* Callers from outside the class leave a bounded number of transactions.
Call(t) == Len(tail) < MaxPending /\ Transact(t)

Enqueue(s, i, x) ==
  /\ owners /\ i \in fresh
  /\ Call(Tx("enqueue", s, i, [id |-> i, text |-> x, context |-> context[s],
                               state |-> "queued"]))
  /\ fresh' = fresh \ {i}
  /\ UNCHANGED <<disk, snapshot, ready, error, writing, blocked, pc, job, invoked,
                 pausing, owners, context, accepted, restarts>>

\* pause sets the gate at once and then records it.  The panel pauses an open
\* queue; so does the store, once, when the session stops.
PauseQueue(s) ==
  /\ owners /\ ItemsOf(snapshot, s) # <<>> /\ ~snapshot[s].paused
  /\ s \notin pausing
  /\ Call(Tx("pause", s, NoItem, NoItem))
  /\ blocked' = blocked \cup {s}
  /\ pausing' = pausing \cup {s}
  /\ UNCHANGED <<disk, snapshot, ready, error, writing, pc, job, invoked, owners,
                 worldVars>>

\* The panel of a session has one mutation under way at a time.
PanelIdle(s) ==
  /\ owners
  /\ \A n \in DOMAIN tail :
       tail[n].session = s => tail[n].kind \notin {"resume", "edit", "remove"}

ResumeQueue(s) ==
  /\ PanelIdle(s) /\ ItemsOf(snapshot, s) # <<>> /\ snapshot[s].paused
  /\ Call(Tx("resume", s, NoItem, NoItem))
  /\ UNCHANGED <<disk, snapshot, ready, error, writing, blocked, pc, job, invoked,
                 pausing, owners, worldVars>>

\* A message is edited in a queue that has been paused for it.
Edit(s, i, x) ==
  /\ PanelIdle(s) /\ InState(snapshot, s, i, {"queued"}) /\ snapshot[s].paused
  /\ Call(Tx("edit", s, i, x))
  /\ UNCHANGED <<disk, snapshot, ready, error, writing, blocked, pc, job, invoked,
                 pausing, owners, worldVars>>

Remove(s, i) ==
  /\ PanelIdle(s) /\ InState(snapshot, s, i, {"queued", "uncertain"})
  /\ Call(Tx("remove", s, i, NoItem))
  /\ UNCHANGED <<disk, snapshot, ready, error, writing, blocked, pc, job, invoked,
                 pausing, owners, worldVars>>

\* The workspace is left: every queue with items is paused.
LeaveWorkspace ==
  /\ owners /\ Len(tail) < MaxPending
  /\ owners' = FALSE
  /\ LET full == {s \in Sessions : ItemsOf(snapshot, s) # <<>>} IN
       /\ blocked' = blocked \cup full
       /\ \E q \in {z \in [1 .. Cardinality(full) -> full] : Range(z) = full} :
            tail' = tail \o [n \in DOMAIN q |-> Tx("pause", q[n], NoItem, NoItem)]
  /\ UNCHANGED <<disk, snapshot, ready, error, writing, pc, job, invoked, pausing,
                 worldVars>>

EnterWorkspace ==
  /\ ~owners
  /\ owners' = TRUE
  /\ UNCHANGED <<disk, snapshot, ready, error, tail, writing, blocked, pc, job, invoked,
                 pausing, worldVars>>

\* The user changes the model, the task or the workspace of a session.
ChangeContext(s, k) ==
  /\ context[s] # k
  /\ context' = [context EXCEPT ![s] = k]
  /\ UNCHANGED <<disk, memoryVars, fresh, accepted, restarts>>

-----------------------------------------------------------------------------
(* dispatch *)

MayDispatch(s) ==
  /\ owners /\ ready /\ ~error
  /\ snapshot[s] # NoQueue /\ ~snapshot[s].paused
  /\ s \notin blocked /\ pc[s] = "idle"
  /\ snapshot[s].items # <<>> /\ Head(snapshot[s].items).state = "queued"

\* The pump runs after every change.  A message of another context pauses the
\* queue; otherwise the barrier is written first.
Dispatch(s) ==
  /\ MayDispatch(s)
  /\ LET item == Head(snapshot[s].items) IN
       IF item.context = context[s]
       THEN /\ Transact(Tx("deliver", s, item.id, NoItem))
            /\ pc' = [pc EXCEPT ![s] = "barrier"]
            /\ job' = [job EXCEPT ![s] = item]
            /\ UNCHANGED blocked
       ELSE /\ Transact(Tx("pause", s, NoItem, NoItem))
            /\ blocked' = blocked \cup {s}
            /\ UNCHANGED <<pc, job>>
  /\ UNCHANGED <<disk, snapshot, ready, error, writing, invoked, pausing, owners,
                 worldVars>>

\* Mutant: neither the gate nor the binding is looked at again.
BarrierPassedUnchecked(s) ==
  /\ Committed
  /\ Running.kind = "deliver" /\ Running.session = s
  /\ pc' = [pc EXCEPT ![s] = "sending"]
  /\ tail' = Tail(tail)
  /\ UNCHANGED <<ready, blocked, job, invoked, pausing, owners, worldVars>>

\* `delivering` is durable.  Readiness and binding are checked again, and the
\* item is read again; a session that changed gets its item back.
BarrierPassed(s) ==
  /\ Committed
  /\ Running.kind = "deliver" /\ Running.session = s
  /\ \/ /\ s \notin blocked /\ owners /\ job[s].context = context[s]
        /\ pc' = [pc EXCEPT ![s] = "sending"]
        /\ LET items == writing[s].items IN
             job' = [job EXCEPT ![s] = items[Position(items, @.id)]]
        /\ tail' = Tail(tail)
     \/ /\ pc' = [pc EXCEPT ![s] = "settle"]
        /\ tail' = Append(Tail(tail), Tx("revert", s, job[s].id, NoItem))
        /\ UNCHANGED job
  /\ UNCHANGED <<ready, blocked, invoked, pausing, owners, worldVars>>

\* send: the prompt is handed to the agent and `accepted` is called.
Accept(s) ==
  /\ pc[s] = "sending" /\ ~invoked[s]
  /\ invoked' = [invoked EXCEPT ![s] = TRUE]
  /\ accepted' = [accepted EXCEPT ![job[s].id] = @ + 1]
  /\ UNCHANGED <<disk, snapshot, ready, error, tail, writing, blocked, pc, job, pausing,
                 owners, context, fresh, restarts>>

\* The turn is over, completed or not.
SendReturns(s) ==
  /\ pc[s] = "sending"
  /\ \E completed \in BOOLEAN :
       Transact(Tx("settle", s, job[s].id,
                   CASE invoked[s] /\ completed -> "done"
                     [] invoked[s] /\ ~completed -> "uncertain"
                     [] OTHER -> "queued"))
  /\ pc' = [pc EXCEPT ![s] = "settle"]
  /\ UNCHANGED <<disk, snapshot, ready, error, writing, blocked, job, invoked, pausing,
                 owners, worldVars>>

\* send rejects, at any time: a transaction of another caller may be running.
SendRejects(s) ==
  /\ pc[s] = "sending"
  /\ Hold(s)
  /\ UNCHANGED <<disk, ready, tail, writing, pausing, owners, worldVars>>

Settled(s) ==
  /\ Committed
  /\ Running.kind \in {"settle", "revert"} /\ Running.session = s
  /\ pc' = [pc EXCEPT ![s] = "idle"]
  /\ job' = [job EXCEPT ![s] = NoItem]
  /\ invoked' = [invoked EXCEPT ![s] = FALSE]
  /\ tail' = Tail(tail)
  /\ UNCHANGED <<ready, blocked, pausing, owners, worldVars>>

-----------------------------------------------------------------------------
(* Restart *)

\* The application ends, perhaps in the middle of a write.
Restart ==
  /\ restarts < MaxRestarts
  /\ restarts' = restarts + 1
  /\ disk' \in {disk} \cup ({writing} \ {NoWrite})
  /\ snapshot' = [s \in Sessions |-> NoQueue]
  /\ ready' = FALSE /\ error' = FALSE
  /\ tail' = <<>> /\ writing' = NoWrite
  /\ blocked' = {}
  /\ pc' = [s \in Sessions |-> "idle"]
  /\ job' = [s \in Sessions |-> NoItem]
  /\ invoked' = [s \in Sessions |-> FALSE]
  /\ pausing' = {} /\ owners' = TRUE
  /\ UNCHANGED <<context, fresh, accepted>>

\* Mutant: interrupted deliveries stay as they were queued.
RestoredQueued(q) ==
  Pause([q EXCEPT !.items = [n \in DOMAIN @ |-> [@[n] EXCEPT !.state = "queued"]]])

\* Every queue is held; a delivery that was interrupted is uncertain.
Restored(q) ==
  Pause([q EXCEPT !.items =
          [n \in DOMAIN @ |-> IF @[n].state = "delivering"
                              THEN [@[n] EXCEPT !.state = "uncertain"] ELSE @[n]]])

\* hydrate: read, hold, write; it may fail and be tried again.
Hydrate ==
  /\ ~ready
  /\ LET next == [s \in Sessions |-> IF disk[s] = NoQueue THEN NoQueue
                                     ELSE Restored(disk[s])] IN
       \/ /\ disk' = next /\ snapshot' = next
          /\ ready' = TRUE /\ error' = FALSE
       \/ /\ disk' \in {disk, next}
          /\ error' = TRUE
          /\ UNCHANGED <<snapshot, ready>>
  /\ UNCHANGED <<tail, writing, blocked, pc, job, invoked, pausing, owners, worldVars>>

-----------------------------------------------------------------------------
Next ==
  \/ TxBegin \/ TxThrows \/ TxFails \/ TxCommits
  \/ Restart \/ Hydrate
  \/ LeaveWorkspace \/ EnterWorkspace
  \/ \E s \in Sessions :
       \/ Dispatch(s) \/ BarrierPassed(s)
       \/ Accept(s) \/ SendReturns(s) \/ SendRejects(s) \/ Settled(s)
       \/ PauseQueue(s) \/ ResumeQueue(s)
       \/ \E k \in Contexts : ChangeContext(s, k)
       \/ \E i \in Ids :
            \/ \E x \in Texts : Enqueue(s, i, x) \/ Edit(s, i, x)
            \/ Remove(s, i)

Spec == Init /\ [][Next]_vars

-----------------------------------------------------------------------------
(* What the outbox promises *)

\* A message is handed to the agent at most once without the user's doing,
\* across failed writes, failed turns and restarts (dispatch, hydrate).
HandedOverOnce == \A i \in Ids : accepted[i] <= 1

\* What goes to the agent is the first message of the durable queue, as it was
\* last edited and in the context it was written for: never one that was removed
\* or overtaken while the dispatch awaited (dispatch, edit, remove).
HandsOverHead ==
  [][\A s \in Sessions :
       pc[s] # "sending" /\ pc'[s] = "sending" =>
         /\ Head(disk'[s].items) = job'[s]
         /\ job'[s].context = context[s]]_vars

=============================================================================
