------------------------- MODULE DurableOutboxProofs -------------------------
(***************************************************************************)
(* What the outbox promises, proved for any number of sessions, messages,   *)
(* waiting transactions and restarts.                                       *)
(*                                                                         *)
(* The first part says what a transaction, the hold of a failed dispatch    *)
(* and hydration do to a view of the queues (the disk, the snapshot and the *)
(* clone being written): which messages are in it, which of them may be     *)
(* sent, and which one is first.  The second part carries these facts along *)
(* the chain of transactions.                                               *)
(***************************************************************************)
EXTENDS DurableOutbox, SequenceTheorems, FiniteSetTheorems, TLAPS

Queues == [paused : BOOLEAN, items : Seq(Items)]

QueueOK(q) ==
  /\ q \in Queues
  /\ Len(q.items) <= Capacity
  /\ \A m, n \in DOMAIN q.items : q.items[m].id = q.items[n].id => m = n

ViewOK(v) ==
  /\ v \in [Sessions -> Queues \cup {NoQueue}]
  /\ \A s \in Sessions : v[s] # NoQueue => QueueOK(v[s])

\* Transactions by what they name.
Txs ==
  [kind : {"enqueue"}, session : Sessions, id : Ids, arg : Items]
  \cup [kind : {"pause", "resume"}, session : Sessions, id : {NoItem}, arg : {NoItem}]
  \cup [kind : {"edit"}, session : Sessions, id : Ids, arg : Texts]
  \cup [kind : {"remove", "deliver", "revert"}, session : Sessions, id : Ids,
        arg : {NoItem}]
  \cup [kind : {"settle"}, session : Sessions, id : Ids,
        arg : {"done", "uncertain", "queued"}]

\* The views of the queues: what the storage holds, what the class shows and what
\* is being written.
Views == {disk, snapshot} \cup ({writing} \ {NoWrite})

\* A message may be dispatched from a view.
Waits(v, s, i) == InState(v, s, i, {"queued"})

\* The item, where a view has it, is the first of its queue.
First(v, s, x) ==
  \A n \in DOMAIN ItemsOf(v, s) :
    ItemsOf(v, s)[n].id = x.id => n = 1 /\ ItemsOf(v, s)[n].context = x.context

\* A transaction that makes a message `queued`.
Requeues(t, i) ==
  /\ t.id = i
  /\ t.kind \in {"enqueue", "revert"} \/ (t.kind = "settle" /\ t.arg = "queued")

\* Nothing in the outbox can bring the message to a dispatch.
Gone(i) ==
  /\ \A v \in Views, s \in Sessions : ~Waits(v, s, i)
  /\ \A n \in DOMAIN tail : ~Requeues(tail[n], i)

Types ==
  /\ \A v \in Views : ViewOK(v)
  /\ tail \in Seq(Txs)
  /\ \A n \in DOMAIN tail : tail[n].kind = "enqueue" => tail[n].arg.id = tail[n].id
  /\ writing # NoWrite => tail # <<>>
  /\ ready \in BOOLEAN /\ error \in BOOLEAN /\ owners \in BOOLEAN
  /\ blocked \subseteq Sessions /\ pausing \subseteq Sessions
  /\ pc \in [Sessions -> Flights \cup {"idle"}]
  /\ job \in [Sessions -> Items \cup {NoItem}]
  /\ \A s \in Sessions : pc[s] # "idle" => job[s] \in Items
  /\ invoked \in [Sessions -> BOOLEAN]
  /\ context \in [Sessions -> Contexts]
  /\ fresh \subseteq Ids
  /\ accepted \in [Ids -> Nat]
  /\ restarts \in 0 .. MaxRestarts

\* Before hydration nothing is under way (transact refuses).
AwaitsHydration ==
  ~ready => /\ tail = <<>> /\ writing = NoWrite
            /\ \A s \in Sessions : pc[s] = "idle" /\ snapshot[s] = NoQueue

\* A session has heard of a message: it is in a queue, about to be, or in flight.
Knows(s, i) ==
  \/ \E v \in Views : Has(v, s, i)
  \/ \E n \in DOMAIN tail :
       tail[n].kind = "enqueue" /\ tail[n].session = s /\ tail[n].id = i
  \/ pc[s] # "idle" /\ job[s].id = i

\* A message belongs to the one session it was enqueued for.
OneHome ==
  \A i \in Ids, s \in Sessions :
    Knows(s, i) => /\ i \notin fresh
                   /\ \A r \in Sessions : Knows(r, i) => r = s

\* A message that waits to be enqueued is nowhere else yet.
EnqueuedOnce ==
  \A n \in DOMAIN tail :
    LET t == tail[n] IN
    t.kind = "enqueue" =>
      /\ ~Has(disk, t.session, t.id) /\ ~Has(snapshot, t.session, t.id)
      /\ writing # NoWrite /\ n # 1 => ~Has(writing, t.session, t.id)
      /\ pc[t.session] # "idle" => job[t.session].id # t.id
      /\ accepted[t.id] = 0
      /\ \A m \in DOMAIN tail : tail[m].kind = "enqueue" /\ tail[m].id = t.id => m = n

\* A transaction of a dispatch is the one its session waits for.
FlightAwaits ==
  \A n \in DOMAIN tail :
    LET t == tail[n] IN
    t.kind \in {"deliver", "revert", "settle"} =>
      /\ pc[t.session] = IF t.kind = "deliver" THEN "barrier" ELSE "settle"
      /\ job[t.session].id = t.id
      /\ \A m \in DOMAIN tail :
           /\ tail[m].kind \in {"deliver", "revert", "settle"}
           /\ tail[m].session = t.session
           => m = n

\* A message that was handed over cannot be dispatched again.
HandedOverGone ==
  \A i \in Ids : /\ accepted[i] \in {0, 1}
                 /\ accepted[i] = 1 => Gone(i) /\ i \notin fresh

\* `delivering` is on record before a message goes to the agent.
SendingGone ==
  \A s \in Sessions :
    pc[s] = "sending" => /\ Gone(job[s].id)
                         /\ ~invoked[s] => accepted[job[s].id] = 0

\* Until the barrier is passed the item stays first, or is removed.
BarrierFirst ==
  \A s \in Sessions :
    pc[s] = "barrier" => /\ accepted[job[s].id] = 0
                         /\ First(snapshot, s, job[s])

\* The clone keeps the order of the snapshot, which a hold does not change either.
OrderWritten ==
  writing # NoWrite =>
    \A s \in Sessions, x \in Items :
      /\ First(snapshot, s, x)
      /\ ~(tail[1].kind = "enqueue" /\ tail[1].session = s /\ tail[1].id = x.id)
      => First(writing, s, x)

\* The clone with which the barrier is written.
BarrierWritten ==
  writing # NoWrite /\ tail[1].kind = "deliver" =>
    /\ Has(writing, tail[1].session, tail[1].id)
    /\ ~Waits(writing, tail[1].session, tail[1].id)

IInv ==
  /\ Types /\ AwaitsHydration /\ OneHome /\ EnqueuedOnce /\ FlightAwaits
  /\ HandedOverGone /\ SendingGone /\ BarrierFirst /\ OrderWritten /\ BarrierWritten
-----------------------------------------------------------------------------
(* Queues and transactions *)

States == {"queued", "delivering", "uncertain"}

\* What is common to every change of a queue that adds no message: identities
\* and contexts stay, and so does the order.
Derives(r, q) ==
  \A n \in DOMAIN r.items :
    \E m \in DOMAIN q.items :
      /\ r.items[n].id = q.items[m].id /\ r.items[n].context = q.items[m].context
      /\ n <= m

\* An item of a queue is an item.
LEMMA ItemsTyped ==
    ASSUME NEW q, QueueOK(q)
    PROVE  /\ q.items \in Seq(Items) /\ Len(q.items) \in Nat
           /\ DOMAIN q.items = 1 .. Len(q.items)
           /\ \A n \in DOMAIN q.items : q.items[n] \in Items
           /\ q.paused \in BOOLEAN
           /\ q = [paused |-> q.paused, items |-> q.items]
<1>1. q.items \in Seq(Items) /\ q.paused \in BOOLEAN
      /\ q = [paused |-> q.paused, items |-> q.items]
  BY DEF QueueOK, Queues
<1> QED
  BY <1>1, LenProperties

\* A change of the items one by one that leaves identities and contexts alone.
LEMMA MappedQueue ==
    ASSUME NEW q, QueueOK(q), NEW items,
           DOMAIN items = DOMAIN q.items,
           \A n \in DOMAIN q.items : /\ items[n] \in Items
                                     /\ items[n].id = q.items[n].id
                                     /\ items[n].context = q.items[n].context,
           items = [n \in DOMAIN q.items |-> items[n]],
           NEW paused \in BOOLEAN,
           NEW r, r = [paused |-> paused, items |-> items]
    PROVE  QueueOK(r) /\ Derives(r, q) /\ DOMAIN r.items = DOMAIN q.items
<1> DEFINE L == Len(q.items)
<1>1. L \in Nat /\ DOMAIN q.items = 1 .. L
  BY ItemsTyped
<1>2. items \in [1 .. L -> Items]
  BY <1>1
<1>3. items \in Seq(Items)
  BY <1>1, <1>2, SeqDef
<1>4. Len(items) = L
  BY <1>1, <1>3, LenProperties
<1>5. r \in Queues /\ Len(r.items) <= Capacity /\ r.items = items
  BY <1>3, <1>4 DEF Queues, QueueOK
<1>6. \A m, n \in DOMAIN items : items[m].id = items[n].id => m = n
  <2>1. \A m, n \in DOMAIN q.items : q.items[m].id = q.items[n].id => m = n
    BY DEF QueueOK
  <2> QED
    BY <2>1
<1>7. \A n \in DOMAIN items : \E m \in DOMAIN q.items :
        items[n].id = q.items[m].id /\ items[n].context = q.items[m].context /\ n <= m
  <2> SUFFICES ASSUME NEW n \in DOMAIN items
               PROVE  items[n].id = q.items[n].id /\ items[n].context = q.items[n].context
                      /\ n <= n
    OBVIOUS
  <2>1. n \in Nat
    BY <1>1
  <2> QED
    BY <2>1
<1> QED
  BY <1>5, <1>6, <1>7 DEF QueueOK, Derives

\* What is left of a sequence when one of its places is cut out.
LEMMA CutSequence ==
    ASSUME NEW S, NEW x \in Seq(S), NEW k \in 1 .. Len(x)
    PROVE  LET c == SubSeq(x, 1, k - 1) \o SubSeq(x, k + 1, Len(x)) IN
           /\ c \in Seq(S) /\ Len(c) = Len(x) - 1 /\ DOMAIN c = 1 .. Len(x) - 1
           /\ \A n \in 1 .. Len(x) - 1 : c[n] = IF n < k THEN x[n] ELSE x[n + 1]
<1> DEFINE L == Len(x)
           a == SubSeq(x, 1, k - 1)
           b == SubSeq(x, k + 1, L)
           c == a \o b
<1>1. L \in Nat /\ DOMAIN x = 1 .. L /\ \A n \in 1 .. L : x[n] \in S
  BY LenProperties, ElementOfSeq
<1>2. /\ a \in Seq(S) /\ Len(a) = k - 1
      /\ \A n \in 1 .. k - 1 : a[n] = x[n]
  <2>1. (\A n \in 1 .. k - 1 : x[n] \in S) /\ 1 \in Int /\ k - 1 \in Int
    BY <1>1
  <2>2. /\ a \in Seq(S) /\ Len(a) = IF 1 <= k - 1 THEN (k - 1) - 1 + 1 ELSE 0
        /\ \A n \in 1 .. (k - 1) - 1 + 1 : a[n] = x[1 + n - 1]
    BY <2>1, SubSeqProperties
  <2> HIDE DEF a
  <2> QED
    BY <2>2
<1>3. /\ b \in Seq(S) /\ Len(b) = L - k
      /\ \A n \in 1 .. L - k : b[n] = x[k + n]
  <2>1. (\A n \in k + 1 .. L : x[n] \in S) /\ k + 1 \in Int /\ L \in Int
    BY <1>1
  <2>2. /\ b \in Seq(S) /\ Len(b) = IF k + 1 <= L THEN L - (k + 1) + 1 ELSE 0
        /\ \A n \in 1 .. L - (k + 1) + 1 : b[n] = x[(k + 1) + n - 1]
    BY <2>1, SubSeqProperties
  <2> HIDE DEF b, L
  <2>3. Len(b) = L - k
    <3>1. Len(b) = IF k + 1 <= L THEN L - (k + 1) + 1 ELSE 0
      BY <2>2
    <3>2. k \in Nat /\ L \in Nat /\ k <= L
      BY <1>1 DEF L
    <3> QED
      BY <3>1, <3>2
  <2>4. ASSUME NEW n \in 1 .. L - k PROVE b[n] = x[k + n]
    <3>1. n \in 1 .. L - (k + 1) + 1 /\ (k + 1) + n - 1 = k + n
      BY <1>1 DEF L
    <3> QED
      BY <2>2, <3>1
  <2> QED
    BY <2>2, <2>3, <2>4
<1> HIDE DEF a, b
<1>4. /\ c \in Seq(S) /\ Len(c) = Len(a) + Len(b)
      /\ \A n \in 1 .. Len(a) + Len(b) : c[n] = IF n <= Len(a) THEN a[n] ELSE b[n - Len(a)]
  BY <1>2, <1>3, ConcatProperties
<1>5. DOMAIN c = 1 .. Len(c)
  BY <1>4, LenProperties
<1> HIDE DEF c, L
<1>6. Len(c) = L - 1
  BY <1>1, <1>2, <1>3, <1>4
<1>7. ASSUME NEW n \in 1 .. L - 1
      PROVE  c[n] = IF n < k THEN x[n] ELSE x[n + 1]
  <2>1. n \in 1 .. Len(a) + Len(b)
    BY <1>1, <1>2, <1>3
  <2>2. CASE n < k
    <3>1. n <= Len(a) /\ n \in 1 .. k - 1
      BY <2>2, <1>1, <1>2
    <3> QED
      BY <2>1, <2>2, <3>1, <1>2, <1>4
  <2>3. CASE ~(n < k)
    <3>1. ~(n <= Len(a)) /\ n - Len(a) \in 1 .. L - k /\ k + (n - Len(a)) = n + 1
      BY <2>3, <1>1, <1>2
    <3>2. c[n] = b[n - Len(a)]
      BY <2>1, <3>1, <1>4
    <3>3. b[n - Len(a)] = x[n + 1]
      BY <3>1, <1>3
    <3> QED
      BY <2>3, <3>2, <3>3
  <2> QED
    BY <2>2, <2>3
<1> QED
  BY <1>4, <1>5, <1>6, <1>7 DEF a, b, c, L

\* A queue without an item keeps the others in their order.
LEMMA ShorterQueue ==
    ASSUME NEW q, QueueOK(q), NEW i
    PROVE  LET r == Without(q, i) IN
           /\ QueueOK(r) /\ Derives(r, q)
           /\ \A n \in DOMAIN r.items : \E m \in DOMAIN q.items : r.items[n] = q.items[m]
<1> DEFINE r == Without(q, i)
           x == q.items
           L == Len(x)
           k == Position(x, i)
           c == SubSeq(x, 1, k - 1) \o SubSeq(x, k + 1, L)
<1>1. /\ x \in Seq(Items) /\ L \in Nat /\ DOMAIN x = 1 .. L
      /\ q.paused \in BOOLEAN /\ q = [paused |-> q.paused, items |-> x]
      /\ L <= Capacity /\ \A m, n \in 1 .. L : x[m].id = x[n].id => m = n
  BY ItemsTyped DEF QueueOK
<1>2. CASE ~\E n \in DOMAIN q.items : q.items[n].id = i
  <2>1. r = q
    BY <1>2 DEF Without
  <2>2. \A n \in DOMAIN x : n <= n
    BY <1>1
  <2> QED
    BY <2>1, <2>2 DEF Derives
<1>3. CASE \E n \in DOMAIN q.items : q.items[n].id = i
  <2>1. k \in 1 .. L
    BY <1>1, <1>3 DEF Position
  <2>2. r = [paused |-> q.paused, items |-> c]
    BY <1>1, <1>3 DEF Without
  <2> HIDE DEF k
  <2>3. /\ c \in Seq(Items) /\ Len(c) = L - 1 /\ DOMAIN c = 1 .. L - 1
        /\ \A n \in 1 .. L - 1 : c[n] = IF n < k THEN x[n] ELSE x[n + 1]
    <3> HIDE DEF x
    <3> QED
      BY <1>1, <2>1, CutSequence
  <2> HIDE DEF c, r
  <2>4. r.items = c /\ r \in Queues
    BY <2>2, <2>3, <1>1 DEF Queues
  <2> HIDE DEF x, L
  <2>5. Len(c) <= Capacity
    BY <2>3, <1>1, OutboxAssumption
  <2>6. ASSUME NEW n \in 1 .. L - 1
        PROVE  /\ (IF n < k THEN n ELSE n + 1) \in 1 .. L
               /\ c[n] = x[IF n < k THEN n ELSE n + 1]
               /\ n <= IF n < k THEN n ELSE n + 1
    <3>1. CASE n < k
      BY <3>1, <2>3, <2>1, <1>1
    <3>2. CASE ~(n < k)
      BY <3>2, <2>3, <2>1, <1>1
    <3> QED
      BY <3>1, <3>2
  <2>7. \A m, n \in DOMAIN c : c[m].id = c[n].id => m = n
    <3> SUFFICES ASSUME NEW m \in 1 .. L - 1, NEW n \in 1 .. L - 1, c[m].id = c[n].id
                 PROVE  m = n
      BY <2>3
    <3>1. (IF m < k THEN m ELSE m + 1) = (IF n < k THEN n ELSE n + 1)
      BY <2>6, <1>1
    <3> QED
      BY <3>1, <2>1, <1>1
  <2>8. \A n \in DOMAIN c : \E m \in DOMAIN x : c[n] = x[m] /\ n <= m
    BY <2>6, <2>3, <1>1
  <2> QED
    BY <2>4, <2>5, <2>7, <2>8 DEF QueueOK, Derives, r, x
<1> QED
  BY <1>2, <1>3

\* The new state of an item changes nothing else.
LEMMA StateSet ==
    ASSUME NEW q, QueueOK(q), NEW i, NEW st \in States
    PROVE  LET w == WithState(q, i, st) IN
           /\ QueueOK(w) /\ Derives(w, q) /\ DOMAIN w.items = DOMAIN q.items
           /\ \A n \in DOMAIN q.items :
                /\ w.items[n].id = q.items[n].id /\ w.items[n].context = q.items[n].context
                /\ w.items[n].state = IF q.items[n].id = i THEN st ELSE q.items[n].state
<1> DEFINE w == WithState(q, i, st)
           x == q.items
           y == [n \in DOMAIN x |-> IF x[n].id = i THEN [x[n] EXCEPT !.state = st] ELSE x[n]]
<1>1. /\ \A n \in DOMAIN x : x[n] \in Items
      /\ q.paused \in BOOLEAN /\ q = [paused |-> q.paused, items |-> x]
  BY ItemsTyped
<1>2. w = [paused |-> q.paused, items |-> y]
  BY <1>1 DEF WithState, MapItem
<1> HIDE DEF w, x
<1>3. ASSUME NEW n \in DOMAIN x
      PROVE  /\ y[n] \in Items /\ y[n].id = x[n].id /\ y[n].context = x[n].context
             /\ y[n].state = IF x[n].id = i THEN st ELSE x[n].state
  BY <1>1 DEF Items, States
<1>4. DOMAIN y = DOMAIN x /\ y = [n \in DOMAIN x |-> y[n]]
  OBVIOUS
<1> HIDE DEF y
<1>5. QueueOK(w) /\ Derives(w, q) /\ DOMAIN w.items = DOMAIN x
  BY <1>1, <1>2, <1>3, <1>4, MappedQueue DEF x
<1>6. w.items = y
  BY <1>2
<1> QED
  BY <1>3, <1>5, <1>6 DEF w, x

\* Pausing and resuming leave the items alone.
LEMMA GateSet ==
    ASSUME NEW q, QueueOK(q), NEW p \in BOOLEAN
    PROVE  LET w == [q EXCEPT !.paused = p] IN
           QueueOK(w) /\ Derives(w, q) /\ w.items = q.items
<1> DEFINE w == [q EXCEPT !.paused = p]
           x == q.items
<1>1. /\ \A n \in DOMAIN x : x[n] \in Items
      /\ q.paused \in BOOLEAN /\ q = [paused |-> q.paused, items |-> x]
      /\ x \in [1 .. Len(x) -> Items]
  BY ItemsTyped, LenProperties
<1>2. w = [paused |-> p, items |-> x]
  BY <1>1
<1> HIDE DEF w, x
<1>3. x = [n \in DOMAIN x |-> x[n]]
  BY <1>1
<1>4. QueueOK(w) /\ Derives(w, q)
  BY <1>1, <1>2, <1>3, MappedQueue DEF x
<1>5. w.items = x
  BY <1>2
<1> QED
  BY <1>4, <1>5 DEF w, x

\* What the change of a transaction leaves of a queue (enqueue, pause, resume,
\* edit, remove, and the three transactions of dispatch).
ChangeOK(t, q, r) ==
  /\ QueueOK(r)
  /\ t.kind # "enqueue" => Derives(r, q)
  /\ t.kind = "enqueue" => /\ DOMAIN r.items = 1 .. Len(q.items) + 1
                           /\ \A n \in DOMAIN q.items : r.items[n] = q.items[n]
                           /\ r.items[Len(q.items) + 1].id = t.id
  /\ \A n \in DOMAIN r.items :
       r.items[n].state = "queued" =>
         \/ Requeues(t, r.items[n].id)
         \/ \E m \in DOMAIN q.items :
              q.items[m].id = r.items[n].id /\ q.items[m].state = "queued"
  /\ t.kind = "deliver" =>
       /\ DOMAIN r.items = DOMAIN q.items
       /\ \A n \in DOMAIN q.items :
            /\ r.items[n].id = q.items[n].id
            /\ r.items[n].id = t.id => r.items[n].state = "delivering"

\* An enqueue puts its message at the end of a queue that has room for it.
LEMMA Enqueued ==
    ASSUME NEW t \in Txs, t.kind = "enqueue", t.arg.id = t.id, NEW q, QueueOK(q),
           Len(q.items) < Capacity, \A n \in DOMAIN q.items : q.items[n].id # t.id
    PROVE  ChangeOK(t, q, Changed(t, q))
<1> DEFINE x == q.items
           y == Append(x, t.arg)
           L == Len(x)
           r == Changed(t, q)
<1>1. /\ x \in Seq(Items) /\ L \in Nat /\ DOMAIN x = 1 .. L
      /\ q.paused \in BOOLEAN /\ q = [paused |-> q.paused, items |-> x]
      /\ \A m, n \in DOMAIN x : x[m].id = x[n].id => m = n
  BY ItemsTyped DEF QueueOK
<1>2. t.arg \in Items
  BY DEF Txs
<1>3. r = [paused |-> q.paused, items |-> y]
  BY <1>1 DEF Changed
<1> HIDE DEF r, x
<1>4. /\ y \in Seq(Items) /\ Len(y) = L + 1
      /\ \A n \in 1 .. L : y[n] = x[n]
      /\ y[L + 1] = t.arg
  BY <1>1, <1>2, AppendProperties
<1>5. DOMAIN y = 1 .. L + 1
  BY <1>4, LenProperties
<1> HIDE DEF y
<1>6. r.items = y /\ r \in Queues
  BY <1>1, <1>3, <1>4 DEF Queues
<1>7. Len(y) <= Capacity
  BY <1>1, <1>4, OutboxAssumption DEF x
<1>8. \A m, n \in DOMAIN y : y[m].id = y[n].id => m = n
  <2> SUFFICES ASSUME NEW m \in 1 .. L + 1, NEW n \in 1 .. L + 1, y[m].id = y[n].id
               PROVE  m = n
    BY <1>5
  <2> HIDE DEF L
  <2>1. \A j \in 1 .. L : y[j].id = x[j].id /\ y[j].id # t.id
    BY <1>1, <1>4 DEF x, L
  <2>2. y[L + 1].id = t.id
    BY <1>4
  <2>3. (m \in 1 .. L \/ m = L + 1) /\ (n \in 1 .. L \/ n = L + 1)
    BY <1>1
  <2> QED
    BY <1>1, <2>1, <2>2, <2>3
<1>9. QueueOK(r)
  BY <1>6, <1>7, <1>8 DEF QueueOK
<1>10. ASSUME NEW n \in DOMAIN y, y[n].state = "queued"
       PROVE  Requeues(t, y[n].id) \/ \E m \in DOMAIN x : x[m].id = y[n].id /\ x[m].state = "queued"
  <2> HIDE DEF L
  <2>1. CASE n = L + 1
    BY <2>1, <1>4 DEF Requeues
  <2>2. CASE n \in 1 .. L
    BY <2>2, <1>10, <1>1, <1>4
  <2> QED
    BY <2>1, <2>2, <1>1, <1>5
<1> QED
  BY <1>1, <1>4, <1>5, <1>6, <1>9, <1>10 DEF ChangeOK, r, x

\* The change of a transaction that does not throw.
LEMMA ChangedQueue ==
    ASSUME NEW t \in Txs, t.kind = "enqueue" => t.arg.id = t.id, NEW q, QueueOK(q),
           t.kind = "enqueue" => /\ Len(q.items) < Capacity
                                 /\ \A n \in DOMAIN q.items : q.items[n].id # t.id
    PROVE  ChangeOK(t, q, Changed(t, q))
<1> DEFINE r == Changed(t, q)
<1>1. \A n \in DOMAIN q.items : q.items[n] \in Items
  BY ItemsTyped
<1>2. CASE t.kind = "enqueue"
  BY <1>2, Enqueued
<1>3. CASE t.kind = "pause"
  <2>1. r = [q EXCEPT !.paused = TRUE]
    BY <1>3 DEF Changed, Pause
  <2>2. QueueOK(r) /\ Derives(r, q) /\ r.items = q.items
    BY <2>1, GateSet
  <2> QED
    BY <1>3, <2>2 DEF ChangeOK
<1>4. CASE t.kind = "resume"
  <2>1. r = [q EXCEPT !.paused = FALSE]
    BY <1>4 DEF Changed
  <2>2. QueueOK(r) /\ Derives(r, q) /\ r.items = q.items
    BY <2>1, GateSet
  <2> QED
    BY <1>4, <2>2 DEF ChangeOK
<1>5. CASE t.kind = "edit"
  <2> DEFINE x == q.items
             y == [n \in DOMAIN x |-> IF x[n].id = t.id THEN [x[n] EXCEPT !.text = t.arg] ELSE x[n]]
  <2>1. q.paused \in BOOLEAN /\ q = [paused |-> q.paused, items |-> x]
    BY ItemsTyped
  <2>2. r = [paused |-> q.paused, items |-> y]
    BY <1>5, <2>1 DEF Changed, MapItem
  <2>3. t.arg \in Texts
    BY <1>5 DEF Txs
  <2> HIDE DEF x, r
  <2>4. ASSUME NEW n \in DOMAIN x
        PROVE  /\ y[n] \in Items /\ y[n].id = x[n].id /\ y[n].context = x[n].context
               /\ y[n].state = x[n].state
    BY <1>1, <2>3 DEF Items, x
  <2>5. DOMAIN y = DOMAIN x /\ y = [n \in DOMAIN x |-> y[n]]
    OBVIOUS
  <2> HIDE DEF y
  <2>6. QueueOK(r) /\ Derives(r, q)
    BY <2>1, <2>2, <2>4, <2>5, MappedQueue DEF x
  <2>7. r.items = y
    BY <2>2
  <2>8. \A n \in DOMAIN r.items : r.items[n].id = x[n].id /\ r.items[n].state = x[n].state
    BY <2>4, <2>5, <2>7
  <2> QED
    BY <1>5, <2>5, <2>6, <2>7, <2>8 DEF ChangeOK, x, r
<1>6. CASE t.kind = "remove" \/ (t.kind = "settle" /\ t.arg = "done")
  <2>1. r = Without(q, t.id)
    BY <1>6 DEF Changed
  <2>2. /\ QueueOK(r) /\ Derives(r, q)
        /\ \A n \in DOMAIN r.items : \E m \in DOMAIN q.items : r.items[n] = q.items[m]
    BY <2>1, ShorterQueue
  <2> HIDE DEF r
  <2> QED
    BY <1>6, <2>2 DEF ChangeOK, r
<1>7. CASE t.kind = "deliver"
  <2>1. r = WithState(q, t.id, "delivering")
    BY <1>7 DEF Changed
  <2>2. /\ QueueOK(r) /\ Derives(r, q) /\ DOMAIN r.items = DOMAIN q.items
        /\ \A n \in DOMAIN q.items :
             /\ r.items[n].id = q.items[n].id
             /\ r.items[n].state = IF q.items[n].id = t.id THEN "delivering"
                                   ELSE q.items[n].state
    BY <2>1, StateSet DEF States
  <2> HIDE DEF r
  <2> QED
    BY <1>7, <2>2 DEF ChangeOK, r
<1>8. CASE t.kind = "revert" \/ (t.kind = "settle" /\ t.arg # "done")
  <2> DEFINE st == IF t.kind = "revert" THEN "queued" ELSE t.arg
             w == WithState(q, t.id, st)
  <2>1. st \in {"queued", "uncertain"} /\ (st = "queued" => Requeues(t, t.id))
    BY <1>8 DEF Txs, Requeues
  <2>2. r = [w EXCEPT !.paused = TRUE]
    BY <1>8 DEF Changed, Pause
  <2> HIDE DEF st
  <2>3. /\ QueueOK(w) /\ Derives(w, q) /\ DOMAIN w.items = DOMAIN q.items
        /\ \A n \in DOMAIN q.items :
             /\ w.items[n].id = q.items[n].id
             /\ w.items[n].state = IF q.items[n].id = t.id THEN st ELSE q.items[n].state
    BY <2>1, StateSet DEF States
  <2> HIDE DEF w, r
  <2>4. QueueOK(r) /\ r.items = w.items
    BY <2>2, <2>3, GateSet
  <2>5. Derives(r, q)
    BY <2>3, <2>4 DEF Derives
  <2>6. ASSUME NEW n \in DOMAIN r.items, r.items[n].state = "queued"
        PROVE  Requeues(t, r.items[n].id) \/ (q.items[n].id = r.items[n].id /\ q.items[n].state = "queued")
    <3>1. CASE q.items[n].id = t.id
      BY <3>1, <2>1, <2>3, <2>4, <2>6
    <3>2. CASE q.items[n].id # t.id
      BY <3>2, <2>3, <2>4, <2>6
    <3> QED
      BY <3>1, <3>2
  <2> QED
    BY <1>8, <2>3, <2>4, <2>5, <2>6 DEF ChangeOK, r
<1>9. t.kind \in {"enqueue", "pause", "resume", "edit", "remove", "deliver", "revert", "settle"}
  BY DEF Txs
<1> QED
  BY <1>2, <1>3, <1>4, <1>5, <1>6, <1>7, <1>8, <1>9

\* A view in which no message waits that does not wait in another one; the
\* messages are no others and the order is the same.
Fades(v, w) ==
  /\ ViewOK(w)
  /\ \A s \in Sessions : \A i : Has(w, s, i) => Has(v, s, i)
  /\ \A s \in Sessions : \A i : Waits(w, s, i) => Waits(v, s, i)
  /\ \A s \in Sessions : \A x : First(v, s, x) <=> First(w, s, x)

\* What a transaction adds to a view.
Applied(t, v, w) ==
  /\ ViewOK(w)
  /\ \A s \in Sessions : \A i :
       Has(w, s, i) =>
         Has(v, s, i) \/ (t.kind = "enqueue" /\ t.session = s /\ t.id = i)
  /\ \A s \in Sessions : \A i :
       Waits(w, s, i) => Waits(v, s, i) \/ (t.session = s /\ Requeues(t, i))
  /\ \A s \in Sessions : \A x :
       First(v, s, x) /\ ~(t.kind = "enqueue" /\ t.session = s /\ t.id = x.id)
         => First(w, s, x)
  /\ t.kind = "deliver" => /\ Has(w, t.session, t.id)
                           /\ ~Waits(w, t.session, t.id)

\* The items of a session's queue.
LEMMA ViewItems ==
    ASSUME NEW v, ViewOK(v), NEW s \in Sessions
    PROVE  /\ v[s] = NoQueue => ItemsOf(v, s) = <<>>
           /\ v[s] # NoQueue => QueueOK(v[s]) /\ ItemsOf(v, s) = v[s].items
           /\ ItemsOf(v, s) \in Seq(Items) /\ Len(ItemsOf(v, s)) \in Nat
           /\ DOMAIN ItemsOf(v, s) = 1 .. Len(ItemsOf(v, s))
           /\ \A n \in DOMAIN ItemsOf(v, s) : ItemsOf(v, s)[n] \in Items
<1>1. CASE v[s] = NoQueue
  <2>1. ItemsOf(v, s) = <<>>
    BY <1>1 DEF ItemsOf
  <2> QED
    BY <1>1, <2>1
<1>2. CASE v[s] # NoQueue
  <2>1. QueueOK(v[s]) /\ ItemsOf(v, s) = v[s].items
    BY <1>2 DEF ViewOK, ItemsOf
  <2> QED
    BY <1>2, <2>1, ItemsTyped
<1> QED
  BY <1>1, <1>2

\* A queue is not the absence of one.
LEMMA QueueExists == ASSUME NEW q, QueueOK(q) PROVE q # NoQueue
  BY OutboxAssumption DEF QueueOK, Queues

\* One session's queue is replaced, the others stay.
LEMMA ReplacedQueue ==
    ASSUME NEW v, ViewOK(v), NEW s \in Sessions, NEW q, QueueOK(q),
           NEW w, DOMAIN w = Sessions, w = [r \in Sessions |-> w[r]], w[s] = q,
           \A r \in Sessions \ {s} : w[r] = v[r]
    PROVE  /\ ViewOK(w) /\ ItemsOf(w, s) = q.items
           /\ \A r \in Sessions \ {s} : ItemsOf(w, r) = ItemsOf(v, r)
<1>1. q # NoQueue /\ q \in Queues
  BY QueueExists DEF QueueOK
<1>2. w \in [Sessions -> Queues \cup {NoQueue}]
  <2>1. \A r \in Sessions : w[r] \in Queues \cup {NoQueue}
    BY <1>1 DEF ViewOK
  <2> QED
    BY <2>1
<1> QED
  BY <1>1, <1>2 DEF ViewOK, ItemsOf

\* An order that a derived queue keeps.
LEMMA DerivedFirst ==
    ASSUME NEW q, QueueOK(q), NEW r, QueueOK(r), Derives(r, q), NEW x,
           \A m \in DOMAIN q.items : q.items[m].id = x.id => m = 1 /\ q.items[m].context = x.context
    PROVE  \A n \in DOMAIN r.items : r.items[n].id = x.id => n = 1 /\ r.items[n].context = x.context
<1> SUFFICES ASSUME NEW n \in DOMAIN r.items, r.items[n].id = x.id
             PROVE  n = 1 /\ r.items[n].context = x.context
  OBVIOUS
<1>1. PICK m \in DOMAIN q.items :
        r.items[n].id = q.items[m].id /\ r.items[n].context = q.items[m].context /\ n <= m
  BY DEF Derives
<1>2. m = 1 /\ q.items[m].context = x.context
  BY <1>1
<1>3. n \in Nat \ {0}
  BY ItemsTyped
<1> QED
  BY <1>1, <1>2, <1>3

\* Queues whose items differ in state only, with no other item waiting, make the
\* view fade.
LEMMA FadedView ==
    ASSUME NEW v, ViewOK(v), NEW w, ViewOK(w),
           \A s \in Sessions :
             LET x == ItemsOf(v, s)
                 y == ItemsOf(w, s)
             IN  /\ DOMAIN y = DOMAIN x
                 /\ \A n \in DOMAIN x :
                      /\ y[n].id = x[n].id /\ y[n].context = x[n].context
                      /\ y[n].state = "queued" => x[n].state = "queued"
    PROVE  Fades(v, w)
<1>1. \A s \in Sessions : \A i : Has(w, s, i) => Has(v, s, i)
  BY DEF Has
<1>2. \A s \in Sessions : \A i : Waits(w, s, i) => Waits(v, s, i)
  BY DEF Waits, InState
<1>3. \A s \in Sessions : \A x : First(v, s, x) <=> First(w, s, x)
  BY DEF First
<1> QED
  BY <1>1, <1>2, <1>3 DEF Fades

\* transact: what the clone holds after a change that did not throw.
LEMMA AppliedView ==
    ASSUME NEW t \in Txs, t.kind = "enqueue" => t.arg.id = t.id, NEW v, ViewOK(v),
           ~Throws(t, v), t.kind = "enqueue" => ~Has(v, t.session, t.id)
    PROVE  Applied(t, v, Apply(t, v))
<1> DEFINE s == t.session
           w == Apply(t, v)
           q == IF v[s] = NoQueue THEN NewQueue ELSE v[s]
           c == Changed(t, q)
<1>1. s \in Sessions /\ t.kind \in {"enqueue", "pause", "resume", "edit", "remove",
                                    "deliver", "revert", "settle"}
  BY DEF Txs
<1>2. CASE v[s] = NoQueue /\ t.kind # "enqueue"
  <2>1. w = v
    BY <1>2 DEF Apply
  <2>2. t.kind # "deliver"
    <3>1. ~Has(v, s, t.id)
      BY <1>2 DEF Has, ItemsOf
    <3> QED
      BY <3>1 DEF Throws
  <2> QED
    BY <2>1, <2>2 DEF Applied
<1>3. CASE v[s] # NoQueue \/ t.kind = "enqueue"
  <2>1. QueueOK(q) /\ q.items = ItemsOf(v, s)
    <3>1. CASE v[s] = NoQueue
      <4>1. q = [paused |-> FALSE, items |-> <<>>] /\ ItemsOf(v, s) = <<>>
        BY <3>1 DEF NewQueue, ItemsOf
      <4>2. <<>> \in Seq(Items) /\ Len(<<>>) = 0 /\ DOMAIN <<>> = {}
        BY EmptySeq
      <4> HIDE DEF q
      <4>3. q \in Queues /\ q.items = <<>>
        BY <4>1, <4>2 DEF Queues
      <4>4. 0 <= Capacity
        BY OutboxAssumption
      <4> QED
        BY <4>1, <4>2, <4>3, <4>4 DEF QueueOK
    <3>2. CASE v[s] # NoQueue
      BY <1>1, <3>2, ViewItems
    <3> QED
      BY <3>1, <3>2
  <2>2. w = [v EXCEPT ![s] = c]
    <3>1. CASE v[s] = NoQueue
      BY <1>3, <3>1 DEF Apply
    <3>2. CASE v[s] # NoQueue
      BY <3>2 DEF Apply
    <3> QED
      BY <3>1, <3>2
  <2> HIDE DEF q, c, w
  <2>3. t.kind = "enqueue" => /\ Len(q.items) < Capacity
                              /\ \A n \in DOMAIN q.items : q.items[n].id # t.id
    <3> SUFFICES ASSUME t.kind = "enqueue"
                 PROVE  /\ Len(q.items) < Capacity
                        /\ \A n \in DOMAIN q.items : q.items[n].id # t.id
      OBVIOUS
    <3>1. ~(Len(q.items) >= Capacity)
      BY <2>1 DEF Throws
    <3>2. Len(q.items) \in Nat
      BY <2>1, ItemsTyped
    <3> QED
      BY <2>1, <3>1, <3>2, OutboxAssumption DEF Has
  <2>4. ChangeOK(t, q, c)
    BY <2>1, <2>3, ChangedQueue DEF c
  <2>5. /\ ViewOK(w) /\ ItemsOf(w, s) = c.items
        /\ \A r \in Sessions \ {s} : ItemsOf(w, r) = ItemsOf(v, r)
    <3>1. QueueOK(c)
      BY <2>4 DEF ChangeOK
    <3> HIDE DEF s
    <3>2. /\ DOMAIN w = Sessions /\ w = [r \in Sessions |-> w[r]] /\ w[s] = c
          /\ \A r \in Sessions \ {s} : w[r] = v[r]
      BY <1>1, <2>2 DEF ViewOK
    <3> QED
      BY <1>1, <3>1, <3>2, ReplacedQueue
  <2>6. Len(q.items) \in Nat /\ DOMAIN q.items = 1 .. Len(q.items)
    BY <2>1, ItemsTyped
  <2>7. t.kind = "enqueue" =>
          \A n \in DOMAIN c.items : \/ n \in DOMAIN q.items /\ c.items[n] = q.items[n]
                                    \/ c.items[n].id = t.id
    <3> SUFFICES ASSUME t.kind = "enqueue", NEW n \in DOMAIN c.items
                 PROVE  \/ n \in DOMAIN q.items /\ c.items[n] = q.items[n]
                        \/ c.items[n].id = t.id
      OBVIOUS
    <3>1. n \in 1 .. Len(q.items) + 1
      BY <2>4 DEF ChangeOK
    <3>2. n \in DOMAIN q.items \/ n = Len(q.items) + 1
      BY <3>1, <2>6
    <3> QED
      BY <3>2, <2>4 DEF ChangeOK
  <2>8. ASSUME NEW r \in Sessions, NEW i, Has(w, r, i)
        PROVE  Has(v, r, i) \/ (t.kind = "enqueue" /\ t.session = r /\ t.id = i)
    <3>1. CASE r # s
      BY <3>1, <2>5, <2>8 DEF Has
    <3>2. CASE r = s /\ t.kind = "enqueue"
      BY <3>2, <2>1, <2>5, <2>7, <2>8 DEF Has
    <3>3. CASE r = s /\ t.kind # "enqueue"
      BY <3>3, <2>1, <2>4, <2>5, <2>8 DEF Has, ChangeOK, Derives
    <3> QED
      BY <3>1, <3>2, <3>3
  <2>9. ASSUME NEW r \in Sessions, NEW i, Waits(w, r, i)
        PROVE  Waits(v, r, i) \/ (t.session = r /\ Requeues(t, i))
    <3>1. CASE r # s
      BY <3>1, <2>5, <2>9 DEF Waits, InState
    <3>2. CASE r = s
      <4>1. PICK n \in DOMAIN c.items : c.items[n].id = i /\ c.items[n].state = "queued"
        BY <3>2, <2>5, <2>9 DEF Waits, InState
      <4>2. \/ Requeues(t, i)
            \/ \E m \in DOMAIN q.items : q.items[m].id = i /\ q.items[m].state = "queued"
        BY <4>1, <2>4 DEF ChangeOK
      <4> QED
        BY <3>2, <4>2, <2>1 DEF Waits, InState
    <3> QED
      BY <3>1, <3>2
  <2>10. ASSUME NEW r \in Sessions, NEW x, First(v, r, x),
                ~(t.kind = "enqueue" /\ t.session = r /\ t.id = x.id)
         PROVE  First(w, r, x)
    <3>1. CASE r # s
      BY <3>1, <2>5, <2>10 DEF First
    <3>2. CASE r = s /\ t.kind = "enqueue"
      BY <3>2, <2>1, <2>5, <2>7, <2>10 DEF First
    <3>3. CASE r = s /\ t.kind # "enqueue"
      BY <3>3, <2>1, <2>4, <2>5, <2>10, DerivedFirst DEF First, ChangeOK
    <3> QED
      BY <3>1, <3>2, <3>3
  <2>11. ASSUME t.kind = "deliver"
         PROVE  Has(w, t.session, t.id) /\ ~Waits(w, t.session, t.id)
    <3>1. /\ DOMAIN c.items = DOMAIN q.items
          /\ \A n \in DOMAIN q.items :
               /\ c.items[n].id = q.items[n].id
               /\ c.items[n].id = t.id => c.items[n].state = "delivering"
      BY <2>4, <2>11 DEF ChangeOK
    <3>2. Has(v, s, t.id)
      BY <2>11 DEF Throws
    <3> QED
      BY <3>1, <3>2, <2>1, <2>5 DEF Has, Waits, InState
  <2> QED
    BY <2>5, <2>8, <2>9, <2>10, <2>11 DEF Applied, w
<1> QED
  BY <1>2, <1>3

\* dispatch: the hold of a failed delivery.
LEMMA HeldView ==
    ASSUME NEW v, ViewOK(v), NEW s \in Sessions, NEW i
    PROVE  Fades(v, IF v[s] = NoQueue THEN v
                    ELSE [v EXCEPT ![s] = Pause(IF InState(v, s, i, {"delivering"})
                                                THEN WithState(@, i, "uncertain") ELSE @)])
<1>1. CASE v[s] = NoQueue
  BY <1>1 DEF Fades
<1>2. CASE v[s] # NoQueue
  <2> DEFINE q == v[s]
             h == IF InState(v, s, i, {"delivering"}) THEN WithState(q, i, "uncertain") ELSE q
             p == [h EXCEPT !.paused = TRUE]
             w == [v EXCEPT ![s] = p]
  <2>1. QueueOK(q) /\ ItemsOf(v, s) = q.items
    BY <1>2, ViewItems
  <2>2. /\ DOMAIN w = Sessions /\ w = [r \in Sessions |-> w[r]] /\ w[s] = p
        /\ \A r \in Sessions \ {s} : w[r] = v[r]
    BY DEF ViewOK
  <2> HIDE DEF q, w
  <2>3. /\ QueueOK(h) /\ DOMAIN h.items = DOMAIN q.items
        /\ \A n \in DOMAIN q.items :
             /\ h.items[n].id = q.items[n].id /\ h.items[n].context = q.items[n].context
             /\ h.items[n].state = "queued" => q.items[n].state = "queued"
    <3>1. CASE InState(v, s, i, {"delivering"})
      <4>1. h = WithState(q, i, "uncertain")
        BY <3>1
      <4>2. /\ QueueOK(h) /\ DOMAIN h.items = DOMAIN q.items
            /\ \A n \in DOMAIN q.items :
                 /\ h.items[n].id = q.items[n].id /\ h.items[n].context = q.items[n].context
                 /\ h.items[n].state = IF q.items[n].id = i THEN "uncertain"
                                       ELSE q.items[n].state
        BY <4>1, <2>1, StateSet DEF States
      <4> HIDE DEF h
      <4> QED
        BY <4>2
    <3>2. CASE ~InState(v, s, i, {"delivering"})
      BY <3>2, <2>1
    <3> QED
      BY <3>1, <3>2
  <2> HIDE DEF h
  <2>4. QueueOK(p) /\ p.items = h.items
    BY <2>3, GateSet
  <2> HIDE DEF p
  <2>5. /\ ViewOK(w) /\ ItemsOf(w, s) = p.items
        /\ \A r \in Sessions \ {s} : ItemsOf(w, r) = ItemsOf(v, r)
    BY <2>2, <2>4, ReplacedQueue
  <2>6. Fades(v, w)
    <3>1. ASSUME NEW r \in Sessions
          PROVE  /\ DOMAIN ItemsOf(w, r) = DOMAIN ItemsOf(v, r)
                 /\ \A n \in DOMAIN ItemsOf(v, r) :
                      /\ ItemsOf(w, r)[n].id = ItemsOf(v, r)[n].id
                      /\ ItemsOf(w, r)[n].context = ItemsOf(v, r)[n].context
                      /\ ItemsOf(w, r)[n].state = "queued" => ItemsOf(v, r)[n].state = "queued"
      <4>1. CASE r = s
        BY <4>1, <2>1, <2>3, <2>4, <2>5
      <4>2. CASE r # s
        BY <4>2, <2>5
      <4> QED
        BY <4>1, <4>2
    <3> QED
      BY <3>1, <2>5, FadedView
  <2> QED
    BY <1>2, <2>6 DEF w, p, h, q, Pause
<1> QED
  BY <1>1, <1>2

\* hydrate: every queue is held, and interrupted deliveries do not wait.
LEMMA RestoredView ==
    ASSUME NEW v, ViewOK(v)
    PROVE  Fades(v, [s \in Sessions |-> IF v[s] = NoQueue THEN NoQueue ELSE Restored(v[s])])
<1> DEFINE w == [s \in Sessions |-> IF v[s] = NoQueue THEN NoQueue ELSE Restored(v[s])]
<1>1. ASSUME NEW q, QueueOK(q)
      PROVE  LET r == Restored(q) IN
             /\ QueueOK(r) /\ DOMAIN r.items = DOMAIN q.items
             /\ \A n \in DOMAIN q.items :
                  /\ r.items[n].id = q.items[n].id /\ r.items[n].context = q.items[n].context
                  /\ r.items[n].state = "queued" => q.items[n].state = "queued"
  <2> DEFINE x == q.items
             y == [n \in DOMAIN x |-> IF x[n].state = "delivering"
                                      THEN [x[n] EXCEPT !.state = "uncertain"] ELSE x[n]]
             r == Restored(q)
  <2>1. /\ \A n \in DOMAIN x : x[n] \in Items
        /\ q.paused \in BOOLEAN /\ q = [paused |-> q.paused, items |-> x]
    BY <1>1, ItemsTyped
  <2>2. r = [paused |-> TRUE, items |-> y]
    <3>1. [q EXCEPT !.items = y] = [paused |-> q.paused, items |-> y]
      BY <2>1
    <3>2. r = Pause([q EXCEPT !.items = y])
      BY DEF Restored
    <3> HIDE DEF y
    <3> QED
      BY <3>1, <3>2 DEF Pause
  <2> HIDE DEF r, x
  <2>3. ASSUME NEW n \in DOMAIN x
        PROVE  /\ y[n] \in Items /\ y[n].id = x[n].id /\ y[n].context = x[n].context
               /\ y[n].state = "queued" => x[n].state = "queued"
    BY <2>1 DEF Items
  <2>4. DOMAIN y = DOMAIN x /\ y = [n \in DOMAIN x |-> y[n]]
    OBVIOUS
  <2> HIDE DEF y
  <2>5. QueueOK(r) /\ DOMAIN r.items = DOMAIN x
    BY <1>1, <2>2, <2>3, <2>4, MappedQueue DEF x
  <2>6. r.items = y
    BY <2>2
  <2> QED
    BY <2>3, <2>5, <2>6 DEF r, x
<1>2. \A s \in Sessions : v[s] # NoQueue => QueueOK(v[s])
  BY DEF ViewOK
<1>3. ASSUME NEW s \in Sessions, v[s] # NoQueue
      PROVE  /\ QueueOK(w[s]) /\ w[s] # NoQueue /\ ItemsOf(v, s) = v[s].items
             /\ ItemsOf(w, s) = w[s].items /\ DOMAIN w[s].items = DOMAIN v[s].items
             /\ \A n \in DOMAIN v[s].items :
                  /\ w[s].items[n].id = v[s].items[n].id
                  /\ w[s].items[n].context = v[s].items[n].context
                  /\ w[s].items[n].state = "queued" => v[s].items[n].state = "queued"
  <2>1. w[s] = Restored(v[s])
    BY <1>3
  <2> HIDE DEF w
  <2>2. /\ QueueOK(w[s]) /\ DOMAIN w[s].items = DOMAIN v[s].items
        /\ \A n \in DOMAIN v[s].items :
             /\ w[s].items[n].id = v[s].items[n].id
             /\ w[s].items[n].context = v[s].items[n].context
             /\ w[s].items[n].state = "queued" => v[s].items[n].state = "queued"
    BY <1>1, <1>2, <1>3, <2>1
  <2>3. w[s] # NoQueue
    BY <2>2, QueueExists
  <2> QED
    BY <1>3, <2>2, <2>3 DEF ItemsOf
<1>4. \A s \in Sessions : v[s] = NoQueue => w[s] = NoQueue
  OBVIOUS
<1>5. w \in [Sessions -> Queues \cup {NoQueue}]
  <2>1. \A s \in Sessions : w[s] \in Queues \cup {NoQueue}
    BY <1>3, <1>4 DEF QueueOK
  <2> QED
    BY <2>1
<1> HIDE DEF w
<1>6. ViewOK(w)
  BY <1>3, <1>4, <1>5 DEF ViewOK
<1>7. ASSUME NEW s \in Sessions
      PROVE  /\ DOMAIN ItemsOf(w, s) = DOMAIN ItemsOf(v, s)
             /\ \A n \in DOMAIN ItemsOf(v, s) :
                  /\ ItemsOf(w, s)[n].id = ItemsOf(v, s)[n].id
                  /\ ItemsOf(w, s)[n].context = ItemsOf(v, s)[n].context
                  /\ ItemsOf(w, s)[n].state = "queued" => ItemsOf(v, s)[n].state = "queued"
  <2>1. CASE v[s] = NoQueue
    BY <2>1, <1>4 DEF ItemsOf
  <2>2. CASE v[s] # NoQueue
    BY <2>2, <1>3
  <2> QED
    BY <2>1, <2>2
<1>8. Fades(v, w)
  BY <1>6, <1>7, FadedView
<1> QED
  BY <1>8 DEF w

-----------------------------------------------------------------------------
(* The chain of transactions *)

InFlight == {"deliver", "revert", "settle"}

\* The head and the rest of the chain.
LEMMA HeadAndTail ==
    ASSUME NEW u \in Seq(Txs), u # <<>>
    PROVE  /\ 1 \in DOMAIN u /\ Head(u) = u[1] /\ u[1] \in Txs
           /\ Tail(u) \in Seq(Txs)
           /\ \A n \in DOMAIN Tail(u) :
                n \in Nat /\ n + 1 \in DOMAIN u /\ n + 1 # 1 /\ Tail(u)[n] = u[n + 1]
<1>1. Len(u) \in Nat \ {0} /\ DOMAIN u = 1 .. Len(u)
  BY LenProperties, EmptySeq
<1>2. /\ Tail(u) \in Seq(Txs) /\ Len(Tail(u)) = Len(u) - 1
      /\ \A n \in 1 .. Len(Tail(u)) : Tail(u)[n] = u[n + 1]
  BY HeadTailProperties
<1>3. DOMAIN Tail(u) = 1 .. Len(u) - 1
  BY <1>2, LenProperties
<1>4. 1 \in DOMAIN u /\ u[1] \in Txs
  BY <1>1, ElementOfSeq
<1>5. Head(u) = u[1]
  BY <1>1
<1>6. ASSUME NEW n \in 1 .. Len(u) - 1
      PROVE  n \in Nat /\ n + 1 \in 1 .. Len(u) /\ n + 1 # 1
  BY <1>1
<1> QED
  BY <1>1, <1>2, <1>3, <1>4, <1>5, <1>6

\* A transaction at the end of the chain.
LEMMA Appended ==
    ASSUME NEW u \in Seq(Txs), NEW t \in Txs
    PROVE  LET w == Append(u, t)
               e == Len(u) + 1
           IN  /\ w \in Seq(Txs) /\ w # <<>> /\ e \in DOMAIN w /\ e \notin DOMAIN u
               /\ w[e] = t
               /\ \A n \in DOMAIN u : n \in DOMAIN w /\ w[n] = u[n]
               /\ \A n \in DOMAIN w : n \in DOMAIN u \/ n = e
<1> DEFINE w == Append(u, t)
<1>1. Len(u) \in Nat /\ DOMAIN u = 1 .. Len(u)
  BY LenProperties
<1>2. /\ w \in Seq(Txs) /\ w # <<>> /\ Len(w) = Len(u) + 1
      /\ \A n \in 1 .. Len(u) : w[n] = u[n]
      /\ w[Len(u) + 1] = t
  BY AppendProperties
<1>3. DOMAIN w = 1 .. Len(u) + 1
  BY <1>2, LenProperties
<1> HIDE DEF w
<1>4. \A n \in DOMAIN w : n \in DOMAIN u \/ n = Len(u) + 1
  BY <1>1, <1>3
<1>5. /\ Len(u) + 1 \in DOMAIN w /\ Len(u) + 1 \notin DOMAIN u
      /\ \A n \in DOMAIN u : n \in DOMAIN w
  BY <1>1, <1>3
<1> QED
  BY <1>1, <1>2, <1>4, <1>5 DEF w

\* A transaction names a session and, but for pause and resume, a message.
LEMMA TxFields ==
    ASSUME NEW t \in Txs
    PROVE  /\ t.session \in Sessions
           /\ t.kind \in {"enqueue", "pause", "resume", "edit", "remove"} \cup InFlight
           /\ t.kind \in {"enqueue"} \cup InFlight => t.id \in Ids
  BY DEF Txs, InFlight

\* The step adds no message to a session, and makes none wait that was handed
\* over or is being sent.
Kept ==
  /\ \A v \in Views' :
       \E u \in Views : /\ \A s \in Sessions : \A i : Has(v, s, i) => Has(u, s, i)
                        /\ \A s \in Sessions : \A i : Waits(v, s, i) => Waits(u, s, i)
  /\ \A n \in DOMAIN tail' :
       /\ tail'[n].kind = "enqueue" => \E m \in DOMAIN tail : tail[m] = tail'[n]
       /\ \A i \in Ids :
            Requeues(tail'[n], i) =>
              \/ \E m \in DOMAIN tail : tail[m] = tail'[n]
              \/ /\ accepted[i] = 0
                 /\ \A s \in Sessions : pc'[s] = "sending" => job'[s].id # i
  /\ fresh' = fresh /\ accepted' = accepted
  /\ \A s \in Sessions :
       pc'[s] # "idle" => \/ pc[s] # "idle" /\ job'[s].id = job[s].id
                          \/ pc'[s] # "sending" /\ Has(snapshot, s, job'[s].id)

\* Such a step leaves messages where they belong and what was handed over gone.
LEMMA KeptMessages ==
    ASSUME IInv, Kept
    PROVE  /\ OneHome' /\ HandedOverGone'
           /\ \A s \in Sessions :
                pc[s] = "sending" /\ pc'[s] = "sending" /\ invoked'[s] = invoked[s] =>
                  /\ Gone(job[s].id)'
                  /\ ~invoked'[s] => accepted'[job'[s].id] = 0
<1>1. ASSUME NEW s \in Sessions, NEW i \in Ids, Knows(s, i)'
      PROVE  Knows(s, i)
  <2>1. CASE \E v \in Views' : Has(v, s, i)
    BY <2>1 DEF Kept, Knows
  <2>2. CASE \E n \in DOMAIN tail' :
               tail'[n].kind = "enqueue" /\ tail'[n].session = s /\ tail'[n].id = i
    BY <2>2 DEF Kept, Knows
  <2>3. CASE pc'[s] # "idle" /\ job'[s].id = i
    BY <2>3 DEF Kept, Knows, Views
  <2> QED
    BY <1>1, <2>1, <2>2, <2>3 DEF Knows
<1>2. OneHome'
  <2>1. fresh' = fresh
    BY DEF Kept
  <2> QED
    BY <1>1, <2>1 DEF OneHome, IInv
<1>3. ASSUME NEW i \in Ids, Gone(i),
             accepted[i] # 0 \/ \E s \in Sessions : pc'[s] = "sending" /\ job'[s].id = i
      PROVE  Gone(i)'
  <2>1. ASSUME NEW v \in Views', NEW s \in Sessions PROVE ~Waits(v, s, i)
    BY <1>3 DEF Kept, Gone
  <2>2. ASSUME NEW n \in DOMAIN tail' PROVE ~Requeues(tail'[n], i)
    BY <1>3 DEF Kept, Gone
  <2> QED
    BY <2>1, <2>2 DEF Gone
<1>4. HandedOverGone'
  <2> SUFFICES ASSUME NEW i \in Ids
               PROVE  /\ accepted'[i] \in {0, 1}
                      /\ accepted'[i] = 1 => Gone(i)' /\ i \notin fresh'
    BY DEF HandedOverGone
  <2>1. accepted' = accepted /\ fresh' = fresh
    BY DEF Kept
  <2> QED
    BY <2>1, <1>3 DEF HandedOverGone, IInv
<1>5. ASSUME NEW s \in Sessions, pc[s] = "sending", pc'[s] = "sending", invoked'[s] = invoked[s]
      PROVE  /\ Gone(job[s].id)'
             /\ ~invoked'[s] => accepted'[job'[s].id] = 0
  <2>1. job[s].id \in Ids
    BY <1>5 DEF IInv, Types, Items
  <2>2. Gone(job[s].id) /\ (~invoked[s] => accepted[job[s].id] = 0)
    BY <1>5 DEF IInv, SendingGone
  <2>3. job'[s].id = job[s].id /\ accepted' = accepted
    BY <1>5 DEF Kept
  <2>4. \A i : i = job[s].id => Gone(i)'
    BY <1>3, <1>5, <2>1, <2>2, <2>3
  <2> QED
    BY <1>5, <2>2, <2>3, <2>4
<1> QED
  BY <1>2, <1>4, <1>5

\* The parts of the invariant that name places in the chain, when its head leaves:
\* the transactions of dispatches,
LEMMA ShiftedFlights ==
    ASSUME IInv, tail # <<>>,
           \A n \in DOMAIN tail' :
             tail'[n].kind \in InFlight =>
               n \in Nat /\ n + 1 \in DOMAIN tail /\ n + 1 # 1 /\ tail'[n] = tail[n + 1],
           \A s \in Sessions : \/ pc'[s] = pc[s] /\ job'[s].id = job[s].id
                               \/ tail[1].kind \in InFlight /\ tail[1].session = s
    PROVE  FlightAwaits'
<1>1. 1 \in DOMAIN tail /\ \A n \in DOMAIN tail : tail[n] \in Txs
  BY HeadAndTail, ElementOfSeq, LenProperties DEF IInv, Types
<1> SUFFICES ASSUME NEW n \in DOMAIN tail', tail'[n].kind \in InFlight
             PROVE  /\ pc'[tail'[n].session] = IF tail'[n].kind = "deliver" THEN "barrier"
                                               ELSE "settle"
                    /\ job'[tail'[n].session].id = tail'[n].id
                    /\ \A m \in DOMAIN tail' :
                         /\ tail'[m].kind \in InFlight
                         /\ tail'[m].session = tail'[n].session
                         => m = n
  BY DEF FlightAwaits, InFlight
<1>2. n \in Nat /\ n + 1 \in DOMAIN tail /\ n + 1 # 1 /\ tail'[n] = tail[n + 1]
  OBVIOUS
<1> DEFINE s == tail[n + 1].session
<1>3. /\ pc[s] = IF tail[n + 1].kind = "deliver" THEN "barrier" ELSE "settle"
      /\ job[s].id = tail[n + 1].id
      /\ \A m \in DOMAIN tail : tail[m].kind \in InFlight /\ tail[m].session = s => m = n + 1
  BY <1>2 DEF IInv, FlightAwaits, InFlight
<1>4. s \in Sessions
  BY <1>1, <1>2, TxFields
<1>5. pc'[s] = pc[s] /\ job'[s].id = job[s].id
  BY <1>1, <1>2, <1>3, <1>4
<1>6. ASSUME NEW m \in DOMAIN tail', tail'[m].kind \in InFlight, tail'[m].session = s
      PROVE  m = n
  <2>1. m \in Nat /\ m + 1 \in DOMAIN tail /\ tail'[m] = tail[m + 1]
    BY <1>6
  <2>2. m + 1 = n + 1
    BY <2>1, <1>3, <1>6
  <2> QED
    BY <2>1, <2>2, <1>2
<1> QED
  BY <1>2, <1>3, <1>5, <1>6

\* and the messages that wait to be enqueued.
LEMMA ShiftedEnqueues ==
    ASSUME IInv, tail # <<>>,
           \A n \in DOMAIN tail' :
             tail'[n].kind = "enqueue" =>
               n \in Nat /\ n + 1 \in DOMAIN tail /\ n + 1 # 1 /\ tail'[n] = tail[n + 1],
           writing' = NoWrite, accepted' = accepted,
           \A s \in Sessions : \A i :
             \/ Has(disk', s, i) => Has(disk, s, i)
             \/ writing # NoWrite /\ (Has(disk', s, i) => Has(writing, s, i)),
           \A s \in Sessions : \A i :
             \/ Has(snapshot', s, i) => Has(snapshot, s, i)
             \/ writing # NoWrite /\ (Has(snapshot', s, i) => Has(writing, s, i)),
           \A s \in Sessions : pc'[s] # "idle" => pc[s] # "idle" /\ job'[s].id = job[s].id
    PROVE  EnqueuedOnce'
<1>1. \A n \in DOMAIN tail : tail[n] \in Txs
  BY ElementOfSeq, LenProperties DEF IInv, Types
<1> SUFFICES ASSUME NEW n \in DOMAIN tail', tail'[n].kind = "enqueue"
             PROVE  /\ ~Has(disk', tail'[n].session, tail'[n].id)
                    /\ ~Has(snapshot', tail'[n].session, tail'[n].id)
                    /\ pc'[tail'[n].session] # "idle" => job'[tail'[n].session].id # tail'[n].id
                    /\ accepted'[tail'[n].id] = 0
                    /\ \A m \in DOMAIN tail' :
                         tail'[m].kind = "enqueue" /\ tail'[m].id = tail'[n].id => m = n
  BY DEF EnqueuedOnce
<1>2. n \in Nat /\ n + 1 \in DOMAIN tail /\ n + 1 # 1 /\ tail'[n] = tail[n + 1]
  OBVIOUS
<1> DEFINE t == tail[n + 1]
<1>3. /\ ~Has(disk, t.session, t.id) /\ ~Has(snapshot, t.session, t.id)
      /\ writing # NoWrite => ~Has(writing, t.session, t.id)
      /\ pc[t.session] # "idle" => job[t.session].id # t.id
      /\ accepted[t.id] = 0
      /\ \A m \in DOMAIN tail : tail[m].kind = "enqueue" /\ tail[m].id = t.id => m = n + 1
  BY <1>2 DEF IInv, EnqueuedOnce
<1>4. t.session \in Sessions
  BY <1>1, <1>2, TxFields
<1>5. ASSUME NEW m \in DOMAIN tail', tail'[m].kind = "enqueue", tail'[m].id = t.id
      PROVE  m = n
  <2>1. m \in Nat /\ m + 1 \in DOMAIN tail /\ tail'[m] = tail[m + 1]
    BY <1>5
  <2>2. m + 1 = n + 1
    BY <2>1, <1>3, <1>5
  <2> QED
    BY <2>1, <2>2, <1>2
<1> QED
  BY <1>2, <1>3, <1>4, <1>5

\* Callers other than enqueue and dispatch only lengthen the chain by changes that
\* concern messages already there.
Lengthened ==
  /\ tail' \in Seq(Txs)
  /\ \A n \in DOMAIN tail : n \in DOMAIN tail' /\ tail'[n] = tail[n]
  /\ \A n \in DOMAIN tail' :
       n \in DOMAIN tail \/ tail'[n].kind \in {"pause", "resume", "edit", "remove"}
  /\ ready \/ tail' = tail

\* Such a step, and one that changes neither queues nor flights, keeps the invariant.
LEMMA QuietStep ==
    ASSUME IInv, Lengthened,
           UNCHANGED <<disk, snapshot, writing, ready, pc, job, invoked, fresh, accepted>>,
           error' \in BOOLEAN, owners' \in BOOLEAN,
           blocked' \subseteq Sessions, pausing' \subseteq Sessions,
           context' \in [Sessions -> Contexts], restarts' \in 0 .. MaxRestarts
    PROVE  IInv'
<1>1. Views' = Views
  BY DEF Views
<1>2. \A n \in DOMAIN tail' : tail'[n].kind \in {"enqueue"} \cup InFlight => n \in DOMAIN tail
  BY DEF Lengthened, InFlight
<1>3. Types'
  <2>1. \A v \in Views' : ViewOK(v)
    BY <1>1 DEF IInv, Types
  <2>2. tail' \in Seq(Txs)
    BY DEF Lengthened
  <2>3. \A n \in DOMAIN tail' : tail'[n].kind = "enqueue" => tail'[n].arg.id = tail'[n].id
    BY <1>2 DEF Lengthened, IInv, Types
  <2>4. writing' # NoWrite => tail' # <<>>
    <3> SUFFICES ASSUME writing # NoWrite PROVE tail' # <<>>
      OBVIOUS
    <3>1. 1 \in DOMAIN tail
      BY HeadAndTail DEF IInv, Types
    <3>2. 1 \in DOMAIN tail'
      BY <3>1 DEF Lengthened
    <3> QED
      BY <3>2
  <2> QED
    BY <2>1, <2>2, <2>3, <2>4 DEF IInv, Types
<1>4. AwaitsHydration'
  BY DEF AwaitsHydration, Lengthened, IInv
<1>5. Kept
  <2>1. \A n \in DOMAIN tail', i \in Ids : Requeues(tail'[n], i) => \E m \in DOMAIN tail : tail[m] = tail'[n]
    BY <1>2 DEF Requeues, Lengthened, InFlight
  <2>2. \A n \in DOMAIN tail' : tail'[n].kind = "enqueue" => \E m \in DOMAIN tail : tail[m] = tail'[n]
    BY <1>2 DEF Lengthened
  <2> QED
    BY <1>1, <2>1, <2>2 DEF Kept
<1>6. OneHome' /\ HandedOverGone' /\ SendingGone'
  BY <1>5, KeptMessages DEF SendingGone
<1>7. EnqueuedOnce'
  BY <1>2 DEF EnqueuedOnce, Lengthened, IInv
<1>8. FlightAwaits'
  BY <1>2 DEF FlightAwaits, Lengthened, IInv, InFlight
<1>9. BarrierFirst'
  BY DEF BarrierFirst, IInv
<1>10. OrderWritten' /\ BarrierWritten'
  <2> SUFFICES ASSUME writing # NoWrite PROVE OrderWritten' /\ BarrierWritten'
    BY DEF OrderWritten, BarrierWritten
  <2>1. 1 \in DOMAIN tail
    BY HeadAndTail DEF IInv, Types
  <2>2. tail'[1] = tail[1]
    BY <2>1 DEF Lengthened
  <2> QED
    BY <2>2 DEF OrderWritten, BarrierWritten, IInv
<1> QED
  BY <1>3, <1>4, <1>6, <1>7, <1>8, <1>9, <1>10 DEF IInv

\* One call of that kind.
LEMMA QuietCall ==
    ASSUME IInv, NEW t \in Txs, t.kind \in {"pause", "resume", "edit", "remove"},
           ready, tail' = Append(tail, t)
    PROVE  Lengthened
<1>1. tail \in Seq(Txs)
  BY DEF IInv, Types
<1> QED
  BY <1>1, Appended DEF Lengthened

\* pause, resume, edit, remove, the pump's pause, and the workspace being left or
\* entered.
LEMMA QuietActions ==
    ASSUME IInv,
           \/ \E s \in Sessions : \/ PauseQueue(s) \/ ResumeQueue(s)
                                  \/ \E k \in Contexts : ChangeContext(s, k)
                                  \/ \E i \in Ids : Remove(s, i) \/ \E x \in Texts : Edit(s, i, x)
           \/ LeaveWorkspace \/ EnterWorkspace \/ UNCHANGED vars
    PROVE  IInv'
<1>1. /\ tail \in Seq(Txs) /\ error \in BOOLEAN /\ owners \in BOOLEAN
      /\ blocked \subseteq Sessions /\ pausing \subseteq Sessions
      /\ context \in [Sessions -> Contexts] /\ restarts \in 0 .. MaxRestarts
  BY DEF IInv, Types
<1>2. ASSUME NEW s \in Sessions, PauseQueue(s) PROVE IInv'
  <2>1. Tx("pause", s, NoItem, NoItem) \in Txs /\ Tx("pause", s, NoItem, NoItem).kind = "pause"
    BY DEF Tx, Txs
  <2>2. Lengthened
    BY <1>2, <2>1, QuietCall DEF PauseQueue, Call, Transact
  <2> QED
    BY <1>1, <1>2, <2>2, QuietStep DEF PauseQueue, worldVars
<1>3. ASSUME NEW s \in Sessions, ResumeQueue(s) PROVE IInv'
  <2>1. Tx("resume", s, NoItem, NoItem) \in Txs /\ Tx("resume", s, NoItem, NoItem).kind = "resume"
    BY DEF Tx, Txs
  <2>2. Lengthened
    BY <1>3, <2>1, QuietCall DEF ResumeQueue, Call, Transact
  <2> QED
    BY <1>1, <1>3, <2>2, QuietStep DEF ResumeQueue, worldVars
<1>4. ASSUME NEW s \in Sessions, NEW k \in Contexts, ChangeContext(s, k) PROVE IInv'
  <2>1. Lengthened
    BY <1>1, <1>4 DEF ChangeContext, memoryVars, Lengthened
  <2>2. context' \in [Sessions -> Contexts]
    BY <1>1, <1>4 DEF ChangeContext
  <2> QED
    BY <1>1, <1>4, <2>1, <2>2, QuietStep DEF ChangeContext, memoryVars
<1>5. ASSUME NEW s \in Sessions, NEW i \in Ids, Remove(s, i) PROVE IInv'
  <2>1. Tx("remove", s, i, NoItem) \in Txs /\ Tx("remove", s, i, NoItem).kind = "remove"
    BY DEF Tx, Txs
  <2>2. Lengthened
    BY <1>5, <2>1, QuietCall DEF Remove, Call, Transact
  <2> QED
    BY <1>1, <1>5, <2>2, QuietStep DEF Remove, worldVars
<1>6. ASSUME NEW s \in Sessions, NEW i \in Ids, NEW x \in Texts, Edit(s, i, x) PROVE IInv'
  <2>1. Tx("edit", s, i, x) \in Txs /\ Tx("edit", s, i, x).kind = "edit"
    BY DEF Tx, Txs
  <2>2. Lengthened
    BY <1>6, <2>1, QuietCall DEF Edit, Call, Transact
  <2> QED
    BY <1>1, <1>6, <2>2, QuietStep DEF Edit, worldVars
<1>7. CASE LeaveWorkspace
  <2> DEFINE full == {s \in Sessions : ItemsOf(snapshot, s) # <<>>}
             c == Cardinality(full)
  <2>1. c \in Nat
    BY OutboxAssumption, FS_Subset, FS_CardinalityType
  <2>2. PICK q \in [1 .. c -> full] :
          tail' = tail \o [n \in DOMAIN q |-> Tx("pause", q[n], NoItem, NoItem)]
    BY <1>7 DEF LeaveWorkspace
  <2> DEFINE p == [n \in 1 .. c |-> Tx("pause", q[n], NoItem, NoItem)]
  <2>3. \A n \in 1 .. c : p[n] \in Txs /\ p[n].kind = "pause"
    BY <2>2 DEF Tx, Txs
  <2>4. p \in [1 .. c -> Txs]
    BY <2>3
  <2>5. tail' = tail \o p
    BY <2>2
  <2>6. DOMAIN p = 1 .. c
    OBVIOUS
  <2> HIDE DEF p, c, full
  <2>7. p \in Seq(Txs)
    BY <2>1, <2>4, SeqDef
  <2>8. Len(p) = c
    BY <2>1, <2>7, <2>6, LenProperties
  <2>9. /\ tail' \in Seq(Txs) /\ Len(tail') = Len(tail) + c
        /\ \A n \in 1 .. Len(tail) + c :
             tail'[n] = IF n <= Len(tail) THEN tail[n] ELSE p[n - Len(tail)]
    BY <1>1, <2>7, <2>5, <2>8, ConcatProperties
  <2>10. /\ Len(tail) \in Nat /\ DOMAIN tail = 1 .. Len(tail)
         /\ DOMAIN tail' = 1 .. Len(tail) + c
    BY <1>1, <2>9, LenProperties
  <2>11. ASSUME NEW n \in DOMAIN tail PROVE n \in DOMAIN tail' /\ tail'[n] = tail[n]
    BY <2>1, <2>9, <2>10
  <2>12. ASSUME NEW n \in DOMAIN tail'
         PROVE  n \in DOMAIN tail \/ tail'[n].kind \in {"pause", "resume", "edit", "remove"}
    <3>1. CASE n <= Len(tail)
      BY <3>1, <2>1, <2>10
    <3>2. CASE ~(n <= Len(tail))
      <4>1. n - Len(tail) \in 1 .. c /\ tail'[n] = p[n - Len(tail)]
        BY <3>2, <2>1, <2>9, <2>10
      <4>2. p[n - Len(tail)].kind = "pause"
        BY <4>1, <2>3 DEF p
      <4> QED
        BY <4>1, <4>2
    <3> QED
      BY <3>1, <3>2
  <2>13. ready \/ tail' = tail
    <3> SUFFICES ASSUME ~ready PROVE tail' = tail
      OBVIOUS
    <3>1. full = {}
      BY DEF full, IInv, AwaitsHydration, ItemsOf
    <3>2. c = 0
      BY <3>1, FS_EmptySet DEF c
    <3>3. Len(tail') = Len(tail) /\ \A n \in 1 .. Len(tail) : tail'[n] = tail[n]
      BY <3>2, <2>9, <2>10, <2>11
    <3> QED
      BY <1>1, <2>9, <3>3, SeqEqual
  <2>14. Lengthened
    BY <2>9, <2>11, <2>12, <2>13 DEF Lengthened
  <2>15. blocked' \subseteq Sessions /\ owners' \in BOOLEAN
    BY <1>1, <1>7 DEF LeaveWorkspace
  <2> QED
    BY <1>1, <1>7, <2>14, <2>15, QuietStep DEF LeaveWorkspace, worldVars
<1>8. CASE EnterWorkspace
  <2>1. Lengthened
    BY <1>1, <1>8 DEF EnterWorkspace, Lengthened
  <2> QED
    BY <1>1, <1>8, <2>1, QuietStep DEF EnterWorkspace, worldVars
<1>9. CASE UNCHANGED vars
  <2>1. Lengthened
    BY <1>1, <1>9 DEF vars, memoryVars, Lengthened
  <2> QED
    BY <1>1, <1>9, <2>1, QuietStep DEF vars, memoryVars, worldVars
<1> QED
  BY <1>2, <1>3, <1>4, <1>5, <1>6, <1>7, <1>8, <1>9

-----------------------------------------------------------------------------
(* Dispatch and enqueue *)

\* A call leaves the transaction that is being written where it is.
LEMMA WritingKept ==
    ASSUME IInv, NEW t \in Txs, tail' = Append(tail, t), UNCHANGED <<snapshot, writing>>
    PROVE  OrderWritten' /\ BarrierWritten'
<1> SUFFICES ASSUME writing # NoWrite PROVE OrderWritten' /\ BarrierWritten'
  BY DEF OrderWritten, BarrierWritten
<1>1. tail \in Seq(Txs) /\ 1 \in DOMAIN tail
  BY HeadAndTail DEF IInv, Types
<1>2. tail'[1] = tail[1]
  BY <1>1, Appended
<1> QED
  BY <1>2 DEF OrderWritten, BarrierWritten, IInv

\* The transactions the chain holds after a call.
LEMMA CallTyped ==
    ASSUME IInv, NEW t \in Txs, t.kind = "enqueue" => t.arg.id = t.id,
           tail' = Append(tail, t)
    PROVE  /\ tail' \in Seq(Txs) /\ tail' # <<>>
           /\ \A n \in DOMAIN tail' :
                /\ tail'[n].kind = "enqueue" => tail'[n].arg.id = tail'[n].id
                /\ (n \in DOMAIN tail /\ tail'[n] = tail[n])
                   \/ (n = Len(tail) + 1 /\ n \notin DOMAIN tail /\ tail'[n] = t)
<1> DEFINE e == Len(tail) + 1
<1>1. tail \in Seq(Txs)
  BY DEF IInv, Types
<1>2. /\ tail' \in Seq(Txs) /\ tail' # <<>> /\ e \notin DOMAIN tail
      /\ tail'[e] = t
      /\ \A n \in DOMAIN tail : tail'[n] = tail[n]
      /\ \A n \in DOMAIN tail' : n \in DOMAIN tail \/ n = e
  BY <1>1, Appended
<1>3. ASSUME NEW n \in DOMAIN tail'
      PROVE  (n \in DOMAIN tail /\ tail'[n] = tail[n])
             \/ (n = e /\ n \notin DOMAIN tail /\ tail'[n] = t)
  BY <1>2
<1>4. ASSUME NEW n \in DOMAIN tail', tail'[n].kind = "enqueue"
      PROVE  tail'[n].arg.id = tail'[n].id
  BY <1>3, <1>4 DEF IInv, Types
<1> QED
  BY <1>2, <1>3, <1>4

\* The message at the head of an open queue is durable, waits and was never sent.
LEMMA HeadOfQueue ==
    ASSUME IInv, NEW s \in Sessions, MayDispatch(s)
    PROVE  LET item == Head(snapshot[s].items) IN
           /\ item \in Items /\ item.id \in Ids
           /\ Has(snapshot, s, item.id) /\ accepted[item.id] = 0
           /\ First(snapshot, s, item)
<1> DEFINE x == snapshot[s].items
           item == Head(x)
<1>1. /\ ViewOK(snapshot) /\ snapshot \in Views
      /\ snapshot[s] # NoQueue /\ x # <<>> /\ item.state = "queued"
  BY DEF IInv, Types, Views, MayDispatch
<1>2. QueueOK(snapshot[s]) /\ ItemsOf(snapshot, s) = x
  BY <1>1 DEF ViewOK, ItemsOf
<1>3. x \in Seq(Items) /\ \A m, n \in DOMAIN x : x[m].id = x[n].id => m = n
  BY <1>2 DEF QueueOK, Queues
<1>4. 1 \in DOMAIN x /\ item = x[1] /\ item \in Items
  <2> HIDE DEF x
  <2> QED
    BY <1>1, <1>3, HeadTailProperties, LenProperties, EmptySeq, ElementOfSeq
<1>5. item.id \in Ids
  BY <1>4 DEF Items
<1> HIDE DEF x, item
<1>6. Has(snapshot, s, item.id)
  BY <1>2, <1>4 DEF Has
<1>7. Waits(snapshot, s, item.id)
  BY <1>1, <1>2, <1>4 DEF Waits, InState
<1>8. accepted[item.id] = 0
  BY <1>1, <1>5, <1>7 DEF IInv, HandedOverGone, Gone
<1>9. First(snapshot, s, item)
  BY <1>2, <1>3, <1>4 DEF First
<1> QED
  BY <1>4, <1>5, <1>6, <1>8, <1>9 DEF x, item

\* dispatch: the barrier is asked for, or the queue is paused.
LEMMA DispatchStep == ASSUME IInv, NEW s \in Sessions, Dispatch(s) PROVE IInv'
<1> DEFINE item == Head(snapshot[s].items)
           t == Tx("deliver", s, item.id, NoItem)
           e == Len(tail) + 1
<1>1. /\ item \in Items /\ item.id \in Ids /\ pc[s] = "idle" /\ ready
      /\ Has(snapshot, s, item.id) /\ accepted[item.id] = 0
      /\ First(snapshot, s, item)
  BY HeadOfQueue DEF Dispatch, MayDispatch
<1>2. CASE item.context # context[s]
  <2>1. Tx("pause", s, NoItem, NoItem) \in Txs /\ Tx("pause", s, NoItem, NoItem).kind = "pause"
    BY DEF Tx, Txs
  <2>2. Lengthened
    BY <1>1, <1>2, <2>1, QuietCall DEF Dispatch, Transact
  <2>3. /\ error \in BOOLEAN /\ owners \in BOOLEAN /\ blocked \subseteq Sessions
        /\ pausing \subseteq Sessions /\ context \in [Sessions -> Contexts]
        /\ restarts \in 0 .. MaxRestarts
    BY DEF IInv, Types
  <2> QED
    BY <1>2, <2>2, <2>3, QuietStep DEF Dispatch, worldVars
<1>3. CASE item.context = context[s]
  <2> HIDE DEF item
  <2>1. /\ tail' = Append(tail, t)
        /\ pc' = [pc EXCEPT ![s] = "barrier"] /\ job' = [job EXCEPT ![s] = item]
        /\ UNCHANGED <<disk, snapshot, ready, error, writing, invoked, pausing, owners,
                       context, fresh, accepted, restarts, blocked>>
    BY <1>3 DEF Dispatch, Transact, worldVars, item
  <2>2. /\ t \in Txs /\ t.kind = "deliver" /\ t.session = s /\ t.id = item.id
        /\ \A i : ~Requeues(t, i)
    BY <1>1 DEF Tx, Txs, Requeues
  <2>3. pc \in [Sessions -> Flights \cup {"idle"}] /\ job \in [Sessions -> Items \cup {NoItem}]
    BY DEF IInv, Types
  <2>4. /\ pc'[s] = "barrier" /\ job'[s] = item
        /\ \A r \in Sessions \ {s} : pc'[r] = pc[r] /\ job'[r] = job[r]
    BY <2>1, <2>3
  <2> HIDE DEF t
  <2>5. /\ tail' \in Seq(Txs) /\ tail' # <<>>
        /\ \A n \in DOMAIN tail' :
             /\ tail'[n].kind = "enqueue" => tail'[n].arg.id = tail'[n].id
             /\ (n \in DOMAIN tail /\ tail'[n] = tail[n])
                \/ (n = e /\ n \notin DOMAIN tail /\ tail'[n] = t)
    BY <2>1, <2>2, CallTyped
  <2>6. Views' = Views
    BY <2>1 DEF Views
  <2>7. Types'
    <3>1. pc' \in [Sessions -> Flights \cup {"idle"}] /\ job' \in [Sessions -> Items \cup {NoItem}]
      BY <2>1, <2>3, <1>1 DEF Flights
    <3>2. \A r \in Sessions : pc'[r] # "idle" => job'[r] \in Items
      BY <2>4, <1>1 DEF IInv, Types
    <3> QED
      BY <2>1, <2>5, <2>6, <3>1, <3>2 DEF IInv, Types
  <2>8. Kept
    <3>1. \A r \in Sessions :
            pc'[r] # "idle" => \/ pc[r] # "idle" /\ job'[r].id = job[r].id
                               \/ pc'[r] # "sending" /\ Has(snapshot, r, job'[r].id)
      BY <2>4, <1>1
    <3>2. \A n \in DOMAIN tail', i \in Ids :
            tail'[n].kind = "enqueue" \/ Requeues(tail'[n], i) => \E m \in DOMAIN tail : tail[m] = tail'[n]
      BY <2>2, <2>5
    <3> QED
      BY <2>1, <2>5, <2>2, <2>6, <3>1, <3>2 DEF Kept
  <2>9. OneHome' /\ HandedOverGone'
    BY <2>8, KeptMessages
  <2>10. SendingGone'
    <3> SUFFICES ASSUME NEW r \in Sessions, pc'[r] = "sending"
                 PROVE  Gone(job[r].id)' /\ job'[r] = job[r] /\ (~invoked'[r] => accepted'[job'[r].id] = 0)
      BY DEF SendingGone
    <3>1. r # s /\ pc[r] = "sending" /\ job'[r] = job[r] /\ invoked'[r] = invoked[r]
      BY <2>1, <2>4
    <3> QED
      BY <3>1, <2>8, KeptMessages
  <2>11. EnqueuedOnce'
    <3> SUFFICES ASSUME NEW n \in DOMAIN tail', tail'[n].kind = "enqueue"
                 PROVE  /\ ~Has(disk, tail'[n].session, tail'[n].id)
                        /\ ~Has(snapshot, tail'[n].session, tail'[n].id)
                        /\ writing # NoWrite /\ n # 1 => ~Has(writing, tail'[n].session, tail'[n].id)
                        /\ pc'[tail'[n].session] # "idle" => job'[tail'[n].session].id # tail'[n].id
                        /\ accepted[tail'[n].id] = 0
                        /\ \A m \in DOMAIN tail' :
                             tail'[m].kind = "enqueue" /\ tail'[m].id = tail'[n].id => m = n
      BY <2>1 DEF EnqueuedOnce
    <3>1. n \in DOMAIN tail /\ tail'[n] = tail[n]
      BY <2>2, <2>5
    <3>2. \A m \in DOMAIN tail' : tail'[m].kind = "enqueue" => m \in DOMAIN tail /\ tail'[m] = tail[m]
      BY <2>2, <2>5
    <3>3. tail[n].session \in Sessions
      BY <3>1, TxFields, ElementOfSeq, LenProperties DEF IInv, Types
    <3>4. /\ ~Has(disk, tail[n].session, tail[n].id)
          /\ ~Has(snapshot, tail[n].session, tail[n].id)
          /\ writing # NoWrite /\ n # 1 => ~Has(writing, tail[n].session, tail[n].id)
          /\ pc[tail[n].session] # "idle" => job[tail[n].session].id # tail[n].id
          /\ accepted[tail[n].id] = 0
          /\ \A m \in DOMAIN tail : tail[m].kind = "enqueue" /\ tail[m].id = tail[n].id => m = n
      BY <3>1 DEF IInv, EnqueuedOnce
    <3>5. pc'[tail[n].session] # "idle" => job'[tail[n].session].id # tail[n].id
      BY <1>1, <2>4, <3>3, <3>4
    <3> QED
      BY <3>1, <3>2, <3>4, <3>5
  <2>12. FlightAwaits'
    <3>1. \A n \in DOMAIN tail :
            tail[n].kind \in InFlight =>
              /\ tail[n].session \in Sessions \ {s}
              /\ pc[tail[n].session] = IF tail[n].kind = "deliver" THEN "barrier" ELSE "settle"
              /\ job[tail[n].session].id = tail[n].id
              /\ \A m \in DOMAIN tail :
                   tail[m].kind \in InFlight /\ tail[m].session = tail[n].session => m = n
      <4>1. \A n \in DOMAIN tail : tail[n].session \in Sessions
        BY TxFields, ElementOfSeq, LenProperties DEF IInv, Types
      <4> QED
        BY <4>1, <1>1 DEF IInv, FlightAwaits, InFlight
    <3>2. ASSUME NEW n \in DOMAIN tail', tail'[n].kind \in InFlight
          PROVE  /\ pc'[tail'[n].session] = IF tail'[n].kind = "deliver" THEN "barrier" ELSE "settle"
                 /\ job'[tail'[n].session].id = tail'[n].id
                 /\ \A m \in DOMAIN tail' :
                      tail'[m].kind \in InFlight /\ tail'[m].session = tail'[n].session => m = n
      <4>1. CASE n \in DOMAIN tail /\ tail'[n] = tail[n]
        BY <4>1, <3>1, <3>2, <2>4, <2>5, <2>2
      <4>2. CASE n = e /\ n \notin DOMAIN tail /\ tail'[n] = t
        BY <4>2, <3>1, <2>4, <2>5, <2>2
      <4> QED
        BY <4>1, <4>2, <2>5
    <3> QED
      BY <3>2 DEF FlightAwaits, InFlight
  <2>13. BarrierFirst'
    BY <1>1, <2>1, <2>4 DEF BarrierFirst, IInv
  <2>14. OrderWritten' /\ BarrierWritten'
    BY <2>1, <2>2, WritingKept
  <2>15. AwaitsHydration'
    BY <1>1, <2>1 DEF AwaitsHydration
  <2> QED
    BY <2>7, <2>9, <2>10, <2>11, <2>12, <2>13, <2>14, <2>15 DEF IInv
<1> QED
  BY <1>2, <1>3

\* A message that nobody has heard of is enqueued.
LEMMA EnqueueStep ==
    ASSUME IInv, NEW s \in Sessions, NEW i \in Ids, NEW x \in Texts, Enqueue(s, i, x)
    PROVE  IInv'
<1> DEFINE t == Tx("enqueue", s, i, [id |-> i, text |-> x, context |-> context[s],
                                     state |-> "queued"])
           e == Len(tail) + 1
<1>1. /\ tail' = Append(tail, t) /\ ready /\ i \in fresh /\ fresh' = fresh \ {i}
      /\ UNCHANGED <<disk, snapshot, ready, error, writing, blocked, pc, job, invoked,
                     pausing, owners, context, accepted, restarts>>
  BY DEF Enqueue, Call, Transact
<1>2. t \in Txs /\ t.kind = "enqueue" /\ t.session = s /\ t.id = i /\ t.arg.id = i
  BY DEF Tx, Txs, Items, IInv, Types
<1> HIDE DEF t
<1>3. /\ tail' \in Seq(Txs) /\ tail' # <<>>
      /\ \A n \in DOMAIN tail' :
           /\ tail'[n].kind = "enqueue" => tail'[n].arg.id = tail'[n].id
           /\ (n \in DOMAIN tail /\ tail'[n] = tail[n])
              \/ (n = e /\ n \notin DOMAIN tail /\ tail'[n] = t)
  BY <1>1, <1>2, CallTyped
<1>4. Views' = Views
  BY <1>1 DEF Views
<1>5. \A n \in DOMAIN tail : tail[n] \in Txs /\ tail[n].session \in Sessions
  BY TxFields, ElementOfSeq, LenProperties DEF IInv, Types
<1>6. \A r \in Sessions : ~Knows(r, i)
  BY <1>1 DEF IInv, OneHome
<1>7. ASSUME NEW r \in Sessions, NEW j \in Ids, Knows(r, j)'
      PROVE  Knows(r, j) \/ (r = s /\ j = i)
  <2>1. CASE \E v \in Views' : Has(v, r, j)
    BY <2>1, <1>4 DEF Knows
  <2>2. CASE \E n \in DOMAIN tail' :
               tail'[n].kind = "enqueue" /\ tail'[n].session = r /\ tail'[n].id = j
    BY <2>2, <1>2, <1>3 DEF Knows
  <2>3. CASE pc'[r] # "idle" /\ job'[r].id = j
    BY <2>3, <1>1 DEF Knows
  <2> QED
    BY <1>7, <2>1, <2>2, <2>3 DEF Knows
<1>8. OneHome'
  <2> SUFFICES ASSUME NEW j \in Ids, NEW r \in Sessions, Knows(r, j)',
                      NEW q \in Sessions
               PROVE  j \notin fresh' /\ (Knows(q, j)' => q = r)
    BY DEF OneHome
  <2>1. CASE j = i
    BY <2>1, <1>1, <1>6, <1>7
  <2>2. CASE j # i
    <3>1. Knows(r, j)
      BY <2>2, <1>7
    <3> QED
      BY <2>2, <3>1, <1>1, <1>7 DEF IInv, OneHome
  <2> QED
    BY <2>1, <2>2
<1>9. ASSUME NEW j \in Ids, Gone(j), j # i PROVE Gone(j)'
  <2>1. \A n \in DOMAIN tail' : ~Requeues(tail'[n], j)
    BY <1>2, <1>3, <1>9 DEF Gone, Requeues
  <2> QED
    BY <1>4, <1>9, <2>1 DEF Gone
<1>10. HandedOverGone'
  BY <1>1, <1>9 DEF IInv, HandedOverGone
<1>11. SendingGone'
  <2> SUFFICES ASSUME NEW r \in Sessions, pc[r] = "sending"
               PROVE  /\ Gone(job[r].id)'
                      /\ ~invoked[r] => accepted[job[r].id] = 0
    BY <1>1 DEF SendingGone
  <2>1. job[r].id \in Ids
    BY DEF IInv, Types, Items
  <2>2. Gone(job[r].id) /\ (~invoked[r] => accepted[job[r].id] = 0)
    BY DEF IInv, SendingGone
  <2>3. job[r].id # i
    BY <1>6 DEF Knows
  <2>4. \A j : j = job[r].id => Gone(j)'
    BY <1>9, <2>1, <2>2, <2>3
  <2> QED
    BY <1>1, <2>2, <2>4
<1>12. EnqueuedOnce'
  <2> SUFFICES ASSUME NEW n \in DOMAIN tail', tail'[n].kind = "enqueue"
               PROVE  /\ ~Has(disk, tail'[n].session, tail'[n].id)
                      /\ ~Has(snapshot, tail'[n].session, tail'[n].id)
                      /\ writing # NoWrite /\ n # 1 => ~Has(writing, tail'[n].session, tail'[n].id)
                      /\ pc[tail'[n].session] # "idle" => job[tail'[n].session].id # tail'[n].id
                      /\ accepted[tail'[n].id] = 0
                      /\ \A m \in DOMAIN tail' :
                           tail'[m].kind = "enqueue" /\ tail'[m].id = tail'[n].id => m = n
    BY <1>1 DEF EnqueuedOnce
  <2>1. \A m \in DOMAIN tail : tail[m].kind = "enqueue" => tail[m].id # i
    BY <1>5, <1>6 DEF Knows
  <2>2. CASE n \in DOMAIN tail /\ tail'[n] = tail[n]
    <3>1. /\ ~Has(disk, tail[n].session, tail[n].id)
          /\ ~Has(snapshot, tail[n].session, tail[n].id)
          /\ writing # NoWrite /\ n # 1 => ~Has(writing, tail[n].session, tail[n].id)
          /\ pc[tail[n].session] # "idle" => job[tail[n].session].id # tail[n].id
          /\ accepted[tail[n].id] = 0
          /\ \A m \in DOMAIN tail : tail[m].kind = "enqueue" /\ tail[m].id = tail[n].id => m = n
      BY <2>2 DEF IInv, EnqueuedOnce
    <3>2. \A m \in DOMAIN tail' :
            tail'[m].kind = "enqueue" /\ tail'[m].id = tail'[n].id => m = n
      BY <1>2, <1>3, <2>1, <2>2, <3>1
    <3> QED
      BY <2>2, <3>1, <3>2
  <2>3. CASE n = e /\ n \notin DOMAIN tail /\ tail'[n] = t
    <3>1. \A m \in DOMAIN tail' : tail'[m].kind = "enqueue" /\ tail'[m].id = i => m = n
      BY <1>2, <1>3, <2>1, <2>3
    <3>2. accepted[i] = 0
      BY <1>1 DEF IInv, HandedOverGone
    <3>3. /\ ~Has(disk, s, i) /\ ~Has(snapshot, s, i)
          /\ writing # NoWrite => ~Has(writing, s, i)
          /\ pc[s] # "idle" => job[s].id # i
      BY <1>6 DEF Knows, Views
    <3> QED
      BY <1>2, <2>3, <3>1, <3>2, <3>3
  <2> QED
    BY <1>3, <2>2, <2>3
<1>13. FlightAwaits'
  <2>1. \A n \in DOMAIN tail' : tail'[n].kind \in InFlight => n \in DOMAIN tail /\ tail'[n] = tail[n]
    BY <1>2, <1>3 DEF InFlight
  <2> QED
    BY <1>1, <2>1 DEF IInv, FlightAwaits, InFlight
<1>14. OrderWritten' /\ BarrierWritten'
  BY <1>1, <1>2, WritingKept
<1>15. Types'
  BY <1>1, <1>3, <1>4 DEF IInv, Types
<1>16. AwaitsHydration' /\ BarrierFirst'
  BY <1>1 DEF IInv, AwaitsHydration, BarrierFirst
<1> QED
  BY <1>8, <1>10, <1>11, <1>12, <1>13, <1>14, <1>15, <1>16 DEF IInv

-----------------------------------------------------------------------------
(* transact *)

\* The clone is made and changed: what it adds to the snapshot is what the head of
\* the chain brings.
LEMMA TxBeginStep == ASSUME IInv, TxBegin PROVE IInv'
<1> DEFINE t == tail[1]
           w == Apply(t, snapshot)
<1>1. /\ ready /\ tail # <<>> /\ tail \in Seq(Txs) /\ writing = NoWrite
      /\ UNCHANGED <<disk, snapshot, ready, error, tail, blocked, pc, job, invoked,
                     pausing, owners, context, fresh, accepted, restarts>>
  BY DEF TxBegin, worldVars, IInv, Types
<1>2. 1 \in DOMAIN tail /\ Head(tail) = t /\ t \in Txs
  BY <1>1, HeadAndTail
<1>3. writing' = w /\ ~Throws(t, snapshot)
  BY <1>2 DEF TxBegin, Running
<1>4. /\ t.kind = "enqueue" => t.arg.id = t.id
      /\ t.kind = "enqueue" => ~Has(snapshot, t.session, t.id)
      /\ ViewOK(snapshot)
  BY <1>2 DEF IInv, Types, EnqueuedOnce, Views
<1>5. Applied(t, snapshot, w)
  <2> HIDE DEF t
  <2> QED
    BY <1>2, <1>3, <1>4, AppliedView
<1> HIDE DEF w
<1>6. Views = {disk, snapshot} /\ Views' \subseteq {disk, snapshot, w}
  BY <1>1, <1>3 DEF Views
<1>7. ASSUME NEW s \in Sessions, NEW i \in Ids, Knows(s, i)' PROVE Knows(s, i)
  <2>1. CASE \E v \in Views' : Has(v, s, i)
    <3>1. CASE Has(w, s, i)
      BY <3>1, <1>2, <1>5, <1>6 DEF Applied, Knows
    <3>2. CASE Has(disk, s, i) \/ Has(snapshot, s, i)
      BY <3>2, <1>6 DEF Knows
    <3> QED
      BY <2>1, <3>1, <3>2, <1>6
  <2> QED
    BY <1>1, <1>7, <2>1 DEF Knows
<1>8. OneHome'
  BY <1>1, <1>7 DEF IInv, OneHome
<1>9. ASSUME NEW i, Gone(i) PROVE Gone(i)'
  <2>1. \A s \in Sessions : ~Waits(disk, s, i) /\ ~Waits(snapshot, s, i) /\ ~Waits(w, s, i)
    BY <1>2, <1>5, <1>6, <1>9 DEF Applied, Gone
  <2> QED
    BY <1>1, <1>6, <1>9, <2>1 DEF Gone
<1>10. HandedOverGone'
  BY <1>1, <1>9 DEF IInv, HandedOverGone
<1>11. SendingGone'
  <2> SUFFICES ASSUME NEW s \in Sessions, pc[s] = "sending"
               PROVE  Gone(job[s].id)' /\ (~invoked[s] => accepted[job[s].id] = 0)
    BY <1>1 DEF SendingGone
  <2>1. Gone(job[s].id) /\ (~invoked[s] => accepted[job[s].id] = 0)
    BY DEF IInv, SendingGone
  <2>2. \A i : i = job[s].id => Gone(i)'
    BY <1>9, <2>1
  <2> QED
    BY <1>1, <2>1, <2>2
<1>12. EnqueuedOnce'
  <2>1. ASSUME NEW n \in DOMAIN tail, tail[n].kind = "enqueue", n # 1
        PROVE  ~Has(w, tail[n].session, tail[n].id)
    <3>1. /\ ~Has(snapshot, tail[n].session, tail[n].id)
          /\ \A m \in DOMAIN tail : tail[m].kind = "enqueue" /\ tail[m].id = tail[n].id => m = n
      BY <2>1 DEF IInv, EnqueuedOnce
    <3>2. tail[n].session \in Sessions
      BY <1>1, TxFields, ElementOfSeq, LenProperties
    <3> QED
      BY <1>2, <1>5, <2>1, <3>1, <3>2 DEF Applied
  <2> QED
    BY <1>1, <1>3, <2>1 DEF IInv, EnqueuedOnce
<1>13. FlightAwaits' /\ BarrierFirst'
  BY <1>1 DEF IInv, FlightAwaits, BarrierFirst
<1>14. OrderWritten' /\ BarrierWritten'
  <2>1. t.session \in Sessions
    BY <1>2, TxFields
  <2> QED
    BY <1>1, <1>3, <1>5, <2>1 DEF Applied, OrderWritten, BarrierWritten
<1>15. Types'
  <2>1. \A v \in Views' : ViewOK(v)
    BY <1>5, <1>6 DEF Applied, IInv, Types
  <2> QED
    BY <1>1, <2>1 DEF IInv, Types
<1>16. AwaitsHydration'
  BY <1>1 DEF AwaitsHydration
<1> QED
  BY <1>8, <1>10, <1>11, <1>12, <1>13, <1>14, <1>15, <1>16 DEF IInv

\* What the tail of a chain holds, the head having left.
LEMMA TailTyped ==
    ASSUME IInv, tail # <<>>, tail' = Tail(tail)
    PROVE  /\ tail' \in Seq(Txs)
           /\ \A n \in DOMAIN tail' :
                n \in Nat /\ n + 1 \in DOMAIN tail /\ n + 1 # 1 /\ tail'[n] = tail[n + 1]
  BY HeadAndTail DEF IInv, Types

\* A dispatch goes on as it was.
SameFlight(s) ==
  /\ pc'[s] = pc[s] /\ job'[s] = job[s] /\ invoked'[s] = invoked[s]

\* A transaction is on record: the clone is the only view that is left.  A dispatch
\* goes on, ends, is put back or passes the barrier; in the last case its message
\* must be gone.
LEMMA CommitStep ==
    ASSUME IInv, Committed, UNCHANGED <<ready, owners, worldVars>>,
           blocked' \subseteq Sessions, pausing' \subseteq Sessions,
           tail' \in Seq(Txs),
           \A n \in DOMAIN tail' :
             \/ n \in Nat /\ n + 1 \in DOMAIN tail /\ n + 1 # 1 /\ tail'[n] = tail[n + 1]
             \/ /\ tail'[n].kind = "revert" /\ accepted[tail'[n].id] = 0
                /\ \A s \in Sessions : pc'[s] = "sending" => job'[s].id # tail'[n].id,
           pc' \in [Sessions -> Flights \cup {"idle"}],
           job' \in [Sessions -> Items \cup {NoItem}],
           invoked' \in [Sessions -> BOOLEAN],
           \A s \in Sessions :
             \/ SameFlight(s)
             \/ pc'[s] = "idle"
             \/ pc'[s] = "settle" /\ pc[s] = "barrier" /\ job'[s] = job[s]
             \/ /\ pc'[s] = "sending" /\ pc[s] = "barrier"
                /\ job'[s] \in Items /\ job'[s].id = job[s].id
                /\ Gone(job[s].id)',
           FlightAwaits'
    PROVE  IInv'
<1>1. /\ writing # NoWrite /\ tail # <<>> /\ writing' = NoWrite
      /\ disk' = writing /\ snapshot' = writing /\ error' = FALSE
      /\ writing \in Views /\ Views' = {writing}
      /\ UNCHANGED <<ready, owners, context, fresh, accepted, restarts>>
  BY DEF Committed, worldVars, Views, IInv, Types
<1>2. tail \in Seq(Txs) /\ 1 \in DOMAIN tail /\ \A n \in DOMAIN tail : tail[n] \in Txs
  BY <1>1, HeadAndTail, ElementOfSeq, LenProperties DEF IInv, Types
<1>3. \A s \in Sessions :
        pc'[s] # "idle" =>
          /\ pc[s] # "idle" /\ job'[s].id = job[s].id
          /\ job[s] \in Items /\ job'[s] \in Items
  BY DEF SameFlight, IInv, Types
<1>4. Types'
  <2>1. \A v \in Views' : ViewOK(v)
    BY <1>1 DEF IInv, Types
  <2>2. \A n \in DOMAIN tail' : tail'[n].kind = "enqueue" => tail'[n].arg.id = tail'[n].id
    BY DEF IInv, Types
  <2> QED
    BY <1>1, <1>3, <2>1, <2>2 DEF IInv, Types
<1>5. Kept
  <2>1. ASSUME NEW v \in Views'
        PROVE  \E u \in Views : /\ \A s \in Sessions : \A i : Has(v, s, i) => Has(u, s, i)
                                /\ \A s \in Sessions : \A i : Waits(v, s, i) => Waits(u, s, i)
    BY <1>1
  <2>2. ASSUME NEW n \in DOMAIN tail', tail'[n].kind = "enqueue"
        PROVE  \E m \in DOMAIN tail : tail[m] = tail'[n]
    BY <2>2
  <2>3. ASSUME NEW n \in DOMAIN tail', NEW i \in Ids, Requeues(tail'[n], i)
        PROVE  \/ \E m \in DOMAIN tail : tail[m] = tail'[n]
               \/ /\ accepted[i] = 0
                  /\ \A s \in Sessions : pc'[s] = "sending" => job'[s].id # i
    BY <2>3 DEF Requeues
  <2> QED
    BY <1>1, <1>3, <2>1, <2>2, <2>3 DEF Kept
<1>6. OneHome' /\ HandedOverGone'
  BY <1>5, KeptMessages
<1>7. SendingGone'
  <2> SUFFICES ASSUME NEW s \in Sessions, pc'[s] = "sending"
               PROVE  Gone(job[s].id)' /\ job'[s].id = job[s].id
                      /\ (~invoked'[s] => accepted'[job'[s].id] = 0)
    BY DEF SendingGone
  <2>1. CASE SameFlight(s)
    BY <2>1, <1>5, KeptMessages DEF SameFlight
  <2>2. CASE pc[s] = "barrier" /\ job'[s].id = job[s].id /\ Gone(job[s].id)'
    BY <2>2, <1>1 DEF IInv, BarrierFirst
  <2> QED
    BY <2>1, <2>2
<1>8. EnqueuedOnce'
  <2>1. \A n \in DOMAIN tail' :
          tail'[n].kind = "enqueue" =>
            n \in Nat /\ n + 1 \in DOMAIN tail /\ n + 1 # 1 /\ tail'[n] = tail[n + 1]
    OBVIOUS
  <2> QED
    BY <1>1, <1>3, <2>1, ShiftedEnqueues
<1>9. BarrierFirst'
  <2> SUFFICES ASSUME NEW s \in Sessions, pc'[s] = "barrier"
               PROVE  accepted[job'[s].id] = 0 /\ First(writing, s, job'[s])
    BY <1>1 DEF BarrierFirst
  <2>1. pc[s] = "barrier" /\ job'[s] = job[s] /\ job[s] \in Items
    BY <1>3 DEF SameFlight
  <2>2. accepted[job[s].id] = 0 /\ First(snapshot, s, job[s])
    BY <2>1 DEF IInv, BarrierFirst
  <2>3. ~(tail[1].kind = "enqueue" /\ tail[1].session = s /\ tail[1].id = job[s].id)
    BY <1>2, <2>1 DEF IInv, EnqueuedOnce
  <2> QED
    BY <1>1, <2>1, <2>2, <2>3 DEF IInv, OrderWritten
<1>10. AwaitsHydration'
  BY <1>1 DEF IInv, AwaitsHydration
<1>11. OrderWritten' /\ BarrierWritten'
  BY <1>1 DEF OrderWritten, BarrierWritten
<1> QED
  BY <1>4, <1>6, <1>7, <1>8, <1>9, <1>10, <1>11 DEF IInv

\* enqueue, pause, resume, edit and remove are on record.
LEMMA TxCommitsStep == ASSUME IInv, TxCommits PROVE IInv'
<1>1. /\ Committed /\ tail' = Tail(tail)
      /\ UNCHANGED <<ready, pc, job, invoked, owners, worldVars>>
      /\ blocked' \subseteq blocked /\ pausing' \subseteq pausing
  BY DEF TxCommits
<1>2. /\ tail # <<>> /\ pc \in [Sessions -> Flights \cup {"idle"}]
      /\ job \in [Sessions -> Items \cup {NoItem}] /\ invoked \in [Sessions -> BOOLEAN]
      /\ blocked \subseteq Sessions /\ pausing \subseteq Sessions
  BY <1>1 DEF Committed, IInv, Types
<1>3. /\ tail' \in Seq(Txs)
      /\ \A n \in DOMAIN tail' :
           n \in Nat /\ n + 1 \in DOMAIN tail /\ n + 1 # 1 /\ tail'[n] = tail[n + 1]
  BY <1>1, <1>2, TailTyped
<1>4. FlightAwaits'
  BY <1>1, <1>2, <1>3, ShiftedFlights
<1>5. \A s \in Sessions : SameFlight(s)
  BY <1>1 DEF SameFlight
<1>6. blocked' \subseteq Sessions /\ pausing' \subseteq Sessions
  BY <1>1, <1>2
<1> QED
  BY <1>1, <1>2, <1>3, <1>4, <1>5, <1>6, CommitStep

\* The message is settled or put back, and the dispatch ends.
LEMMA SettledStep == ASSUME IInv, NEW s \in Sessions, Settled(s) PROVE IInv'
<1>1. /\ Committed /\ tail' = Tail(tail)
      /\ Head(tail).kind \in {"settle", "revert"} /\ Head(tail).session = s
      /\ pc' = [pc EXCEPT ![s] = "idle"]
      /\ job' = [job EXCEPT ![s] = NoItem]
      /\ invoked' = [invoked EXCEPT ![s] = FALSE]
      /\ UNCHANGED <<ready, blocked, pausing, owners, worldVars>>
  BY DEF Settled, Running
<1>2. /\ tail # <<>> /\ tail \in Seq(Txs) /\ pc \in [Sessions -> Flights \cup {"idle"}]
      /\ job \in [Sessions -> Items \cup {NoItem}] /\ invoked \in [Sessions -> BOOLEAN]
      /\ blocked \subseteq Sessions /\ pausing \subseteq Sessions
  BY <1>1 DEF Committed, IInv, Types
<1>3. /\ tail' \in Seq(Txs)
      /\ \A n \in DOMAIN tail' :
           n \in Nat /\ n + 1 \in DOMAIN tail /\ n + 1 # 1 /\ tail'[n] = tail[n + 1]
  BY <1>1, <1>2, TailTyped
<1>4. /\ pc'[s] = "idle"
      /\ \A r \in Sessions \ {s} : SameFlight(r)
  BY <1>1, <1>2 DEF SameFlight
<1>5. tail[1].kind \in InFlight /\ tail[1].session = s
  BY <1>1, <1>2, HeadAndTail DEF InFlight
<1>6. FlightAwaits'
  <2>1. \A r \in Sessions : \/ pc'[r] = pc[r] /\ job'[r].id = job[r].id
                            \/ tail[1].kind \in InFlight /\ tail[1].session = r
    BY <1>4, <1>5 DEF SameFlight
  <2> QED
    BY <1>2, <1>3, <2>1, ShiftedFlights
<1>7. /\ pc' \in [Sessions -> Flights \cup {"idle"}]
      /\ job' \in [Sessions -> Items \cup {NoItem}] /\ invoked' \in [Sessions -> BOOLEAN]
  BY <1>1, <1>2
<1>8. \A r \in Sessions : SameFlight(r) \/ pc'[r] = "idle"
  BY <1>4
<1> QED
  BY <1>1, <1>2, <1>3, <1>6, <1>7, <1>8, CommitStep

\* When the barrier of a message is on record, nothing makes it wait any more: its
\* own session writes it as `delivering`, and no other session knows it.
LEMMA BarrierGone ==
    ASSUME IInv, writing # NoWrite, NEW s \in Sessions,
           tail[1].kind = "deliver", tail[1].session = s
    PROVE  /\ pc[s] = "barrier" /\ job[s] \in Items /\ job[s].id = tail[1].id
           /\ Has(writing, s, job[s].id)
           /\ \A r \in Sessions : ~Waits(writing, r, job[s].id)
           /\ \A n \in DOMAIN tail : ~Requeues(tail[n], job[s].id)
           /\ \A r \in Sessions : pc[r] # "idle" /\ job[r].id = job[s].id => r = s
<1> DEFINE i == job[s].id
<1>1. tail # <<>> /\ tail \in Seq(Txs) /\ writing \in Views
  BY DEF IInv, Types, Views
<1>2. 1 \in DOMAIN tail /\ \A n \in DOMAIN tail : tail[n] \in Txs
  BY <1>1, HeadAndTail, ElementOfSeq, LenProperties
<1>3. pc[s] = "barrier" /\ i = tail[1].id
  BY <1>2 DEF IInv, FlightAwaits
<1>4. job[s] \in Items /\ i \in Ids
  BY <1>3 DEF IInv, Types, Items
<1>5. Has(writing, s, i) /\ ~Waits(writing, s, i)
  BY <1>3 DEF IInv, BarrierWritten
<1>6. Knows(s, i)
  BY <1>3 DEF Knows
<1> HIDE DEF i
<1>7. \A r \in Sessions : Knows(r, i) => r = s
  BY <1>4, <1>6 DEF IInv, OneHome
<1>8. ASSUME NEW r \in Sessions PROVE ~Waits(writing, r, i)
  <2>1. Waits(writing, r, i) => Has(writing, r, i)
    BY DEF Waits, InState, Has
  <2>2. Has(writing, r, i) => Knows(r, i)
    BY <1>1 DEF Knows
  <2> QED
    BY <1>5, <1>7, <2>1, <2>2
<1>9. ASSUME NEW n \in DOMAIN tail, Requeues(tail[n], i) PROVE FALSE
  <2> DEFINE r == tail[n].session
  <2>1. r \in Sessions /\ tail[n].id = i
    BY <1>2, <1>9, TxFields DEF Requeues
  <2>2. CASE tail[n].kind = "enqueue"
    <3>1. Knows(r, i)
      BY <2>1, <2>2 DEF Knows
    <3>2. r = s
      BY <1>7, <2>1, <3>1
    <3> QED
      BY <1>3, <2>1, <2>2, <3>2 DEF IInv, EnqueuedOnce, i
  <2>3. CASE tail[n].kind \in {"revert", "settle"}
    <3>1. pc[r] = "settle" /\ job[r].id = i
      BY <2>1, <2>3 DEF IInv, FlightAwaits
    <3>2. r = s
      BY <1>7, <2>1, <3>1 DEF Knows
    <3> QED
      BY <1>3, <3>1, <3>2
  <2> QED
    BY <1>9, <2>2, <2>3 DEF Requeues
<1>10. \A r \in Sessions : pc[r] # "idle" /\ job[r].id = i => r = s
  BY <1>7 DEF Knows
<1> QED
  BY <1>3, <1>4, <1>5, <1>8, <1>9, <1>10 DEF i

\* The item that is read again from the clone.
LEMMA ReadAgain ==
    ASSUME NEW v, ViewOK(v), NEW s \in Sessions, NEW i, Has(v, s, i)
    PROVE  LET n == Position(v[s].items, i) IN
           /\ v[s] # NoQueue /\ ItemsOf(v, s) = v[s].items
           /\ n \in DOMAIN v[s].items /\ v[s].items[n] \in Items /\ v[s].items[n].id = i
<1>1. PICK k \in DOMAIN ItemsOf(v, s) : ItemsOf(v, s)[k].id = i
  BY DEF Has
<1>2. v[s] # NoQueue /\ ItemsOf(v, s) = v[s].items
  BY <1>1 DEF ItemsOf
<1>3. \A n \in DOMAIN v[s].items : v[s].items[n] \in Items
  BY <1>2, ViewItems
<1> QED
  BY <1>1, <1>2, <1>3 DEF Position

\* The barrier is on record: the message goes to the agent, or back to its queue.
LEMMA BarrierPassedStep == ASSUME IInv, NEW s \in Sessions, BarrierPassed(s) PROVE IInv'
<1> DEFINE items == writing[s].items
           again == items[Position(items, job[s].id)]
           back == Tx("revert", s, job[s].id, NoItem)
<1>1. /\ Committed /\ Head(tail).kind = "deliver" /\ Head(tail).session = s
      /\ UNCHANGED <<ready, blocked, invoked, pausing, owners, worldVars>>
  BY DEF BarrierPassed, Running
<1>2. /\ writing # NoWrite /\ tail # <<>> /\ tail \in Seq(Txs)
      /\ pc \in [Sessions -> Flights \cup {"idle"}]
      /\ job \in [Sessions -> Items \cup {NoItem}] /\ invoked \in [Sessions -> BOOLEAN]
      /\ blocked \subseteq Sessions /\ pausing \subseteq Sessions
      /\ Views' = {writing} /\ ViewOK(writing)
  BY <1>1 DEF Committed, IInv, Types, Views
<1>3. tail[1].kind = "deliver" /\ tail[1].session = s /\ 1 \in DOMAIN tail
  BY <1>1, <1>2, HeadAndTail
<1>4. /\ pc[s] = "barrier" /\ job[s] \in Items /\ job[s].id = tail[1].id
      /\ Has(writing, s, job[s].id)
      /\ \A r \in Sessions : ~Waits(writing, r, job[s].id)
      /\ \A n \in DOMAIN tail : ~Requeues(tail[n], job[s].id)
      /\ \A r \in Sessions : pc[r] # "idle" /\ job[r].id = job[s].id => r = s
  BY <1>2, <1>3, BarrierGone
<1>5. accepted[job[s].id] = 0 /\ job[s].id \in Ids
  BY <1>4 DEF IInv, BarrierFirst, Items
<1>6. again \in Items /\ again.id = job[s].id
  BY <1>2, <1>4, ReadAgain
<1> HIDE DEF again, back
<1>7. ASSUME NEW u, u = Tail(tail)
      PROVE  /\ u \in Seq(Txs)
             /\ \A n \in DOMAIN u :
                  n \in Nat /\ n + 1 \in DOMAIN tail /\ n + 1 # 1 /\ u[n] = tail[n + 1]
  BY <1>2, <1>7, HeadAndTail
<1>8. CASE /\ pc' = [pc EXCEPT ![s] = "sending"]
           /\ job' = [job EXCEPT ![s] = again]
           /\ tail' = Tail(tail)
  <2>1. /\ pc'[s] = "sending" /\ job'[s] = again
        /\ \A r \in Sessions \ {s} : SameFlight(r)
    BY <1>1, <1>2, <1>8 DEF SameFlight
  <2>2. /\ tail' \in Seq(Txs)
        /\ \A n \in DOMAIN tail' :
             n \in Nat /\ n + 1 \in DOMAIN tail /\ n + 1 # 1 /\ tail'[n] = tail[n + 1]
    BY <1>7, <1>8
  <2>3. FlightAwaits'
    <3>1. \A r \in Sessions : \/ pc'[r] = pc[r] /\ job'[r].id = job[r].id
                              \/ tail[1].kind \in InFlight /\ tail[1].session = r
      BY <1>3, <2>1 DEF SameFlight, InFlight
    <3> QED
      BY <1>2, <2>2, <3>1, ShiftedFlights
  <2>4. Gone(job[s].id)'
    <3>1. \A n \in DOMAIN tail' : ~Requeues(tail'[n], job[s].id)
      BY <1>4, <2>2
    <3>2. job'[s].id = job[s].id
      BY <2>1, <1>6
    <3>3. \A i : i = job[s].id => (Gone(i))'
      BY <1>2, <1>4, <3>1 DEF Gone
    <3> QED
      BY <3>2, <3>3
  <2>5. pc' \in [Sessions -> Flights \cup {"idle"}] /\ job' \in [Sessions -> Items \cup {NoItem}]
    BY <1>2, <1>6, <1>8 DEF Flights
  <2>6. \A r \in Sessions :
          \/ SameFlight(r)
          \/ /\ pc'[r] = "sending" /\ pc[r] = "barrier"
             /\ job'[r] \in Items /\ job'[r].id = job[r].id
             /\ Gone(job[r].id)'
    BY <1>4, <1>6, <2>1, <2>4
  <2> QED
    BY <1>1, <1>2, <2>2, <2>3, <2>5, <2>6, CommitStep
<1>9. CASE /\ pc' = [pc EXCEPT ![s] = "settle"]
           /\ tail' = Append(Tail(tail), back)
           /\ UNCHANGED job
  <2> DEFINE u == Tail(tail)
             e == Len(u) + 1
  <2>1. /\ back \in Txs /\ back.kind = "revert" /\ back.session = s /\ back.id = job[s].id
    BY <1>5 DEF back, Tx, Txs
  <2>2. /\ u \in Seq(Txs)
        /\ \A n \in DOMAIN u :
             n \in Nat /\ n + 1 \in DOMAIN tail /\ n + 1 # 1 /\ u[n] = tail[n + 1]
    BY <1>7
  <2> HIDE DEF u
  <2>3. /\ tail' \in Seq(Txs) /\ e \notin DOMAIN u /\ tail'[e] = back
        /\ \A n \in DOMAIN u : tail'[n] = u[n]
        /\ \A n \in DOMAIN tail' : n \in DOMAIN u \/ n = e
    BY <1>9, <2>1, <2>2, Appended DEF u
  <2> HIDE DEF e
  <2>4. /\ pc'[s] = "settle" /\ job'[s] = job[s]
        /\ \A r \in Sessions \ {s} : SameFlight(r)
    BY <1>1, <1>2, <1>9 DEF SameFlight
  <2>5. \A n \in DOMAIN tail' :
          \/ n \in Nat /\ n + 1 \in DOMAIN tail /\ n + 1 # 1 /\ tail'[n] = tail[n + 1]
          \/ n = e /\ tail'[n] = back
    BY <2>2, <2>3
  <2>6. FlightAwaits'
    <3>1. ASSUME NEW n \in DOMAIN tail, n # 1, tail[n].kind \in InFlight
          PROVE  /\ tail[n].session \in Sessions \ {s}
                 /\ pc[tail[n].session] = IF tail[n].kind = "deliver" THEN "barrier" ELSE "settle"
                 /\ job[tail[n].session].id = tail[n].id
                 /\ \A m \in DOMAIN tail :
                      tail[m].kind \in InFlight /\ tail[m].session = tail[n].session => m = n
      <4>1. tail[n].session \in Sessions
        BY <1>2, TxFields, ElementOfSeq, LenProperties
      <4> QED
        BY <4>1, <1>3, <3>1 DEF IInv, FlightAwaits, InFlight
    <3>2. ASSUME NEW n \in DOMAIN tail', tail'[n].kind \in InFlight
          PROVE  /\ pc'[tail'[n].session] = IF tail'[n].kind = "deliver" THEN "barrier" ELSE "settle"
                 /\ job'[tail'[n].session].id = tail'[n].id
                 /\ \A m \in DOMAIN tail' :
                      tail'[m].kind \in InFlight /\ tail'[m].session = tail'[n].session => m = n
      <4>1. CASE n \in Nat /\ n + 1 \in DOMAIN tail /\ n + 1 # 1 /\ tail'[n] = tail[n + 1]
        <5>1. /\ tail'[n].session \in Sessions \ {s}
              /\ pc[tail'[n].session] = IF tail'[n].kind = "deliver" THEN "barrier" ELSE "settle"
              /\ job[tail'[n].session].id = tail'[n].id
              /\ \A m \in DOMAIN tail :
                   tail[m].kind \in InFlight /\ tail[m].session = tail'[n].session => m = n + 1
          BY <3>1, <3>2, <4>1
        <5>2. ASSUME NEW m \in DOMAIN tail', tail'[m].kind \in InFlight,
                     tail'[m].session = tail'[n].session
              PROVE  m = n
          <6>1. m \in Nat /\ m + 1 \in DOMAIN tail /\ tail'[m] = tail[m + 1]
            BY <2>1, <2>5, <5>1, <5>2
          <6>2. m + 1 = n + 1
            BY <5>1, <5>2, <6>1
          <6> QED
            BY <4>1, <6>1, <6>2
        <5> QED
          BY <2>4, <5>1, <5>2 DEF SameFlight
      <4>2. CASE n = e /\ tail'[n] = back
        <5>1. ASSUME NEW m \in DOMAIN tail', tail'[m].kind \in InFlight, tail'[m].session = s
              PROVE  m = n
          BY <2>5, <3>1, <4>2, <5>1
        <5> QED
          BY <2>1, <2>4, <4>2, <5>1
      <4> QED
        BY <2>5, <4>1, <4>2
    <3> QED
      BY <3>2 DEF FlightAwaits, InFlight
  <2>7. pc' \in [Sessions -> Flights \cup {"idle"}] /\ job' \in [Sessions -> Items \cup {NoItem}]
    BY <1>2, <1>9 DEF Flights
  <2>8. \A r \in Sessions :
          \/ SameFlight(r)
          \/ pc'[r] = "settle" /\ pc[r] = "barrier" /\ job'[r] = job[r]
    BY <1>4, <2>4
  <2>9. \A r \in Sessions : pc'[r] = "sending" => job'[r].id # job[s].id
    BY <1>4, <2>4 DEF SameFlight
  <2>10. \A n \in DOMAIN tail' :
           \/ n \in Nat /\ n + 1 \in DOMAIN tail /\ n + 1 # 1 /\ tail'[n] = tail[n + 1]
           \/ /\ tail'[n].kind = "revert" /\ accepted[tail'[n].id] = 0
              /\ \A r \in Sessions : pc'[r] = "sending" => job'[r].id # tail'[n].id
    BY <1>5, <2>1, <2>5, <2>9
  <2> QED
    BY <1>1, <1>2, <2>3, <2>6, <2>7, <2>8, <2>10, CommitStep
<1> QED
  BY <1>8, <1>9 DEF BarrierPassed, again, back

-----------------------------------------------------------------------------
(* Failures, the agent and restarts *)

\* A dispatch that fails holds its queue: the snapshot fades, the flight ends.
LEMMA HoldStep ==
    ASSUME IInv, NEW s \in Sessions, Hold(s)
    PROVE  /\ Fades(snapshot, snapshot') /\ blocked' \subseteq Sessions /\ error' \in BOOLEAN
           /\ pc' \in [Sessions -> Flights \cup {"idle"}]
           /\ job' \in [Sessions -> Items \cup {NoItem}]
           /\ invoked' \in [Sessions -> BOOLEAN]
           /\ pc'[s] = "idle"
           /\ \A r \in Sessions \ {s} : SameFlight(r)
<1>1. /\ ViewOK(snapshot) /\ blocked \subseteq Sessions
      /\ pc \in [Sessions -> Flights \cup {"idle"}]
      /\ job \in [Sessions -> Items \cup {NoItem}] /\ invoked \in [Sessions -> BOOLEAN]
  BY DEF IInv, Types, Views
<1>2. Fades(snapshot, snapshot')
  BY <1>1, HeldView DEF Hold
<1>3. /\ pc' = [pc EXCEPT ![s] = "idle"] /\ job' = [job EXCEPT ![s] = NoItem]
      /\ invoked' = [invoked EXCEPT ![s] = FALSE]
      /\ blocked' = blocked \cup {s} /\ error' = TRUE
  BY DEF Hold
<1>4. pc'[s] = "idle" /\ \A r \in Sessions \ {s} : SameFlight(r)
  BY <1>1, <1>3 DEF SameFlight
<1> QED
  BY <1>1, <1>2, <1>3, <1>4

\* A transaction is rejected, before its write (TxThrows) or by it (TxFails): the
\* storage may hold the clone all the same.
LEMMA RejectStep ==
    ASSUME IInv, tail # <<>>, Reject,
           disk' = disk \/ (writing # NoWrite /\ disk' = writing)
    PROVE  IInv'
<1> DEFINE t == tail[1]
           s == t.session
<1>1. /\ tail' = Tail(tail) /\ writing' = NoWrite /\ pausing' \subseteq Sessions
      /\ UNCHANGED <<ready, owners, context, fresh, accepted, restarts>>
  BY DEF Reject, worldVars, IInv, Types
<1>2. 1 \in DOMAIN tail /\ Head(tail) = t /\ s \in Sessions
  BY HeadAndTail, TxFields DEF IInv, Types
<1>3. /\ tail' \in Seq(Txs)
      /\ \A n \in DOMAIN tail' :
           n \in Nat /\ n + 1 \in DOMAIN tail /\ n + 1 # 1 /\ tail'[n] = tail[n + 1]
  BY <1>1, TailTyped
<1>4. /\ Fades(snapshot, snapshot') /\ blocked' \subseteq Sessions /\ error' \in BOOLEAN
      /\ pc' \in [Sessions -> Flights \cup {"idle"}]
      /\ job' \in [Sessions -> Items \cup {NoItem}]
      /\ invoked' \in [Sessions -> BOOLEAN]
      /\ \A r \in Sessions :
           SameFlight(r) \/ (t.kind \in InFlight /\ r = s /\ pc'[r] = "idle")
  <2>1. CASE t.kind \in InFlight
    <3>1. Hold(s)
      BY <1>2, <2>1 DEF Reject, Running, InFlight
    <3> QED
      BY <1>2, <2>1, <3>1, HoldStep
  <2>2. CASE t.kind \notin InFlight
    <3>1. error' = TRUE /\ UNCHANGED <<snapshot, blocked, pc, job, invoked>>
      BY <1>2, <2>2 DEF Reject, Running, InFlight
    <3>2. Fades(snapshot, snapshot)
      BY DEF Fades, IInv, Types, Views
    <3> QED
      BY <3>1, <3>2 DEF IInv, Types, SameFlight
  <2> QED
    BY <2>1, <2>2
<1> HIDE DEF t, s
<1>5. /\ Views' = {disk', snapshot'} /\ snapshot \in Views /\ disk' \in Views
      /\ \A v \in Views : ViewOK(v)
  BY <1>1 DEF Views, IInv, Types
<1>6. \A r \in Sessions :
        pc'[r] # "idle" => pc[r] # "idle" /\ job'[r].id = job[r].id /\ job'[r] \in Items
  BY <1>4 DEF SameFlight, IInv, Types
<1>7. Types'
  <2>1. \A v \in Views' : ViewOK(v)
    BY <1>4, <1>5 DEF Fades
  <2>2. \A n \in DOMAIN tail' : tail'[n].kind = "enqueue" => tail'[n].arg.id = tail'[n].id
    BY <1>3 DEF IInv, Types
  <2> QED
    BY <1>1, <1>3, <1>4, <1>6, <2>1, <2>2 DEF IInv, Types
<1>8. Kept
  <2>1. ASSUME NEW v \in Views'
        PROVE  \E u \in Views : /\ \A r \in Sessions : \A i : Has(v, r, i) => Has(u, r, i)
                                /\ \A r \in Sessions : \A i : Waits(v, r, i) => Waits(u, r, i)
    <3>1. CASE v = disk'
      BY <3>1, <1>5
    <3>2. CASE v = snapshot'
      BY <3>2, <1>4, <1>5 DEF Fades
    <3> QED
      BY <3>1, <3>2, <1>5
  <2>2. \A n \in DOMAIN tail' : \E m \in DOMAIN tail : tail[m] = tail'[n]
    BY <1>3
  <2> QED
    BY <1>1, <1>6, <2>1, <2>2 DEF Kept
<1>9. OneHome' /\ HandedOverGone'
  BY <1>8, KeptMessages
<1>10. SendingGone'
  <2> SUFFICES ASSUME NEW r \in Sessions, pc'[r] = "sending"
               PROVE  Gone(job[r].id)' /\ (~invoked'[r] => accepted'[job'[r].id] = 0)
    BY DEF SendingGone
  <2>1. SameFlight(r)
    BY <1>4
  <2> QED
    BY <1>8, <2>1, KeptMessages DEF SameFlight
<1>11. EnqueuedOnce'
  <2>1. \A r \in Sessions : \A i :
          \/ Has(disk', r, i) => Has(disk, r, i)
          \/ writing # NoWrite /\ (Has(disk', r, i) => Has(writing, r, i))
    OBVIOUS
  <2>2. \A r \in Sessions : \A i : Has(snapshot', r, i) => Has(snapshot, r, i)
    BY <1>4 DEF Fades
  <2> QED
    BY <1>1, <1>3, <1>6, <2>1, <2>2, ShiftedEnqueues
<1>12. FlightAwaits'
  <2>1. \A r \in Sessions : \/ pc'[r] = pc[r] /\ job'[r].id = job[r].id
                            \/ tail[1].kind \in InFlight /\ tail[1].session = r
    BY <1>4 DEF SameFlight, s, t
  <2> QED
    BY <1>3, <2>1, ShiftedFlights
<1>13. BarrierFirst'
  <2> SUFFICES ASSUME NEW r \in Sessions, pc'[r] = "barrier"
               PROVE  accepted[job'[r].id] = 0 /\ First(snapshot', r, job'[r])
    BY <1>1 DEF BarrierFirst
  <2>1. pc[r] = "barrier" /\ job'[r] = job[r]
    BY <1>4 DEF SameFlight
  <2>2. accepted[job[r].id] = 0 /\ First(snapshot, r, job[r])
    BY <2>1 DEF IInv, BarrierFirst
  <2> QED
    BY <1>4, <2>1, <2>2 DEF Fades
<1>14. AwaitsHydration'
  BY <1>1 DEF IInv, AwaitsHydration
<1>15. OrderWritten' /\ BarrierWritten'
  BY <1>1 DEF OrderWritten, BarrierWritten
<1> QED
  BY <1>7, <1>9, <1>10, <1>11, <1>12, <1>13, <1>14, <1>15 DEF IInv

\* send rejects while a transaction of another caller may be running.
LEMMA SendRejectsStep == ASSUME IInv, NEW s \in Sessions, SendRejects(s) PROVE IInv'
<1>1. /\ pc[s] = "sending" /\ Hold(s)
      /\ UNCHANGED <<disk, ready, tail, writing, pausing, owners, context, fresh,
                     accepted, restarts>>
  BY DEF SendRejects, worldVars
<1>2. /\ Fades(snapshot, snapshot') /\ blocked' \subseteq Sessions /\ error' \in BOOLEAN
      /\ pc' \in [Sessions -> Flights \cup {"idle"}]
      /\ job' \in [Sessions -> Items \cup {NoItem}]
      /\ invoked' \in [Sessions -> BOOLEAN]
      /\ pc'[s] = "idle"
      /\ \A r \in Sessions \ {s} : SameFlight(r)
  BY <1>1, HoldStep
<1>3. /\ Views' = {disk, snapshot'} \cup ({writing} \ {NoWrite})
      /\ Views = {disk, snapshot} \cup ({writing} \ {NoWrite})
      /\ \A v \in Views : ViewOK(v)
  BY <1>1 DEF Views, IInv, Types
<1>4. \A r \in Sessions : pc'[r] # "idle" => r # s /\ SameFlight(r)
  BY <1>2
<1>5. Types'
  <2>1. \A v \in Views' : ViewOK(v)
    BY <1>2, <1>3 DEF Fades
  <2>2. \A r \in Sessions : pc'[r] # "idle" => job'[r] \in Items
    BY <1>4 DEF SameFlight, IInv, Types
  <2> QED
    BY <1>1, <1>2, <2>1, <2>2 DEF IInv, Types
<1>6. Kept
  <2>1. ASSUME NEW v \in Views'
        PROVE  \E u \in Views : /\ \A r \in Sessions : \A i : Has(v, r, i) => Has(u, r, i)
                                /\ \A r \in Sessions : \A i : Waits(v, r, i) => Waits(u, r, i)
    <3>1. CASE v = snapshot'
      BY <3>1, <1>2, <1>3 DEF Fades
    <3>2. CASE v \in Views
      BY <3>2
    <3> QED
      BY <3>1, <3>2, <1>3
  <2> QED
    BY <1>1, <1>4, <2>1 DEF Kept, SameFlight
<1>7. OneHome' /\ HandedOverGone'
  BY <1>6, KeptMessages
<1>8. SendingGone'
  <2> SUFFICES ASSUME NEW r \in Sessions, pc'[r] = "sending"
               PROVE  Gone(job[r].id)' /\ (~invoked'[r] => accepted'[job'[r].id] = 0)
    BY DEF SendingGone
  <2>1. SameFlight(r)
    BY <1>4
  <2> QED
    BY <1>6, <2>1, KeptMessages DEF SameFlight
<1>9. \A n \in DOMAIN tail : tail[n].session \in Sessions
  BY TxFields, ElementOfSeq, LenProperties DEF IInv, Types
<1>10. EnqueuedOnce'
  BY <1>1, <1>2, <1>4, <1>9 DEF IInv, EnqueuedOnce, Fades, SameFlight
<1>11. FlightAwaits'
  <2>1. \A n \in DOMAIN tail : tail[n].kind \in InFlight => SameFlight(tail[n].session)
    BY <1>1, <1>2, <1>9 DEF IInv, FlightAwaits, InFlight
  <2> QED
    BY <1>1, <2>1 DEF IInv, FlightAwaits, InFlight, SameFlight
<1>12. BarrierFirst'
  BY <1>1, <1>2, <1>4 DEF IInv, BarrierFirst, Fades, SameFlight
<1>13. OrderWritten' /\ BarrierWritten'
  BY <1>1, <1>2 DEF IInv, OrderWritten, BarrierWritten, Fades
<1>14. AwaitsHydration'
  BY <1>1 DEF IInv, AwaitsHydration
<1> QED
  BY <1>5, <1>7, <1>8, <1>10, <1>11, <1>12, <1>13, <1>14 DEF IInv

\* The message is handed over: it was gone from the queues before.
LEMMA AcceptStep == ASSUME IInv, NEW s \in Sessions, Accept(s) PROVE IInv'
<1> DEFINE i == job[s].id
<1>1. /\ pc[s] = "sending" /\ ~invoked[s]
      /\ invoked' = [invoked EXCEPT ![s] = TRUE]
      /\ accepted' = [accepted EXCEPT ![i] = @ + 1]
      /\ UNCHANGED <<disk, snapshot, ready, error, tail, writing, blocked, pc, job,
                     pausing, owners, context, fresh, restarts>>
  BY DEF Accept
<1>2. /\ i \in Ids /\ accepted \in [Ids -> Nat] /\ invoked \in [Sessions -> BOOLEAN]
      /\ job[s] \in Items
  BY <1>1 DEF IInv, Types, Items
<1>3. Gone(i) /\ accepted[i] = 0
  BY <1>1 DEF IInv, SendingGone
<1>4. Knows(s, i)
  BY <1>1 DEF Knows
<1> HIDE DEF i
<1>5. /\ accepted' \in [Ids -> Nat] /\ accepted'[i] = 1
      /\ \A j \in Ids \ {i} : accepted'[j] = accepted[j]
  BY <1>1, <1>2, <1>3
<1>6. /\ invoked' \in [Sessions -> BOOLEAN] /\ invoked'[s] = TRUE
      /\ \A r \in Sessions \ {s} : invoked'[r] = invoked[r]
  BY <1>1, <1>2
<1>7. i \notin fresh /\ \A r \in Sessions : Knows(r, i) => r = s
  BY <1>2, <1>4 DEF IInv, OneHome
<1>8. Views' = Views
  BY <1>1 DEF Views
<1>9. \A j : Gone(j) => Gone(j)'
  BY <1>1, <1>8 DEF Gone
<1>10. \A r \in Sessions : pc[r] # "idle" => job[r].id \in Ids /\ (job[r].id = i => r = s)
  <2>1. \A r \in Sessions : pc[r] # "idle" => job[r].id \in Ids
    BY DEF IInv, Types, Items
  <2> QED
    BY <1>7, <2>1 DEF Knows
<1>11. Types'
  BY <1>1, <1>5, <1>6, <1>8 DEF IInv, Types
<1>12. OneHome'
  BY <1>1, <1>8 DEF IInv, OneHome, Knows
<1>13. EnqueuedOnce'
  <2>1. ASSUME NEW n \in DOMAIN tail, tail[n].kind = "enqueue"
        PROVE  tail[n].id \in Ids \ {i}
    <3>1. tail[n].id \in Ids
      BY <2>1, TxFields, ElementOfSeq, LenProperties DEF IInv, Types
    <3>2. tail[n].id # i
      BY <1>3, <2>1 DEF Gone, Requeues
    <3> QED
      BY <3>1, <3>2
  <2> QED
    BY <1>1, <1>5, <2>1 DEF IInv, EnqueuedOnce
<1>14. HandedOverGone'
  BY <1>1, <1>3, <1>5, <1>7, <1>9 DEF IInv, HandedOverGone
<1>15. SendingGone'
  <2> SUFFICES ASSUME NEW r \in Sessions, pc[r] = "sending"
               PROVE  Gone(job[r].id)' /\ (~invoked'[r] => accepted'[job[r].id] = 0)
    BY <1>1 DEF SendingGone
  <2>1. Gone(job[r].id) /\ (~invoked[r] => accepted[job[r].id] = 0)
    BY DEF IInv, SendingGone
  <2>2. \A j : j = job[r].id => Gone(j)'
    BY <1>9, <2>1
  <2>3. ~invoked'[r] => accepted'[job[r].id] = 0
    BY <1>5, <1>6, <1>10, <2>1
  <2> QED
    BY <1>1, <2>2, <2>3
<1>16. BarrierFirst'
  BY <1>1, <1>5, <1>10 DEF IInv, BarrierFirst
<1>17. AwaitsHydration' /\ FlightAwaits' /\ OrderWritten' /\ BarrierWritten'
  BY <1>1 DEF IInv, AwaitsHydration, FlightAwaits, OrderWritten, BarrierWritten
<1> QED
  BY <1>11, <1>12, <1>13, <1>14, <1>15, <1>16, <1>17 DEF IInv

\* The turn is over: a message goes back to its queue only if it was not handed over.
LEMMA SendReturnsStep == ASSUME IInv, NEW s \in Sessions, SendReturns(s) PROVE IInv'
<1> DEFINE i == job[s].id
           e == Len(tail) + 1
<1>1. /\ pc[s] = "sending" /\ ready /\ pc' = [pc EXCEPT ![s] = "settle"]
      /\ UNCHANGED <<disk, snapshot, ready, error, writing, blocked, job, invoked,
                     pausing, owners, context, fresh, accepted, restarts>>
  BY DEF SendReturns, Transact, worldVars
<1>2. PICK c \in BOOLEAN :
        tail' = Append(tail, Tx("settle", s, i, CASE invoked[s] /\ c -> "done"
                                                  [] invoked[s] /\ ~c -> "uncertain"
                                                  [] OTHER -> "queued"))
  BY DEF SendReturns, Transact
<1> DEFINE a == CASE invoked[s] /\ c -> "done"
                  [] invoked[s] /\ ~c -> "uncertain"
                  [] OTHER -> "queued"
           t == Tx("settle", s, i, a)
<1>3. a \in {"done", "uncertain", "queued"} /\ (a = "queued" => ~invoked[s])
  <2>1. CASE invoked[s] /\ c
    BY <2>1
  <2>2. CASE invoked[s] /\ ~c
    BY <2>2
  <2>3. CASE ~invoked[s]
    BY <2>3
  <2> QED
    BY <2>1, <2>2, <2>3
<1> HIDE DEF a
<1>4. i \in Ids /\ job[s] \in Items /\ pc \in [Sessions -> Flights \cup {"idle"}]
  BY <1>1 DEF IInv, Types, Items
<1>5. /\ t \in Txs /\ t.kind = "settle" /\ t.session = s /\ t.id = i
      /\ t.arg = "queued" => accepted[i] = 0
  BY <1>1, <1>3, <1>4 DEF Tx, Txs, IInv, SendingGone
<1>6. tail' = Append(tail, t)
  BY <1>2 DEF a
<1> HIDE DEF t
<1>7. /\ tail' \in Seq(Txs) /\ tail' # <<>>
      /\ \A n \in DOMAIN tail' :
           /\ tail'[n].kind = "enqueue" => tail'[n].arg.id = tail'[n].id
           /\ (n \in DOMAIN tail /\ tail'[n] = tail[n])
              \/ (n = e /\ n \notin DOMAIN tail /\ tail'[n] = t)
  BY <1>5, <1>6, CallTyped
<1>8. pc'[s] = "settle" /\ \A r \in Sessions \ {s} : pc'[r] = pc[r]
  BY <1>1, <1>4
<1>9. Views' = Views
  BY <1>1 DEF Views
<1>10. \A r \in Sessions : pc[r] # "idle" /\ job[r].id = i => r = s
  BY <1>1, <1>4 DEF IInv, OneHome, Knows
<1> HIDE DEF i
<1>11. Types'
  <2>1. pc' \in [Sessions -> Flights \cup {"idle"}]
    BY <1>1, <1>4 DEF Flights
  <2>2. \A r \in Sessions : pc'[r] # "idle" => job'[r] \in Items
    BY <1>1, <1>4, <1>8 DEF IInv, Types
  <2> QED
    BY <1>1, <1>7, <1>9, <2>1, <2>2 DEF IInv, Types
<1>12. Kept
  <2>1. ASSUME NEW n \in DOMAIN tail', tail'[n].kind = "enqueue"
        PROVE  \E m \in DOMAIN tail : tail[m] = tail'[n]
    BY <1>5, <1>7, <2>1
  <2>2. ASSUME NEW n \in DOMAIN tail', NEW j \in Ids, Requeues(tail'[n], j)
        PROVE  \/ \E m \in DOMAIN tail : tail[m] = tail'[n]
               \/ /\ accepted[j] = 0
                  /\ \A r \in Sessions : pc'[r] = "sending" => job'[r].id # j
    <3>1. CASE n \in DOMAIN tail /\ tail'[n] = tail[n]
      BY <3>1
    <3>2. CASE tail'[n] = t
      <4>1. j = i /\ accepted[j] = 0
        BY <1>5, <2>2, <3>2 DEF Requeues
      <4> QED
        BY <1>1, <1>8, <1>10, <4>1
    <3> QED
      BY <1>7, <3>1, <3>2
  <2>3. \A r \in Sessions : pc'[r] # "idle" => pc[r] # "idle" /\ job'[r].id = job[r].id
    BY <1>1, <1>8
  <2> QED
    BY <1>1, <1>9, <2>1, <2>2, <2>3 DEF Kept
<1>13. OneHome' /\ HandedOverGone'
  BY <1>12, KeptMessages
<1>14. SendingGone'
  <2> SUFFICES ASSUME NEW r \in Sessions, pc'[r] = "sending"
               PROVE  Gone(job[r].id)' /\ (~invoked'[r] => accepted'[job'[r].id] = 0)
    BY DEF SendingGone
  <2>1. pc[r] = "sending" /\ invoked'[r] = invoked[r]
    BY <1>1, <1>8
  <2> QED
    BY <1>12, <2>1, KeptMessages
<1>15. EnqueuedOnce'
  <2>1. \A n \in DOMAIN tail' : tail'[n].kind = "enqueue" => n \in DOMAIN tail /\ tail'[n] = tail[n]
    BY <1>5, <1>7
  <2>2. \A n \in DOMAIN tail : tail[n].session \in Sessions
    BY TxFields, ElementOfSeq, LenProperties DEF IInv, Types
  <2> QED
    BY <1>1, <1>8, <2>1, <2>2 DEF IInv, EnqueuedOnce
<1>16. FlightAwaits'
  <2>1. \A n \in DOMAIN tail :
          tail[n].kind \in InFlight =>
            /\ tail[n].session \in Sessions \ {s}
            /\ pc[tail[n].session] = IF tail[n].kind = "deliver" THEN "barrier" ELSE "settle"
            /\ job[tail[n].session].id = tail[n].id
            /\ \A m \in DOMAIN tail :
                 tail[m].kind \in InFlight /\ tail[m].session = tail[n].session => m = n
    <3>1. \A n \in DOMAIN tail : tail[n].session \in Sessions
      BY TxFields, ElementOfSeq, LenProperties DEF IInv, Types
    <3> QED
      BY <3>1, <1>1 DEF IInv, FlightAwaits, InFlight
  <2>2. ASSUME NEW n \in DOMAIN tail', tail'[n].kind \in InFlight
        PROVE  /\ pc'[tail'[n].session] = IF tail'[n].kind = "deliver" THEN "barrier" ELSE "settle"
               /\ job'[tail'[n].session].id = tail'[n].id
               /\ \A m \in DOMAIN tail' :
                    tail'[m].kind \in InFlight /\ tail'[m].session = tail'[n].session => m = n
    <3>1. CASE n \in DOMAIN tail /\ tail'[n] = tail[n]
      BY <1>1, <1>5, <1>7, <1>8, <2>1, <2>2, <3>1
    <3>2. CASE n = e /\ n \notin DOMAIN tail /\ tail'[n] = t
      BY <1>1, <1>5, <1>7, <1>8, <2>1, <3>2 DEF i
    <3> QED
      BY <1>7, <3>1, <3>2
  <2> QED
    BY <2>2 DEF FlightAwaits, InFlight
<1>17. BarrierFirst'
  BY <1>1, <1>8 DEF IInv, BarrierFirst
<1>18. OrderWritten' /\ BarrierWritten'
  BY <1>1, <1>5, <1>6, WritingKept
<1>19. AwaitsHydration'
  BY <1>1 DEF AwaitsHydration
<1> QED
  BY <1>11, <1>13, <1>14, <1>15, <1>16, <1>17, <1>18, <1>19 DEF IInv

\* Nothing is under way, and no view is newer than before: the application has
\* ended (Restart) or reads the storage (Hydrate).
LEMMA EmptyHanded ==
    ASSUME IInv, tail' = <<>>, writing' = NoWrite,
           \A s \in Sessions : pc'[s] = "idle",
           \A v \in Views' :
             /\ ViewOK(v)
             /\ \E u \in Views : /\ \A s \in Sessions : \A i : Has(v, s, i) => Has(u, s, i)
                                 /\ \A s \in Sessions : \A i : Waits(v, s, i) => Waits(u, s, i),
           ready' \in BOOLEAN, error' \in BOOLEAN, owners' \in BOOLEAN,
           blocked' \subseteq Sessions, pausing' \subseteq Sessions,
           pc' \in [Sessions -> Flights \cup {"idle"}],
           job' \in [Sessions -> Items \cup {NoItem}],
           invoked' \in [Sessions -> BOOLEAN],
           UNCHANGED <<context, fresh, accepted>>, restarts' \in 0 .. MaxRestarts,
           ~ready' => \A s \in Sessions : snapshot'[s] = NoQueue
    PROVE  IInv'
<1>1. DOMAIN tail' = {} /\ tail' \in Seq(Txs)
  <2>1. <<>> \in Seq(Txs) /\ Len(<<>>) = 0
    BY EmptySeq
  <2>2. DOMAIN tail' = 1 .. 0
    BY <2>1, LenProperties
  <2> QED
    BY <2>1, <2>2
<1>2. Types'
  BY <1>1 DEF IInv, Types
<1>3. Kept
  BY <1>1 DEF Kept
<1>4. OneHome' /\ HandedOverGone'
  BY <1>3, KeptMessages
<1>5. SendingGone' /\ BarrierFirst' /\ OrderWritten' /\ BarrierWritten'
  BY DEF SendingGone, BarrierFirst, OrderWritten, BarrierWritten
<1>6. EnqueuedOnce' /\ FlightAwaits'
  BY <1>1 DEF EnqueuedOnce, FlightAwaits
<1>7. AwaitsHydration'
  BY DEF AwaitsHydration
<1> QED
  BY <1>2, <1>4, <1>5, <1>6, <1>7 DEF IInv

\* The queues of a class that has not been hydrated.
LEMMA NoQueues ==
    ASSUME NEW v, v = [s \in Sessions |-> NoQueue]
    PROVE  /\ ViewOK(v)
           /\ \A s \in Sessions : \A i : ~Has(v, s, i) /\ ~Waits(v, s, i)
<1>1. \A s \in Sessions : ItemsOf(v, s) = <<>>
  BY DEF ItemsOf
<1>2. \A i : i \notin DOMAIN <<>>
  <2>1. Len(<<>>) = 0 /\ <<>> \in Seq(Items)
    BY EmptySeq
  <2>2. DOMAIN <<>> = 1 .. 0
    BY <2>1, LenProperties
  <2> QED
    BY <2>2
<1> QED
  BY <1>1, <1>2 DEF ViewOK, Has, Waits, InState

\* The application ends, perhaps in the middle of a write.
LEMMA RestartStep == ASSUME IInv, Restart PROVE IInv'
<1>1. /\ disk' \in {disk} \cup ({writing} \ {NoWrite})
      /\ snapshot' = [s \in Sessions |-> NoQueue]
      /\ ready' = FALSE /\ error' = FALSE
      /\ tail' = <<>> /\ writing' = NoWrite /\ blocked' = {}
      /\ pc' = [s \in Sessions |-> "idle"] /\ job' = [s \in Sessions |-> NoItem]
      /\ invoked' = [s \in Sessions |-> FALSE]
      /\ pausing' = {} /\ owners' = TRUE
      /\ restarts < MaxRestarts /\ restarts' = restarts + 1
      /\ UNCHANGED <<context, fresh, accepted>>
  BY DEF Restart
<1>2. Views' = {disk', snapshot'} /\ disk' \in Views /\ disk \in Views
  BY <1>1 DEF Views
<1>3. ASSUME NEW v \in Views'
      PROVE  /\ ViewOK(v)
             /\ \E u \in Views : /\ \A s \in Sessions : \A i : Has(v, s, i) => Has(u, s, i)
                                 /\ \A s \in Sessions : \A i : Waits(v, s, i) => Waits(u, s, i)
  <2>1. CASE v = disk'
    BY <2>1, <1>2 DEF IInv, Types
  <2>2. CASE v = snapshot'
    BY <2>2, <1>1, <1>2, NoQueues
  <2> QED
    BY <1>2, <2>1, <2>2
<1>4. restarts' \in 0 .. MaxRestarts
  BY <1>1, OutboxAssumption DEF IInv, Types
<1>5. \A s \in Sessions : snapshot'[s] = NoQueue /\ pc'[s] = "idle"
  BY <1>1
<1>6. /\ pc' \in [Sessions -> Flights \cup {"idle"}]
      /\ job' \in [Sessions -> Items \cup {NoItem}] /\ invoked' \in [Sessions -> BOOLEAN]
  BY <1>1
<1> QED
  BY <1>1, <1>3, <1>4, <1>5, <1>6, EmptyHanded

\* hydrate holds every queue.
LEMMA HydrateStep == ASSUME IInv, Hydrate PROVE IInv'
<1> DEFINE next == [s \in Sessions |-> IF disk[s] = NoQueue THEN NoQueue ELSE Restored(disk[s])]
<1>1. /\ ~ready /\ tail = <<>> /\ writing = NoWrite
      /\ \A s \in Sessions : pc[s] = "idle" /\ snapshot[s] = NoQueue
      /\ UNCHANGED <<tail, writing, blocked, pc, job, invoked, pausing, owners, context,
                     fresh, accepted, restarts>>
  BY DEF Hydrate, IInv, AwaitsHydration, worldVars
<1>2. \/ /\ disk' = next /\ snapshot' = next
         /\ ready' = TRUE /\ error' = FALSE
      \/ /\ disk' \in {disk, next}
         /\ error' = TRUE
         /\ UNCHANGED <<snapshot, ready>>
  BY DEF Hydrate
<1>3. Views = {disk, snapshot} /\ \A v \in Views : ViewOK(v)
  BY <1>1 DEF Views, IInv, Types
<1>4. Fades(disk, next)
  BY <1>3, RestoredView
<1> HIDE DEF next
<1>5. Views' \subseteq {disk, snapshot, next}
  BY <1>1, <1>2 DEF Views
<1>6. ASSUME NEW v \in Views'
      PROVE  /\ ViewOK(v)
             /\ \E u \in Views : /\ \A s \in Sessions : \A i : Has(v, s, i) => Has(u, s, i)
                                 /\ \A s \in Sessions : \A i : Waits(v, s, i) => Waits(u, s, i)
  <2>1. CASE v = next
    BY <2>1, <1>3, <1>4 DEF Fades
  <2>2. CASE v \in Views
    BY <2>2, <1>3
  <2> QED
    BY <1>3, <1>5, <2>1, <2>2
<1>7. ready' \in BOOLEAN /\ error' \in BOOLEAN
  BY <1>2 DEF IInv, Types
<1>8. ~ready' => \A s \in Sessions : snapshot'[s] = NoQueue
  BY <1>1, <1>2
<1>9. /\ owners' \in BOOLEAN /\ blocked' \subseteq Sessions /\ pausing' \subseteq Sessions
      /\ pc' \in [Sessions -> Flights \cup {"idle"}]
      /\ job' \in [Sessions -> Items \cup {NoItem}] /\ invoked' \in [Sessions -> BOOLEAN]
      /\ restarts' \in 0 .. MaxRestarts
  BY <1>1 DEF IInv, Types
<1> QED
  BY <1>1, <1>6, <1>7, <1>8, <1>9, EmptyHanded
-----------------------------------------------------------------------------
(* The theorems *)

\* An application that starts for the first time.
LEMMA InitInv == Init => IInv
<1> SUFFICES ASSUME Init PROVE IInv
  OBVIOUS
<1>1. Views = {disk} /\ disk = [s \in Sessions |-> NoQueue] /\ snapshot = disk
      /\ tail = <<>> /\ writing = NoWrite
      /\ accepted = [i \in Ids |-> 0] /\ pc = [s \in Sessions |-> "idle"]
  BY DEF Init, Views
<1>2. ViewOK(disk) /\ \A s \in Sessions : \A i : ~Has(disk, s, i) /\ ~Waits(disk, s, i)
  BY <1>1, NoQueues
<1>3. tail \in Seq(Txs) /\ DOMAIN tail = {}
  <2>1. <<>> \in Seq(Txs) /\ Len(<<>>) = 0
    BY EmptySeq
  <2>2. DOMAIN tail = 1 .. 0
    BY <1>1, <2>1, LenProperties
  <2> QED
    BY <1>1, <2>1, <2>2
<1>4. Types
  <2>1. \A v \in Views : ViewOK(v)
    BY <1>1, <1>2
  <2>2. restarts \in 0 .. MaxRestarts
    BY OutboxAssumption DEF Init
  <2>3. /\ accepted \in [Ids -> Nat] /\ pc \in [Sessions -> Flights \cup {"idle"}]
        /\ job \in [Sessions -> Items \cup {NoItem}] /\ invoked \in [Sessions -> BOOLEAN]
        /\ \A s \in Sessions : pc[s] = "idle"
    BY DEF Init
  <2> QED
    BY <1>1, <1>3, <2>1, <2>2, <2>3 DEF Init, Types
<1>5. OneHome
  BY <1>1, <1>2, <1>3 DEF OneHome, Knows
<1>6. HandedOverGone
  BY <1>1 DEF HandedOverGone
<1>7. EnqueuedOnce /\ FlightAwaits
  BY <1>3 DEF EnqueuedOnce, FlightAwaits
<1>8. AwaitsHydration /\ SendingGone /\ BarrierFirst /\ OrderWritten /\ BarrierWritten
  BY <1>1 DEF AwaitsHydration, SendingGone, BarrierFirst, OrderWritten, BarrierWritten
<1> QED
  BY <1>4, <1>5, <1>6, <1>7, <1>8 DEF IInv

\* Every step keeps the invariant.
LEMMA NextInv == ASSUME IInv, [Next]_vars PROVE IInv'
<1>1. CASE TxThrows
  BY <1>1, RejectStep DEF TxThrows
<1>2. CASE TxFails
  <2>1. tail # <<>> /\ (disk' = disk \/ (writing # NoWrite /\ disk' = writing)) /\ Reject
    BY <1>2 DEF TxFails, IInv, Types
  <2> QED
    BY <2>1, RejectStep
<1>3. CASE TxBegin \/ TxCommits \/ Restart \/ Hydrate
  BY <1>3, TxBeginStep, TxCommitsStep, RestartStep, HydrateStep
<1>4. CASE LeaveWorkspace \/ EnterWorkspace \/ UNCHANGED vars
  BY <1>4, QuietActions
<1>5. ASSUME NEW s \in Sessions,
             \/ Dispatch(s) \/ BarrierPassed(s)
             \/ Accept(s) \/ SendReturns(s) \/ SendRejects(s) \/ Settled(s)
      PROVE  IInv'
  BY <1>5, DispatchStep, BarrierPassedStep, AcceptStep, SendReturnsStep, SendRejectsStep,
     SettledStep
<1>6. ASSUME NEW s \in Sessions,
             \/ PauseQueue(s) \/ ResumeQueue(s)
             \/ \E k \in Contexts : ChangeContext(s, k)
             \/ \E i \in Ids : Remove(s, i) \/ \E x \in Texts : Edit(s, i, x)
      PROVE  IInv'
  BY <1>6, QuietActions
<1>7. ASSUME NEW s \in Sessions, NEW i \in Ids, NEW x \in Texts, Enqueue(s, i, x)
      PROVE  IInv'
  BY <1>7, EnqueueStep
<1> QED
  BY <1>1, <1>2, <1>3, <1>4, <1>5, <1>6, <1>7 DEF Next

\* The invariant says what the types of the model say.
LEMMA TypesImply == IInv => TypeOK
<1> SUFFICES ASSUME IInv PROVE TypeOK
  OBVIOUS
<1>1. ASSUME NEW v, ViewOK(v) PROVE QueuesOK(v)
  BY <1>1 DEF ViewOK, QueueOK, Queues, QueuesOK
<1>2. /\ ViewOK(disk) /\ ViewOK(snapshot) /\ (writing # NoWrite => ViewOK(writing))
  BY DEF IInv, Types, Views
<1>3. \A n \in DOMAIN tail : tail[n].session \in Sessions
  BY TxFields, ElementOfSeq, LenProperties DEF IInv, Types
<1> QED
  BY <1>1, <1>2, <1>3 DEF IInv, Types, TypeOK

\* The invariant holds throughout.
THEOREM Invariance == Spec => []IInv
<1>1. IInv /\ [Next]_vars => IInv'
  BY NextInv
<1> QED
  BY InitInv, <1>1, PTL DEF Spec

\* Every queue, on disk, in memory and being written, holds at most `Capacity`
\* messages and each message once, whatever fails (enqueue, hydrate, transact).
THEOREM TypeCorrect == Spec => []TypeOK
  BY Invariance, TypesImply, PTL

\* A message reaches the agent at most once, across failed writes, failed turns and
\* restarts: when it is handed over nothing in the outbox can bring it back to a
\* dispatch (HandedOverGone), because `delivering` was on record first (SendingGone).
THEOREM AtMostOnce == Spec => []HandedOverOnce
<1>1. IInv => HandedOverOnce
  <2> SUFFICES ASSUME IInv, NEW i \in Ids PROVE accepted[i] <= 1
    BY DEF HandedOverOnce
  <2>1. accepted[i] \in {0, 1}
    BY DEF IInv, HandedOverGone
  <2> QED
    BY <2>1
<1> QED
  BY Invariance, <1>1, PTL

\* The step that passes the barrier hands over the head of the queue it has written,
\* as it stands there, and in the context of the session.
LEMMA BarrierHandsHead ==
    ASSUME IInv, NEW s \in Sessions, BarrierPassed(s), pc'[s] = "sending"
    PROVE  Head(disk'[s].items) = job'[s] /\ job'[s].context = context[s]
<1> DEFINE items == writing[s].items
           k == Position(items, job[s].id)
<1>1. /\ Committed /\ Head(tail).kind = "deliver" /\ Head(tail).session = s
      /\ disk' = writing /\ writing # NoWrite
  BY DEF BarrierPassed, Running, Committed
<1>2. /\ tail # <<>> /\ tail \in Seq(Txs) /\ ViewOK(writing)
      /\ pc \in [Sessions -> Flights \cup {"idle"}]
      /\ job \in [Sessions -> Items \cup {NoItem}]
  BY <1>1 DEF IInv, Types, Views
<1>3. 1 \in DOMAIN tail /\ tail[1].kind = "deliver" /\ tail[1].session = s
  BY <1>1, <1>2, HeadAndTail
<1>4. pc[s] = "barrier" /\ job[s] \in Items /\ Has(writing, s, job[s].id)
  BY <1>1, <1>3, BarrierGone
<1>5. job[s].context = context[s] /\ job' = [job EXCEPT ![s] = items[k]]
  <2>1. ~(pc' = [pc EXCEPT ![s] = "settle"])
    BY <1>2
  <2> QED
    BY <2>1 DEF BarrierPassed
<1>6. /\ writing[s] # NoQueue /\ ItemsOf(writing, s) = items
      /\ k \in DOMAIN items /\ items[k].id = job[s].id
  BY <1>2, <1>4, ReadAgain
<1>7. First(writing, s, job[s])
  <2>1. First(snapshot, s, job[s])
    BY <1>4 DEF IInv, BarrierFirst
  <2> QED
    BY <1>1, <1>3, <1>4, <2>1 DEF IInv, OrderWritten
<1>8. items \in Seq(Items)
  BY <1>2, <1>6 DEF ViewOK, QueueOK, Queues
<1> HIDE DEF k
<1>9. k = 1 /\ items[k].context = job[s].context
  BY <1>6, <1>7 DEF First
<1>10. job'[s] = items[1]
  BY <1>2, <1>5, <1>9
<1>11. Head(items) = items[1]
  <2> HIDE DEF items
  <2> QED
    BY <1>6, <1>8, <1>9, HeadTailProperties
<1> QED
  BY <1>1, <1>5, <1>9, <1>10, <1>11

\* No other step begins a sending.
LEMMA OnlyBarrierSends ==
    ASSUME IInv, [Next]_vars, NEW s \in Sessions, pc[s] # "sending", pc'[s] = "sending"
    PROVE  BarrierPassed(s)
<1>1. pc \in [Sessions -> Flights \cup {"idle"}]
  BY DEF IInv, Types
<1>2. ASSUME NEW r \in Sessions, Hold(r) PROVE FALSE
  BY <1>1, <1>2 DEF Hold
<1>3. CASE TxBegin \/ TxThrows \/ TxFails \/ TxCommits
  <2>1. ASSUME Reject PROVE FALSE
    <3>1. tail # <<>> => Running.session \in Sessions
      BY HeadAndTail, TxFields DEF Running, IInv, Types
    <3>2. tail # <<>>
      BY <1>3, <2>1 DEF TxBegin, TxThrows, TxFails, TxCommits, Committed, IInv, Types
    <3> QED
      BY <2>1, <3>1, <3>2, <1>2 DEF Reject
  <2> QED
    BY <1>3, <2>1 DEF TxBegin, TxThrows, TxFails, TxCommits
<1>4. CASE Restart \/ Hydrate \/ LeaveWorkspace \/ EnterWorkspace \/ UNCHANGED vars
  BY <1>4 DEF Restart, Hydrate, LeaveWorkspace, EnterWorkspace, vars, memoryVars
<1>5. ASSUME NEW r \in Sessions,
             \/ Dispatch(r) \/ Accept(r) \/ SendReturns(r) \/ Settled(r)
             \/ PauseQueue(r) \/ ResumeQueue(r)
             \/ \E k \in Contexts : ChangeContext(r, k)
             \/ \E i \in Ids : \/ \E x \in Texts : Enqueue(r, i, x) \/ Edit(r, i, x)
                               \/ Remove(r, i)
      PROVE  FALSE
  BY <1>1, <1>5 DEF Dispatch, Accept, SendReturns, Settled, PauseQueue, ResumeQueue,
     ChangeContext, memoryVars, Enqueue, Edit, Remove
<1>6. ASSUME NEW r \in Sessions, SendRejects(r) PROVE FALSE
  BY <1>2, <1>6 DEF SendRejects
<1>7. ASSUME NEW r \in Sessions, BarrierPassed(r) PROVE r = s
  BY <1>1, <1>7 DEF BarrierPassed
<1> QED
  BY <1>3, <1>4, <1>5, <1>6, <1>7 DEF Next

\* What goes to the agent is the head of the durable queue, as last edited, in the
\* context it was written for: neither an edit, a removal nor another transaction
\* between the dispatch and its barrier can put another message there.
THEOREM HeadHandedOver == Spec => HandsOverHead
<1>1. ASSUME IInv, [Next]_vars, NEW s \in Sessions, pc[s] # "sending", pc'[s] = "sending"
      PROVE  Head(disk'[s].items) = job'[s] /\ job'[s].context = context[s]
  <2>1. BarrierPassed(s)
    BY <1>1, OnlyBarrierSends
  <2> QED
    BY <1>1, <2>1, BarrierHandsHead
<1>2. IInv /\ [Next]_vars =>
        [\A s \in Sessions :
           pc[s] # "sending" /\ pc'[s] = "sending" =>
             /\ Head(disk'[s].items) = job'[s]
             /\ job'[s].context = context[s]]_vars
  BY <1>1
<1> QED
  BY Invariance, <1>2, PTL DEF Spec, HandsOverHead

=============================================================================
