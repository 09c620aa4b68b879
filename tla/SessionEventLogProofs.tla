------------------------ MODULE SessionEventLogProofs ------------------------
(***************************************************************************)
(* The promises of the session event log, proved for any number of         *)
(* concurrent writers, attempts and prunes.  The invariant has two parts:  *)
(* what always holds, and what holds until a prune frees numbers.          *)
(***************************************************************************)
EXTENDS SessionEventLog, WellFoundedInduction, TLAPS

Places == {"select", "insert", "commit", "done", "failed", "unknown"}
Trying == {"select", "insert", "commit"}
Calls == [pc: Places, seq: Nat, tries: 0 .. MaxTries]

\* Numbers in the log are at most the highest one ever given.
UpToHigh == Seqs \subseteq 1 .. high

\* A call that is not over has attempts left, and numbers start at 1.
AttemptsLeft ==
    \A w \in Writers :
        /\ writer[w].pc \in Trying => writer[w].tries < MaxTries
        /\ writer[w].pc \in {"insert", "commit"} => writer[w].seq # 0
        /\ writer[w].pc = "failed" => writer[w].tries = MaxTries

\* The unique index: a number that is about to be committed is in no row, and
\* no other call is about to commit it.
OneCommitPerNumber ==
    \A w \in Writers : writer[w].pc = "commit" =>
        /\ writer[w].seq \notin Seqs
        /\ \A v \in Writers : writer[v].pc = "commit" /\ writer[v].seq = writer[w].seq => v = w

\* A call that has an event in the log does not append it again.
AppendedIsOver == \A r \in rows : writer[r.event].pc \in {"done", "unknown"}

Always == TypeOK /\ UpToHigh /\ AttemptsLeft /\ OneCommitPerNumber /\ AppendedIsOver

\* Without a prune the numbers in use are the first ones, without a gap.
Dense == Seqs = 1 .. high

\* Then a number that is about to be inserted is in use or the next one, and
\* each failed attempt has seen another event appended.
NumbersInOrder ==
    \A w \in Writers :
        /\ writer[w].tries <= high
        /\ writer[w].pc = "insert" => writer[w].seq \in 1 .. high + 1 /\ writer[w].tries < writer[w].seq
        /\ writer[w].pc = "commit" => writer[w].seq = high + 1

\* Then the worker's cursor is not ahead of the log and has skipped nothing.
CursorBehind == cursor <= high /\ \A r \in rows : r.seq <= cursor => r.event \in seen

Unpruned == Dense /\ NumbersInOrder /\ CursorBehind

IInv == Always /\ (prunes = 0 => Unpruned)

-----------------------------------------------------------------------------
\* A non-empty set of numbers up to h has a greatest one.
LEMMA MaxExists ==
    ASSUME NEW h \in Nat, NEW S, S \subseteq 0 .. h, S # {}
    PROVE  \E n \in S : \A m \in S : m <= n
<1> DEFINE T == {h - s : s \in S}
           R == OpToRel(LAMBDA x, y : x < y, Nat)
<1>1. IsWellFoundedOn(R, Nat)
  BY NatLessThanWellFounded
<1>2. T \subseteq Nat /\ T # {}
  <2>1. PICK s \in S : TRUE
    OBVIOUS
  <2>2. h - s \in T
    OBVIOUS
  <2>3. \A t \in S : h - t \in Nat
    OBVIOUS
  <2> QED
    BY <2>2, <2>3
<1>3. PICK x \in T : \A y \in T : ~ (<<y, x>> \in R)
  BY <1>1, <1>2, WFMin
<1>4. PICK n \in S : x = h - n
  OBVIOUS
<1>5. \A y \in T : ~ (y < x)
  BY <1>2, <1>3 DEF OpToRel
<1>6. ASSUME NEW m \in S PROVE m <= n
  <2>1. ~ (h - m < h - n)
    BY <1>4, <1>5
  <2> QED
    BY <2>1
<1> QED
  BY <1>6

\* MAX(seq) is a number up to the highest one ever given.
LEMMA LatestBounded == ASSUME high \in Nat, UpToHigh PROVE LatestSeq \in 0 .. high
<1>1. Seqs \cup {0} \subseteq 0 .. high /\ Seqs \cup {0} # {}
  BY DEF UpToHigh
<1>2. \E n \in Seqs \cup {0} : \A m \in Seqs \cup {0} : m <= n
  BY <1>1, MaxExists, Zenon
<1>3. \E n \in Seqs \cup {0} : \A m \in Seqs : m <= n
  BY <1>2
<1>4. LatestSeq \in Seqs \cup {0}
  BY <1>3, Zenon DEF LatestSeq
<1> QED
  BY <1>1, <1>4

\* Without a gap it is that highest number (the SELECT of append).
LEMMA LatestIsHigh == ASSUME high \in Nat, Dense PROVE LatestSeq = high
<1>1. /\ high \in Seqs \cup {0}
      /\ \A m \in Seqs : m <= high
  BY DEF Dense
<1>2. \A n \in Seqs \cup {0} : (\A m \in Seqs : m <= n) => n = high
  BY DEF Dense
<1> QED
  BY <1>1, <1>2 DEF LatestSeq

\* The cursor of a wake is a number up to the highest one (latest_seq in
\* session_wake.py).
LEMMA CursorBounded ==
    ASSUME high \in Nat, UpToHigh, NEW new \in SUBSET rows
    PROVE  WakeCursor(new) \in 0 .. high
<1>1. CASE new = {}
  BY <1>1 DEF WakeCursor
<1>2. CASE new # {}
  <2> DEFINE S == {r.seq : r \in new}
  <2>1. S \subseteq 0 .. high /\ S # {}
    <3>1. PICK r \in new : TRUE
      BY <1>2
    <3>2. r.seq \in S
      OBVIOUS
    <3>3. \A x \in new : x.seq \in Seqs
      BY DEF Seqs
    <3>4. \A n \in Seqs : n \in 0 .. high
      BY DEF UpToHigh
    <3>5. \A x \in new : x.seq \in 0 .. high
      BY <3>3, <3>4
    <3>6. S \subseteq 0 .. high
      BY <3>5
    <3>7. S # {}
      BY <3>2
    <3> QED
      BY <3>6, <3>7
  <2>2. \E n \in S : \A m \in S : m <= n
    BY <2>1, MaxExists, Zenon
  <2>3. \E n \in S : \A r \in new : r.seq <= n
    BY <2>2
  <2>4. WakeCursor(new) = CHOOSE n \in S : \A r \in new : r.seq <= n
    BY <1>2, Zenon DEF WakeCursor
  <2>5. WakeCursor(new) \in S
    BY <2>3, <2>4, Zenon
  <2> QED
    BY <2>1, <2>5
<1> QED
  BY <1>1, <1>2

\* The empty log satisfies the invariant.
LEMMA InitIInv == Init => IInv
<1> SUFFICES ASSUME Init PROVE IInv
  OBVIOUS
<1> USE LogAssumption DEF Init
<1>1. Seqs = {}
  BY DEF Seqs
<1>2. TypeOK
  BY DEF TypeOK
<1>3. UpToHigh /\ AttemptsLeft /\ OneCommitPerNumber /\ AppendedIsOver
  BY <1>1 DEF UpToHigh, AttemptsLeft, Trying, OneCommitPerNumber, AppendedIsOver
<1>4. Dense
  BY <1>1 DEF Dense
<1>5. NumbersInOrder /\ CursorBehind
  BY DEF NumbersInOrder, CursorBehind
<1> QED
  BY <1>2, <1>3, <1>4, <1>5 DEF IInv, Always, Unpruned

-----------------------------------------------------------------------------
\* Every step keeps the part that holds with and without prunes.
LEMMA NextAlways == ASSUME Always, [Next]_vars PROVE Always'
<1> USE LogAssumption DEF Always
<1>1. writer \in [Writers -> Calls] /\ high \in Nat
  BY DEF TypeOK, Calls, Places
<1>2. ASSUME writer' \in [Writers -> Calls], UNCHANGED <<rows, high, cursor, seen, prunes>>
      PROVE  TypeOK' /\ UpToHigh'
  <2>1. TypeOK'
    BY <1>2 DEF TypeOK, Calls, Places
  <2>2. UpToHigh'
    BY <1>2 DEF UpToHigh, Seqs
  <2> QED
    BY <2>1, <2>2
<1>3. ASSUME NEW w \in Writers, Select(w) PROVE Always'
  <2> USE <1>3 DEF Select
  <2>1. LatestSeq + 1 \in Nat \ {0}
    BY <1>1, LatestBounded
  <2>2. [writer[w] EXCEPT !.pc = "insert", !.seq = LatestSeq + 1] \in Calls
    BY <1>1, <2>1 DEF Calls, Places
  <2>3. writer' = [writer EXCEPT ![w] = [@ EXCEPT !.pc = "insert", !.seq = LatestSeq + 1]]
    BY <1>1
  <2>4. writer' \in [Writers -> Calls]
    BY <1>1, <2>2, <2>3
  <2>5. /\ writer'[w].pc = "insert" /\ writer'[w].seq = LatestSeq + 1 /\ writer'[w].tries = writer[w].tries
        /\ \A v \in Writers \ {w} : writer'[v] = writer[v]
    BY <1>1 DEF Calls
  <2>6. AttemptsLeft'
    BY <2>1, <2>5 DEF AttemptsLeft, Trying
  <2>7. OneCommitPerNumber' /\ AppendedIsOver'
    BY <2>5 DEF OneCommitPerNumber, AppendedIsOver, Seqs, TypeOK
  <2> QED
    BY <1>2, <2>4, <2>6, <2>7
<1>4. ASSUME NEW w \in Writers, Insert(w), writer' = Retry(w) PROVE Always'
  <2> USE <1>4 DEF Insert, Retry
  <2>1. writer[w].tries + 1 \in 0 .. MaxTries
    BY <1>1 DEF AttemptsLeft, Trying, Calls
  <2>2. writer' \in [Writers -> Calls]
    BY <1>1, <2>1 DEF Calls, Places
  <2>3. AttemptsLeft'
    BY <1>1, <2>1 DEF AttemptsLeft, Trying, Calls
  <2>4. OneCommitPerNumber' /\ AppendedIsOver'
    BY <1>1 DEF OneCommitPerNumber, AppendedIsOver, Seqs, TypeOK
  <2> QED
    BY <1>2, <2>2, <2>3, <2>4
<1>5. ASSUME NEW w \in Writers, Insert(w), writer[w].seq \notin Seqs,
             writer' = [writer EXCEPT ![w].pc = "commit"]
      PROVE  Always'
  <2> USE <1>5 DEF Insert
  <2>1. writer' \in [Writers -> Calls]
    BY <1>1 DEF Calls, Places
  <2>2. AttemptsLeft'
    BY <1>1 DEF AttemptsLeft, Trying, Calls
  <2>3. OneCommitPerNumber'
    BY <1>1 DEF OneCommitPerNumber, Waits, Seqs, Calls
  <2>4. AppendedIsOver'
    BY <1>1 DEF AppendedIsOver, TypeOK
  <2> QED
    BY <1>2, <2>1, <2>2, <2>3, <2>4
<1>6. ASSUME NEW w \in Writers, Commit(w) PROVE Always'
  <2> USE <1>6 DEF Commit
  <2>1. PICK end \in {"done", "unknown"} : writer' = [writer EXCEPT ![w].pc = end]
    OBVIOUS
  <2>2. /\ writer[w].seq \in Nat \ {0} /\ high' \in Nat /\ high' >= high /\ high' >= writer[w].seq
    BY <1>1 DEF AttemptsLeft, Calls
  <2>3. [seq |-> writer[w].seq, event |-> w] \in [seq: Nat \ {0}, event: Writers]
    BY <2>2
  <2>4. writer' \in [Writers -> Calls]
    BY <1>1, <2>1 DEF Calls, Places
  <2>5. TypeOK'
    BY <2>2, <2>3, <2>4 DEF TypeOK, Calls, Places
  <2>6. Seqs' = Seqs \cup {writer[w].seq}
    <3>1. [seq |-> writer[w].seq, event |-> w].seq = writer[w].seq
      OBVIOUS
    <3>2. \A n : n \in Seqs' <=> n \in Seqs \/ n = writer[w].seq
      BY <3>1, Zenon DEF Seqs
    <3> QED
      BY <3>2
  <2>7. UpToHigh'
    BY <1>1, <2>2, <2>6 DEF UpToHigh
  <2>8. AttemptsLeft'
    BY <1>1, <2>1 DEF AttemptsLeft, Trying, Calls
  <2>9. OneCommitPerNumber'
    BY <1>1, <2>1, <2>6 DEF OneCommitPerNumber, Calls
  <2>10. AppendedIsOver'
    BY <1>1, <2>1 DEF AppendedIsOver, TypeOK
  <2> QED
    BY <2>5, <2>7, <2>8, <2>9, <2>10
<1>7. ASSUME NEW w \in Writers, Abort(w) PROVE Always'
  <2> USE <1>7 DEF Abort
  <2>1. writer' \in [Writers -> Calls]
    BY <1>1 DEF Calls, Places
  <2>2. AttemptsLeft'
    BY <1>1 DEF AttemptsLeft, Trying, Calls
  <2>3. OneCommitPerNumber' /\ AppendedIsOver'
    BY <1>1 DEF OneCommitPerNumber, AppendedIsOver, Seqs, TypeOK
  <2> QED
    BY <1>2, <2>1, <2>2, <2>3
<1>8. CASE Wake
  <2> DEFINE new == {r \in rows : r.seq > cursor}
  <2>1. cursor' = WakeCursor(new) /\ new \in SUBSET rows /\ seen' = seen \cup {r.event : r \in new}
        /\ UNCHANGED <<rows, writer, high, prunes>>
    BY <1>8 DEF Wake
  <2>2. cursor' \in Nat
    <3>1. WakeCursor(new) \in 0 .. high
      BY <1>1, <2>1, CursorBounded
    <3> QED
      BY <1>1, <2>1, <3>1
  <2>3. TypeOK'
    BY <2>1, <2>2 DEF TypeOK
  <2>4. UpToHigh' /\ AttemptsLeft' /\ OneCommitPerNumber' /\ AppendedIsOver'
    BY <2>1 DEF UpToHigh, AttemptsLeft, OneCommitPerNumber, AppendedIsOver, Seqs
  <2> QED
    BY <2>3, <2>4
<1>9. CASE Prune
  <2> USE <1>9 DEF Prune
  <2>1. rows' \subseteq rows /\ Seqs' \subseteq Seqs
    BY DEF Seqs
  <2>2. TypeOK'
    BY <2>1 DEF TypeOK
  <2>3. UpToHigh' /\ AttemptsLeft' /\ OneCommitPerNumber' /\ AppendedIsOver'
    BY <2>1 DEF UpToHigh, AttemptsLeft, OneCommitPerNumber, AppendedIsOver
  <2> QED
    BY <2>2, <2>3
<1>10. CASE UNCHANGED vars
  BY <1>1, <1>2, <1>10 DEF vars, AttemptsLeft, OneCommitPerNumber, AppendedIsOver, Seqs
<1>11. ASSUME NEW w \in Writers, Insert(w) PROVE Always'
  BY <1>4, <1>5, <1>11 DEF Insert
<1> QED
  BY <1>3, <1>6, <1>7, <1>8, <1>9, <1>10, <1>11 DEF Next, WriterStep

\* A wake that finds something new moves the cursor to the end of the log
\* (latest_seq in session_wake.py).
LEMMA WakeReadsAll ==
    ASSUME TypeOK, Dense, NEW new, new = {r \in rows : r.seq > cursor}
    PROVE  WakeCursor(new) = IF new = {} THEN 0 ELSE high
<1>1. CASE new = {}
  BY <1>1 DEF WakeCursor
<1>2. CASE new # {}
  <2>1. PICK r \in new : TRUE
    BY <1>2
  <2>2. r \in rows /\ r.seq \in 1 .. high /\ r.seq > cursor
    BY <2>1 DEF Dense, Seqs
  <2>3. high \in Seqs /\ high > cursor
    BY <2>2 DEF Dense, TypeOK
  <2>4. high \in {x.seq : x \in new}
    BY <2>3 DEF Seqs
  <2>5. \A x \in new : x.seq \in 1 .. high
    BY DEF Dense, Seqs
  <2>6. \A n \in {x.seq : x \in new} : (\A x \in new : x.seq <= n) => n = high
    BY <2>4, <2>5 DEF TypeOK
  <2> DEFINE top == CHOOSE n \in {x.seq : x \in new} : \A x \in new : x.seq <= n
  <2>7. \A x \in new : x.seq <= high
    BY <2>5 DEF TypeOK
  <2>8. top \in {x.seq : x \in new} /\ \A x \in new : x.seq <= top
    BY <2>4, <2>7, Zenon
  <2>9. top = high
    BY <2>6, <2>8
  <2>10. WakeCursor(new) = top
    BY <1>2, Zenon DEF WakeCursor
  <2> QED
    BY <1>2, <2>9, <2>10
<1> QED
  BY <1>1, <1>2

\* Until the first prune, every step keeps the numbers dense and in order.
LEMMA NextUnpruned == ASSUME Always, Unpruned, [Next]_vars, ~Prune PROVE Unpruned'
<1> USE LogAssumption DEF Always, Unpruned
<1>1. writer \in [Writers -> Calls] /\ high \in Nat
  BY DEF TypeOK, Calls, Places
<1>2. ASSUME NumbersInOrder', UNCHANGED <<rows, high, cursor, seen>> PROVE Unpruned'
  BY <1>2 DEF Dense, Seqs, CursorBehind
<1>3. ASSUME NEW w \in Writers, Select(w) PROVE Unpruned'
  <2>1. LatestSeq = high
    BY <1>1, LatestIsHigh
  <2>2. NumbersInOrder'
    BY <1>1, <1>3, <2>1 DEF Select, NumbersInOrder, AttemptsLeft, Trying, Calls
  <2> QED
    BY <1>2, <1>3, <2>2 DEF Select
<1>4. ASSUME NEW w \in Writers, Insert(w) PROVE Unpruned'
  <2> USE <1>4 DEF Insert
  <2>1. CASE writer[w].seq \in Seqs /\ writer' = Retry(w)
    <3>1. writer[w].seq <= high /\ writer[w].tries + 1 <= high
      BY <1>1, <2>1 DEF Dense, NumbersInOrder, Calls
    <3>2. NumbersInOrder'
      BY <1>1, <2>1, <3>1 DEF Retry, NumbersInOrder, Calls
    <3> QED
      BY <1>2, <3>2
  <2>2. CASE writer[w].seq \notin Seqs /\ writer' = [writer EXCEPT ![w].pc = "commit"]
    <3>1. writer[w].seq = high + 1
      BY <1>1, <2>2 DEF Dense, NumbersInOrder, Calls
    <3>2. NumbersInOrder'
      BY <1>1, <2>2, <3>1 DEF NumbersInOrder, Calls
    <3> QED
      BY <1>2, <3>2
  <2> QED
    BY <2>1, <2>2
<1>5. ASSUME NEW w \in Writers, Commit(w) PROVE Unpruned'
  <2> USE <1>5 DEF Commit
  <2>1. writer[w].seq = high + 1 /\ high' = high + 1
    BY <1>1 DEF NumbersInOrder
  <2>2. PICK end \in {"done", "unknown"} : writer' = [writer EXCEPT ![w].pc = end]
    OBVIOUS
  <2>3. Seqs' = Seqs \cup {high + 1}
    <3>1. [seq |-> writer[w].seq, event |-> w].seq = high + 1
      BY <2>1
    <3>2. \A n : n \in Seqs' <=> n \in Seqs \/ n = high + 1
      BY <3>1, Zenon DEF Seqs
    <3> QED
      BY <3>2
  <2>4. Dense'
    BY <1>1, <2>1, <2>3 DEF Dense
  <2>5. \A v \in Writers \ {w} : writer[v].pc # "commit"
    BY <2>1 DEF OneCommitPerNumber, NumbersInOrder
  <2>6. NumbersInOrder'
    BY <1>1, <2>1, <2>2, <2>5 DEF NumbersInOrder, Calls
  <2>7. CursorBehind'
    BY <1>1, <2>1 DEF CursorBehind, TypeOK
  <2> QED
    BY <2>4, <2>6, <2>7
<1>6. ASSUME NEW w \in Writers, Abort(w) PROVE Unpruned'
  <2>1. NumbersInOrder'
    BY <1>1, <1>6 DEF Abort, NumbersInOrder, Calls
  <2> QED
    BY <1>2, <1>6, <2>1 DEF Abort
<1>7. CASE Wake
  <2> USE <1>7 DEF Wake
  <2> DEFINE new == {r \in rows : r.seq > cursor}
  <2>1. cursor' = IF new = {} THEN 0 ELSE high
    BY WakeReadsAll
  <2>2. Dense' /\ NumbersInOrder'
    BY DEF Dense, Seqs, NumbersInOrder
  <2>3. cursor' <= high'
    BY <1>1, <2>1
  <2>4. ASSUME NEW r \in rows, r.seq <= cursor' PROVE r.event \in seen'
    <3>1. CASE r \in new
      BY <3>1
    <3>2. CASE r \notin new
      BY <3>2 DEF CursorBehind, TypeOK
    <3> QED
      BY <3>1, <3>2
  <2> QED
    BY <2>2, <2>3, <2>4 DEF CursorBehind
<1>8. CASE UNCHANGED vars
  BY <1>2, <1>8 DEF vars, NumbersInOrder
<1> QED
  BY <1>3, <1>4, <1>5, <1>6, <1>7, <1>8 DEF Next, WriterStep

\* The invariant holds in every state.
LEMMA Invariance == Spec => []IInv
<1>1. IInv /\ [Next]_vars => IInv'
  <2> SUFFICES ASSUME IInv, [Next]_vars PROVE IInv'
    OBVIOUS
  <2>1. Always'
    BY NextAlways DEF IInv
  <2>2. CASE Prune
    BY <2>1, <2>2 DEF Prune, IInv, Always, TypeOK
  <2>3. CASE ~Prune
    <3>1. prunes' = prunes
      BY <2>3 DEF Next, WriterStep, Select, Insert, Commit, Abort, Wake, vars
    <3> QED
      BY <2>1, <2>3, <3>1, NextUnpruned DEF IInv
  <2> QED
    BY <2>2, <2>3
<1> QED
  BY InitIInv, <1>1, PTL DEF Spec

\* Rows, calls and cursors stay within their types (append, wake, prune).
THEOREM TypeCorrect == Spec => []TypeOK
<1>1. IInv => TypeOK
  BY DEF IInv, Always
<1> QED
  BY Invariance, <1>1, PTL

\* A worker that wakes up from its cursor has replayed every event below it,
\* although numbers are chosen before their commits (append, wake).
THEOREM NoEventSkipped == Spec => []NothingSkipped
<1>1. IInv => NothingSkipped
  BY DEF IInv, Unpruned, CursorBehind, NothingSkipped
<1> QED
  BY Invariance, <1>1, PTL

\* An append that has used up its attempts lost each of them to another event
\* that is in the log (append, MAX_APPEND_RETRIES).
THEOREM GivingUpMeansContention == Spec => []FailureMeansContention
<1>1. IInv => FailureMeansContention
  <2> SUFFICES ASSUME IInv, prunes = 0, NEW w \in Writers, writer[w].pc = "failed"
               PROVE  1 .. MaxTries \subseteq Seqs
    BY DEF FailureMeansContention
  <2>1. high \in Nat /\ MaxTries <= high
    BY LogAssumption DEF IInv, Always, Unpruned, AttemptsLeft, NumbersInOrder, TypeOK
  <2> QED
    BY <2>1, LogAssumption DEF IInv, Unpruned, Dense
<1> QED
  BY Invariance, <1>1, PTL

\* The optimistic INSERT with its retries implements EventLog: one event per
\* call, a number of its own, above all earlier ones until a prune (append,
\* prune_older_than).
THEOREM Refinement == Spec => ImplementsEventLog
<1>1. Init => Log!Init
  BY DEF Init, Log!Init
<1>2. IInv /\ [Next]_vars => [Log!Next]_<<rows, high, prunes > 0>>
  <2> SUFFICES ASSUME IInv, [Next]_vars PROVE [Log!Next]_<<rows, high, prunes > 0>>
    OBVIOUS
  <2>1. ASSUME NEW w \in Writers, Commit(w) PROVE Log!Append(w)
    <3> USE <2>1 DEF Commit
    <3> DEFINE new == [seq |-> writer[w].seq, event |-> w]
    <3>1. \A r \in rows : r.event # w
      BY DEF IInv, Always, AppendedIsOver
    <3>2. \A r \in rows : r.seq # new.seq
      BY DEF IInv, Always, OneCommitPerNumber, Seqs
    <3>3. prunes > 0 \/ new.seq > high
      <4>1. prunes \in Nat /\ high \in Nat
        BY LogAssumption DEF IInv, Always, TypeOK
      <4> QED
        BY <4>1 DEF IInv, Unpruned, NumbersInOrder
    <3>4. new \in rows' /\ rows' = rows \cup {new} /\ new.event = w
          /\ high' = (IF new.seq > high THEN new.seq ELSE high) /\ prunes' = prunes
      OBVIOUS
    <3> QED
      BY <3>1, <3>2, <3>3, <3>4 DEF Log!Append
  <2>2. CASE Prune
    <3>1. prunes \in Nat /\ prunes' = prunes + 1 /\ rows' \subseteq rows /\ high' = high
      BY <2>2, LogAssumption DEF Prune, IInv, Always, TypeOK
    <3>2. (prunes' > 0) = TRUE
      BY <3>1
    <3> QED
      BY <3>1, <3>2 DEF Log!Next, Log!Prune
  <2>3. ASSUME NEW w \in Writers, Select(w) \/ Insert(w) \/ Abort(w) PROVE UNCHANGED <<rows, high, prunes>>
    BY <2>3 DEF Select, Insert, Abort
  <2>4. CASE Wake \/ UNCHANGED vars
    BY <2>4 DEF Wake, vars
  <2> QED
    BY <2>1, <2>2, <2>3, <2>4 DEF Next, WriterStep, Log!Next
<1> QED
  BY Invariance, <1>1, <1>2, PTL DEF Spec, ImplementsEventLog, Log!Spec
=============================================================================
