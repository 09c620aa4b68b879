---------------------------- MODULE SessionEventLog ----------------------------
(***************************************************************************)
(* The Postgres event log of one session: writers that append an event     *)
(* each, a worker that wakes up from its cursor again and again, and an    *)
(* operator who prunes old events.                                         *)
(*                                                                         *)
(* One INSERT is three steps: its snapshot, in which MAX(seq) is           *)
(* evaluated, the unique index, where it waits for a writer that has the   *)
(* same number and has not committed yet, and the commit.  A writer whose  *)
(* connection breaks may or may not have committed.                        *)
(***************************************************************************)
EXTENDS Naturals, FiniteSets

CONSTANTS Writers,    \* concurrent calls of append, each with its own event
          MaxTries,   \* MAX_APPEND_RETRIES
          MaxPrunes   \* bound on prune_older_than

ASSUME LogAssumption == MaxTries \in Nat \ {0} /\ MaxPrunes \in Nat

VARIABLES rows,      \* committed rows
          writer,    \* the calls of append
          high,      \* the highest number ever committed
          cursor,    \* what the worker passes as since_seq
          seen,      \* events the worker has replayed
          prunes     \* prunes so far

vars == <<rows, writer, high, cursor, seen, prunes>>

Seqs == {r.seq : r \in rows}
\* COALESCE(MAX(seq), 0)
LatestSeq == CHOOSE n \in Seqs \cup {0} : \A m \in Seqs : m <= n

Init ==
    /\ rows = {} /\ high = 0
    /\ writer = [w \in Writers |-> [pc |-> "select", seq |-> 0, tries |-> 0]]
    /\ cursor = 0 /\ seen = {} /\ prunes = 0

-----------------------------------------------------------------------------
Select(w) ==
    /\ writer[w].pc = "select"
    /\ writer' = [writer EXCEPT ![w].pc = "insert", ![w].seq = LatestSeq + 1]
    /\ UNCHANGED <<rows, high, cursor, seen, prunes>>

\* Mutant: there is no unique constraint.
WaitsNever(w) == FALSE
\* The unique index makes a writer wait for one that inserted the same number.
Waits(w) == \E v \in Writers \ {w} : writer[v].pc = "commit" /\ writer[v].seq = writer[w].seq

\* Mutants: the number is computed once, outside of the loop; the last attempt
\* is not made.
RetrySameNumber(w) == [writer EXCEPT ![w].pc = "insert"]
RetryOneLess(w) ==
    LET tries == writer[w].tries + 1
    IN  [writer EXCEPT ![w].tries = tries,
                       ![w].pc = IF tries >= MaxTries - 1 THEN "failed" ELSE "select"]
\* A unique violation starts the next attempt or gives up.
Retry(w) ==
    LET tries == writer[w].tries + 1
    IN  [writer EXCEPT ![w].tries = tries, ![w].pc = IF tries = MaxTries THEN "failed" ELSE "select"]

Insert(w) ==
    /\ writer[w].pc = "insert" /\ ~Waits(w)
    /\ \/ writer[w].seq \in Seqs /\ writer' = Retry(w)
       \/ writer[w].seq \notin Seqs /\ writer' = [writer EXCEPT ![w].pc = "commit"]
    /\ UNCHANGED <<rows, high, cursor, seen, prunes>>

\* The answer of a commit may be lost.
Commit(w) ==
    /\ writer[w].pc = "commit"
    /\ rows' = rows \cup {[seq |-> writer[w].seq, event |-> w]}
    /\ high' = IF writer[w].seq > high THEN writer[w].seq ELSE high
    /\ \E end \in {"done", "unknown"} : writer' = [writer EXCEPT ![w].pc = end]
    /\ UNCHANGED <<cursor, seen, prunes>>

\* Any other error of the connection leaves the loop.
Abort(w) ==
    /\ writer[w].pc \in {"select", "insert", "commit"}
    /\ writer' = [writer EXCEPT ![w].pc = "unknown"]
    /\ UNCHANGED <<rows, high, cursor, seen, prunes>>

\* Mutant: the cursor is the highest number that was ever given, read or not.
WakeCursorAhead(new) == LatestSeq + 1
\* latest_seq of the rebuilt state, which starts at 0.
WakeCursor(new) ==
    IF new = {} THEN 0 ELSE CHOOSE n \in {r.seq : r \in new} : \A r \in new : r.seq <= n

Wake ==
    LET new == {r \in rows : r.seq > cursor} IN
    /\ cursor' = WakeCursor(new)
    /\ seen' = seen \cup {r.event : r \in new}
    /\ UNCHANGED <<rows, writer, high, prunes>>

\* The age, the organisation and the type of the events decide which ones go.
Prune ==
    /\ prunes < MaxPrunes /\ prunes' = prunes + 1
    /\ \E old \in SUBSET rows : old # {} /\ rows' = rows \ old
    /\ UNCHANGED <<writer, high, cursor, seen>>

-----------------------------------------------------------------------------
WriterStep(w) == Select(w) \/ Insert(w) \/ Commit(w)

Next == (\E w \in Writers : WriterStep(w) \/ Abort(w)) \/ Wake \/ Prune

Spec == Init /\ [][Next]_vars

\* A statement that does not wait ends; the database answers or the connection
\* breaks.
FairSpec == Spec /\ \A w \in Writers : WF_vars(WriterStep(w))

-----------------------------------------------------------------------------
\* Rows and calls hold what their columns and locals can hold.
TypeOK ==
    /\ rows \subseteq [seq: Nat \ {0}, event: Writers]
    /\ writer \in [Writers -> [pc: {"select", "insert", "commit", "done", "failed", "unknown"},
                               seq: Nat, tries: 0..MaxTries]]
    /\ high \in Nat /\ cursor \in Nat /\ prunes \in 0..MaxPrunes
    /\ seen \subseteq Writers

\* The worker's cursor never passes an event it has not replayed, although
\* writers choose their numbers before they commit (wake with since_seq).  A
\* prune ends this: it frees numbers below the cursor.
NothingSkipped == prunes = 0 => \A r \in rows : r.seq <= cursor => r.event \in seen

\* An append gives up only after that many other events have been appended:
\* writers never fail each other without one of them succeeding (append).
FailureMeansContention ==
    prunes = 0 => \A w \in Writers : writer[w].pc = "failed" => 1..MaxTries \subseteq Seqs

\* An append always returns or raises, whoever it has to wait for.
AppendEnds == \A w \in Writers : <>(writer[w].pc \in {"done", "failed", "unknown"})

\* The optimistic INSERT with its retries implements EventLog: an event once, a
\* number no other event in the log has, and increasing until the first prune.
Log == INSTANCE EventLog
           WITH log <- rows, last <- high, pruned <- prunes > 0, Events <- Writers
ImplementsEventLog == Log!Spec
=============================================================================
