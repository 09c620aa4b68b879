---------------------------- MODULE EmbeddingSpace ----------------------------
(***************************************************************************)
(* The migration of stored memories from one embedding space to another:   *)
(* prepare, backfill, promote.  The old space is a column of the row, the  *)
(* target space is a side table ("shadow").  One entity type, one target.  *)
(*                                                                         *)
(* The registry's table is empty until the target is prepared: nothing     *)
(* stores the space in use.  Until then a process acts on an entry it      *)
(* makes up in memory, for the column and its own runtime policy.          *)
(* Preparing stores the entry of the target, and the made-up one is gone:  *)
(* from then on the side table is what is written and read.                *)
(*                                                                         *)
(* A vector is the version of the text it was computed from, 0 for none.   *)
(* A write computes its embedding between reading the registry and its     *)
(* transaction.  Writers of one row do not overlap.                        *)
(***************************************************************************)
EXTENDS Naturals, FiniteSets

CONSTANTS Procs, Admin,   \* processes, and the one that serves the operator
          Rows,
          MaxText,        \* how often a row is written
          MaxFaults       \* failed embeddings, failed rows and restarts

ASSUME SpaceAssumption == Admin \in Procs /\ MaxText \in Nat /\ MaxFaults \in Nat

VARIABLES prepared,  \* the registry's table holds the entry of the target
          policy,    \* the space of the persisted runtime policy
          contract,  \* the space each process embeds in
          cache,     \* each process's copy of the registry
          row,       \* memories, their vectors and the stamp of the column's
          write,     \* writes between their read of the registry and their commit
          admin,     \* the operator's request and the rows it has still to do
          report,    \* what the last backfill reported
          missed,    \* rows whose last write may have missed the target
          faults

vars == <<prepared, policy, contract, cache, row, write, admin, report, missed, faults>>

\* An entry of the registry: the column for the old or for the new contract, or
\* the side table.
Entries == {"old", "new", "shadow"}
NoCache == "none"
NoWrite == [row |-> "none", text |-> 0, space |-> "none"]
Idle == [pc |-> "idle", todo |-> {}, failed |-> FALSE, limited |-> FALSE]
Clean == [failed |-> FALSE, limited |-> FALSE]

Init ==
    /\ prepared = FALSE /\ policy = "old"
    /\ contract = [p \in Procs |-> "old"]
    /\ cache = [p \in Procs |-> NoCache]
    /\ row = [r \in Rows |-> [text |-> 0, inline |-> 0, stamp |-> "none", shadow |-> 0]]
    /\ write = [p \in Procs |-> NoWrite]
    /\ admin = Idle /\ report = [failed |-> TRUE, limited |-> FALSE]
    /\ missed = {} /\ faults = 0

Fault == faults < MaxFaults /\ faults' = faults + 1

-----------------------------------------------------------------------------
(* Writers.                                                                *)

\* _get_registry_snapshot: the cached copy, or the table, whose only row is the
\* target's, or the entry made up for an empty table.
View(p) == IF cache[p] # NoCache THEN cache[p]
           ELSE IF prepared THEN "shadow" ELSE contract[p]

WriteBegin(p, r) ==
    /\ write[p] = NoWrite /\ row[r].text < MaxText
    /\ \A q \in Procs : write[q].row # r
    /\ cache' = [cache EXCEPT ![p] = View(p)]
    /\ write' = [write EXCEPT ![p] = [row |-> r, text |-> row[r].text + 1, space |-> View(p)]]
    /\ UNCHANGED <<prepared, policy, contract, row, admin, report, missed, faults>>

\* What is stored of a row: when the embedding fails, or goes to the side table,
\* an update keeps the column's older vector and drops its stamp.
Stored(old, text, space, ok) ==
    [text |-> text,
     inline |-> IF ok /\ space # "shadow" THEN text ELSE old.inline,
     stamp |-> IF ok /\ space # "shadow" THEN space ELSE "none",
     shadow |-> IF ok /\ space = "shadow" THEN text ELSE old.shadow]

\* The backfill under way has read the text of this row and not stored it yet.
Fetched(r) == \E x \in admin.todo : x[1] = r

\* A write reaches the target, or will by the backfill, unless its embedding
\* fails, the backfill has fetched the older text, or its copy of the registry
\* is from before the preparation.
WriteCommit(p) ==
    LET w == write[p]
    IN
    /\ w # NoWrite
    /\ \E ok \in BOOLEAN :
         /\ IF ok THEN UNCHANGED faults ELSE Fault
         /\ row' = [row EXCEPT ![w.row] = Stored(@, w.text, w.space, ok)]
         /\ missed' = IF ok /\ ~Fetched(w.row) /\ (prepared => w.space = "shadow")
                      THEN missed \ {w.row} ELSE missed \cup {w.row}
    /\ write' = [write EXCEPT ![p] = NoWrite]
    /\ UNCHANGED <<prepared, policy, contract, cache, admin, report>>

\* update_fact_preserve_embedding: a new text over the old vectors and stamp.
WritePreserving(r) ==
    /\ row[r].text \in 1 .. MaxText - 1
    /\ \A q \in Procs : write[q].row # r
    /\ row' = [row EXCEPT ![r].text = @ + 1]
    /\ missed' = missed \cup {r}
    /\ UNCHANGED <<prepared, policy, contract, cache, write, admin, report, faults>>

CacheExpires(p) ==
    /\ cache[p] # NoCache
    /\ cache' = [cache EXCEPT ![p] = NoCache]
    /\ UNCHANGED <<prepared, policy, contract, row, write, admin, report, missed, faults>>

-----------------------------------------------------------------------------
(* The operator: apply, which prepares and backfills, and promote.  Both   *)
(* return at once in a process that embeds in the target space already.    *)

MigratePrepare(limited) ==
    /\ admin.pc = "idle" /\ contract[Admin] = "old"
    /\ prepared' = TRUE
    /\ cache' = [cache EXCEPT ![Admin] = NoCache]
    /\ admin' = [Idle EXCEPT !.pc = "fetch", !.limited = limited]
    /\ report' = [failed |-> TRUE, limited |-> limited]
    /\ UNCHANGED <<policy, contract, row, write, missed, faults>>

\* Rows with a vector in the column that is stamped with the old space.
Candidates == {q \in Rows : row[q].stamp = "old" /\ row[q].inline # 0}

\* Mutant: rows are claimed when they are fetched.
MigrateFetchClaims ==
    /\ admin.pc = "fetch"
    /\ \E found \in IF admin.limited THEN SUBSET Candidates ELSE {Candidates} :
         /\ admin' = [admin EXCEPT !.pc = "batch", !.todo = {<<r, row[r].text>> : r \in found}]
         /\ row' = [r \in Rows |-> IF r \in found THEN [row[r] EXCEPT !.stamp = "none"] ELSE row[r]]
    /\ UNCHANGED <<prepared, policy, contract, cache, write, report, missed, faults>>
\* All candidates, or with limit_per_table those that come first.
MigrateFetch ==
    /\ admin.pc = "fetch"
    /\ \E found \in IF admin.limited THEN SUBSET Candidates ELSE {Candidates} :
         admin' = [admin EXCEPT !.pc = "batch", !.todo = {<<r, row[r].text>> : r \in found}]
    /\ UNCHANGED <<prepared, policy, contract, cache, row, write, report, missed, faults>>

\* The rows and their vectors after a batch of which these rows succeeded.
Upserted(ok) ==
    /\ row' = [r \in Rows |-> IF \E x \in ok : x[1] = r
                              THEN [row[r] EXCEPT !.shadow = (CHOOSE x \in ok : x[1] = r)[2]]
                              ELSE row[r]]
    /\ missed' = missed \ {x[1] : x \in {y \in ok : y[2] = row[y[1]].text}}

\* Mutant: a row that fails is only logged.
MigrateBatchSilent(batch) ==
    /\ admin.pc = "batch"
    /\ \E ok \in SUBSET batch :
         /\ Upserted(ok)
         /\ IF ok = batch THEN UNCHANGED faults ELSE Fault
         /\ admin' = [admin EXCEPT !.todo = @ \ batch]
    /\ UNCHANGED <<prepared, policy, contract, cache, write, report>>
\* One batch is embedded and stored in one transaction.  A failed embedding of
\* the batch or a failed statement loses all its rows, a missing vector its own.
MigrateBatch(batch) ==
    /\ admin.pc = "batch"
    /\ \E ok \in SUBSET batch :
         /\ Upserted(ok)
         /\ IF ok = batch THEN UNCHANGED faults ELSE Fault
         /\ admin' = [admin EXCEPT !.todo = @ \ batch, !.failed = @ \/ ok # batch]
    /\ UNCHANGED <<prepared, policy, contract, cache, write, report>>

MigrateDone ==
    /\ admin.pc = "batch" /\ admin.todo = {}
    /\ report' = [failed |-> admin.failed, limited |-> admin.limited]
    /\ admin' = Idle
    /\ UNCHANGED <<prepared, policy, contract, cache, row, write, missed, faults>>

\* The runtime policy is applied in this process and persisted before the
\* registry changes.  Nothing is asked of the registry or of the backfill.
PromotePolicy ==
    /\ admin.pc = "idle" /\ contract[Admin] = "old"
    /\ policy' = "new" /\ contract' = [contract EXCEPT ![Admin] = "new"]
    /\ admin' = [Idle EXCEPT !.pc = "promote"]
    /\ UNCHANGED <<prepared, cache, row, write, report, missed, faults>>

\* The target's entry becomes the active one; an empty table stays empty.  The
\* registry is read again.
PromoteRegistry ==
    /\ admin.pc = "promote"
    /\ cache' = [cache EXCEPT ![Admin] = IF prepared THEN "shadow" ELSE contract[Admin]]
    /\ admin' = Idle
    /\ UNCHANGED <<prepared, policy, contract, row, write, report, missed, faults>>

\* A process ends, in the middle of a write or of the operator's request, and
\* starts again with the persisted policy.
Restart(p) ==
    /\ Fault
    /\ contract' = [contract EXCEPT ![p] = policy]
    /\ cache' = [cache EXCEPT ![p] = NoCache]
    /\ write' = [write EXCEPT ![p] = NoWrite]
    /\ admin' = IF p = Admin THEN Idle ELSE admin
    /\ UNCHANGED <<prepared, policy, row, report, missed>>

-----------------------------------------------------------------------------
Next ==
    \/ \E p \in Procs : CacheExpires(p) \/ WriteCommit(p) \/ Restart(p)
    \/ \E p \in Procs, r \in Rows : WriteBegin(p, r)
    \/ \E r \in Rows : WritePreserving(r)
    \/ \E limited \in BOOLEAN : MigratePrepare(limited)
    \/ \E batch \in SUBSET admin.todo \ {{}} : MigrateBatch(batch)
    \/ MigrateFetch \/ MigrateDone \/ PromotePolicy \/ PromoteRegistry

Spec == Init /\ [][Next]_vars

-----------------------------------------------------------------------------
\* The registry, the rows and the operator's request hold what their columns
\* and locals can hold.
TypeOK ==
    /\ prepared \in BOOLEAN
    /\ policy \in {"old", "new"} /\ contract \in [Procs -> {"old", "new"}]
    /\ cache \in [Procs -> Entries \cup {NoCache}]
    /\ row \in [Rows -> [text: 0..MaxText, inline: 0..MaxText, stamp: {"none", "old", "new"}, shadow: 0..MaxText]]
    /\ write \in [Procs -> [row: Rows \cup {"none"}, text: 0..MaxText, space: Entries \cup {"none"}]]
    /\ admin \in [pc: {"idle", "fetch", "batch", "promote"}, todo: SUBSET (Rows \X (0..MaxText)),
                  failed: BOOLEAN, limited: BOOLEAN]
    /\ report \in [failed: BOOLEAN, limited: BOOLEAN]
    /\ missed \subseteq Rows

\* A migration can be taken up again wherever it stopped: at any time a row has a
\* vector of its text in the target space or is one the next backfill fetches,
\* with the exceptions of the property below.
MigrationCanResume ==
    prepared =>
        \A r \in Rows \ missed : row[r].text # 0 => row[r].shadow = row[r].text \/ r \in Candidates

\* A backfill of all rows that reports no failure is complete, whatever earlier
\* attempts, restarts, promotions and writes left behind: every row has a vector
\* of its text in the target space, and keeps one under the writes that follow,
\* except a row whose last write failed to embed it, came while the backfill
\* held its older text, or used a copy of the registry from before.
CleanBackfillIsComplete ==
    report = Clean =>
        \A r \in Rows \ missed : row[r].text # 0 => row[r].shadow = row[r].text
=============================================================================
