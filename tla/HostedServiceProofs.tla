------------------------- MODULE HostedServiceProofs -------------------------
(***************************************************************************)
(* Two components of the hosted service that do not interact.              *)
(*                                                                         *)
(* A migration of the embedding space can be resumed wherever it stopped,  *)
(* and a full backfill without a reported failure is complete: proved for  *)
(* any number of processes, memories, writes, restarts and attempts.  The  *)
(* threshold of a circuit breaker is proved for any number of callers and  *)
(* any threshold.                                                          *)
(***************************************************************************)
EXTENDS EmbeddingSpace, TLAPS

CONSTANTS Callers, Threshold, MaxOutages, MaxCancels
VARIABLES state, failures, elapsed, call, healthy, outages, cancels

Breaker == INSTANCE CircuitBreaker

Texts == 0 .. MaxText
Views == Entries \cup {NoCache}
Memories == [text: Texts, inline: Texts, stamp: {"none", "old", "new"}, shadow: Texts]
Writes == [row: Rows \cup {"none"}, text: Texts, space: Entries \cup {"none"}]
Requests == [pc: {"idle", "fetch", "batch", "promote"}, todo: SUBSET (Rows \X Texts),
             failed: BOOLEAN, limited: BOOLEAN]

\* A write in progress is one of a row, with a text and a space.
WritesAreOfRows ==
    \A p \in Procs : write[p] = NoWrite \/ (write[p].row \in Rows /\ write[p].text # 0 /\ write[p].space \in Entries)

\* The operator's process embeds in the space of the persisted policy, and no
\* process is ahead of that policy.
PolicyLeads ==
    /\ contract[Admin] = policy
    /\ policy = "old" => \A p \in Procs : contract[p] = "old"

\* Before the promotion, and when it finds the target prepared, no process
\* stores vectors of the new space in the column ...
Migratable == policy = "old" \/ prepared

ColumnIsOld ==
    Migratable => /\ \A p \in Procs : cache[p] # "new" /\ write[p].space # "new"
                  /\ \A r \in Rows : row[r].stamp # "new"

\* ... so what the target lacks the column has, with the old space's stamp.
RestIsStamped ==
    Migratable =>
        \A r \in Rows \ missed :
            row[r].text # 0 => row[r].shadow = row[r].text \/ (row[r].stamp = "old" /\ row[r].inline = row[r].text)

\* The backfill has fetched a row once, and its text, unless the row was written since.
FetchedIsCurrent ==
    /\ admin.pc \in {"fetch", "batch"} \/ report = Clean => prepared
    /\ \A x, y \in admin.todo : x[1] = y[1] => x = y
    /\ \A x \in admin.todo : x[2] = row[x[1]].text \/ x[1] \in missed

\* As long as nothing has failed, what the target lacks is still to be done.
BackfillCoversRest ==
    admin.pc = "batch" /\ ~admin.failed /\ ~admin.limited =>
        \A r \in Rows \ missed :
            row[r].text # 0 => row[r].shadow = row[r].text \/ <<r, row[r].text>> \in admin.todo

Registry == TypeOK /\ WritesAreOfRows /\ PolicyLeads /\ ColumnIsOld
Progress == RestIsStamped /\ FetchedIsCurrent /\ BackfillCoversRest /\ CleanBackfillIsComplete
IInv == Registry /\ Progress

LEMMA TypeSets ==
    TypeOK <=> /\ prepared \in BOOLEAN /\ policy \in {"old", "new"} /\ contract \in [Procs -> {"old", "new"}]
               /\ cache \in [Procs -> Views] /\ row \in [Rows -> Memories] /\ write \in [Procs -> Writes]
               /\ admin \in Requests /\ report \in [failed: BOOLEAN, limited: BOOLEAN] /\ missed \subseteq Rows
  BY DEF TypeOK, Views, Memories, Writes, Requests, Texts

LEMMA TypeSetsNext ==
    TypeOK' <=> /\ prepared' \in BOOLEAN /\ policy' \in {"old", "new"} /\ contract' \in [Procs -> {"old", "new"}]
                /\ cache' \in [Procs -> Views] /\ row' \in [Rows -> Memories] /\ write' \in [Procs -> Writes]
                /\ admin' \in Requests /\ report' \in [failed: BOOLEAN, limited: BOOLEAN] /\ missed' \subseteq Rows
  BY DEF TypeOK, Views, Memories, Writes, Requests, Texts

\* What a process acts on is an entry of the registry, and none for the new
\* contract's column as long as the rows can be migrated.
LEMMA ViewTyped ==
    ASSUME Registry, NEW p \in Procs
    PROVE  View(p) \in Entries /\ (Migratable => View(p) # "new")
<1>1. cache[p] \in Views /\ contract[p] \in {"old", "new"}
  BY TypeSets DEF Registry
<1>2. policy = "old" => contract[p] = "old"
  BY DEF Registry, PolicyLeads
<1>3. Migratable => cache[p] # "new"
  BY DEF Registry, ColumnIsOld
<1>4. ~prepared /\ Migratable => contract[p] = "old"
  BY <1>2 DEF Migratable
<1> QED
  BY <1>1, <1>3, <1>4 DEF View, Views, Entries

\* A stored row is a row; its stamp is the one of the space it was written to,
\* or none.
LEMMA StoredTyped ==
    ASSUME NEW old \in Memories, NEW t \in Texts, NEW space \in Entries, NEW ok \in BOOLEAN
    PROVE  /\ Stored(old, t, space, ok) \in Memories
           /\ Stored(old, t, space, ok).text = t
           /\ Stored(old, t, space, ok).stamp \in {"none", space}
           /\ ok /\ space = "shadow" => Stored(old, t, space, ok).shadow = t
           /\ ok /\ space # "shadow" => /\ Stored(old, t, space, ok).inline = t
                                        /\ Stored(old, t, space, ok).stamp = space
  BY DEF Stored, Memories, Entries

\* The state before the migration satisfies the invariant.
LEMMA InitIInv == Init => IInv
<1> SUFFICES ASSUME Init PROVE IInv
  OBVIOUS
<1> USE SpaceAssumption DEF Init
<1>1. TypeOK
  <2>1. /\ [text |-> 0, inline |-> 0, stamp |-> "none", shadow |-> 0] \in Memories
        /\ NoWrite \in Writes /\ NoCache \in Views
    BY DEF Memories, Writes, NoWrite, Views, NoCache, Texts
  <2>2. Idle \in Requests
    BY DEF Idle, Requests
  <2>3. row \in [Rows -> Memories] /\ write \in [Procs -> Writes] /\ cache \in [Procs -> Views]
    BY <2>1
  <2> QED
    BY <2>2, <2>3, TypeSets
<1>2. WritesAreOfRows /\ PolicyLeads /\ ColumnIsOld
  BY DEF WritesAreOfRows, PolicyLeads, ColumnIsOld, NoCache, NoWrite
<1>3. RestIsStamped /\ FetchedIsCurrent /\ BackfillCoversRest /\ CleanBackfillIsComplete
  BY DEF RestIsStamped, FetchedIsCurrent, BackfillCoversRest, CleanBackfillIsComplete, Idle, Clean
<1> QED
  BY <1>1, <1>2, <1>3 DEF IInv, Registry, Progress

\* A step that leaves the rows alone, takes no row into the backfill and reports
\* nothing.
LEMMA RowsUntouched ==
    ASSUME Progress, UNCHANGED <<row, missed, report>>, Migratable' => Migratable, prepared => prepared',
           UNCHANGED admin \/ (admin'.todo = {} /\ admin'.pc \notin {"fetch", "batch"})
    PROVE  Progress'
<1>1. RestIsStamped'
  BY DEF Progress, RestIsStamped
<1>2. FetchedIsCurrent'
  BY DEF Progress, FetchedIsCurrent
<1>3. BackfillCoversRest' /\ CleanBackfillIsComplete'
  BY DEF Progress, BackfillCoversRest, CleanBackfillIsComplete
<1> QED
  BY <1>1, <1>2, <1>3 DEF Progress

-----------------------------------------------------------------------------
(* Writers.                                                                *)

LEMMA WriteBeginIInv ==
    ASSUME IInv, NEW p \in Procs, NEW r \in Rows, WriteBegin(p, r)
    PROVE  IInv'
<1> USE DEF WriteBegin
<1> DEFINE w == [row |-> r, text |-> row[r].text + 1, space |-> View(p)]
<1>1. TypeOK /\ Registry /\ Progress
  BY DEF IInv, Registry
<1>2. View(p) \in Entries /\ (Migratable => View(p) # "new")
  BY <1>1, ViewTyped
<1>3. row[r].text + 1 \in Texts /\ row[r].text + 1 # 0
  BY <1>1, SpaceAssumption DEF TypeOK, Texts
<1>4. w \in Writes /\ w.row = r /\ w.text = row[r].text + 1 /\ w.space = View(p)
  BY <1>2, <1>3 DEF Writes
<1>5. write' = [write EXCEPT ![p] = w] /\ cache' = [cache EXCEPT ![p] = View(p)]
  OBVIOUS
<1> HIDE DEF w
<1>6. write' \in [Procs -> Writes] /\ cache' \in [Procs -> Views]
  BY <1>1, <1>2, <1>4, <1>5, TypeSets DEF Views
<1>7. TypeOK'
  BY <1>1, <1>6, TypeSets, TypeSetsNext
<1>8. /\ write'[p] = w /\ cache'[p] = View(p)
      /\ \A q \in Procs \ {p} : write'[q] = write[q] /\ cache'[q] = cache[q]
  BY <1>1, <1>5, TypeSets
<1>9. WritesAreOfRows'
  BY <1>1, <1>2, <1>3, <1>4, <1>8 DEF Registry, WritesAreOfRows
<1>10. PolicyLeads' /\ ColumnIsOld'
  BY <1>1, <1>2, <1>4, <1>8 DEF Registry, PolicyLeads, ColumnIsOld, Migratable
<1>11. Progress'
  BY <1>1, RowsUntouched DEF Migratable
<1> QED
  BY <1>7, <1>9, <1>10, <1>11 DEF IInv, Registry

LEMMA WriteCommitIInv ==
    ASSUME IInv, NEW p \in Procs, WriteCommit(p)
    PROVE  IInv'
<1> USE DEF WriteCommit
<1> DEFINE w == write[p]
<1>1. TypeOK /\ Registry /\ Progress
  BY DEF IInv, Registry
<1>2. w \in Writes /\ w.row \in Rows /\ w.text \in Texts /\ w.text # 0 /\ w.space \in Entries
  <2>1. w \in Writes
    BY <1>1, TypeSets
  <2> QED
    BY <1>1, <2>1 DEF Registry, WritesAreOfRows, Writes
<1>3. PICK ok \in BOOLEAN :
        /\ row' = [row EXCEPT ![w.row] = Stored(@, w.text, w.space, ok)]
        /\ missed' = IF ok /\ ~Fetched(w.row) /\ (prepared => w.space = "shadow")
                     THEN missed \ {w.row} ELSE missed \cup {w.row}
  OBVIOUS
<1>4. write' = [write EXCEPT ![p] = NoWrite] /\ UNCHANGED <<prepared, policy, contract, cache, admin, report>>
  OBVIOUS
<1> DEFINE new == Stored(row[w.row], w.text, w.space, ok)
<1>5. row \in [Rows -> Memories]
  BY <1>1, TypeSets
<1>6. /\ new \in Memories /\ new.text = w.text /\ new.stamp \in {"none", w.space}
      /\ ok /\ w.space = "shadow" => new.shadow = w.text
      /\ ok /\ w.space # "shadow" => new.inline = w.text /\ new.stamp = w.space
  BY <1>2, <1>5, StoredTyped
<1>7. row' = [row EXCEPT ![w.row] = new]
  BY <1>3
<1> HIDE DEF new
<1>8. /\ row' \in [Rows -> Memories] /\ row'[w.row] = new
      /\ \A r \in Rows \ {w.row} : row'[r] = row[r]
  BY <1>2, <1>5, <1>6, <1>7
<1>9. write' \in [Procs -> Writes] /\ \A q \in Procs : write'[q] \in {write[q], NoWrite}
  <2>1. NoWrite \in Writes
    BY SpaceAssumption DEF NoWrite, Writes, Texts
  <2> QED
    BY <1>1, <1>4, <2>1, TypeSets
<1>10. TypeOK'
  BY <1>1, <1>2, <1>3, <1>4, <1>8, <1>9, TypeSets, TypeSetsNext
<1>11. WritesAreOfRows' /\ PolicyLeads'
  BY <1>1, <1>4, <1>9 DEF Registry, WritesAreOfRows, PolicyLeads
<1>12. ColumnIsOld'
  <2>1. Migratable' => Migratable
    BY <1>4 DEF Migratable
  <2>2. Migratable => new.stamp # "new"
    BY <1>1, <1>6 DEF Registry, ColumnIsOld
  <2>3. Migratable => \A q \in Procs : cache'[q] # "new" /\ write'[q].space # "new"
    BY <1>1, <1>4, <1>9 DEF Registry, ColumnIsOld, NoWrite
  <2> QED
    BY <1>1, <1>8, <2>1, <2>2, <2>3 DEF Registry, ColumnIsOld
\* A row that is not missed has its vector where the backfill finds it, or needs none.
<1>13. w.row \notin missed' =>
          /\ ok /\ ~Fetched(w.row) /\ (prepared => new.shadow = new.text)
          /\ Migratable => new.shadow = new.text \/ (new.stamp = "old" /\ new.inline = new.text)
  <2>1. SUFFICES ASSUME w.row \notin missed'
        PROVE  /\ ok /\ ~Fetched(w.row) /\ (prepared => new.shadow = new.text)
               /\ Migratable => new.shadow = new.text \/ (new.stamp = "old" /\ new.inline = new.text)
    OBVIOUS
  <2>2. ok /\ ~Fetched(w.row) /\ (prepared => w.space = "shadow")
    BY <1>3, <2>1
  <2>3. Migratable => w.space \in {"old", "shadow"}
    BY <1>1, <1>2 DEF Registry, ColumnIsOld, Entries
  <2> QED
    BY <1>6, <2>2, <2>3
<1>14. \A r \in Rows \ {w.row} : r \in missed' <=> r \in missed
  BY <1>3
<1>15. RestIsStamped'
  <2>1. Migratable' => Migratable
    BY <1>4 DEF Migratable
  <2> QED
    BY <1>1, <1>8, <1>13, <1>14, <2>1 DEF Progress, RestIsStamped
<1>16. FetchedIsCurrent'
  <2>1. ASSUME NEW x \in admin.todo PROVE x[2] = row'[x[1]].text \/ x[1] \in missed'
    <3>1. x[1] \in Rows
      BY <1>1, TypeSets DEF Requests
    <3>2. CASE x[1] = w.row
      BY <1>13, <3>2 DEF Fetched
    <3>3. CASE x[1] # w.row
      BY <1>1, <1>8, <1>14, <3>1, <3>3 DEF Progress, FetchedIsCurrent
    <3> QED
      BY <3>2, <3>3
  <2> QED
    BY <1>1, <1>4, <2>1 DEF Progress, FetchedIsCurrent
<1>17. BackfillCoversRest' /\ CleanBackfillIsComplete'
  <2>1. admin.pc = "batch" \/ report = Clean => prepared
    BY <1>1 DEF Progress, FetchedIsCurrent
  <2> QED
    BY <1>1, <1>4, <1>8, <1>13, <1>14, <2>1 DEF Progress, BackfillCoversRest, CleanBackfillIsComplete
<1> QED
  BY <1>10, <1>11, <1>12, <1>15, <1>16, <1>17 DEF IInv, Registry, Progress

LEMMA WritePreservingIInv ==
    ASSUME IInv, NEW r \in Rows, WritePreserving(r)
    PROVE  IInv'
<1> USE DEF WritePreserving
<1>1. TypeOK /\ Registry /\ Progress
  BY DEF IInv, Registry
<1>2. row \in [Rows -> Memories] /\ row[r].text + 1 \in Texts
  BY <1>1, SpaceAssumption, TypeSets DEF Texts
<1>3. /\ row' \in [Rows -> Memories]
      /\ \A s \in Rows : row'[s].stamp = row[s].stamp /\ (s = r \/ row'[s] = row[s])
  BY <1>2 DEF Memories
<1>4. missed' = missed \cup {r} /\ UNCHANGED <<prepared, policy, contract, cache, write, admin, report>>
  OBVIOUS
<1>5. TypeOK'
  BY <1>1, <1>3, <1>4, TypeSets, TypeSetsNext
<1>6. WritesAreOfRows' /\ PolicyLeads' /\ ColumnIsOld'
  BY <1>1, <1>3, <1>4 DEF Registry, WritesAreOfRows, PolicyLeads, ColumnIsOld, Migratable
<1>7. RestIsStamped' /\ BackfillCoversRest' /\ CleanBackfillIsComplete'
  BY <1>1, <1>3, <1>4
     DEF Progress, RestIsStamped, BackfillCoversRest, CleanBackfillIsComplete, Migratable
<1>8. FetchedIsCurrent'
  <2>1. \A x \in admin.todo : x[1] \in Rows
    BY <1>1, TypeSets DEF Requests
  <2> QED
    BY <1>1, <1>3, <1>4, <2>1 DEF Progress, FetchedIsCurrent
<1> QED
  BY <1>5, <1>6, <1>7, <1>8 DEF IInv, Registry, Progress

\* A copy of the registry expires, or a process restarts.
LEMMA ProcessIInv ==
    ASSUME IInv, NEW p \in Procs, CacheExpires(p) \/ Restart(p)
    PROVE  IInv'
<1>1. TypeOK /\ Registry /\ Progress
  BY DEF IInv, Registry
<1>2. NoCache \in Views /\ NoWrite \in Writes /\ Idle \in Requests
  BY SpaceAssumption DEF NoCache, Views, NoWrite, Writes, Idle, Requests, Texts
<1>3. /\ cache' = [cache EXCEPT ![p] = NoCache] /\ write' \in {write, [write EXCEPT ![p] = NoWrite]}
      /\ contract' \in {contract, [contract EXCEPT ![p] = policy]} /\ admin' \in {admin, Idle}
      /\ UNCHANGED <<prepared, policy, row, report, missed>>
  BY DEF CacheExpires, Restart
<1>4. TypeOK'
  BY <1>1, <1>2, <1>3, TypeSets, TypeSetsNext
<1>5. \A q \in Procs : /\ cache'[q] \in {cache[q], NoCache} /\ write'[q] \in {write[q], NoWrite}
                       /\ contract'[q] \in {contract[q], policy}
  BY <1>1, <1>3, TypeSets
<1>6. WritesAreOfRows' /\ PolicyLeads'
  BY <1>1, <1>3, <1>5, SpaceAssumption DEF Registry, WritesAreOfRows, PolicyLeads
<1>7. ColumnIsOld'
  BY <1>1, <1>3, <1>5 DEF Registry, ColumnIsOld, Migratable, NoCache, NoWrite
<1>8. Progress'
  BY <1>1, <1>3, RowsUntouched DEF Idle, Migratable
<1> QED
  BY <1>4, <1>6, <1>7, <1>8 DEF IInv, Registry

-----------------------------------------------------------------------------
(* The operator.                                                           *)

LEMMA PrepareIInv ==
    ASSUME IInv, NEW limited \in BOOLEAN, MigratePrepare(limited)
    PROVE  IInv'
<1>1. TypeOK /\ Registry /\ Progress
  BY DEF IInv, Registry
<1>2. policy = "old" /\ Migratable
  BY <1>1 DEF MigratePrepare, Registry, PolicyLeads, Migratable
<1>3. /\ admin' = [pc |-> "fetch", todo |-> {}, failed |-> FALSE, limited |-> limited]
      /\ report' = [failed |-> TRUE, limited |-> limited]
  BY DEF MigratePrepare, Idle
<1>4. admin' \in Requests /\ report' \in [failed: BOOLEAN, limited: BOOLEAN]
  BY <1>3 DEF Requests
<1>5. admin'.pc = "fetch" /\ admin'.todo = {}
  BY <1>3
<1>6. report' # Clean
  BY <1>3 DEF Clean
<1>7. /\ prepared' = TRUE /\ cache' = [cache EXCEPT ![Admin] = NoCache]
      /\ UNCHANGED <<policy, contract, row, write, missed>>
  BY DEF MigratePrepare
<1>8. TypeOK' /\ \A q \in Procs : cache'[q] \in {cache[q], NoCache}
  BY <1>1, <1>4, <1>7, SpaceAssumption, TypeSets, TypeSetsNext DEF NoCache, Views
<1>9. WritesAreOfRows' /\ PolicyLeads' /\ ColumnIsOld'
  BY <1>1, <1>2, <1>7, <1>8 DEF Registry, WritesAreOfRows, PolicyLeads, ColumnIsOld, NoCache
<1>10. RestIsStamped'
  BY <1>1, <1>2, <1>7 DEF Progress, RestIsStamped
<1>11. FetchedIsCurrent' /\ BackfillCoversRest' /\ CleanBackfillIsComplete'
  BY <1>5, <1>6, <1>7 DEF FetchedIsCurrent, BackfillCoversRest, CleanBackfillIsComplete
<1> QED
  BY <1>8, <1>9, <1>10, <1>11 DEF IInv, Registry, Progress

LEMMA FetchIInv ==
    ASSUME IInv, MigrateFetch
    PROVE  IInv'
<1> USE DEF MigrateFetch
<1>1. TypeOK /\ Registry /\ Progress /\ admin \in Requests /\ row \in [Rows -> Memories]
  BY TypeSets DEF IInv, Registry
<1>2. PICK found \in SUBSET Candidates :
        /\ ~admin.limited => found = Candidates
        /\ admin' = [admin EXCEPT !.pc = "batch", !.todo = {<<r, row[r].text>> : r \in found}]
  OBVIOUS
<1> DEFINE fetched == {<<r, row[r].text>> : r \in found}
<1>3. fetched \subseteq Rows \X Texts
  BY <1>1, <1>2 DEF Candidates, Memories
<1>4. /\ \A x \in fetched : x[2] = row[x[1]].text
      /\ \A x, y \in fetched : x[1] = y[1] => x = y
      /\ ~admin.limited => \A r \in Candidates : <<r, row[r].text>> \in fetched
  BY <1>2
<1>5. admin' = [admin EXCEPT !.pc = "batch", !.todo = fetched]
  BY <1>2
<1> HIDE DEF fetched
<1>6. admin' \in Requests /\ admin'.todo = fetched /\ admin'.limited = admin.limited /\ admin'.pc = "batch"
  BY <1>1, <1>3, <1>5 DEF Requests
<1>7. UNCHANGED <<prepared, policy, contract, cache, row, write, report, missed>>
  OBVIOUS
<1>8. TypeOK'
  BY <1>1, <1>6, <1>7, TypeSets, TypeSetsNext
<1>9. WritesAreOfRows' /\ PolicyLeads' /\ ColumnIsOld'
  BY <1>1, <1>7 DEF Registry, WritesAreOfRows, PolicyLeads, ColumnIsOld, Migratable
<1>10. RestIsStamped' /\ CleanBackfillIsComplete'
  BY <1>1, <1>7 DEF Progress, RestIsStamped, CleanBackfillIsComplete, Migratable
<1>11. prepared
  BY <1>1 DEF Progress, FetchedIsCurrent
<1>12. FetchedIsCurrent'
  BY <1>4, <1>6, <1>7, <1>11 DEF FetchedIsCurrent
<1>13. BackfillCoversRest'
  <2>1. \A r \in Rows \ missed : row[r].text # 0 => row[r].shadow = row[r].text \/ r \in Candidates
    BY <1>1, <1>11 DEF Progress, RestIsStamped, Migratable, Candidates
  <2> QED
    BY <1>4, <1>6, <1>7, <2>1 DEF BackfillCoversRest
<1> QED
  BY <1>8, <1>9, <1>10, <1>12, <1>13 DEF IInv, Registry, Progress

LEMMA BatchIInv ==
    ASSUME IInv, NEW batch \in SUBSET admin.todo, MigrateBatch(batch)
    PROVE  IInv'
<1> USE DEF MigrateBatch
<1>1. TypeOK /\ Registry /\ Progress /\ admin \in Requests /\ row \in [Rows -> Memories]
  BY TypeSets DEF IInv, Registry
<1>2. PICK ok \in SUBSET batch :
        Upserted(ok) /\ admin' = [admin EXCEPT !.todo = @ \ batch, !.failed = @ \/ ok # batch]
  OBVIOUS
<1>3. /\ admin' \in Requests /\ admin'.todo = admin.todo \ batch /\ admin'.pc = "batch"
      /\ admin'.limited = admin.limited /\ (~admin'.failed => ~admin.failed /\ ok = batch)
  BY <1>1, <1>2 DEF Requests
<1>4. UNCHANGED <<prepared, policy, contract, cache, write, report>> /\ admin.pc = "batch"
  OBVIOUS
<1>5. /\ \A x \in admin.todo : x \in Rows \X Texts /\ x = <<x[1], x[2]>>
      /\ \A x, y \in admin.todo : x[1] = y[1] => x = y
      /\ \A x \in admin.todo : x[2] = row[x[1]].text \/ x[1] \in missed
  BY <1>1 DEF Requests, Progress, FetchedIsCurrent
\* Each row has the vector of its entry among those that succeeded.
<1>6. /\ \A x \in ok : row'[x[1]] = [row[x[1]] EXCEPT !.shadow = x[2]]
      /\ \A r \in Rows : (\A x \in ok : x[1] # r) => row'[r] = row[r]
  <2>1. \A r \in Rows : row'[r] = IF \E x \in ok : x[1] = r
                                  THEN [row[r] EXCEPT !.shadow = (CHOOSE x \in ok : x[1] = r)[2]]
                                  ELSE row[r]
    BY <1>2 DEF Upserted
  <2>2. ASSUME NEW x \in ok PROVE row'[x[1]] = [row[x[1]] EXCEPT !.shadow = x[2]]
    <3>1. x[1] \in Rows
      BY <1>2, <1>5
    <3> DEFINE y == CHOOSE z \in ok : z[1] = x[1]
    <3>2. y \in ok /\ y[1] = x[1]
      OBVIOUS
    <3>3. y = x
      BY <1>2, <1>5, <3>2
    <3> QED
      BY <2>1, <3>1, <3>3
  <2> QED
    BY <2>1, <2>2
<1>7. \A r \in Rows : /\ row'[r] \in Memories
                      /\ row'[r].text = row[r].text /\ row'[r].inline = row[r].inline /\ row'[r].stamp = row[r].stamp
                      /\ \/ \E x \in ok : x[1] = r /\ row'[r].shadow = x[2]
                         \/ (\A x \in ok : x[1] # r) /\ row'[r].shadow = row[r].shadow
  <2> SUFFICES ASSUME NEW r \in Rows
      PROVE  /\ row'[r] \in Memories
             /\ row'[r].text = row[r].text /\ row'[r].inline = row[r].inline /\ row'[r].stamp = row[r].stamp
             /\ \/ \E x \in ok : x[1] = r /\ row'[r].shadow = x[2]
                \/ (\A x \in ok : x[1] # r) /\ row'[r].shadow = row[r].shadow
    OBVIOUS
  <2>1. row[r] \in Memories
    BY <1>1
  <2>2. ASSUME NEW x \in ok, x[1] = r
        PROVE  /\ row'[r] \in Memories
               /\ row'[r].text = row[r].text /\ row'[r].inline = row[r].inline /\ row'[r].stamp = row[r].stamp
               /\ row'[r].shadow = x[2]
    <3>1. row'[r] = [row[r] EXCEPT !.shadow = x[2]] /\ x[2] \in Texts
      BY <1>2, <1>5, <1>6, <2>2
    <3> QED
      BY <2>1, <2>2, <3>1 DEF Memories
  <2>3. CASE \A x \in ok : x[1] # r
    BY <1>6, <2>1, <2>3 DEF Memories
  <2> QED
    BY <2>2, <2>3
<1>8. row' = [r \in Rows |-> row'[r]]
  BY <1>2 DEF Upserted
<1>9. row' \in [Rows -> Memories]
  BY <1>7, <1>8
<1>10. missed' = missed \ {x[1] : x \in {y \in ok : y[2] = row[y[1]].text}}
  BY <1>2 DEF Upserted
<1>11. TypeOK'
  BY <1>1, <1>3, <1>4, <1>9, <1>10, TypeSets, TypeSetsNext
<1>12. WritesAreOfRows' /\ PolicyLeads' /\ ColumnIsOld'
  BY <1>1, <1>4, <1>7 DEF Registry, WritesAreOfRows, PolicyLeads, ColumnIsOld, Migratable
\* What is not missed and was stored now is current; the rest is as it was.
<1>13. \A r \in Rows \ missed' :
          \/ row'[r].shadow = row'[r].text
          \/ r \notin missed /\ row'[r].shadow = row[r].shadow /\ \A x \in ok : x[1] # r
  <2> SUFFICES ASSUME NEW r \in Rows \ missed'
      PROVE  \/ row'[r].shadow = row'[r].text
             \/ r \notin missed /\ row'[r].shadow = row[r].shadow /\ \A x \in ok : x[1] # r
    OBVIOUS
  <2>1. r \notin missed \/ \E x \in ok : x[1] = r /\ x[2] = row[r].text
    BY <1>10
  <2>2. CASE \E x \in ok : x[1] = r
    <3>1. PICK x \in ok : x[1] = r /\ row'[r].shadow = x[2]
      BY <1>7, <2>2
    <3>2. x[2] = row[r].text
      BY <1>2, <1>5, <2>1, <3>1
    <3> QED
      BY <1>7, <3>1, <3>2
  <2>3. CASE \A x \in ok : x[1] # r
    BY <1>7, <2>1, <2>3
  <2> QED
    BY <2>2, <2>3
<1>14. RestIsStamped' /\ CleanBackfillIsComplete'
  BY <1>1, <1>4, <1>7, <1>13 DEF Progress, RestIsStamped, CleanBackfillIsComplete, Migratable
<1>15. FetchedIsCurrent'
  <2>1. ASSUME NEW x \in admin'.todo PROVE x[2] = row'[x[1]].text \/ x[1] \in missed'
    <3>1. x \in admin.todo /\ x \notin ok /\ x[1] \in Rows
      BY <1>2, <1>3, <1>5
    <3>2. \A y \in ok : y[1] # x[1]
      BY <1>2, <1>5, <3>1
    <3> QED
      BY <1>5, <1>7, <1>10, <3>1, <3>2
  <2> QED
    BY <1>1, <1>3, <1>4, <2>1 DEF Progress, FetchedIsCurrent
<1>16. BackfillCoversRest'
  <2> SUFFICES ASSUME ~admin'.failed, ~admin'.limited, NEW r \in Rows \ missed',
                      row'[r].text # 0, row'[r].shadow # row'[r].text
      PROVE  <<r, row'[r].text>> \in admin'.todo
    BY DEF BackfillCoversRest
  <2>1. r \notin missed /\ row'[r].shadow = row[r].shadow /\ \A x \in ok : x[1] # r
    BY <1>13
  <2>2. <<r, row[r].text>> \in admin.todo
    BY <1>1, <1>3, <1>4, <1>7, <2>1 DEF Progress, BackfillCoversRest
  <2> QED
    BY <1>3, <1>7, <2>1, <2>2
<1> QED
  BY <1>11, <1>12, <1>14, <1>15, <1>16 DEF IInv, Registry, Progress

LEMMA DoneIInv ==
    ASSUME IInv, MigrateDone
    PROVE  IInv'
<1> USE DEF MigrateDone
<1>1. TypeOK /\ Registry /\ Progress /\ admin \in Requests
  BY TypeSets DEF IInv, Registry
<1>2. admin' \in Requests /\ report' \in [failed: BOOLEAN, limited: BOOLEAN] /\ admin'.pc = "idle" /\ admin'.todo = {}
  BY <1>1 DEF Idle, Requests
<1>3. UNCHANGED <<prepared, policy, contract, cache, row, write, missed>>
  OBVIOUS
<1>4. TypeOK'
  BY <1>1, <1>2, <1>3, TypeSets, TypeSetsNext
<1>5. WritesAreOfRows' /\ PolicyLeads' /\ ColumnIsOld' /\ RestIsStamped'
  BY <1>1, <1>3
     DEF Registry, Progress, WritesAreOfRows, PolicyLeads, ColumnIsOld, RestIsStamped, Migratable
<1>6. FetchedIsCurrent' /\ BackfillCoversRest'
  BY <1>1, <1>2, <1>3 DEF Progress, FetchedIsCurrent, BackfillCoversRest
<1>7. CleanBackfillIsComplete'
  <2>1. report' = Clean => ~admin.failed /\ ~admin.limited
    BY <1>1 DEF Clean, Requests
  <2> QED
    BY <1>1, <1>3, <2>1 DEF Progress, BackfillCoversRest, CleanBackfillIsComplete
<1> QED
  BY <1>4, <1>5, <1>6, <1>7 DEF IInv, Registry, Progress

LEMMA PromoteIInv ==
    ASSUME IInv, PromotePolicy \/ PromoteRegistry
    PROVE  IInv'
<1>1. TypeOK /\ Registry /\ Progress /\ Idle \in Requests
  BY TypeSets DEF IInv, Registry, Idle, Requests
<1>2. CASE PromotePolicy
  <2> USE <1>2 DEF PromotePolicy
  <2>1. admin' \in Requests /\ admin'.todo = {} /\ admin'.pc = "promote"
    BY <1>1 DEF Idle, Requests
  <2>2. TypeOK'
    BY <1>1, <2>1, TypeSets, TypeSetsNext
  <2>3. contract'[Admin] = "new"
    BY <1>1, SpaceAssumption, TypeSets
  <2>4. Migratable' => Migratable
    BY DEF Migratable
  <2>5. WritesAreOfRows' /\ PolicyLeads' /\ ColumnIsOld'
    BY <1>1, <2>3, <2>4 DEF Registry, WritesAreOfRows, PolicyLeads, ColumnIsOld
  <2>6. Progress'
    BY <1>1, <2>1, <2>4, RowsUntouched
  <2> QED
    BY <2>2, <2>5, <2>6 DEF IInv, Registry
<1>3. CASE PromoteRegistry
  <2> USE <1>3 DEF PromoteRegistry
  <2> DEFINE read == IF prepared THEN "shadow" ELSE contract[Admin]
  <2>1. read \in Views /\ (Migratable => read # "new")
    BY <1>1, SpaceAssumption, TypeSets DEF Registry, PolicyLeads, Views, Entries, Migratable
  <2>2. cache' = [cache EXCEPT ![Admin] = read]
    OBVIOUS
  <2> HIDE DEF read
  <2>3. TypeOK' /\ \A q \in Procs : cache'[q] \in {cache[q], read}
    BY <1>1, <2>1, <2>2, TypeSets, TypeSetsNext
  <2>4. WritesAreOfRows' /\ PolicyLeads' /\ ColumnIsOld'
    BY <1>1, <2>1, <2>3 DEF Registry, WritesAreOfRows, PolicyLeads, ColumnIsOld, Migratable
  <2>5. Progress'
    BY <1>1, RowsUntouched DEF Migratable, Idle
  <2> QED
    BY <2>3, <2>4, <2>5 DEF IInv, Registry
<1> QED
  BY <1>2, <1>3

-----------------------------------------------------------------------------
\* The invariant holds in every state.
LEMMA Invariance == Spec => []IInv
<1>1. IInv /\ [Next]_vars => IInv'
  <2> SUFFICES ASSUME IInv, [Next]_vars PROVE IInv'
    OBVIOUS
  <2>1. CASE UNCHANGED vars
    <3>1. TypeOK'
      BY <2>1, TypeSets, TypeSetsNext DEF vars, IInv, Registry
    <3>2. WritesAreOfRows' /\ PolicyLeads' /\ ColumnIsOld'
      BY <2>1 DEF vars, IInv, Registry, WritesAreOfRows, PolicyLeads, ColumnIsOld, Migratable
    <3>3. Progress'
      BY <2>1, RowsUntouched DEF vars, IInv, Migratable
    <3> QED
      BY <3>1, <3>2, <3>3 DEF IInv, Registry
  <2>2. CASE Next
    BY <2>2, WriteBeginIInv, WriteCommitIInv, WritePreservingIInv, ProcessIInv, PrepareIInv, FetchIInv,
       BatchIInv, DoneIInv, PromoteIInv DEF Next
  <2> QED
    BY <2>1, <2>2
<1> QED
  BY InitIInv, <1>1, PTL DEF Spec

\* The registry, the copies of it, the rows and the requests stay within their types.
THEOREM TypeCorrect == Spec => []TypeOK
<1>1. IInv => TypeOK
  BY DEF IInv, Registry
<1> QED
  BY Invariance, <1>1, PTL

\* Wherever a backfill, a promotion or a process stopped, a row whose last write
\* did not miss the target has a current vector there or is one the next
\* backfill fetches, for any number of processes and copies of the registry of
\* any age (_fetch_candidate_rows, _resolve_inline_embedding,
\* promote_embedding_space_shadow).
THEOREM MigrationResumes == Spec => []MigrationCanResume
<1>1. IInv => MigrationCanResume
  BY DEF IInv, Progress, RestIsStamped, Migratable, MigrationCanResume, Candidates
<1> QED
  BY Invariance, <1>1, PTL

\* A backfill without a limit that reports no failure leaves no row without a
\* current vector in the target space but those whose last write failed, met the
\* backfill or used an older copy of the registry; every later write keeps it so
\* (migrate_embedding_space_rows, for any number of rows, batches and attempts).
THEOREM CleanBackfillComplete == Spec => []CleanBackfillIsComplete
<1>1. IInv => CleanBackfillIsComplete
  BY DEF IInv, Progress
<1> QED
  BY Invariance, <1>1, PTL

-----------------------------------------------------------------------------
(* The circuit breaker *)

Calls == [phase: {"idle", "guarded", "manual"}, doomed: BOOLEAN]

BreakerInv == Breaker!TypeOK /\ Breaker!ThresholdOpens

\* A closed circuit without failures satisfies the invariant.
LEMMA InitBreaker == ASSUME Threshold \in Nat \ {0}, Breaker!Init PROVE BreakerInv
  BY DEF Breaker!Init, BreakerInv, Breaker!TypeOK, Breaker!ThresholdOpens, Breaker!NoCall

\* record_failure opens the circuit when the count reaches the threshold.
LEMMA FailureRecorded ==
    ASSUME Threshold \in Nat \ {0}, BreakerInv, Breaker!RecordFailure
    PROVE  /\ state' \in {"CLOSED", "OPEN", "HALF_OPEN"} /\ failures' \in 0 .. Threshold
           /\ elapsed' \in BOOLEAN /\ Breaker!ThresholdOpens'
<1>1. elapsed' \in BOOLEAN
  BY DEF Breaker!RecordFailure
<1>2. failures' \in 0 .. Threshold /\ failures' = IF failures = Threshold THEN failures ELSE failures + 1
  BY DEF BreakerInv, Breaker!TypeOK, Breaker!RecordFailure
<1>3. state' \in {"CLOSED", "OPEN", "HALF_OPEN"} /\ (failures' = Threshold => state' # "CLOSED")
  BY DEF BreakerInv, Breaker!TypeOK, Breaker!RecordFailure
<1> QED
  BY <1>1, <1>2, <1>3 DEF Breaker!ThresholdOpens

\* Every call, answer, cancellation and passing of time keeps the invariant.
LEMMA NextBreaker ==
    ASSUME Threshold \in Nat \ {0}, BreakerInv, [Breaker!Next]_(Breaker!vars)
    PROVE  BreakerInv'
<1>1. call \in [Callers -> Calls] /\ Breaker!NoCall \in Calls
  BY DEF BreakerInv, Breaker!TypeOK, Calls, Breaker!NoCall
<1>2. ASSUME NEW c \in Callers, Breaker!BeginManual(c) \/ Breaker!Begin(c) PROVE BreakerInv'
  <2>1. call' \in [Callers -> Calls]
    <3>1. \A d \in BOOLEAN : /\ [phase |-> "manual", doomed |-> d] \in Calls
                             /\ [phase |-> "guarded", doomed |-> d] \in Calls
      BY DEF Calls
    <3>2. (~healthy) \in BOOLEAN
      BY DEF BreakerInv, Breaker!TypeOK
    <3>3. CASE Breaker!BeginManual(c)
      BY <1>1, <3>1, <3>2, <3>3 DEF Breaker!BeginManual
    <3>4. CASE Breaker!Begin(c)
      BY <1>1, <3>1, <3>2, <3>4 DEF Breaker!Begin
    <3> QED
      BY <1>2, <3>3, <3>4
  <2>2. state' \in {state, "HALF_OPEN"} /\ UNCHANGED <<failures, elapsed, healthy>>
    BY <1>2 DEF Breaker!BeginManual, Breaker!Begin
  <2>3. Breaker!TypeOK'
    BY <2>1, <2>2 DEF BreakerInv, Breaker!TypeOK, Calls
  <2>4. Breaker!ThresholdOpens'
    BY <2>2 DEF BreakerInv, Breaker!TypeOK, Breaker!ThresholdOpens
  <2> QED
    BY <2>3, <2>4 DEF BreakerInv
<1>3. ASSUME NEW c \in Callers, Breaker!Succeed(c) PROVE BreakerInv'
  BY <1>1, <1>3 DEF Breaker!Succeed, Breaker!RecordSuccess, BreakerInv, Breaker!TypeOK,
     Breaker!ThresholdOpens, Calls
<1>4. ASSUME NEW c \in Callers, Breaker!Fail(c) PROVE BreakerInv'
  <2>1. call' \in [Callers -> Calls] /\ UNCHANGED healthy
    BY <1>1, <1>4 DEF Breaker!Fail
  <2>2. Breaker!RecordFailure
    BY <1>4 DEF Breaker!Fail
  <2> QED
    BY <2>1, <2>2, FailureRecorded DEF BreakerInv, Breaker!TypeOK, Calls
<1>5. ASSUME NEW c \in Callers, Breaker!Cancel(c) PROVE BreakerInv'
  <2>1. call' \in [Callers -> Calls] /\ UNCHANGED healthy
    BY <1>1, <1>5 DEF Breaker!Cancel
  <2>2. CASE Breaker!RecordFailure
    BY <2>1, <2>2, FailureRecorded DEF BreakerInv, Breaker!TypeOK, Calls
  <2>3. CASE UNCHANGED <<state, failures, elapsed>>
    BY <2>1, <2>3 DEF BreakerInv, Breaker!TypeOK, Breaker!ThresholdOpens, Calls
  <2> QED
    BY <1>5, <2>2, <2>3 DEF Breaker!Cancel
<1>6. CASE Breaker!Elapse
  BY <1>6 DEF Breaker!Elapse, BreakerInv, Breaker!TypeOK, Breaker!ThresholdOpens
<1>7. CASE Breaker!ServiceChanges
  <2>1. healthy' \in BOOLEAN /\ UNCHANGED <<state, failures, elapsed, call>>
    BY <1>7 DEF Breaker!ServiceChanges
  <2> QED
    BY <2>1 DEF BreakerInv, Breaker!TypeOK, Breaker!ThresholdOpens
<1>8. CASE UNCHANGED Breaker!vars
  BY <1>8 DEF Breaker!vars, BreakerInv, Breaker!TypeOK, Breaker!ThresholdOpens
<1> QED
  BY <1>2, <1>3, <1>4, <1>5, <1>6, <1>7, <1>8 DEF Breaker!Next, Breaker!End

\* The breaker's fields and calls stay within their types.
THEOREM BreakerTypeCorrect ==
    ASSUME Threshold \in Nat \ {0} PROVE Breaker!Spec => []Breaker!TypeOK
<1>1. BreakerInv /\ [Breaker!Next]_(Breaker!vars) => BreakerInv'
  BY NextBreaker
<1>2. BreakerInv => Breaker!TypeOK
  BY DEF BreakerInv
<1>3. Breaker!Init => BreakerInv
  BY InitBreaker
<1> QED
  BY <1>1, <1>2, <1>3, PTL DEF Breaker!Spec

\* However late its calls end, a circuit whose count has reached the threshold
\* is not closed (record_failure, record_success).
THEOREM ThresholdRespected ==
    ASSUME Threshold \in Nat \ {0} PROVE Breaker!Spec => []Breaker!ThresholdOpens
<1>1. BreakerInv /\ [Breaker!Next]_(Breaker!vars) => BreakerInv'
  BY NextBreaker
<1>2. BreakerInv => Breaker!ThresholdOpens
  BY DEF BreakerInv
<1>3. Breaker!Init => BreakerInv
  BY InitBreaker
<1> QED
  BY <1>1, <1>2, <1>3, PTL DEF Breaker!Spec
=============================================================================
