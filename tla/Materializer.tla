---------------------------- MODULE Materializer ----------------------------
(***************************************************************************)
(* The materializer (pkg/materializer): it applies the decided log to two  *)
(* stores that do not share a transaction.  A page of slots is one SQLite   *)
(* transaction; every graph command is a LatticeDB transaction of its own,  *)
(* committed before SQLite's, so the graph runs ahead and a journal of the  *)
(* graph slots SQLite has not confirmed tells a replay what is done.        *)
(* Request IDs are deduplicated inside a window of slots.  A checkpoint is  *)
(* a snapshot of both stores; restoring one replaces two files one after    *)
(* the other under a restore journal.                                       *)
(*                                                                         *)
(* A decided value is a record [kind, items]; an item [id, body, size,      *)
(* fails] is a command: its request ID, what the fingerprint tells apart,   *)
(* the bytes of its retained result, and whether the store rejects it.  The *)
(* rows a command writes are one entry <<slot, index>> of the store's       *)
(* history.  LatticeDB commits are durable; SQLite (synchronous=NORMAL) may *)
(* lose its tail when the machine loses power.                              *)
(***************************************************************************)
EXTENDS Integers, Sequences, FiniteSets

CONSTANTS Histories,       \* the decided logs considered
          Window,          \* idempotency window, in slots
          MaxPage,         \* slots of one ApplyBatch (256; Window >= 1024)
          MaxRetained,     \* maxRetainedSQLResultBytes
          MaxRecent,       \* recentSQLReceiptLimit
          MaxMatCrashes,   \* bound: process crashes
          MaxPowerLosses,  \* bound: power losses
          MaxMatErrors,    \* bound: failed statements, commits, restores
          MaxRestores      \* bound: checkpoint restores

ASSUME MaterializerBounds ==
  /\ {Window, MaxPage, MaxRetained, MaxRecent, MaxMatCrashes, MaxPowerLosses,
      MaxMatErrors, MaxRestores} \subseteq Nat
  /\ 0 < MaxPage /\ MaxPage <= Window

VARIABLES decisions, \* the log: one decided value per slot
          files,     \* what the data directory holds
          synced,    \* SQLite's content at its last WAL checkpoint
          mat,       \* the Materializer object
          batch,     \* the ApplyBatch in progress
          stage,     \* where the process is: opening, serving, restoring
          stored,    \* the last published checkpoint pair, if any
          faulted    \* counters of what has gone wrong

matVars == <<decisions, files, synced, mat, batch, stage, stored, faulted>>

Gone == [tip |-> -1]
FreshSQLite == [tip |-> 0, state |-> 0, done |-> <<>>, receipts |-> {},
                bytes |-> 0]
FreshGraph == [tip |-> 0, journal |-> {}, pending |-> 0, done |-> <<>>,
               receipts |-> {}]
NoBatch == [on |-> FALSE]
Closed == [open |-> FALSE, tip |-> 0, graphTip |-> 0, pending |-> 0,
           unknown |-> FALSE, bloom |-> <<>>, recent |-> {}, notices |-> <<>>]

MatInit ==
  /\ decisions \in Histories
  /\ files = [sqlite |-> FreshSQLite, graph |-> FreshGraph,
              sqliteBackup |-> Gone, graphBackup |-> Gone, phase |-> "none"]
  /\ synced = FreshSQLite
  /\ mat = Closed /\ batch = NoBatch /\ stage = "open" /\ stored = Gone
  /\ faulted = [crashes |-> 0, power |-> 0, errors |-> 0, restores |-> 0,
                stuck |-> FALSE]

-----------------------------------------------------------------------------
(* Receipts.                                                               *)

Receipt(kind, item, slot, status, size) ==
  [kind |-> kind, id |-> item.id, body |-> item.body, slot |-> slot,
   status |-> status, size |-> size]

Oldest(slot) == slot - Window + 1

\* pruneReceipts: receipts older than the window of the slot being applied.
Expired(receipts, slot) == {r \in receipts : r.slot < Oldest(slot)}

SizeOf(receipts) ==
  LET of[n \in 0..MaxRetained] ==
        IF n = 0 THEN 0
        ELSE of[n - 1] + n * Cardinality({r \in receipts : r.size = n})
  IN of[MaxRetained]

SqlReceipts(receipts) == {r \in receipts : r.kind = "sql"}

\* The receipts' Bloom filter: two epochs of Window slots.  A filter has no
\* false negatives; a false positive costs a lookup and is left out.
EmptyBloom == [e \in {0, 1} |-> [epoch |-> -1, ids |-> {}]]

BloomAddOne(bloom, r) ==
  LET epoch == r.slot \div Window IN
  [bloom EXCEPT ![epoch % 2] =
     [epoch |-> epoch,
      ids |-> {r.id} \cup (IF @.epoch = epoch THEN @.ids ELSE {})]]

BloomAdd(bloom, receipts) ==
  LET through[n \in 0..Len(receipts)] ==
        IF n = 0 THEN bloom ELSE BloomAddOne(through[n - 1], receipts[n])
  IN through[Len(receipts)]

\* As if only the current epoch were looked up.
MightContainInEpoch(bloom, id, tip) ==
  \E e \in {0, 1} : /\ bloom[e].epoch = tip \div Window
                    /\ id \in bloom[e].ids

MightContain(bloom, id, tip) ==
  \E e \in {0, 1} : /\ bloom[e].epoch # -1
                    /\ bloom[e].epoch \in (tip \div Window) - 1..tip \div Window
                    /\ id \in bloom[e].ids

-----------------------------------------------------------------------------
(* Opening: recover an interrupted restore, load SQLite, load the graph.    *)

\* recoverRestore: put the backups back unless the restore committed, then
\* drop them, then the journal.  Each step may be the last before a crash.
RecoverSQLite ==
  /\ stage = "open" /\ files.phase # "none"
  /\ stage' = "recover-graph"
  /\ files' = IF files.phase # "committed" /\ files.sqliteBackup # Gone
              THEN [files EXCEPT !.sqlite = files.sqliteBackup,
                                 !.sqliteBackup = Gone]
              ELSE files
  /\ synced' = files'.sqlite
  /\ UNCHANGED <<decisions, mat, batch, stored, faulted>>

RecoverGraph ==
  /\ stage = "recover-graph"
  /\ stage' = "recover-clean"
  /\ files' = IF files.phase # "committed" /\ files.graphBackup # Gone
              THEN [files EXCEPT !.graph = files.graphBackup,
                                 !.graphBackup = Gone]
              ELSE files
  /\ UNCHANGED <<decisions, synced, mat, batch, stored, faulted>>

RemoveBackups ==
  /\ stage = "recover-clean"
  /\ stage' = "recover-journal"
  /\ files' = [files EXCEPT !.sqliteBackup = Gone, !.graphBackup = Gone]
  /\ UNCHANGED <<decisions, synced, mat, batch, stored, faulted>>

RemoveJournal ==
  /\ stage = "recover-journal"
  /\ stage' = "open"
  /\ files' = [files EXCEPT !.phase = "none"]
  /\ UNCHANGED <<decisions, synced, mat, batch, stored, faulted>>

Max2(a, b) == IF a < b THEN b ELSE a

\* openGraphForPolicy: what the graph's metadata must satisfy, given the tip
\* SQLite reopened at, and the journal that is left.
Unconfirmed(journal, through) == {s \in journal : s > through}

GraphOpens(graph, tip) ==
  /\ \A s \in graph.journal : s <= graph.tip
  /\ graph.pending # 0 => graph.pending > tip /\ graph.pending > graph.tip
  /\ graph.tip > tip => graph.tip \in Unconfirmed(graph.journal, tip)

\* loadSQLReceiptRetention, loadTip.
SQLiteOpens(sqlite) ==
  /\ sqlite.bytes = SizeOf(SqlReceipts(sqlite.receipts))
  /\ sqlite.bytes <= MaxRetained
  /\ sqlite.state <= sqlite.tip

\* loadSQLReceiptBloom reads the receipts of the window in any order.
LoadBloom(sqlite) ==
  LET inWindow == SqlReceipts({r \in sqlite.receipts :
                                 r.slot >= Oldest(sqlite.tip)})
      newest == sqlite.tip \div Window
  IN [e \in {0, 1} |->
        LET epochs == {r.slot \div Window : r \in inWindow} \cap
                      {n \in {newest - 1, newest} : n >= 0 /\ n % 2 = e}
        IN IF epochs = {} THEN EmptyBloom[e]
           ELSE [epoch |-> CHOOSE n \in epochs : TRUE,
                 ids |-> {r.id : r \in {q \in inWindow :
                                          q.slot \div Window \in epochs}}]]

Loaded(sqlite, graph) ==
  [open |-> TRUE, tip |-> sqlite.tip,
   graphTip |-> Max2(graph.tip, sqlite.tip), pending |-> graph.pending,
   unknown |-> FALSE, bloom |-> LoadBloom(sqlite), recent |-> {},
   notices |-> mat.notices]

\* Open (and reopen after a failed restore).
OpenMaterializer ==
  /\ stage = "open" /\ files.phase = "none" /\ ~faulted.stuck
  /\ IF SQLiteOpens(files.sqlite) /\ GraphOpens(files.graph, files.sqlite.tip)
     THEN /\ mat' = Loaded(files.sqlite, files.graph)
          /\ files' = [files EXCEPT
                         !.graph.journal = Unconfirmed(@, files.sqlite.tip)]
          /\ stage' = "serve"
          /\ UNCHANGED faulted
     ELSE /\ faulted' = [faulted EXCEPT !.stuck = TRUE]
          /\ UNCHANGED <<mat, files, stage>>
  /\ UNCHANGED <<decisions, synced, batch, stored>>

-----------------------------------------------------------------------------
(* Applying a page.                                                         *)

\* ApplyBatch up to its first new slot: callers pass at most MaxPage decided
\* slots; those already applied are skipped.
BeginBatch(last) ==
  /\ stage = "serve" /\ ~batch.on /\ ~mat.unknown
  /\ batch' = [on |-> TRUE, last |-> last, base |-> mat.tip,
               at |-> mat.tip + 1, commands |-> 0, work |-> files.sqlite,
               pending |-> <<>>, notices |-> <<>>]
  /\ UNCHANGED <<decisions, files, synced, mat, stage, stored, faulted>>

Value == decisions[batch.at]
IsGraph == Value.kind = "graph"

\* applyGraph's refusals: a slot out of step with the pending one, or a graph
\* slot at or below the graph's tip that its journal no longer names.
GraphRefuses ==
  \/ mat.pending # 0 /\ batch.at > mat.pending
  \/ mat.pending # 0 /\ batch.at = mat.pending /\ ~IsGraph
  \/ mat.pending # 0 /\ batch.at < mat.pending /\ IsGraph
                     /\ batch.at > mat.graphTip
  \/ batch.at <= mat.graphTip /\ IsGraph
                     /\ batch.at \notin files.graph.journal
  \/ batch.at > mat.graphTip + 1

\* The end of a failed ApplyBatch: SQLite rolls back, the graph does not.
Rollback(unknown) ==
  /\ batch' = NoBatch
  /\ mat' = [mat EXCEPT !.unknown = @ \/ unknown]

Refuse ==
  /\ batch.on /\ batch.at <= batch.last /\ GraphRefuses
  /\ Rollback(FALSE)
  /\ faulted' = [faulted EXCEPT !.stuck = TRUE]
  /\ UNCHANGED <<decisions, files, synced, stage, stored>>

\* pruneGraphRequestsForApply: the slots whose requests are dropped.
PrunedSlots(tip, slot) ==
  IF tip = 0 \/ slot <= Window THEN {}
  ELSE {s \in 1..tip : tip - Window < s /\ s <= slot - Window}

\* pruneGraphRequests, through the index of requests by slot.
GraphPruned(graph, slot) ==
  [graph EXCEPT !.receipts =
     {r \in @ : r.slot \notin PrunedSlots(graph.tip, slot)}]

\* putRequest.
PutRequest(graph, item, slot, status) ==
  [graph EXCEPT !.receipts = @ \cup {Receipt("graph", item, slot, status, 0)}]

RequestInTx(graph, item) == {r \in graph.receipts : r.id = item.id}

\* As if the journal kept only the last graph slot.
AdvanceGraphThroughTip(graph, slot, confirmed) ==
  [graph EXCEPT !.journal = {slot}, !.tip = slot, !.pending = 0]

\* advanceGraphMetadata and setPendingGraphApply.
AdvanceGraph(graph, slot, confirmed) ==
  [graph EXCEPT !.journal = Unconfirmed(@, confirmed) \cup {slot},
                !.tip = slot, !.pending = 0]

Completed(graph, i) ==
  IF i = Len(Value.items) THEN AdvanceGraph(graph, batch.at, batch.base)
  ELSE [graph EXCEPT !.pending = batch.at]

\* recordFailure: a rejected command leaves a receipt unless its ID has one.
RecordFailure(graph, i) ==
  LET item == Value.items[i] IN
  Completed(IF RequestInTx(graph, item) # {} THEN graph
            ELSE PutRequest(graph, item, batch.at, "rejected"), i)

\* applyCommand: the statement, its stream records and its receipt.
ExecuteGraph(graph, i) ==
  Completed(PutRequest([graph EXCEPT !.done = Append(@, <<batch.at, i>>)],
                       Value.items[i], batch.at, "ok"), i)

\* Command i of the graph slot: one LatticeDB transaction.  An ID in use is
\* not executed again, whether its body agrees or not.
GraphAfter(i) ==
  LET graph == GraphPruned(files.graph, batch.at)
      item == Value.items[i]
      known == RequestInTx(graph, item)
  IN IF item.fails \/ \E r \in known : r.body # item.body
     THEN RecordFailure(graph, i)
     ELSE IF known # {} THEN Completed(graph, i)
     ELSE ExecuteGraph(graph, i)

GraphCommand ==
  LET i == batch.commands + 1
      last == i = Len(Value.items) IN
  /\ batch.on /\ batch.at <= batch.last /\ IsGraph /\ ~GraphRefuses
  /\ batch.at = mat.graphTip + 1
  /\ \/ /\ files' = [files EXCEPT !.graph = GraphAfter(i)]
        /\ mat' = [mat EXCEPT !.pending = IF last THEN 0 ELSE batch.at,
                              !.graphTip = IF last THEN batch.at ELSE @]
        /\ batch' = [batch EXCEPT !.commands = IF last THEN 0 ELSE i]
        /\ UNCHANGED faulted
     \/ /\ faulted.errors < MaxMatErrors
        /\ faulted' = [faulted EXCEPT !.errors = @ + 1]
        /\ \E graph \in {files.graph, GraphAfter(i)} :
             files' = [files EXCEPT !.graph = graph]
        /\ Rollback(TRUE)
  /\ UNCHANGED <<decisions, synced, stage, stored>>

\* executeSQLCommand under its savepoint, then the retained result's size:
\* "rejected" and "full" roll back to the savepoint.
Execution(item, bytes) ==
  IF item.fails THEN "rejected"
  ELSE IF item.size > MaxRetained - bytes THEN "full" ELSE "ok"

\* encodeSQLResult: only a committed command retains rows.
ResultSize(item, status) == IF status = "ok" THEN item.size ELSE 0

\* One SQL command of a slot: skipped when its ID has a receipt of this page
\* or, past the Bloom filter, one in the transaction.
SqlCommand(w, slot, i, item) ==
  LET known == \/ \E p \in 1..Len(w.pending) : w.pending[p].id = item.id
               \/ /\ MightContain(mat.bloom, item.id, slot - 1)
                  /\ \E r \in SqlReceipts(w.receipts) : r.id = item.id
      status == Execution(item, w.bytes)
      size == ResultSize(item, status)
  IN IF known THEN w
     ELSE [w EXCEPT
             !.done = IF status = "ok" THEN Append(@, <<slot, i>>) ELSE @,
             !.bytes = @ + size,
             !.pending = Append(@, Receipt("sql", item, slot, status, size))]

\* applyKV: put, delete and compare-and-swap alike leave a receipt.
KVCommand(w, slot, i, item) ==
  IF \E r \in w.receipts : r.kind = "kv" /\ r.id = item.id THEN w
  ELSE [w EXCEPT !.done = Append(@, <<slot, i>>),
                 !.receipts = @ \cup {Receipt("kv", item, slot, "ok", 0)}]

Notification(w, slot, item) ==
  IF \E r \in w.receipts : r.kind = "notify" /\ r.id = item.id THEN w
  ELSE [w EXCEPT !.receipts = @ \cup {Receipt("notify", item, slot, "ok", 0)},
                 !.notices = Append(@, slot)]

\* applyValueLocked's SQLite side: prune, then the slot's commands in order.
SlotApplied(slot, value) ==
  LET old == Expired(batch.work.receipts, slot)
      start == [done |-> batch.work.done,
                receipts |-> batch.work.receipts \ old,
                bytes |-> batch.work.bytes - SizeOf(SqlReceipts(old)),
                pending |-> batch.pending, notices |-> batch.notices]
      after[i \in 0..Len(value.items)] ==
        IF i = 0 THEN start
        ELSE CASE value.kind = "sql" ->
                    SqlCommand(after[i - 1], slot, i, value.items[i])
               [] value.kind = "kv" ->
                    KVCommand(after[i - 1], slot, i, value.items[i])
               [] value.kind = "notify" ->
                    Notification(after[i - 1], slot, value.items[i])
               [] OTHER -> after[i - 1]
  IN after[Len(value.items)]

ApplySlot ==
  /\ batch.on /\ batch.at <= batch.last /\ ~GraphRefuses
  /\ IsGraph => batch.at <= mat.graphTip
  /\ LET w == SlotApplied(batch.at, Value) IN
     batch' = [batch EXCEPT
       !.at = @ + 1, !.pending = w.pending, !.notices = w.notices,
       !.work = [tip |-> batch.at,
                 state |-> IF Value.kind = "control" THEN @.state
                           ELSE batch.at,
                 done |-> w.done, receipts |-> w.receipts, bytes |-> w.bytes]]
  /\ mat' = [mat EXCEPT !.graphTip = Max2(@, batch.at)]
  /\ UNCHANGED <<decisions, files, synced, stage, stored, faulted>>

\* A statement, a cancelled context or a failed flush ends the call early.
CancelBatch ==
  /\ batch.on /\ faulted.errors < MaxMatErrors
  /\ faulted' = [faulted EXCEPT !.errors = @ + 1]
  /\ Rollback(FALSE)
  /\ UNCHANGED <<decisions, files, synced, stage, stored>>

\* flushPendingSQLReceipts.
Flushed ==
  [batch.work EXCEPT !.receipts =
     @ \cup {batch.pending[p] : p \in 1..Len(batch.pending)}]

\* recentSQLReceipts keeps the last few receipts of this process.
Remember(recent, pending) ==
  LET n == Len(pending)
      new == {pending[p] : p \in {q \in 1..n : q > n - MaxRecent}}
      kept == IF Cardinality(recent) + Cardinality(new) > MaxRecent
              THEN {} ELSE recent
  IN new \cup {r \in kept : \A q \in new : q.id # r.id}

CommitBatch ==
  /\ batch.on /\ batch.at > batch.last
  /\ files' = [files EXCEPT !.sqlite = Flushed]
  /\ batch' = NoBatch
  /\ mat' = [mat EXCEPT
       !.tip = batch.last, !.bloom = BloomAdd(@, batch.pending),
       !.recent = Remember(@, batch.pending), !.notices = @ \o batch.notices]
  /\ UNCHANGED <<decisions, synced, stage, stored, faulted>>

\* A commit whose outcome is not known poisons the object until a restart.
CommitUnknown ==
  /\ batch.on /\ batch.at > batch.last /\ faulted.errors < MaxMatErrors
  /\ faulted' = [faulted EXCEPT !.errors = @ + 1]
  /\ \E sqlite \in {files.sqlite, Flushed} :
       files' = [files EXCEPT !.sqlite = sqlite]
  /\ Rollback(TRUE)
  /\ UNCHANGED <<decisions, synced, stage, stored>>

\* runSQLiteCheckpoints moves the WAL's content to stable storage.
CheckpointWAL ==
  /\ stage = "serve" /\ synced # files.sqlite
  /\ synced' = files.sqlite
  /\ UNCHANGED <<decisions, files, mat, batch, stage, stored, faulted>>

-----------------------------------------------------------------------------
(* Checkpoints and restores.                                               *)

\* graphReadableLocked.
GraphReadable ==
  /\ mat.open /\ ~mat.unknown /\ mat.pending = 0 /\ mat.graphTip = mat.tip

\* Snapshots of both stores, begun under the lock, copied after it.
SnapshotPair == [tip |-> files.sqlite.tip, sqlite |-> files.sqlite,
                 graph |-> files.graph]

CheckpointFilesAt ==
  /\ stage = "serve" /\ ~batch.on /\ GraphReadable
  /\ files.sqlite.tip = mat.tip /\ mat.tip > 0
  /\ stored' = SnapshotPair
  /\ UNCHANGED <<decisions, files, synced, mat, batch, stage, faulted>>

\* A node that lost its volume starts over with an empty one.
ReplaceVolume ==
  /\ stored # Gone /\ faulted.crashes < MaxMatCrashes /\ ~faulted.stuck
  /\ faulted' = [faulted EXCEPT !.crashes = @ + 1]
  /\ files' = [sqlite |-> FreshSQLite, graph |-> FreshGraph,
               sqliteBackup |-> Gone, graphBackup |-> Gone, phase |-> "none"]
  /\ synced' = FreshSQLite /\ mat' = Closed /\ batch' = NoBatch
  /\ stage' = "open"
  /\ UNCHANGED <<decisions, stored>>

\* RestoreCheckpoint's inputs: both files of one checkpoint; its callers
\* restore only what is ahead of their own tip.
Restorable == stored # Gone /\ stored.tip > mat.tip

\* restoreParts, one step per rename and per journal write; closing the
\* connections moves SQLite's WAL into the file that is backed up.
StartRestore ==
  /\ stage = "serve" /\ ~batch.on /\ ~mat.unknown /\ Restorable
  /\ faulted.restores < MaxRestores
  /\ files.sqliteBackup = Gone /\ files.graphBackup = Gone
  /\ faulted' = [faulted EXCEPT !.restores = @ + 1]
  /\ files' = [files EXCEPT !.phase = "prepared"]
  /\ synced' = files.sqlite
  /\ mat' = [mat EXCEPT !.open = FALSE]
  /\ stage' = "backup-sqlite"
  /\ UNCHANGED <<decisions, batch, stored>>

RestoreStep(from, to, new) ==
  /\ stage = from
  /\ stage' = to
  /\ files' = new
  /\ UNCHANGED <<decisions, mat, batch, stored, faulted>>

BackupSQLite ==
  /\ RestoreStep("backup-sqlite", "backup-graph",
       [files EXCEPT !.sqliteBackup = files.sqlite, !.sqlite = Gone])
  /\ UNCHANGED synced
BackupGraph ==
  /\ RestoreStep("backup-graph", "install-graph",
       [files EXCEPT !.phase = "sqlite-backed-up",
                     !.graphBackup = files.graph, !.graph = Gone])
  /\ UNCHANGED synced
InstallGraph ==
  /\ RestoreStep("install-graph", "install-sqlite",
                 [files EXCEPT !.graph = stored.graph])
  /\ UNCHANGED synced
InstallSQLite ==
  /\ RestoreStep("install-sqlite", "commit-restore",
       [files EXCEPT !.phase = "graph-installed", !.sqlite = stored.sqlite])
  /\ synced' = stored.sqlite
CommitRestore ==
  /\ RestoreStep("commit-restore", "open",
                 [files EXCEPT !.phase = "committed"])
  /\ SQLiteOpens(files.sqlite) /\ GraphOpens(files.graph, files.sqlite.tip)
  /\ files.graph.pending = 0 /\ files.graph.tip <= files.sqlite.tip
  /\ UNCHANGED synced

Restoring == {"backup-sqlite", "backup-graph", "install-graph",
              "install-sqlite", "commit-restore"}

\* rollback: recover the backups and reopen, in the same process.
FailRestore ==
  /\ stage \in Restoring /\ faulted.errors < MaxMatErrors
  /\ faulted' = [faulted EXCEPT !.errors = @ + 1]
  /\ stage' = "open"
  /\ UNCHANGED <<decisions, files, synced, mat, batch, stored>>

-----------------------------------------------------------------------------
(* Faults.                                                                 *)

CrashMaterializer ==
  /\ faulted.crashes < MaxMatCrashes /\ ~faulted.stuck
  /\ faulted' = [faulted EXCEPT !.crashes = @ + 1]
  /\ mat' = Closed /\ batch' = NoBatch /\ stage' = "open"
  /\ UNCHANGED <<decisions, files, synced, stored>>

\* Power is lost while the stores are open: SQLite falls back to its last
\* WAL checkpoint.
LosePower ==
  /\ stage = "serve" /\ faulted.power < MaxPowerLosses /\ ~faulted.stuck
  /\ faulted' = [faulted EXCEPT !.power = @ + 1]
  /\ files' = [files EXCEPT !.sqlite = synced]
  /\ mat' = Closed /\ batch' = NoBatch /\ stage' = "open"
  /\ UNCHANGED <<decisions, synced, stored>>

MatNext ==
  \/ RecoverSQLite \/ RecoverGraph \/ RemoveBackups \/ RemoveJournal
  \/ OpenMaterializer
  \/ \E last \in mat.tip + 1..Len(decisions) :
       last <= mat.tip + MaxPage /\ BeginBatch(last)
  \/ Refuse \/ GraphCommand \/ ApplySlot \/ CancelBatch
  \/ CommitBatch \/ CommitUnknown \/ CheckpointWAL
  \/ CheckpointFilesAt \/ ReplaceVolume
  \/ StartRestore \/ BackupSQLite \/ BackupGraph \/ InstallGraph
  \/ InstallSQLite \/ CommitRestore \/ FailRestore
  \/ CrashMaterializer \/ LosePower

MatSpec == MatInit /\ [][MatNext]_matVars

-----------------------------------------------------------------------------
(* What the log means, read off one command at a time.                      *)

PositionsIn(h, kinds) ==
  {<<s, i>> \in (1..Len(h)) \X (1..3) :
     h[s].kind \in kinds /\ i <= Len(h[s].items)}

\* The outcome of each command if requests are told apart by kind and ID
\* within a window of slots: "skipped", "ok", "rejected" or "full".
Meaning(h) ==
  LET all == PositionsIn(h, {"sql", "kv", "notify", "graph"})
      item(p) == h[p[1]].items[p[2]]
      of[n \in 0..4 * Len(h) + 3] ==
        IF n = 0 THEN [p \in {} |-> ""]
        ELSE LET here == {p \in all : 4 * p[1] + p[2] = n}
                 past == of[n - 1] IN
        IF here = {} THEN past
        ELSE
        LET p == CHOOSE q \in here : TRUE
            kind == h[p[1]].kind
            live == {q \in DOMAIN past :
                       /\ past[q] # "skipped"
                       /\ h[q[1]].kind = kind /\ q[1] > p[1] - Window}
            bytes == SizeOf({[size |-> item(q).size, at |-> q] :
                               q \in {r \in live : past[r] = "ok"}})
            outcome ==
              IF \E q \in live : item(q).id = item(p).id THEN "skipped"
              ELSE IF kind \in {"sql", "graph"} /\ item(p).fails
                   THEN "rejected"
              ELSE IF kind = "sql" /\ bytes + item(p).size > MaxRetained
                   THEN "full" ELSE "ok"
        IN [q \in DOMAIN past \cup {p} |-> IF q = p THEN outcome ELSE past[q]]
  IN of[4 * Len(h) + 3]

Meanings == [h \in Histories |-> Meaning(h)]

Outcomes == Meanings[decisions]
Positions(kinds) == PositionsIn(decisions, kinds)
ItemAt(p) == decisions[p[1]].items[p[2]]
Before(p, q) == \/ p[1] < q[1]
                \/ p[1] = q[1] /\ p[2] < q[2]

IsHistory(done, kinds, tip) ==
  LET executed == {p \in Positions(kinds) : p[1] <= tip /\ Outcomes[p] = "ok"}
  IN /\ {done[n] : n \in 1..Len(done)} = executed
     /\ Len(done) = Cardinality(executed)
     /\ \A m, n \in 1..Len(done) : m < n => Before(done[m], done[n])

\* SQLRequestResultFingerprint: what a caller is told of an SQL request ID:
\* its receipt, if it has one whose window is not over.
SqlStatus(id) ==
  LET cached == {r \in mat.recent : r.id = id}
      kept == {r \in SqlReceipts(files.sqlite.receipts) : r.id = id}
      found == IF cached # {} THEN cached
               ELSE IF MightContain(mat.bloom, id, mat.tip) THEN kept ELSE {}
  IN {<<r.slot, r.status>> : r \in {q \in found :
                                      mat.tip <= q.slot + Window - 1}}

\* Query results: SQLite's committed rows; the graph's, once readable.
SqlAnswer == files.sqlite.done
GraphAnswers == IF GraphReadable /\ ~batch.on THEN {files.graph.done} ELSE {}

TrueStatus(id) ==
  {<<p[1], Outcomes[p]>> :
     p \in {q \in Positions({"sql"}) :
              /\ q[1] <= mat.tip /\ mat.tip <= q[1] + Window - 1
              /\ ItemAt(q).id = id /\ Outcomes[q] # "skipped"}}

(***************************************************************************)
(* However the log was cut into pages, whatever failed or crashed, and     *)
(* whichever checkpoint was restored: SQLite holds the effects of the log  *)
(* up to its tip, each request of a window once; so does the graph when it *)
(* is readable; callers are told the receipts the log gives; and this       *)
(* process published each notification once, after its commit.             *)
(***************************************************************************)
MaterializedState ==
  stage = "serve" =>
    /\ IsHistory(SqlAnswer, {"sql", "kv"}, files.sqlite.tip)
    /\ \A answer \in GraphAnswers : IsHistory(answer, {"graph"}, mat.tip)
    /\ ~mat.unknown =>
         \A p \in Positions({"sql"}) :
           SqlStatus(ItemAt(p).id) = TrueStatus(ItemAt(p).id)
    /\ \A m \in 1..Len(mat.notices) :
         /\ mat.notices[m] <= mat.tip
         /\ \A n \in 1..m - 1 : mat.notices[n] < mat.notices[m]

(***************************************************************************)
(* Unless SQLite lost a committed tail, a restart opens both stores and    *)
(* the replay passes every slot: the journal still names the graph slots   *)
(* SQLite has not confirmed, and the counters match the receipts.          *)
(***************************************************************************)
ReplayNeverStuck == faulted.power = 0 => ~faulted.stuck
=============================================================================
