---------------------------- MODULE LocalBackup ----------------------------
(***************************************************************************)
(* The object-store archive of a Local (single voter) node:                 *)
(* pkg/node/local_backup*.go, local_gc.go, node.go; pkg/recovery/local*.go; *)
(* pkg/checkpoint/local*.go; internal/objstore/local_owner.go.  One process *)
(* at a time writes the archive, every mutation under a durable token that  *)
(* stays held when an outcome is unknown.  At each start the DataDir and    *)
(* the archive are reconciled: one is a prefix of the other, or the start   *)
(* fails; an archive that is ahead replaces the DataDir file by file.       *)
(*                                                                         *)
(* A history is the sequence of decisions: the number of the start that     *)
(* wrote the value, or SealMark, which certifies the checkpoint of everything   *)
(* before it.  A prefix hash and a checkpoint root are that history itself. *)
(* An extent object is named by the hash chain up to it: where the chain    *)
(* was cut, and the history at its end.                                     *)
(***************************************************************************)
EXTENDS Naturals, Sequences, SequencesExt, FiniteSets

CONSTANTS KeepLocalRoots,      \* CheckpointRetainCount
          MaxLocalSlots,  \* bound: length of a history
          MaxBoots,       \* bound: starts
          MaxLocalFaults  \* bound: crashes, lost DataDirs, unknown outcomes

ASSUME LocalBackupBounds ==
  /\ KeepLocalRoots \in Nat \ {0}
  /\ {MaxLocalSlots, MaxBoots, MaxLocalFaults} \subseteq Nat

VARIABLES owned,   \* filesystem archive with an owner lock, not a remote one
          dir,     \* the DataDir
          import,  \* .local-backup-import and its owner file
          bucket,  \* objects under local/v1
          late,    \* an unanswered mutation that may still land
          viewPins,    \* heads captured under an unexpired view pin
          engine,    \* the process: volatile state and what it does next
          ackedHist,   \* longest history acknowledged before-ack
          boots, localFaults

localVars == <<owned, dir, import, bucket, late, viewPins, engine, ackedHist, boots,
               localFaults>>

SealMark == 0
Missing == [missing |-> TRUE]
Items == <<"wal", "roots", "policy", "marker">>
Files == Range(Items)

Upto(h, n) == SubSeq(h, 1, n)
EmptyWal == [base |-> 0, hist |-> <<>>, dur |-> 0, prep |-> 0]
NoFiles == [f \in Files |-> Missing]
NoImport == [owner |-> FALSE, next |-> Missing, install |-> Missing,
             previous |-> NoFiles]

\* Sealed histories that [from + 1 .. Len(h)] names.
SealedIn(h, from) ==
  {Upto(h, i - 1) : i \in {j \in (from + 1)..Len(h) : h[j] = SealMark}}

\* LocalCheckpointRoots: the floor, prepared markers and sealed decisions.
LiveRoots(w) ==
  SealedIn(w.hist, w.base)
    \cup {Upto(w.hist, i) : i \in {w.base, w.prep} \ {0}}

\* What HEAD reaches: its chain of extents, and the snapshots it needs.
HeadExtents(h) ==
  {[cuts |-> Upto(h.cuts, k), hist |-> Upto(h.hist, h.cuts[k])] :
     k \in 2..Len(h.cuts)}
Origin(h) == h.cuts[1]
OriginRoot(h) == IF Origin(h) = 0 THEN {} ELSE {Upto(h.hist, Origin(h))}
HeadRoots(h) == OriginRoot(h) \cup SealedIn(h.hist, Origin(h))

\* ReadSnapshot and OpenRoot of the portable root the artifact names.
Stored(b, root) == \E a \in b.artifacts : a.of = root /\ a \in b.roots
HeadReadableIn(b, h) ==
  /\ HeadExtents(h) \subseteq b.extents
  /\ \A root \in HeadRoots(h) : Stored(b, root)

Stopped == [pc |-> "down", op |-> "none", head |-> Missing, latch |-> FALSE,
            need |-> FALSE, active |-> FALSE, failed |-> FALSE,
            goal |-> <<>>, part |-> 0, after |-> "none", why |-> "none"]

\* A new store, or one that took a checkpoint before it was given an archive.
LocalBackupInit ==
  /\ owned \in BOOLEAN
  /\ dir \in {NoFiles,
              [NoFiles EXCEPT !["policy"] = [id |-> 1],
                 !["roots"] = [set |-> {<<1>>}],
                 !["wal"] = [base |-> 1, hist |-> <<1, SealMark>>, dur |-> 2,
                             prep |-> 0]]}
  /\ import = NoImport
  /\ bucket = [binding |-> 0, control |-> "none", head |-> Missing,
               extents |-> {}, artifacts |-> {}, roots |-> {}]
  /\ late = Missing /\ viewPins = {} /\ engine = Stopped
  /\ ackedHist = <<>> /\ boots = 1 /\ localFaults = 0

Doing(pc) == engine.pc = pc
Hist == dir["wal"].hist
Tip == Len(Hist)
Becomes(to) == engine' = to
Cleared == [engine EXCEPT !.goal = <<>>, !.part = 0, !.after = "none",
                        !.active = FALSE]
Then(pc) == Becomes([engine EXCEPT !.pc = pc])
Outside == UNCHANGED <<owned, viewPins, ackedHist, boots>>
OnlyProc == UNCHANGED <<dir, import, bucket, late, localFaults>> /\ Outside
OnlyDir == UNCHANGED <<import, bucket, late, localFaults>> /\ Outside
OnlyBucket == UNCHANGED <<dir, import>> /\ Outside

Starting == engine.op \in {"start", "resume", "snap"}

\* An operation returns an error: a start ends, a checkpoint fails the node's
\* lifecycle (FailLocalLifecycle), a sync or a collection is only logged.
InGc == \/ engine.pc \in {"g.gate", "g.roots", "g.extents", "g.prune", "g.head"}
        \/ engine.pc = "free" /\ engine.after = "g.done"
Returned(why) ==
  IF InGc THEN [engine EXCEPT !.pc = "g.done"]
  ELSE IF Starting THEN [Stopped EXCEPT !.why = why]
  ELSE [Cleared EXCEPT !.pc = "idle", !.op = "none",
                       !.failed = @ \/ engine.op = "reclaim"]
Refuse(why) == Becomes(Returned(why)) /\ OnlyProc

\* An error inside the gate that leaves nothing unknown: the token is freed.
RefuseFreeing(why) ==
  /\ Becomes(Returned(why)) /\ bucket' = [bucket EXCEPT !.control = "free"]
  /\ UNCHANGED <<late, localFaults>> /\ OnlyBucket

----------------------------------------------------------------------------
(* Mutations of the bucket                                                 *)

\* What a mutation does when it arrives.  Immutable objects are written with
\* IfNotExists, HEAD if it is still the version that was read.
Applied(m, b) ==
  CASE m.kind = "control"  -> [b EXCEPT !.control = m.val]
    [] m.kind = "extent"   -> [b EXCEPT !.extents = @ \cup {m.val}]
    [] m.kind = "root"     -> [b EXCEPT !.roots = @ \cup {m.val}]
    [] m.kind = "artifact" -> [b EXCEPT !.artifacts =
         IF \E a \in @ : a.of = m.val.of THEN @ ELSE @ \cup {m.val}]
    [] m.kind = "head"     ->
         IF b.head = m.seen THEN [b EXCEPT !.head = m.val] ELSE b
    [] m.kind = "binding"  ->
         IF b.binding = 0 THEN [b EXCEPT !.binding = m.val, !.control = "free"]
         ELSE b
    [] m.kind = "unroot"   -> [b EXCEPT !.roots = @ \ m.val]
    [] m.kind = "unextent" -> [b EXCEPT !.extents = @ \ m.val]
    [] OTHER               -> [b EXCEPT !.artifacts = @ \ m.val]

\* localCall: the answer does not come.  Work stops, the token stays where it
\* is, and an unanswered HEAD publication latches the archive.
Unknown(m) ==
  /\ late = Missing /\ localFaults < MaxLocalFaults
  /\ localFaults' = localFaults + 1 /\ late' = m
  /\ UNCHANGED bucket
  /\ Becomes([Returned("unknown") EXCEPT !.latch = @ \/ m.kind = "head"])

\* One mutation, then the process goes on as `to'.
Mutate(m, to) ==
  /\ \/ /\ bucket' = Applied(m, bucket) /\ Becomes(to)
        /\ UNCHANGED <<late, localFaults>>
     \/ Unknown(m)
  /\ OnlyBucket

\* External: the provider applies what it had not answered, or never does.
Land ==
  /\ late # Missing /\ late' = Missing
  /\ bucket' \in {bucket, Applied(late, bucket)}
  /\ UNCHANGED <<engine, localFaults>> /\ OnlyBucket

\* withLocalMaintenanceContextOnce: the token is free, taken, and HEAD is
\* still the one this archive holds (checkLocalHead).
Gated == {"u.gate", "s.gate", "r.gate", "g.gate"}
Work(pc) == CASE pc = "u.gate" -> "u.root" [] pc = "s.gate" -> "s.extent"
              [] pc = "r.gate" -> "r.extent" [] OTHER -> "g.roots"

Acquire ==
  /\ engine.pc \in Gated
  /\ IF bucket.control = "free"
     THEN Mutate([kind |-> "control", val |-> "held"],
                 [engine EXCEPT !.pc = Work(@),
                    !.goal = IF Doing("s.gate") THEN Hist ELSE <<>>,
                    !.active = Doing("g.gate") /\ viewPins # {}])
     ELSE Refuse("busy")

\* The token is written back; a release whose answer is lost is settled by
\* reading it.
Release ==
  /\ Doing("free")
  /\ Mutate([kind |-> "control", val |-> "free"],
            [engine EXCEPT !.pc = engine.after])
Freeing(after) == [engine EXCEPT !.pc = "free", !.after = after]

CheckLocalHead == ~engine.latch /\ bucket.head = engine.head

----------------------------------------------------------------------------
(* Reconciling the DataDir with the archive at start                       *)

StartsAnew ==
  /\ boots' = boots + 1
  /\ Becomes([Stopped EXCEPT !.pc = "finish", !.op = "start"])
  /\ UNCHANGED <<owned, dir, import, bucket, late, viewPins, ackedHist, localFaults>>

\* Mutant: the owner lock does not outlive the node that failed.
BeginStartUnlocked == Doing("down") /\ boots < MaxBoots /\ StartsAnew

\* AcquireLocalFilesystemOwner: a process that still has a mutation under way
\* on its filesystem keeps the lock.
BeginStart ==
  /\ Doing("down") /\ boots < MaxBoots /\ (owned => late = Missing)
  /\ StartsAnew

StagedStill(f) == import.next # Missing /\ import.next[f] # Missing
Unmoved(f) == import.install[f].old /\ import.previous[f] = Missing
Unfinished(f) == Unmoved(f) \/ StagedStill(f)
NextItem(f) == \E k \in DOMAIN Items :
  /\ Items[k] = f /\ Unfinished(f)
  /\ \A j \in 1..(k - 1) : ~Unfinished(Items[j])

\* finishLocalBackupImport, one rename at a time: the old file to previous/
\* unless one is there, then the new one from next/ unless it is gone.
InstallItem(f) ==
  /\ Doing("finish") /\ import.install # Missing /\ NextItem(f)
  /\ IF Unmoved(f) /\ dir[f] = Missing THEN Refuse("install")
     ELSE /\ IF Unmoved(f)
             THEN /\ dir' = [dir EXCEPT ![f] = Missing]
                  /\ import' = [import EXCEPT !.previous[f] = dir[f]]
             ELSE /\ dir' = [dir EXCEPT ![f] = import.next[f]]
                  /\ import' = [import EXCEPT !.next[f] = Missing]
          /\ UNCHANGED <<bucket, late, engine, localFaults>> /\ Outside

\* Every item is in place; staging that was never committed is discarded, and
\* evidence discardLocalBackupPreinstall does not know refuses the start.
FinishImport ==
  /\ Doing("finish")
  /\ import.install # Missing => \A f \in Files : ~Unfinished(f)
  /\ IF import.install = Missing /\ import.previous # NoFiles
     THEN Refuse("evidence")
     ELSE /\ import' = IF import.install = Missing THEN NoImport ELSE import
          /\ Then(IF engine.head = Missing THEN "inspect" ELSE "clear")
          /\ UNCHANGED <<dir, bucket, late, localFaults>> /\ Outside

DataExists == dir["wal"] # Missing \/ dir["roots"] # Missing
RootSet == IF dir["roots"] = Missing THEN {} ELSE dir["roots"].set
LocalWal == IF dir["wal"] = Missing THEN EmptyWal ELSE dir["wal"]
RootsValid == LiveRoots(LocalWal) \subseteq RootSet
NamespaceEmpty == bucket.head = Missing /\ bucket.roots = {}
                    /\ bucket.artifacts = {} /\ bucket.extents = {}

Reconciled(local, remote) == IsPrefix(local, remote) \/ IsPrefix(remote, local)

\* The archive is ahead, or its token has to be cleared and nothing is lost.
MustImport(local, remote) ==
  \/ Len(remote) > Len(local)
  \/ bucket.control # "free" /\ remote = local

\* prepareLocalBackup.
Inspect ==
  LET head == bucket.head  local == LocalWal.hist
      resolved == bucket.control = "free" IN
  /\ Doing("inspect")
  /\ IF bucket.binding = 0
     THEN IF dir["marker"] = Missing /\ NamespaceEmpty
          THEN Then("open") /\ OnlyProc ELSE Refuse("unbound")
     ELSE IF \/ head = Missing \/ bucket.control = "none"
             \/ ~(HeadExtents(head) \subseteq bucket.extents)
             \/ ~resolved /\ ~owned
             \/ dir["marker"] \notin {Missing, [id |-> bucket.binding]}
             \/ dir["policy"] = Missing /\ DataExists
     THEN Refuse("archive")
     ELSE IF dir["policy"] = Missing
     THEN Becomes([engine EXCEPT !.pc = "stage", !.head = head]) /\ OnlyProc
     ELSE IF \/ dir["policy"].id # bucket.binding \/ ~RootsValid
             \/ ~Reconciled(local, head.hist)
     THEN Refuse("diverged")
     ELSE IF MustImport(local, head.hist)
     THEN Becomes([engine EXCEPT !.pc = "stage", !.head = head]) /\ OnlyProc
     ELSE IF ~resolved THEN Refuse("held")
     ELSE /\ Becomes([engine EXCEPT !.pc = "open", !.head = head,
                                !.need = local # head.hist])
          /\ dir' = [dir EXCEPT !["marker"] = [id |-> bucket.binding]]
          /\ OnlyDir

\* stageLocalBackupImport: a remote view is pinned through the gate; staging
\* that an earlier import committed is in the way.
BeginStage ==
  /\ Doing("stage")
  /\ IF import.install # Missing \/ (~owned /\ bucket.control # "free")
     THEN Refuse("evidence")
     ELSE /\ import' = [NoImport EXCEPT !.owner = TRUE]
          /\ viewPins' = IF owned THEN viewPins ELSE viewPins \cup {engine.head}
          /\ Then("fill")
          /\ UNCHANGED <<owned, dir, bucket, late, ackedHist, boots, localFaults>>

\* The archived base and decisions, with every checkpoint they name.
FillStage ==
  LET h == engine.head IN
  /\ Doing("fill")
  /\ IF HeadReadableIn(bucket, h)
     THEN /\ import' = [import EXCEPT !.next =
               [f \in Files |->
                 CASE f = "wal" -> [base |-> Origin(h), hist |-> h.hist,
                                    dur |-> Len(h.hist), prep |-> 0]
                   [] f = "roots" -> [set |-> HeadRoots(h)]
                   [] OTHER -> [id |-> bucket.binding]]]
          /\ Then("install")
          /\ UNCHANGED <<dir, bucket, late, localFaults>> /\ Outside
     ELSE Refuse("unreadable")

\* writeLocalBackupInstallJournal: from here the import only goes forward.
WriteInstall ==
  /\ Doing("install")
  /\ import' = [import EXCEPT !.install =
       [f \in Files |-> [old |-> dir[f] # Missing]]]
  /\ Then("finish")
  /\ UNCHANGED <<dir, bucket, late, localFaults>> /\ Outside

\* recoverStagedLocalMaintenance: the owner of a filesystem archive frees a
\* token whose holder is gone, after the archive has been replayed.
ClearControl ==
  /\ Doing("clear")
  /\ IF bucket.control = "held" /\ owned
     THEN Mutate([kind |-> "control", val |-> "free"],
                 [engine EXCEPT !.pc = "open"])
     ELSE Then("open") /\ OnlyProc

\* The node opens its store; a checkpoint that was prepared before the first
\* compaction is completed before the archive is brought up to date.
OpenStore ==
  /\ Doing("open")
  /\ IF ~RootsValid \/ (dir["policy"] = Missing /\ DataExists)
     THEN Refuse("store")
     ELSE /\ dir' = [dir EXCEPT !["wal"] = LocalWal,
                !["policy"] = IF @ = Missing THEN [id |-> boots] ELSE @,
                !["roots"] = [set |-> RootSet]]
          /\ Becomes(IF LocalWal.prep > 0 /\ LocalWal.base = 0
                   THEN [engine EXCEPT !.op = "resume", !.pc = "r.seal"]
                   ELSE [engine EXCEPT !.pc = "ensure"])
          /\ OnlyDir

\* completeLocalBackupImport, and the node serves.
CompleteImport ==
  /\ Doing("complete")
  /\ import' = NoImport
  /\ viewPins' = viewPins \ {engine.head}
  /\ Becomes([engine EXCEPT !.pc = "idle", !.op = "none"])
  /\ UNCHANGED <<owned, dir, bucket, late, ackedHist, boots, localFaults>>

----------------------------------------------------------------------------
(* Genesis, sync, checkpoint, collection                                   *)

CheckpointIndex == dir["wal"].prep
SealSlot == CheckpointIndex + 1

\* ensureLocalBackupArchiveLocked: the marker, BINDING and the control, the
\* base of a store that is compacted already, HEAD.
Ensure ==
  /\ Doing("ensure")
  /\ IF engine.head # Missing
     THEN Then(IF engine.op = "start" THEN "s.gate" ELSE "u.gate") /\ OnlyProc
     ELSE /\ dir' = [dir EXCEPT !["marker"] = dir["policy"]]
          /\ Then("binding") /\ OnlyDir

CreateBinding ==
  /\ Doing("binding")
  /\ IF bucket.binding # 0 THEN Refuse("binding")
     ELSE Mutate([kind |-> "binding", val |-> dir["policy"].id],
                 [engine EXCEPT !.pc = IF dir["wal"].base > 0 THEN "u.gate"
                                     ELSE "genesis"])

CreateHead ==
  LET base == dir["wal"].base
      head == [hist |-> Upto(Hist, base), cuts |-> <<base>>,
               catalog |-> IF base = 0 THEN {}
                           ELSE {[of |-> Upto(Hist, base), gen |-> engine.part]}] IN
  /\ Doing("genesis")
  /\ Mutate([kind |-> "head", val |-> head, seen |-> Missing],
            [engine EXCEPT !.head = head, !.need = Tip > 0 /\ base = 0,
               !.pc = IF engine.op = "start" THEN "s.gate" ELSE "u.gate"])

\* CreateLocalFiles: a block that is there already sends the new upload to a
\* later block generation, and so to another portable root.
UploadOf == IF engine.head = Missing THEN Upto(Hist, dir["wal"].base)
            ELSE Upto(Hist, CheckpointIndex)
UploadSnapshot ==
  LET gen == IF \E r \in bucket.roots : r.of = UploadOf THEN 1 ELSE 0 IN
  /\ Doing("u.root")
  /\ Mutate([kind |-> "root", val |-> [of |-> UploadOf, gen |-> gen]],
            [Freeing("artifact") EXCEPT !.part = gen])

\* StoreLocalSnapshot, outside the gate: another portable root of the same
\* seal is there for good.
StoreArtifact ==
  LET new == [of |-> UploadOf, gen |-> engine.part] IN
  /\ Doing("artifact")
  /\ IF \E a \in bucket.artifacts : a.of = UploadOf /\ a # new
     THEN Refuse("mismatch")
     ELSE Mutate([kind |-> "artifact", val |-> new],
                 [engine EXCEPT !.pc = IF engine.head = Missing THEN "genesis"
                                     ELSE "s.gate"])

\* Mutant: a seal is archived although its checkpoint is not.
SealsStoredNot(from, to) == TRUE
SealsStored(from, to) ==
  \A root \in SealedIn(to, from) : \E a \in bucket.artifacts : a.of = root

\* syncThrough: one extent from HEAD's tip to the tip the caller asked for.
SyncExtent ==
  LET tip == Len(engine.head.hist) IN
  /\ Doing("s.extent")
  /\ IF ~CheckLocalHead \/ ~IsPrefix(engine.head.hist, engine.goal)
     THEN RefuseFreeing("head")
     ELSE IF engine.head.hist = engine.goal
     THEN Becomes(Freeing("synced")) /\ OnlyProc
     ELSE IF ~SealsStored(tip, engine.goal) THEN RefuseFreeing("unpublished")
     ELSE Mutate([kind |-> "extent",
                  val |-> [cuts |-> Append(engine.head.cuts, Len(engine.goal)),
                           hist |-> engine.goal]],
                 [engine EXCEPT !.pc = "s.head"])

PublishHead(head, after) ==
  Mutate([kind |-> "head", val |-> head, seen |-> engine.head],
         [Freeing(after) EXCEPT !.head = head])

SyncLocalHead ==
  /\ Doing("s.head")
  /\ PublishHead([engine.head EXCEPT !.hist = engine.goal,
                                   !.cuts = Append(@, Len(engine.goal))],
                 "synced")

\* What the caller of the sync does next; before-ack answers its client.
Synced ==
  /\ Doing("synced")
  /\ Becomes(CASE engine.op = "start" /\ engine.need ->
                  [Cleared EXCEPT !.op = "snap", !.pc = "r.root"]
             [] engine.op = "start" -> [Cleared EXCEPT !.pc = "complete"]
             [] engine.op \in {"ack", "sync"} ->
                  [Cleared EXCEPT !.pc = "idle", !.op = "none"]
             [] OTHER -> [engine EXCEPT !.pc = "r.gate"])
  /\ ackedHist' = IF engine.op = "ack" THEN engine.head.hist ELSE ackedHist
  /\ UNCHANGED <<owned, dir, import, bucket, late, viewPins, boots, localFaults>>

\* The local checkpoint of everything decided is published, then prepared.
PublishRoot ==
  /\ Doing("r.root")
  /\ IF Tip = 0 \/ Tip = dir["wal"].base \/ Tip = MaxLocalSlots
     THEN Becomes([engine EXCEPT !.pc = IF engine.op = "snap" THEN "complete"
                                    ELSE "idle",
                             !.op = IF @ = "snap" THEN "start" ELSE "none"])
          /\ OnlyProc
     ELSE /\ dir' = [dir EXCEPT !["roots"].set = @ \cup {Hist}]
          /\ Then("r.prepare") /\ OnlyDir

PrepareRoot ==
  /\ Doing("r.prepare")
  /\ dir' = [dir EXCEPT !["wal"].prep = Tip, !["wal"].dur = Tip]
  /\ Then("r.seal") /\ OnlyDir

\* The seal is decided and durable; a resumed checkpoint may have one.
DecideSeal ==
  /\ Doing("r.seal")
  /\ IF SealSlot <= Tip THEN OnlyDir /\ UNCHANGED dir
     ELSE /\ dir' = [dir EXCEPT !["wal"].hist = Append(@, SealMark),
                                !["wal"].dur = Tip + 1] /\ OnlyDir
  /\ Then("ensure")

\* publishSnapshot: the suffix is written again as a chain that starts at the
\* checkpoint, and HEAD moves to it.
Rebased ==
  [hist |-> engine.head.hist,
   cuts |-> <<CheckpointIndex, Len(engine.head.hist)>>,
   catalog |-> engine.head.catalog
                 \cup {[of |-> UploadOf, gen |-> engine.part]}]

RebaseExtent ==
  /\ Doing("r.extent")
  /\ IF \/ ~CheckLocalHead \/ Len(engine.head.hist) < SealSlot
        \/ CheckpointIndex < Origin(engine.head)
        \/ [of |-> UploadOf, gen |-> engine.part] \notin bucket.roots
     THEN RefuseFreeing("snapshot")
     ELSE Mutate([kind |-> "extent",
                  val |-> [cuts |-> Rebased.cuts, hist |-> Rebased.hist]],
                 [engine EXCEPT !.pc = "r.head"])

RebaseHead == Doing("r.head") /\ PublishHead(Rebased, "r.compact")

\* compactThroughOwned drops the WAL up to the checkpoint and its marker, and
\* the roots the WAL does not name any more go.
CompactLocal ==
  LET w == [dir["wal"] EXCEPT !.base = CheckpointIndex, !.prep = 0] IN
  /\ Doing("r.compact")
  /\ dir' = [dir EXCEPT !["wal"] = w,
                        !["roots"].set = @ \cap LiveRoots(w)]
  /\ Becomes([Cleared EXCEPT !.need = FALSE, !.pc = "g.gate"])
  /\ OnlyDir

NewestRoots(catalog) ==
  {r \in catalog : Cardinality({q \in catalog : Len(q.of) > Len(r.of)})
                     < KeepLocalRoots}
Retired(h) == {r \in h.catalog : r \notin NewestRoots(h.catalog)
                                   /\ r.of \notin OriginRoot(h)}
PinnedRoots == UNION {HeadRoots(h) : h \in viewPins}

\* GarbageCollectLocal: retired roots older than the grace period that no
\* captured view needs.
CollectRoots ==
  LET dead == {r \in Retired(engine.head) \cap bucket.roots :
                 r.of \notin HeadRoots(engine.head) \cup PinnedRoots} IN
  /\ Doing("g.roots")
  /\ IF ~CheckLocalHead \/ \E r \in HeadRoots(engine.head) : ~Stored(bucket, r)
     THEN RefuseFreeing("head")
     ELSE \E old \in {dead, {}} :
            IF old = {} THEN Then("g.extents") /\ OnlyProc
            ELSE Mutate([kind |-> "unroot", val |-> old],
                        [engine EXCEPT !.pc = "g.extents"])

CollectExtents ==
  LET dead == bucket.extents \ HeadExtents(engine.head) IN
  /\ Doing("g.extents")
  /\ IF engine.active \/ dead = {} THEN Then("g.prune") /\ OnlyProc
     ELSE Mutate([kind |-> "unextent", val |-> dead],
                 [engine EXCEPT !.pc = "g.prune"])

\* pruneLocalCatalog: the metadata of retired roots that are gone, then HEAD.
Prunable == {r \in Retired(engine.head) :
           /\ r \notin bucket.roots /\ ~engine.active
           /\ r.of \notin SealedIn(engine.head.hist, Origin(engine.head))}
AfterGc == IF engine.op = "resume" THEN "ensure"
           ELSE IF engine.op = "snap" THEN "complete" ELSE "idle"
AfterGcOp == IF Starting THEN "start" ELSE "none"
PruneMetadata ==
  /\ Doing("g.prune")
  /\ IF Prunable = {} THEN Becomes(Freeing("g.done")) /\ OnlyProc
     ELSE Mutate([kind |-> "unartifact", val |-> Prunable],
                 [engine EXCEPT !.pc = "g.head"])
PruneCatalog ==
  /\ Doing("g.head")
  /\ PublishHead([engine.head EXCEPT !.catalog = @ \ Prunable], "g.done")
Collected ==
  /\ Doing("g.done")
  /\ Becomes([Cleared EXCEPT !.pc = AfterGc, !.op = AfterGcOp]) /\ OnlyProc

----------------------------------------------------------------------------
(* The running node                                                        *)

Serving == ~Doing("down") /\ ~Starting

\* localSnapshotMu admits one of these at a time.
Quiet == Doing("idle")

\* A write is decided; not while a checkpoint has the node quiesced.
DecideWrite ==
  /\ Serving /\ ~engine.failed /\ Tip < MaxLocalSlots /\ engine.op # "reclaim"
  /\ dir' = [dir EXCEPT !["wal"].hist = Append(@, boots)]
  /\ OnlyDir /\ UNCHANGED engine

\* The before-ack barrier: EnsureDurable, then the archive.
BeforeAck ==
  /\ Quiet /\ ackedHist # Hist
  /\ dir' = [dir EXCEPT !["wal"].dur = Tip]
  /\ Becomes([engine EXCEPT !.pc = "s.gate", !.op = "ack"])
  /\ OnlyDir

PeriodicSync ==
  /\ Quiet /\ engine.head.hist # Hist
  /\ Becomes([engine EXCEPT !.pc = "s.gate", !.op = "sync"]) /\ OnlyProc

\* reclaimLocalCheckpoint, when something was decided since the last one.
StartReclaim ==
  /\ Quiet /\ ~engine.failed
  /\ Tip > IF Origin(engine.head) = 0 THEN 0 ELSE Origin(engine.head) + 1
  /\ Becomes([engine EXCEPT !.pc = "r.root", !.op = "reclaim"]) /\ OnlyProc

PeriodicCollect ==
  /\ Quiet /\ Becomes([engine EXCEPT !.pc = "g.gate", !.op = "gc"]) /\ OnlyProc

\* Shutdown syncs the WAL; the last archive sync is a PeriodicSync.  A
\* filesystem archive is not let go while a mutation is outstanding.
ShutDown ==
  /\ Quiet
  /\ dir' = [dir EXCEPT !["wal"].dur = Tip] /\ Becomes(Stopped)
  /\ late' = IF owned THEN Missing ELSE late
  /\ UNCHANGED <<import, bucket, localFaults>> /\ Outside

----------------------------------------------------------------------------
(* Faults and other processes                                              *)

LocalFault == localFaults < MaxLocalFaults /\ localFaults' = localFaults + 1

\* The process dies, with what it had under way on its own filesystem; what
\* was not synced to the WAL may be gone.
CrashLocal ==
  /\ ~Doing("down") /\ LocalFault
  /\ dir' \in IF dir["wal"] = Missing THEN {dir}
              ELSE {[dir EXCEPT !["wal"].hist = Upto(@, n)] :
                      n \in {dir["wal"].dur, Tip}}
  /\ late' = IF owned THEN Missing ELSE late
  /\ Becomes(Stopped)
  /\ UNCHANGED <<import, bucket>> /\ Outside

\* RemoveAll of the import directory is cut short after any of its files.
CrashInRemoval ==
  /\ Doing("complete") /\ import.install # Missing /\ LocalFault
  /\ \E kept \in SUBSET Files, install \in {import.install, Missing} :
       import' = [import EXCEPT !.install = install,
         !.previous = [f \in Files |-> IF f \in kept THEN @[f] ELSE Missing]]
  /\ Becomes(Stopped)
  /\ UNCHANGED <<dir, bucket, late>> /\ Outside

LoseDataDir ==
  /\ Doing("down") /\ LocalFault
  /\ dir' = NoFiles /\ import' = NoImport
  /\ UNCHANGED <<bucket, late, engine>> /\ Outside

\* Another process captures HEAD to restore it elsewhere; a pin ends when it
\* is closed or its lease runs out.
PinView ==
  /\ ~owned /\ viewPins = {} /\ bucket.head # Missing /\ bucket.control = "free"
  /\ Len(bucket.head.cuts) > 1
  /\ HeadReadableIn(bucket, bucket.head)
  /\ viewPins' = {bucket.head}
  /\ UNCHANGED <<owned, dir, import, bucket, late, engine, ackedHist, boots,
                 localFaults>>

ExpirePin ==
  /\ \E h \in viewPins : viewPins' = viewPins \ {h}
  /\ engine.pc \notin {"fill", "install"}
  /\ UNCHANGED <<owned, dir, import, bucket, late, engine, ackedHist, boots,
                 localFaults>>

\* External: an operator who has verified that the writer is down and nothing
\* is outstanding frees the token of a remote archive.
ResolveControl ==
  /\ ~owned /\ Doing("down") /\ late = Missing /\ bucket.control = "held"
  /\ bucket' = [bucket EXCEPT !.control = "free"]
  /\ UNCHANGED <<dir, import, late, engine, localFaults>> /\ Outside

LocalBackupNext ==
  \/ BeginStart \/ FinishImport \/ Inspect \/ BeginStage \/ FillStage
  \/ WriteInstall \/ ClearControl \/ OpenStore \/ CompleteImport
  \/ \E f \in Files : InstallItem(f)
  \/ Acquire \/ Release \/ Land
  \/ Ensure \/ CreateBinding \/ CreateHead \/ UploadSnapshot \/ StoreArtifact
  \/ SyncExtent \/ SyncLocalHead \/ Synced
  \/ PublishRoot \/ PrepareRoot \/ DecideSeal
  \/ RebaseExtent \/ RebaseHead \/ CompactLocal
  \/ CollectRoots \/ CollectExtents \/ PruneMetadata \/ PruneCatalog \/ Collected
  \/ DecideWrite \/ BeforeAck \/ PeriodicSync \/ StartReclaim
  \/ PeriodicCollect \/ ShutDown
  \/ CrashLocal \/ CrashInRemoval \/ LoseDataDir
  \/ PinView \/ ExpirePin \/ ResolveControl

LocalBackupSpec == LocalBackupInit /\ [][LocalBackupNext]_localVars

----------------------------------------------------------------------------
(* Properties                                                              *)

\* A node that serves has every write acknowledged before, from whatever
\* DataDir it started, and its history extends the archive's: it never goes on
\* from an empty, an older or a diverged one (prepareLocalBackup).  The
\* acknowledged writes are in the archive from then on (syncThrough).
ArchiveKeepsAcked ==
  /\ ackedHist # <<>> => bucket.head # Missing /\ IsPrefix(ackedHist, bucket.head.hist)
  /\ Serving => /\ IsPrefix(ackedHist, Hist)
                /\ bucket.head # Missing => IsPrefix(bucket.head.hist, Hist)

\* HEAD can be restored at every moment, and so can every view that a restore
\* has captured under a live pin: its extents reach its origin, and each seal
\* among them has its metadata and its portable root (publishSnapshot,
\* GarbageCollect).
LocalViewsReadable ==
  /\ bucket.head # Missing => HeadReadableIn(bucket, bucket.head)
  /\ \A h \in viewPins : HeadReadableIn(bucket, h)

\* A start never meets a seal of its own WAL whose checkpoint is not in the
\* archive (resumePreparedLocalCheckpoint runs before initializeLocalBackup).
\* It does not hold: with a compacted base that step is skipped (README,
\* section 5).
SealsArePublished == engine.why # "unpublished"
=============================================================================
