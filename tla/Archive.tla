------------------------------ MODULE Archive ------------------------------
(***************************************************************************)
(* The shared archive of one cluster generation (pkg/recovery/archive.go   *)
(* and seal.go): a mutable head object, published by compare-and-swap,     *)
(* names a chain of immutable extents; PUBLISH_LOCK and GC_LOCK are leases *)
(* stored beside it, and recovery pins keep the extents of a head alive    *)
(* while a node replays it.  Every manager is a process of its own, and    *)
(* every request it makes to the object store is one step, so a pause or a *)
(* lapsed lease can fall between any two of them.                          *)
(*                                                                         *)
(* An extent is [s |-> first slot, e |-> last slot, g |-> object           *)
(* generation].  Its hash covers its predecessor's, so the object that     *)
(* holds it is identified by the chain that ends in it: a sequence of      *)
(* extents.  Decisions are certified elsewhere and are abstracted to their *)
(* slots, and an object version to the head it holds (no two heads ever    *)
(* published are equal).                                                   *)
(***************************************************************************)
EXTENDS Naturals, Sequences, FiniteSets, FiniteSetsExt, SequencesExt

CONSTANTS Managers,      \* processes with an archive manager of this prefix
          Duties,        \* <<manager, kind>>: who runs which operations
          Operations,    \* recovery operations that may seal the archive
          MaxSlot,       \* bound: slots decided
          MaxGeneration, \* bound: generations of the head
          ExtentItems,   \* maxExtentItems: decisions one extent holds
          MaxFaults      \* bound: lapsed leases, crashes and lost answers

ASSUME ArchiveBounds ==
  /\ MaxSlot \in Nat \ {0} /\ MaxGeneration \in Nat \ {0}
  /\ ExtentItems \in Nat \ {0} /\ MaxFaults \in Nat

VARIABLES decided,    \* tip of the certified log the managers read from
          head,       \* archive/head.bin
          blocks,     \* archive/blocks: the extents stored
          marks,      \* archive/gc-candidates: extents marked as garbage
          aged,       \* the marks older than the grace period
          publishLock, gcLock, \* archive/PUBLISH_LOCK and archive/GC_LOCK
          pins,       \* archive/recovery-pins, one per owner
          sealIntent, \* archive/seal.json
          loaded,     \* m.head, m.extents, m.tip, m.headCAS
          task,       \* what a manager is doing
          snapshot,   \* the recovery snapshot a manager replays
          acked,      \* the highest slot SyncThrough has returned nil for
          archiveFaults

archiveVars == <<decided, head, blocks, marks, aged, publishLock, gcLock, pins,
                 sealIntent, loaded, task, snapshot, acked, archiveFaults>>

NoHead == [gen |-> 0, base |-> 0, tip |-> 0, tail |-> <<>>, sealed |-> FALSE]

\* A lease.  A manager runs one task at a time, so the manager that wrote the
\* lock last stands for the lock's owner and generation.
FreeLock == [owner |-> "none", live |-> FALSE]

NoPin == [tail |-> 0, live |-> FALSE]

Resting == [kind |-> "none", pc |-> "idle", target |-> 0, old |-> NoHead,
            new |-> NoHead, keep |-> {}, gcGen |-> 0, pinned |-> 0,
            doomed |-> {}, due |-> {}]

ArchiveInit ==
  /\ decided = 0 /\ head = NoHead /\ blocks = {} /\ marks = {} /\ aged = {}
  /\ publishLock = FreeLock /\ gcLock = FreeLock
  /\ pins = [m \in Managers |-> NoPin] /\ sealIntent = "none"
  /\ loaded = [m \in Managers |-> NoHead]
  /\ task = [m \in Managers |-> Resting]
  /\ snapshot = [m \in Managers |-> NoHead]
  /\ acked = 0 /\ archiveFaults = 0

----------------------------------------------------------------------------
(* Heads, extents and what can be read of them                             *)

\* Positions of the tail that loadHead follows: it stops at the base.
References(h) == {k \in 1..Len(h.tail) : h.tail[k].e > h.base}

\* The objects a head refers to.
Extents(h) == {SubSeq(h.tail, 1, k) : k \in References(h)}

\* loadHead reads or already holds every extent above the base.
Load(h) == Extents(h) \subseteq blocks

TailObject(h) == IF h.tail = <<>> THEN 0 ELSE Last(h.tail).g

\* buildExtent until the target is reached: extents of at most ExtentItems
\* slots, all of generation g, chained behind prev.
BuildExtents(from, to, g, prev) ==
  LET n == ((to + 1 - from) + ExtentItems - 1) \div ExtentItems
  IN prev \o [i \in 1..n |->
       [s |-> from + (i - 1) * ExtentItems,
        e |-> Min({to, (from - 1) + i * ExtentItems}), g |-> g]]

\* compactExtents: the suffix above the base repacked, with no predecessor.
Compacted(h) == BuildExtents(h.base + 1, h.tip, h.gen + 1, <<>>)

CompactionHelps(h) ==
  /\ Cardinality(References(h)) >= 2
  /\ Len(Compacted(h)) < Cardinality(References(h))

----------------------------------------------------------------------------
(* Leases                                                                  *)

Fault == archiveFaults < MaxFaults /\ archiveFaults' = archiveFaults + 1

\* acquireArchiveLock: a compare-and-swap over a lease that has run out.
Acquired(m) == [owner |-> m, live |-> TRUE]

\* releaseArchiveLock: writes an expired lease, unless the lock moved on.
Released(lock, m) ==
  IF lock.owner = m THEN [lock EXCEPT !.live = FALSE] ELSE lock

\* confirmPublicationLease.
ConfirmPublicationLease(m) == publishLock.live /\ publishLock.owner = m

At(m, pc) == task[m].pc = pc

Goto(m, pc) == task' = [task EXCEPT ![m].pc = pc]

----------------------------------------------------------------------------
(* Publication: what SyncThrough, TrimThrough, Cleanup and Seal would      *)
(* write over the head h they loaded under the lock                        *)

SyncHead(h, through) ==
  [h EXCEPT !.gen = h.gen + 1, !.tip = through,
            !.tail = BuildExtents(h.tip + 1, through, h.gen + 1, h.tail)]

TrimHead(h, through) ==
  [h EXCEPT !.gen = h.gen + 1, !.base = through,
            !.tail = IF through = h.tip THEN <<>> ELSE h.tail]

CleanupHead(h) == [h EXCEPT !.gen = h.gen + 1, !.tail = Compacted(h)]

SealHead(h) == [h EXCEPT !.sealed = TRUE]

NextHead(k, h, target) ==
  CASE k = "sync" -> SyncHead(h, target)
    [] k = "trim" -> TrimHead(h, target)
    [] k = "gc"   -> CleanupHead(h)
    [] k = "seal" -> SealHead(h)

\* A sealed head refuses every publication (and Seal has nothing to do).
Refused(h) == h.sealed

\* The operation finds its work already done.
Settled(k, h, target) ==
  CASE k = "sync" -> h.tip >= target
    [] k = "trim" -> target <= h.base
    [] k = "gc"   -> ~CompactionHelps(h)
    [] k = "seal" -> h.sealed

\* It cannot be done: the archive is behind the trim, or has no head yet.
Impossible(k, h, target) ==
  CASE k = "sync" -> FALSE
    [] k = "trim" -> target > h.tip
    [] k = "gc"   -> FALSE
    [] k = "seal" -> h.gen = 0

----------------------------------------------------------------------------
(* Starting an operation                                                   *)

Decide ==
  /\ decided < MaxSlot /\ decided' = decided + 1
  /\ UNCHANGED <<head, blocks, marks, aged, publishLock, gcLock, pins,
                 sealIntent, loaded, task, snapshot, acked, archiveFaults>>

Begin(m, k, pc, target) ==
  /\ <<m, k>> \in Duties
  /\ task' = [task EXCEPT ![m] = [Resting EXCEPT !.kind = k, !.pc = pc,
                                              !.target = target]]

\* SyncThrough: answered from memory, or after the Load of syncNowBatch, or
\* goes on to the publication lock for everything the core has decided.
SyncThrough(m, through) ==
  /\ At(m, "idle") /\ through \in 1..decided /\ head.gen < MaxGeneration
  /\ IF loaded[m].tip >= through
     THEN acked' = Max({acked, through}) /\ UNCHANGED <<loaded, task>>
     ELSE /\ Load(head) /\ loaded' = [loaded EXCEPT ![m] = head]
          /\ \/ head.sealed /\ UNCHANGED <<acked, task>>
             \/ /\ ~head.sealed /\ head.tip >= through
                /\ acked' = Max({acked, through}) /\ UNCHANGED task
             \/ /\ ~head.sealed /\ head.tip < through
                /\ Begin(m, "sync", "publock", decided) /\ UNCHANGED acked
  /\ UNCHANGED <<decided, head, blocks, marks, aged, publishLock, gcLock, pins,
                 sealIntent, snapshot, archiveFaults>>

\* TrimThrough of a checkpoint whose certified seal was decided in a later slot.
TrimThrough(m, through) ==
  /\ At(m, "idle") /\ through \in 1..(decided - 1) /\ head.gen < MaxGeneration
  /\ Begin(m, "trim", "gclock", through)
  /\ UNCHANGED <<decided, head, blocks, marks, aged, publishLock, gcLock, pins,
                 sealIntent, loaded, snapshot, acked, archiveFaults>>

Cleanup(m) ==
  /\ At(m, "idle") /\ head.gen < MaxGeneration
  /\ Begin(m, "gc", "gclock", 0)
  /\ UNCHANGED <<decided, head, blocks, marks, aged, publishLock, gcLock, pins,
                 sealIntent, loaded, snapshot, acked, archiveFaults>>

BeginRecoverySnapshot(m) ==
  /\ At(m, "idle") /\ snapshot[m] = NoHead
  /\ Begin(m, "snap", "gclock", 0)
  /\ UNCHANGED <<decided, head, blocks, marks, aged, publishLock, gcLock, pins,
                 sealIntent, loaded, snapshot, acked, archiveFaults>>

\* Seal: the intent names the operation before the lock is taken; a sealed
\* archive, or another operation's intent, ends the call.
Seal(m, o) ==
  /\ At(m, "idle") /\ Load(head) /\ head.gen > 0 /\ ~head.sealed
  /\ sealIntent \in {"none", o} /\ sealIntent' = o
  /\ loaded' = [loaded EXCEPT ![m] = head]
  /\ Begin(m, "seal", "publock", 0)
  /\ UNCHANGED <<decided, head, blocks, marks, aged, publishLock, gcLock, pins,
                 snapshot, acked, archiveFaults>>

----------------------------------------------------------------------------
(* Under GC_LOCK                                                           *)

AcquireGCLock(m) ==
  /\ At(m, "gclock") /\ ~gcLock.live
  /\ gcLock' = Acquired(m)
  /\ Goto(m, "gcwork")
  /\ UNCHANGED <<decided, head, blocks, marks, aged, publishLock, pins,
                 sealIntent, loaded, snapshot, acked, archiveFaults>>

ActivePins == {p \in Managers : pins[p].live}

\* TrimThrough refuses under a live recovery pin.
TrimGuard(m) ==
  /\ At(m, "gcwork") /\ task[m].kind = "trim"
  /\ Goto(m, IF ActivePins # {} THEN "gcdone" ELSE "publock")
  /\ UNCHANGED <<decided, head, blocks, marks, aged, publishLock, gcLock, pins,
                 sealIntent, loaded, snapshot, acked, archiveFaults>>

\* cleanup: without a compaction to publish, the extents of this head are
\* kept and the sweep begins.
CleanupLoad(m) ==
  /\ At(m, "gcwork") /\ task[m].kind = "gc" /\ Load(head)
  /\ loaded' = [loaded EXCEPT ![m] = head]
  /\ task' = [task EXCEPT ![m] =
       IF head.sealed THEN [@ EXCEPT !.pc = "gcdone"]
       ELSE IF CompactionHelps(head) THEN [@ EXCEPT !.pc = "publock"]
       ELSE [@ EXCEPT !.pc = "pins", !.keep = Extents(head), !.gcGen = head.gen]]
  /\ UNCHANGED <<decided, head, blocks, marks, aged, publishLock, gcLock, pins,
                 sealIntent, snapshot, acked, archiveFaults>>

\* BeginRecoverySnapshot: the head is loaded, then its pin is written.
SnapshotLoad(m) ==
  /\ At(m, "gcwork") /\ task[m].kind = "snap" /\ Load(head)
  /\ loaded' = [loaded EXCEPT ![m] = head]
  /\ task' = [task EXCEPT ![m].pc = IF pins[m].live THEN "gcdone" ELSE "pin",
                          ![m].old = head]
  /\ UNCHANGED <<decided, head, blocks, marks, aged, publishLock, gcLock, pins,
                 sealIntent, snapshot, acked, archiveFaults>>

WriteRecoveryPin(m) ==
  /\ At(m, "pin")
  /\ pins' = [pins EXCEPT ![m] = [tail |-> TailObject(task[m].old), live |-> TRUE]]
  /\ snapshot' = [snapshot EXCEPT ![m] = task[m].old]
  /\ Goto(m, "gcdone")
  /\ UNCHANGED <<decided, head, blocks, marks, aged, publishLock, gcLock,
                 sealIntent, loaded, acked, archiveFaults>>

ReleaseGCLock(m) ==
  /\ At(m, "gcdone")
  /\ gcLock' = Released(gcLock, m)
  /\ task' = [task EXCEPT ![m] = Resting]
  /\ UNCHANGED <<decided, head, blocks, marks, aged, publishLock, pins,
                 sealIntent, loaded, snapshot, acked, archiveFaults>>

\* RecoverySnapshot.Close: writes an expired lease over its own pin.
CloseSnapshot(m) ==
  /\ At(m, "idle") /\ snapshot[m] # NoHead
  /\ pins' = [pins EXCEPT ![m].live = FALSE]
  /\ snapshot' = [snapshot EXCEPT ![m] = NoHead]
  /\ UNCHANGED <<decided, head, blocks, marks, aged, publishLock, gcLock,
                 sealIntent, loaded, task, acked, archiveFaults>>

----------------------------------------------------------------------------
(* Under PUBLISH_LOCK                                                      *)

AcquirePublicationLock(m) ==
  /\ At(m, "publock") /\ ~publishLock.live
  /\ publishLock' = Acquired(m)
  /\ Goto(m, "prepare")
  /\ UNCHANGED <<decided, head, blocks, marks, aged, gcLock, pins, sealIntent,
                 loaded, snapshot, acked, archiveFaults>>

\* SyncThrough, still waiting for a busy lock, finds its slots published.
RecheckWhileBusy(m) ==
  /\ At(m, "publock") /\ task[m].kind = "sync" /\ publishLock.live /\ Load(head)
  /\ head.tip >= task[m].target \/ head.sealed
  /\ loaded' = [loaded EXCEPT ![m] = head]
  /\ acked' = IF head.sealed THEN acked ELSE Max({acked, task[m].target})
  /\ task' = [task EXCEPT ![m] = Resting]
  /\ UNCHANGED <<decided, head, blocks, marks, aged, publishLock, gcLock, pins,
                 sealIntent, snapshot, archiveFaults>>

\* Load under the lock, build the extents and upload them.
PreparePublication(m) ==
  LET k == task[m].kind
      target == IF k = "sync" THEN Max({task[m].target, decided}) ELSE task[m].target
      next == NextHead(k, head, target)
  IN /\ At(m, "prepare") /\ Load(head)
     /\ loaded' = [loaded EXCEPT ![m] = head]
     /\ \/ /\ k # "seal" /\ Refused(head) /\ Goto(m, "refused") /\ UNCHANGED blocks
        \/ /\ k = "seal" \/ ~Refused(head)
           /\ Settled(k, head, target) /\ Goto(m, "publist") /\ UNCHANGED blocks
        \/ /\ k = "seal" \/ ~Refused(head)
           /\ Impossible(k, head, target) /\ Goto(m, "refused") /\ UNCHANGED blocks
        \/ /\ ~Refused(head) /\ ~Settled(k, head, target)
           /\ ~Impossible(k, head, target)
           /\ next.gen =< MaxGeneration
           /\ blocks' = blocks \cup
                {SubSeq(next.tail, 1, i) : i \in {j \in 1..Len(next.tail) :
                                                    next.tail[j].g = next.gen /\ k # "seal"}}
           /\ task' = [task EXCEPT ![m].pc = "confirm", ![m].old = head,
                                   ![m].new = next, ![m].target = target]
     /\ UNCHANGED <<decided, head, marks, aged, publishLock, gcLock, pins,
                    sealIntent, snapshot, acked, archiveFaults>>

\* publishHead checks the lease just before it writes.  Without it, Cleanup
\* and SyncThrough try again from a fresh Load, which ends the same way.
ConfirmLease(m) ==
  /\ At(m, "confirm")
  /\ Goto(m, IF ConfirmPublicationLease(m) THEN "put" ELSE "refused")
  /\ UNCHANGED <<decided, head, blocks, marks, aged, publishLock, gcLock, pins,
                 sealIntent, loaded, snapshot, acked, archiveFaults>>

\* Mutant: the head is uploaded without its condition.
PutAnyway(m) ==
  /\ At(m, "put")
  /\ head' = task[m].new
  /\ Goto(m, "refresh")
  /\ UNCHANGED <<decided, blocks, marks, aged, publishLock, gcLock, pins,
                 sealIntent, loaded, snapshot, acked, archiveFaults>>

\* The conditional upload of the head.
Put(m) ==
  /\ At(m, "put")
  /\ \/ /\ head = task[m].old /\ head' = task[m].new /\ Goto(m, "refresh")
     \/ /\ head # task[m].old /\ Goto(m, "prepare") /\ UNCHANGED head
  /\ UNCHANGED <<decided, blocks, marks, aged, publishLock, gcLock, pins,
                 sealIntent, loaded, snapshot, acked, archiveFaults>>

\* Mutant: an unanswered upload is taken for a successful one.
PutUnansweredTrusted(m) ==
  /\ At(m, "put") /\ Fault
  /\ head' \in {head, IF head = task[m].old THEN task[m].new ELSE head}
  /\ Goto(m, "publist")
  /\ UNCHANGED <<decided, blocks, marks, aged, publishLock, gcLock, pins,
                 sealIntent, loaded, snapshot, acked>>

\* The upload's answer is lost, whether or not it took effect.
PutUnanswered(m) ==
  /\ At(m, "put") /\ Fault
  /\ head' \in {head, IF head = task[m].old THEN task[m].new ELSE head}
  /\ Goto(m, IF task[m].kind = "seal" THEN "refused" ELSE "prepare")
  /\ UNCHANGED <<decided, blocks, marks, aged, publishLock, gcLock, pins,
                 sealIntent, loaded, snapshot, acked>>

\* refreshPublishedHead (and the verifying Load of Cleanup).
RefreshPublishedHead(m) ==
  /\ At(m, "refresh") /\ Load(head)
  /\ loaded' = [loaded EXCEPT ![m] = head]
  /\ Goto(m, "publist")
  /\ UNCHANGED <<decided, head, blocks, marks, aged, publishLock, gcLock, pins,
                 sealIntent, snapshot, acked, archiveFaults>>

\* The lease must still be there for the work to count as done.
AfterPublication(m) ==
  IF ConfirmPublicationLease(m) THEN task[m].kind ELSE "failed"

\* withPublicationLock returns: the lock is released, SyncThrough answers,
\* Cleanup goes on to the sweep with the head it has loaded.
ReleasePublicationLock(m) ==
  LET outcome == IF At(m, "publist") THEN AfterPublication(m) ELSE "failed"
  IN /\ task[m].pc \in {"publist", "refused"}
     /\ publishLock' = Released(publishLock, m)
     /\ acked' = IF outcome = "sync" THEN Max({acked, task[m].target}) ELSE acked
     /\ task' = [task EXCEPT ![m] =
          CASE outcome = "gc" ->
                 [@ EXCEPT !.pc = "pins", !.keep = Extents(loaded[m]),
                           !.gcGen = loaded[m].gen]
            [] outcome # "gc" /\ @.kind \in {"gc", "trim"} -> [@ EXCEPT !.pc = "gcdone"]
            [] outcome # "gc" /\ @.kind \notin {"gc", "trim"} -> Resting]
     /\ UNCHANGED <<decided, head, blocks, marks, aged, gcLock, pins, sealIntent,
                    loaded, snapshot, archiveFaults>>

----------------------------------------------------------------------------
(* cleanupDeletes                                                          *)

\* maxActiveRecoveryGeneration.
PinnedGeneration == Max({0} \cup {pins[p].tail : p \in ActivePins})

\* The cutoff for marks is fixed before the pins are read.
ReadPins(m) ==
  /\ At(m, "pins")
  /\ task' = [task EXCEPT ![m].pc = "scan", ![m].pinned = PinnedGeneration,
                          ![m].due = aged]
  /\ UNCHANGED <<decided, head, blocks, marks, aged, publishLock, gcLock, pins,
                 sealIntent, loaded, snapshot, acked, archiveFaults>>

\* Mutant: extents newer than the head the collector looked at are garbage.
CollectableOfAnyAge(m, b) ==
  /\ Last(b).g > task[m].pinned
  /\ b \notin task[m].keep

\* Newer, pinned and kept extents are not garbage.
Collectable(m, b) ==
  /\ Last(b).g =< task[m].gcGen
  /\ Last(b).g > task[m].pinned
  /\ b \notin task[m].keep

\* The scan marks new garbage, unmarks what is no longer garbage, drops
\* marks of objects that are gone, and condemns what was marked long ago.
ScanObjects(m) ==
  LET garbage == {b \in blocks : Collectable(m, b)}
  IN /\ At(m, "scan")
     /\ task' = [task EXCEPT ![m].pc = "delete", ![m].due = {},
                             ![m].doomed = garbage \cap aged \cap task[m].due]
     /\ marks' = garbage
     /\ aged' = aged \cap garbage
     /\ UNCHANGED <<decided, head, blocks, publishLock, gcLock, pins, sealIntent,
                    loaded, snapshot, acked, archiveFaults>>

DeleteObject(m, b) ==
  /\ At(m, "delete") /\ b \in task[m].doomed
  /\ blocks' = blocks \ {b} /\ marks' = marks \ {b} /\ aged' = aged \ {b}
  /\ task' = [task EXCEPT ![m].doomed = @ \ {b}]
  /\ UNCHANGED <<decided, head, publishLock, gcLock, pins, sealIntent, loaded,
                 snapshot, acked, archiveFaults>>

EndCleanup(m) ==
  /\ At(m, "delete") /\ task[m].doomed = {}
  /\ Goto(m, "gcdone")
  /\ UNCHANGED <<decided, head, blocks, marks, aged, publishLock, gcLock, pins,
                 sealIntent, loaded, snapshot, acked, archiveFaults>>

----------------------------------------------------------------------------
(* Time and failures                                                       *)

\* Between reading the head and writing the pin that protects it.
Pinning(m) == At(m, "pin")

\* The grace period (24 h by default) passes.  It is longer than the moment
\* between the two steps of BeginRecoverySnapshot.
GracePeriodPasses ==
  /\ aged # marks /\ \A m \in Managers : ~Pinning(m)
  /\ aged' = marks
  /\ UNCHANGED <<decided, head, blocks, marks, publishLock, gcLock, pins,
                 sealIntent, loaded, task, snapshot, acked, archiveFaults>>

\* A lease is not renewed in time although its holder is alive.
LeaseLapses ==
  /\ Fault
  /\ \/ publishLock.live /\ publishLock' = [publishLock EXCEPT !.live = FALSE]
        /\ UNCHANGED <<gcLock, pins>>
     \/ gcLock.live /\ gcLock' = [gcLock EXCEPT !.live = FALSE]
        /\ UNCHANGED <<publishLock, pins>>
     \/ \E p \in ActivePins : pins' = [pins EXCEPT ![p].live = FALSE]
        /\ UNCHANGED <<publishLock, gcLock>>
  /\ UNCHANGED <<decided, head, blocks, marks, aged, sealIntent, loaded, task,
                 snapshot, acked>>

\* A process dies; its leases run out on their own.
CrashManager(m) ==
  /\ Fault /\ task[m].kind # "none"
  /\ task' = [task EXCEPT ![m] = Resting]
  /\ loaded' = [loaded EXCEPT ![m] = NoHead]
  /\ snapshot' = [snapshot EXCEPT ![m] = NoHead]
  /\ publishLock' = Released(publishLock, m)
  /\ gcLock' = Released(gcLock, m)
  /\ pins' = [pins EXCEPT ![m].live = FALSE]
  /\ UNCHANGED <<decided, head, blocks, marks, aged, sealIntent, acked>>

ManagerStep(m) ==
  \/ \E s \in 1..MaxSlot : SyncThrough(m, s) \/ TrimThrough(m, s)
  \/ Cleanup(m) \/ BeginRecoverySnapshot(m)
  \/ \E o \in Operations : Seal(m, o)
  \/ AcquireGCLock(m) \/ TrimGuard(m) \/ CleanupLoad(m) \/ SnapshotLoad(m)
  \/ WriteRecoveryPin(m) \/ ReleaseGCLock(m) \/ CloseSnapshot(m)
  \/ AcquirePublicationLock(m) \/ RecheckWhileBusy(m) \/ PreparePublication(m)
  \/ ConfirmLease(m) \/ Put(m) \/ PutUnanswered(m) \/ RefreshPublishedHead(m)
  \/ ReleasePublicationLock(m) \/ ReadPins(m) \/ ScanObjects(m)
  \/ \E b \in blocks : DeleteObject(m, b)
  \/ EndCleanup(m) \/ CrashManager(m)

ArchiveNext ==
  \/ Decide \/ GracePeriodPasses \/ LeaseLapses
  \/ \E m \in Managers : ManagerStep(m)

ArchiveSpec == ArchiveInit /\ [][ArchiveNext]_archiveVars

----------------------------------------------------------------------------
(* Properties                                                              *)

\* encodeHead's checks and the order of generations along a chain
\* ("archive extent generation regressed"), for the stored head and for every
\* head a manager holds: the extents above the base run from the base to the
\* tip without a gap, none is newer than its successor or than the head, and
\* the loaded heads are no newer than the stored one.
ArchiveTypeOK ==
  LET Sound(h) ==
        /\ h.base =< h.tip /\ (h.tip > h.base) = (References(h) # {})
        /\ (h.tip = h.base) => h.tail = <<>>
        /\ TailObject(h) =< h.gen
        /\ \A k \in References(h) :
             /\ h.tail[k].s =< h.tail[k].e
             /\ k > 1 /\ (k - 1) \in References(h) =>
                  h.tail[k].s = h.tail[k - 1].e + 1 /\ h.tail[k].g >= h.tail[k - 1].g
             /\ (k - 1) \notin References(h) => h.tail[k].s =< h.base + 1
        /\ References(h) # {} => Last(h.tail).e = h.tip
  IN /\ Sound(head) /\ head.tip =< decided
     /\ \A m \in Managers : Sound(loaded[m]) /\ loaded[m].gen =< head.gen
     /\ aged \subseteq marks

\* The head in the object store can always be loaded, and a snapshot whose pin
\* is live can read every extent it pinned although the head was trimmed or
\* compacted since: cleanupDeletes removes neither, whatever leases lapsed and
\* however long a collector was paused.
ArchiveReadable ==
  /\ Load(head)
  /\ \A m \in Managers : pins[m].live /\ snapshot[m] # NoHead =>
       Extents(snapshot[m]) \subseteq blocks

\* What SyncThrough reported durable stays in the archive: below its tip,
\* whoever publishes over that head later.
AckedArchived == acked =< head.tip

\* The head only advances, and once it is sealed for recovery nothing is ever
\* published over it.
HeadAdvances ==
  [][ /\ ~head.sealed
      /\ head'.gen >= head.gen /\ head'.base >= head.base /\ head'.tip >= head.tip
    ]_head
=============================================================================
