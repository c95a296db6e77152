-------------------------------- MODULE Wal ---------------------------------
(***************************************************************************)
(* The write-ahead log of pkg/qlog: segment files, the manifest that names *)
(* them, rollover, the fenced compaction, the identity, the capacity limit *)
(* and Open, over a file system whose directory entries and file contents  *)
(* reach the disk only when they are synced.  A call holds w.mu until it   *)
(* returns; a compaction builds its prefix next to the calls.              *)
(***************************************************************************)
EXTENDS Naturals, Sequences, FiniteSets, TLC

CONSTANTS
    Appends,      \* entries callers append: [type, slot, id], id in order
    Plans,        \* compactions: [base, keep]
    MaxSize,      \* maxSize of a segment, in entries
    MaxBytes,     \* the capacity set by SetMaxBytes, in entries
    MaxAppends,   \* bound: calls of Append
    MaxFaults,    \* bound: failing system calls
    MaxCrashes,   \* bound: kills and power losses
    MaxCompactions, \* bound: compactions begun
    Settles       \* what a process wrote reaches the disk once it is gone

VARIABLES
    segs,         \* segment names: index -> file
    mans,         \* manifests: generation -> content
    disk,         \* both of them as last synced
    file,         \* file contents: entries, how many are synced, torn tail
    w,            \* the open handle, its segments as seq of [index, file, offset]
    op,           \* the call that holds w.mu
    comp,         \* the compaction, which holds compactMu
    garbage,      \* segments a committed compaction has yet to remove
    acked,        \* Sync has covered the entries up to this id
    bound,        \* BindIdentity has returned
    appends, faults, crashes, compactions  \* counts for the bounds

dirVars == <<segs, mans, disk>>
walCounts == <<appends, faults, crashes, compactions>>
otherCounts == <<appends, crashes, compactions>>
walVars == <<dirVars, file, w, op, comp, garbage, acked, bound, walCounts>>

Closed == [state |-> "down"]
IdleOp == [kind |-> "none"]
NoCompact == [stage |-> "none"]
NoPlan == [base |-> "none"]

Last(s) == s[Len(s)]
Put(f, k, v) == [x \in DOMAIN f \cup {k} |-> IF x = k THEN v ELSE f[x]]
Only(f, S) == [x \in DOMAIN f \cap S |-> f[x]]
Without(f, S) == [x \in DOMAIN f \ S |-> f[x]]
Largest(S) == CHOOSE n \in S : \A m \in S : n >= m

\* The entries of a list of segments.
EntriesOf(list) ==
    LET cat[i \in 0..Len(list)] ==
            IF i = 0 THEN <<>> ELSE cat[i - 1] \o file[list[i].file].data
    IN cat[Len(list)]

LastId(s) == IF s = <<>> THEN 0 ELSE Largest({s[i].id : i \in DOMAIN s})

Indices(list) == {list[i].index : i \in DOMAIN list}

Bytes(list) ==
    LET sum[i \in 0..Len(list)] == IF i = 0 THEN 0 ELSE sum[i - 1] + list[i].offset
    IN sum[Len(list)]

Up == w.state = "up"
Current == Last(w.segments)
Free == Up /\ op = IdleOp         \* w.mu can be taken
Usable == Free /\ ~w.fatal

WalInit ==
    /\ segs = <<>> /\ mans = <<>> /\ disk = [segs |-> <<>>, mans |-> <<>>]
    /\ file = <<>>
    /\ w = Closed
    /\ op = IdleOp
    /\ comp = NoCompact
    /\ garbage = {}
    /\ acked = 0
    /\ bound = FALSE
    /\ appends = 0 /\ faults = 0 /\ crashes = 0 /\ compactions = 0

-----------------------------------------------------------------------------
(* The file system.                                                        *)

\* The directory is changed, or changed and synced.
Directory(S, M) == [segs |-> S, mans |-> M]
SetDir(S, M) == segs' = S /\ mans' = M /\ UNCHANGED disk
SyncDir(S, M) == segs' = S /\ mans' = M /\ disk' = Directory(S, M)

NewFile(data) == [data |-> data, synced |-> Len(data), torn |-> FALSE]

SyncFile(f) == [file EXCEPT ![f].synced = Len(file[f].data)]

\* One of the system calls of the step fails, or none does.
Fault == faults < MaxFaults /\ faults' = faults + 1
NoFault == UNCHANGED faults

\* Names that are not on disk as they are seen.
Unsynced(seen, synced) ==
    {n \in DOMAIN seen \cup DOMAIN synced :
        ~(n \in DOMAIN seen /\ n \in DOMAIN synced /\ seen[n] = synced[n])}

Mixed(seen, synced, S) ==
    [n \in (DOMAIN seen \cap S) \cup (DOMAIN synced \ S) |-> IF n \in S THEN seen[n] ELSE synced[n]]

\* What a power loss may leave of the directory: any choice of the changes.
CrashImages ==
    {Directory(Mixed(segs, disk.segs, S), Mixed(mans, disk.mans, M)) :
         S \in SUBSET Unsynced(segs, disk.segs), M \in SUBSET Unsynced(mans, disk.mans)}

\* A file keeps its synced entries, and of the others the first n at most.
Truncated(f, n, torn) ==
    LET k == IF n < f.synced THEN f.synced ELSE IF n > Len(f.data) THEN Len(f.data) ELSE n
    IN [data |-> SubSeq(f.data, 1, k), synced |-> k,
        torn |-> torn /\ (f.torn \/ k < Len(f.data))]

-----------------------------------------------------------------------------
(* Manifests.                                                              *)

Refs(list) ==
    [i \in DOMAIN list |-> [index |-> list[i].index,
                            length |-> IF i = Len(list) THEN 0 ELSE list[i].offset]]

ManifestOf(list, identity) == [refs |-> Refs(list), identity |-> identity]

\* The manifest a reader selects, the highest generation by name.
Latest == mans[Largest(DOMAIN mans)]

\* The segments the latest manifest names, as they are in the directory.
Named == [i \in DOMAIN Latest.refs |->
            LET f == segs[Latest.refs[i].index]
            IN [index |-> Latest.refs[i].index, file |-> f, offset |-> Len(file[f].data)]]

\* loadSegments: every named segment exists, a sealed one has its exact length,
\* and only the last may have a torn tail.
LoadsManifest ==
    /\ \A i \in DOMAIN Latest.refs :
          /\ Latest.refs[i].index \in DOMAIN segs
          /\ i < Len(Latest.refs) =>
                LET f == file[segs[Latest.refs[i].index]]
                IN Len(f.data) = Latest.refs[i].length /\ ~f.torn
    /\ Latest.refs # <<>>

IsEmptyFile(f) == file[f].data = <<>> /\ ~file[f].torn

\* reconcileManifestlessFiles: at most one segment, number 1 and empty.
LoadsNothing ==
    segs = <<>> \/ (DOMAIN segs = {1} /\ IsEmptyFile(segs[1]))

Loads == IF mans = <<>> THEN LoadsNothing ELSE LoadsManifest

\* loadSegmentsReadOnly: without a manifest every segment must be empty.
LoadsReadOnly ==
    IF mans = <<>> THEN \A i \in DOMAIN segs : IsEmptyFile(segs[i]) ELSE LoadsManifest

-----------------------------------------------------------------------------
(* A call returns: append writes its entry behind a rollover, and so on.   *)

\* WriteAt at the offset.  A failed write leaves nothing, a part or all of the
\* entry behind, and the handle is of no use any more.
Written(h, e) ==
    /\ file' = [file EXCEPT ![Last(h.segments).file].data = Append(@, e)]
    /\ w' = [h EXCEPT !.segments[Len(h.segments)].offset = @ + 1,
                      !.total = @ + 1, !.dirty = TRUE, !.wrote = TRUE]

WriteEntry(h, e) ==
    LET f == Last(h.segments).file
    IN \/ Written(h, e) /\ NoFault
       \/ /\ \/ UNCHANGED file
             \/ file' = [file EXCEPT ![f].torn = TRUE]
             \/ file' = [file EXCEPT ![f].data = Append(@, e)]
          /\ w' = [h EXCEPT !.fatal = TRUE]
          /\ Fault

\* The call returns an error; if it was to open the log there is no handle.
EndCall ==
    /\ op' = IdleOp
    /\ w' = IF w.segments = <<>> THEN Closed
            ELSE IF op.kind = "bind" THEN [w EXCEPT !.identity = FALSE] ELSE w

\* createSegment up to the new name: the current segment is synced, an
\* unreferenced file in the way is removed for good, the new file is created.
StartCreate(index, cont) ==
    LET new == Len(file) + 1
    IN /\ file' = Append(IF w.segments = <<>> THEN file ELSE SyncFile(Current.file),
                         NewFile(<<>>))
       /\ segs' = Put(segs, index, new)
       /\ disk' = IF index \in DOMAIN segs THEN Directory(Without(segs, {index}), mans)
                  ELSE disk
       /\ w' = [w EXCEPT !.dirty = FALSE]
       /\ op' = [kind |-> "create", step |-> "created", cont |-> cont,
                 next |-> Append(w.segments, [index |-> index, file |-> new, offset |-> 0])]
       /\ UNCHANGED mans

\* createSegment: the directory is synced.  If that fails the file is removed.
PublishCreated ==
    /\ op.kind = "create" /\ op.step = "created"
    /\ \/ /\ SyncDir(segs, mans)
          /\ op' = [op EXCEPT !.step = "publish"]
          /\ UNCHANGED w
          /\ NoFault
       \/ /\ SetDir(Without(segs, {Last(op.next).index}), mans)
          /\ EndCall
          /\ Fault
    /\ UNCHANGED <<file, comp, garbage, acked, bound, otherCounts>>

\* The manifest could not be written: nothing happened.
Unpublished ==
    /\ EndCall
    /\ \/ /\ op.kind = "create"
          /\ SetDir(Without(segs, {Last(op.next).index}), mans)
          /\ UNCHANGED comp
       \/ /\ op.kind = "commit"
          /\ SetDir(Without(segs, {comp.target}), mans)
          /\ comp' = NoCompact
       \/ /\ op.kind = "bind"
          /\ UNCHANGED <<comp, dirVars>>

\* publishManifestLocked: the content is written and synced under a temporary
\* name and renamed.
Publish ==
    /\ op.kind # "none" /\ op.step = "publish"
    /\ \/ /\ SetDir(segs, Put(mans, w.generation + 1, ManifestOf(op.next, w.identity)))
          /\ op' = [op EXCEPT !.step = "renamed"]
          /\ UNCHANGED <<w, comp>>
          /\ NoFault
       \/ Unpublished /\ Fault
    /\ UNCHANGED <<file, garbage, acked, bound, otherCounts>>

\* The handle once its generation has advanced.
Switched == [w EXCEPT !.segments = op.next, !.generation = @ + 1,
                      !.total = Bytes(op.next),
                      !.pending = @ \/ (op.kind = "commit" /\ w.defer)]

SetStage(stage) ==
    comp' = IF op.kind = "commit" THEN [comp EXCEPT !.stage = stage] ELSE comp

\* Mutant: the old manifest goes before the new one is known to be on disk.
SyncManifestLate ==
    /\ op.kind # "none" /\ op.step = "renamed"
    /\ SetDir(segs, Only(mans, {w.generation + 1}))
    /\ op' = [op EXCEPT !.step = "finish"]
    /\ w' = Switched
    /\ SetStage("switched")
    /\ UNCHANGED <<file, garbage, acked, bound, walCounts>>

\* The directory is synced, then older manifests are removed as far as that
\* works.  If the sync fails nobody knows which manifest a crash would leave:
\* the generation is taken as published and the handle is of no use any more.
SyncManifest ==
    /\ op.kind # "none" /\ op.step = "renamed"
    /\ \/ /\ \/ SyncDir(segs, mans) /\ Fault
             \/ /\ segs' = segs /\ mans' = Only(mans, {w.generation + 1})
                /\ disk' = Directory(segs, mans)
                /\ NoFault
          /\ op' = [op EXCEPT !.step = "finish"]
          /\ w' = Switched
          /\ SetStage("switched")
       \/ /\ UNCHANGED dirVars
          /\ op' = IdleOp
          /\ w' = [Switched EXCEPT !.fatal = TRUE]
          /\ SetStage("uncertain")
          /\ Fault
    /\ UNCHANGED <<file, garbage, acked, bound, otherCounts>>

\* A sync of the directory whose failure is only logged.
SyncOrLog == (SyncDir(segs, mans) /\ NoFault) \/ (UNCHANGED dirVars /\ Fault)

\* The sync behind the removals, whose failure is only logged, and the rest of
\* the call.
FinishCall ==
    /\ op.kind # "none" /\ op.step = "finish"
    /\ op' = IdleOp
    /\ \/ /\ op.kind = "create" /\ op.cont.call = "append"
          /\ WriteEntry(w, op.cont.entry)
          /\ SyncDir(segs, mans)
          /\ UNCHANGED <<comp, garbage, bound>>
       \/ /\ op.kind = "create" /\ op.cont.call = "append"
          /\ Written(w, op.cont.entry)
          /\ UNCHANGED <<comp, garbage, bound, dirVars>>
          /\ Fault
       \/ /\ op.kind = "create" /\ op.cont.call = "open"
          /\ SyncOrLog
          /\ UNCHANGED <<file, w, comp, garbage, bound>>
       \/ /\ op.kind = "create" /\ op.cont.call = "compact"
          /\ comp' = [stage |-> "begun", plan |-> op.cont.plan,
                      prefix |-> SubSeq(w.segments, 1, Len(w.segments) - 1),
                      target |-> Current.index - 1, tail |-> Current.index]
          /\ SyncOrLog
          /\ UNCHANGED <<file, w, garbage, bound>>
       \/ /\ op.kind = "bind"
          /\ bound' = TRUE
          /\ SyncOrLog
          /\ UNCHANGED <<file, w, comp, garbage>>
       \/ /\ op.kind = "commit"
          /\ garbage' = IF w.defer THEN garbage ELSE garbage \cup Indices(comp.prefix)
          /\ comp' = NoCompact
          /\ SyncOrLog
          /\ UNCHANGED <<file, w, bound>>
    /\ UNCHANGED <<acked, otherCounts>>

-----------------------------------------------------------------------------
(* Open and Close.                                                         *)

Handle(list, generation, identity, defer) ==
    [state |-> "up", segments |-> list, generation |-> generation, identity |-> identity,
     total |-> Bytes(list), dirty |-> FALSE, fatal |-> FALSE, wrote |-> FALSE,
     defer |-> defer, pending |-> defer /\ list # <<>>]

\* loadSegments without a manifest: an empty first segment is removed, and the
\* directory synced, before it is made again.
OpenEmpty(defer) ==
    /\ mans = <<>>
    /\ file' = Append(file, NewFile(<<>>))
    /\ segs' = (1 :> (Len(file) + 1))
    /\ disk' = IF segs = <<>> THEN disk ELSE Directory(<<>>, <<>>)
    /\ w' = Handle(<<>>, 0, FALSE, defer)
    /\ op' = [kind |-> "create", step |-> "created", cont |-> [call |-> "open"],
              next |-> <<[index |-> 1, file |-> Len(file) + 1, offset |-> 0]>>]
    /\ UNCHANGED <<mans, faults>>

\* repairTail of the active segment.
Repaired(f) ==
    IF file[f].torn
    THEN [file EXCEPT ![f].torn = FALSE, ![f].synced = Len(file[f].data)]
    ELSE file

\* reconcileCommittedFiles: unreferenced segments go, then older manifests, and
\* the directory is synced if anything went.
Reconcile(list, generation) ==
    LET S == Only(segs, Indices(list))
        M == Only(mans, {generation})
    IN /\ IF Directory(S, M) = Directory(segs, mans) THEN UNCHANGED dirVars ELSE SyncDir(S, M)
       /\ NoFault

\* It fails at the first removal, behind the segments or at the sync.
ReconcileFails(list, generation) ==
    LET S == Only(segs, Indices(list))
        M == Only(mans, {generation})
    IN /\ SetDir(segs, mans) \/ SetDir(S, mans) \/ SetDir(S, M)
       /\ Fault

\* loadSegments with a manifest.  A failed reconciliation is only logged.
OpenManifest(defer) ==
    /\ mans # <<>>
    /\ file' = Repaired(Last(Named).file)
    /\ w' = Handle(Named, Largest(DOMAIN mans), Latest.identity, defer)
    /\ IF defer THEN UNCHANGED <<dirVars, faults>>
       ELSE \/ Reconcile(Named, Largest(DOMAIN mans))
            \/ ReconcileFails(Named, Largest(DOMAIN mans))
    /\ UNCHANGED op

Open(defer) ==
    /\ w = Closed /\ Loads
    /\ OpenEmpty(defer) \/ OpenManifest(defer)
    /\ UNCHANGED <<comp, garbage, acked, bound, otherCounts>>

\* The files, and the directory, that outlive a process.
SyncedFiles(S) ==
    [f \in DOMAIN file |->
        IF f \in S \/ Settles THEN [file[f] EXCEPT !.synced = Len(file[f].data)] ELSE file[f]]
LeaveDir == IF Settles THEN SyncDir(segs, mans) ELSE UNCHANGED dirVars

\* Close syncs every segment, whatever state the handle is in.
Close ==
    /\ Free /\ comp.stage \in {"none", "uncertain"}
    /\ file' = SyncedFiles({w.segments[i].file : i \in DOMAIN w.segments})
    /\ LeaveDir
    /\ w' = Closed
    /\ comp' = NoCompact
    /\ garbage' = {}
    /\ UNCHANGED <<op, acked, bound, walCounts>>

\* Start-up calls it when all its other steps have succeeded, and gives up on the
\* first error, so never on a handle that is of no use.
FinalizeDeferredCleanup ==
    /\ Usable /\ w.defer /\ comp = NoCompact
    /\ \/ /\ IF w.pending THEN Reconcile(w.segments, w.generation)
                          ELSE UNCHANGED <<dirVars, faults>>
          /\ w' = [w EXCEPT !.defer = FALSE, !.pending = FALSE]
       \/ /\ w.pending /\ ReconcileFails(w.segments, w.generation)
          /\ UNCHANGED w
    /\ UNCHANGED <<file, op, comp, garbage, acked, bound, otherCounts>>

-----------------------------------------------------------------------------
(* The calls.                                                              *)

\* Append.  A sync or a create that fails before the new segment has its name
\* changes nothing, so only what comes after it is a step of its own.
WalAppend(e) ==
    /\ Usable /\ appends < MaxAppends /\ e.id = appends + 1
    /\ w.total + 1 <= MaxBytes
    /\ \/ /\ Current.offset + 1 > MaxSize
          /\ StartCreate(Current.index + 1, [call |-> "append", entry |-> e])
          /\ NoFault
       \/ /\ Current.offset + 1 <= MaxSize
          /\ WriteEntry(w, e)
          /\ UNCHANGED <<dirVars, op>>
    /\ appends' = appends + 1
    /\ UNCHANGED <<comp, garbage, acked, bound, crashes, compactions>>

\* Mutant: the flag is cleared although only the promise was made.
WalSyncSkipped ==
    /\ Usable
    /\ w' = [w EXCEPT !.dirty = FALSE]
    /\ acked' = LastId(EntriesOf(w.segments))
    /\ UNCHANGED <<dirVars, file, op, comp, garbage, bound, walCounts>>

\* Sync: nothing to do unless the handle has appended since the last one.  What
\* the handle found when it was opened it does not vouch for.
WalSync ==
    /\ Usable
    /\ file' = IF w.dirty THEN SyncFile(Current.file) ELSE file
    /\ w' = [w EXCEPT !.dirty = FALSE]
    /\ acked' = IF w.wrote THEN LastId(EntriesOf(w.segments)) ELSE acked
    /\ UNCHANGED <<dirVars, op, comp, garbage, bound, walCounts>>

BindIdentity ==
    /\ Usable /\ ~w.identity
    /\ w' = [w EXCEPT !.identity = TRUE]
    /\ op' = [kind |-> "bind", step |-> "publish", next |-> w.segments]
    /\ UNCHANGED <<dirVars, file, comp, garbage, acked, bound, walCounts>>

-----------------------------------------------------------------------------
(* The compaction.                                                         *)

BeginRewrite(p) ==
    /\ Usable /\ comp = NoCompact /\ compactions < MaxCompactions
    /\ StartCreate(Current.index + 2, [call |-> "compact", plan |-> p])
    /\ compactions' = compactions + 1
    /\ UNCHANGED <<comp, garbage, acked, bound, appends, faults, crashes>>

\* visitCompactedEntries drops values and what the base covers.
Kept(e, p) == e.type # "proposal" /\ e.slot > p.base.slot

Rewrite(p, prefix) ==
    <<p.base>> \o p.keep \o SelectSeq(EntriesOf(prefix), LAMBDA e : Kept(e, p))

\* Abort: the target is removed, the prefix and the tail stay.
Abandon ==
    /\ comp' = NoCompact
    /\ SetDir(Without(segs, {comp.target}), mans)

\* Build: the prefix is written and synced under a temporary name and renamed.
\* It fails when it would not fit.
Build ==
    /\ Up /\ comp.stage = "begun"
    /\ LET data == Rewrite(comp.plan, comp.prefix)
       IN \/ /\ Len(data) <= MaxBytes
             /\ file' = Append(file, NewFile(data))
             /\ SetDir(Put(segs, comp.target, Len(file) + 1), mans)
             /\ comp' = [comp EXCEPT !.stage = "renamed"]
             /\ NoFault
          \/ /\ Len(data) > MaxBytes
             /\ Abandon
             /\ UNCHANGED file /\ NoFault
          \/ Abandon /\ UNCHANGED file /\ Fault
    /\ UNCHANGED <<w, op, garbage, acked, bound, otherCounts>>

SyncBuilt ==
    /\ Up /\ comp.stage = "renamed"
    /\ \/ /\ SyncDir(segs, mans)
          /\ comp' = [comp EXCEPT !.stage = "built"]
          /\ NoFault
       \/ Abandon /\ Fault
    /\ UNCHANGED <<file, w, op, garbage, acked, bound, otherCounts>>

TailOf(list) == SelectSeq(list, LAMBDA s : s.index >= comp.tail)

NextSegments ==
    <<[index |-> comp.target, file |-> segs[comp.target],
       offset |-> Len(file[segs[comp.target]].data)]>> \o TailOf(w.segments)

\* Commit up to the manifest: the current segment is synced and the size of
\* the new list checked.  A failure is followed by Abort.
Commit ==
    /\ Free /\ comp.stage = "built"
    /\ \/ /\ ~w.fatal /\ Bytes(NextSegments) <= MaxBytes
          /\ file' = SyncFile(Current.file)
          /\ w' = [w EXCEPT !.dirty = FALSE]
          /\ op' = [kind |-> "commit", step |-> "publish", next |-> NextSegments]
          /\ UNCHANGED <<dirVars, comp>>
          /\ NoFault
       \/ /\ w.fatal \/ Bytes(NextSegments) > MaxBytes
          /\ Abandon
          /\ UNCHANGED <<file, w, op>> /\ NoFault
       \/ Abandon /\ UNCHANGED <<file, w, op>> /\ Fault
    /\ UNCHANGED <<garbage, acked, bound, otherCounts>>

\* Commit after its locks are released: the old prefix is removed, as far as
\* that works, while new calls run.
RemoveOld ==
    /\ Up /\ garbage # {}
    /\ \/ SyncDir(Without(segs, garbage), mans) /\ NoFault
       \/ SetDir(Without(segs, garbage), mans) /\ Fault
       \/ SetDir(segs, mans) /\ Fault
    /\ garbage' = {}
    /\ UNCHANGED <<file, w, op, comp, acked, bound, otherCounts>>

-----------------------------------------------------------------------------
(* Crashes.                                                                *)

Stop ==
    /\ crashes < MaxCrashes /\ crashes' = crashes + 1
    /\ w' = Closed /\ op' = IdleOp /\ comp' = NoCompact /\ garbage' = {}
    /\ UNCHANGED <<acked, bound, appends, faults, compactions>>

\* The process dies: what it wrote is still seen, synced or not.
Kill ==
    /\ Up /\ Stop
    /\ file' = SyncedFiles({})
    /\ LeaveDir

\* The machine stops: what was not synced may be lost.
PowerLoss ==
    /\ Up \/ ~Settles
    /\ Stop
    /\ \E d \in CrashImages : SyncDir(d.segs, d.mans)
    /\ \E n \in 0..MaxSize, torn \in BOOLEAN :
          file' = [f \in DOMAIN file |-> Truncated(file[f], n, torn)]

-----------------------------------------------------------------------------
WalNext ==
    \/ \E defer \in BOOLEAN : Open(defer)
    \/ \E e \in Appends : WalAppend(e)
    \/ \E p \in Plans : BeginRewrite(p)
    \/ PublishCreated \/ Publish \/ SyncManifest \/ FinishCall
    \/ WalSync \/ BindIdentity \/ Close \/ FinalizeDeferredCleanup
    \/ Build \/ SyncBuilt \/ Commit \/ RemoveOld
    \/ Kill \/ PowerLoss

WalSpec == WalInit /\ [][WalNext]_walVars

-----------------------------------------------------------------------------
(* Properties.                                                             *)

\* The shape of the state: the handle's segments are numbered in order, what is
\* synced of a file is a part of it, and the counts keep their bounds.
WalTypeOK ==
    /\ \A i \in DOMAIN segs : segs[i] \in DOMAIN file
    /\ \A f \in DOMAIN file : file[f].synced \in 0..Len(file[f].data)
    /\ w.state \in {"down", "up"}
    /\ Up => /\ \A i \in DOMAIN w.segments : w.segments[i].file \in DOMAIN file
             /\ \A i, j \in DOMAIN w.segments :
                    i < j => w.segments[i].index < w.segments[j].index
             /\ w.total = Bytes(w.segments)
    /\ op.kind \in {"none", "create", "bind", "commit"}
    /\ comp.stage \in {"none", "begun", "renamed", "built", "switched", "uncertain"}
    /\ acked \in 0..MaxAppends

\* Wherever the process or the machine stops, the directory it leaves opens
\* again, the inspection that start-up does first accepts it too, and an
\* identity that BindIdentity has reported as bound is not forgotten.
OpenSucceeds ==
    /\ w = Closed => Loads /\ LoadsReadOnly
    /\ bound => IF Up THEN w.identity ELSE mans # <<>> /\ Latest.identity

\* The entries of the log as a reader finds them, and the compaction that may
\* still replace its prefix.
Readable == IF mans = <<>> \/ ~LoadsManifest THEN <<>> ELSE EntriesOf(Named)

WalLog ==
    CASE comp.stage = "uncertain" -> EntriesOf(comp.prefix \o TailOf(w.segments))
      [] Up /\ comp.stage # "uncertain" -> EntriesOf(w.segments)
      [] OTHER -> Readable

WalPlan ==
    IF comp.stage \in {"none", "switched"} THEN NoPlan
    ELSE [base |-> comp.plan.base, keep |-> comp.plan.keep,
          cut |-> Len(EntriesOf(comp.prefix))]

\* A log that was filled within its capacity fits when it is opened again, also
\* after a compaction, whose base and retained values come on top.
CapacityKept == w = Closed => Len(Readable) <= MaxBytes

DurableLog == INSTANCE DurableLog WITH log <- WalLog, acked <- acked, plan <- WalPlan

\* The segments and manifests implement the log their users reckon with: synced
\* entries survive every crash in their order, and a compaction takes effect as
\* a whole and keeps every entry above its base and behind its fence.
WalImplementsLog == DurableLog!LogSpec

\* Sync returns at once when the handle has nothing to flush, and a decision
\* found in the log when it was opened counts as durable: the entries of such
\* a handle are on disk.  It does not hold after a crash of the process alone:
\* openWAL syncs nothing (README, section 5).
CleanIsDurable ==
    Usable /\ ~w.dirty =>
        \A i \in DOMAIN w.segments :
            LET f == file[w.segments[i].file] IN f.synced = Len(f.data)

=============================================================================
