---------------------------- MODULE LocalReclaim ----------------------------
(***************************************************************************)
(* The bounded WAL of a Local (single voter) node and how it is reclaimed:  *)
(* pkg/quepaxa/local_cost.go, local_reclamation.go and the Local paths of   *)
(* core.go and compaction.go; pkg/node/local_checkpoint.go and node.go.     *)
(* Every operation is admitted against the bytes it may append plus a       *)
(* reserve for what must still be possible after it: recovering one slot,   *)
(* and a checkpoint.  A denied write asks for a checkpoint: a snapshot root *)
(* is published, a marker is prepared, a seal is decided, the WAL is        *)
(* rewritten above the root and the unreferenced roots are collected.  Core *)
(* runs one operation at a time (localExecutionOwner).                      *)
(*                                                                         *)
(* Encoded receipts and certificates have the sizes of their bounds.  An    *)
(* unsynced tail that a crash drops leaves what a crash before those        *)
(* appends would have left, so every append is a point where the process    *)
(* may die.  A failed or cancelled operation makes the node refuse work     *)
(* until it is reopened (FailLocalLifecycle): that is a crash too.          *)
(***************************************************************************)
EXTENDS Naturals, FiniteSets

CONSTANTS HeaderBytes,       \* qlog entry header
          ReceiptBytes,      \* receipt entry, header included
          CertificateBytes,  \* certificate and framing of a decision entry
          BaseBytes,         \* checkpoint base that a compaction writes
          SealLen,           \* length of an encoded seal
          ScheduleLen,       \* length of an encoded leader schedule
          ValueLimit,        \* MaxReplicatedValueBytes
          WalLimit,          \* MaxWALBytes
          Lengths,           \* lengths of the values written
          ScheduleSlots,     \* slots that decide a leader schedule
          Images,            \* captures of one state may differ byte by byte
          MaxReclaimSlots,   \* bound: slots
          MaxStops           \* bound: crashes and failed operations

EntryBytes(v) == HeaderBytes + v

\* base64Length and the JSON framing of a decision record.
DecisionBytes(v) == HeaderBytes + CertificateBytes + 4 * ((v + 2) \div 3)

\* runSlot makes at most three record attempts.
SlotReceiptBytes == 3 * ReceiptBytes
SlotBytes(v) == EntryBytes(v) + SlotReceiptBytes + DecisionBytes(v)
MaxSlotBytes == SlotBytes(ValueLimit)
ForegroundBytes(v) == SlotBytes(v) + MaxSlotBytes
CheckpointBytes == EntryBytes(ValueLimit) + 2 * MaxSlotBytes
MarkerBytes == EntryBytes(SealLen)

\* newLocalCostModel refuses a node ID whose schedule or seal does not fit.
IdentityFits == SealLen <= ValueLimit /\ ScheduleLen <= ValueLimit

\* Schedules are an epoch apart.  A base is far shorter than a value.
ASSUME ReclaimAssumption ==
  /\ {HeaderBytes, ReceiptBytes, CertificateBytes, BaseBytes, SealLen,
      ScheduleLen, ValueLimit, WalLimit, MaxReclaimSlots, MaxStops} \subseteq Nat
  /\ IdentityFits
  /\ Lengths \subseteq 1..ValueLimit
  /\ BaseBytes <= EntryBytes(ValueLimit)
  /\ ScheduleSlots \subseteq Nat
  /\ \A s \in ScheduleSlots : s + 1 \notin ScheduleSlots

VARIABLES used,      \* bytes of the WAL
          above,     \* of these, receipts and decisions after the last marker
          spent,     \* bytes appended since the last admitted write, not by it
          decidedTo, \* c.tip
          floor,     \* c.floor, with its root below
          floorRoot,
          open,      \* the slot after the tip: its proposal, if any
          markers,   \* prepared roots the WAL names
          seals,     \* decided seals the WAL names
          rootDirs,  \* complete roots in the checkpoint directory
          run,       \* what the process does
          refusals,  \* what was refused although it should not have been
          stops

reclaimVars == <<used, above, spent, decidedTo, floor, floorRoot, open, markers,
                 seals, rootDirs, run, refusals, stops>>

\* A root is named by the hash of its files, its slot and its prefix.
NoRoot == [index |-> 0, image |-> 0]
Root(i) == {[index |-> i, image |-> m] : m \in Images}

\* The recorder state of a slot nothing was proposed in.
Unused == [kind |-> "none", len |-> 0, root |-> NoRoot, stage |-> "none"]
Recorded == open.stage = "recorded"

\* The process at a step of a job, with a value of this length and a root.
Operation(pc, job, len, root) ==
  [pc |-> pc, job |-> job, len |-> len, root |-> root, tries |-> 0]
Down == Operation("down", "none", 0, NoRoot)
Accepting == Operation("idle", "none", 0, NoRoot)

ReclaimInit ==
  /\ used = 0 /\ above = 0 /\ spent = 0
  /\ decidedTo = 0 /\ floor = 0 /\ floorRoot = NoRoot
  /\ open = Unused /\ markers = {} /\ seals = {} /\ rootDirs = {}
  /\ run = Accepting /\ refusals = {} /\ stops = 0

At(pc) == run.pc = pc
LogState == <<decidedTo, floor, floorRoot, markers, seals>>

\* localRecoveryBytesOwned, localReclaimRecoveryPlanOwned: an undecided slot
\* below RecorderTip may cost a whole maximal slot.  Decisions are logged as
\* soon as they are accepted, so none is unlogged here.
PendingBytes == IF Recorded THEN MaxSlotBytes ELSE 0

\* localCapacityAdmissionOwned
Admitted(immediate, protected) == used + immediate + protected <= WalLimit

\* Mutant: an admission that forgets the slot that may have to be recovered.
WriteAdmittedNoRecovery(v) == Admitted(ForegroundBytes(v), CheckpointBytes)

\* The admissions of a write, of a recovery and of a checkpoint: a seal that
\* is decided costs nothing more.
WriteAdmitted(v) ==
  Admitted(ForegroundBytes(v), MaxSlotBytes + CheckpointBytes + PendingBytes)
RecoverAdmitted == Admitted(PendingBytes, CheckpointBytes)
SealDecided(root) == \E s \in seals : s.root = root
ReclaimAdmitted(root) ==
  Admitted(IF SealDecided(root) THEN 0 ELSE MarkerBytes + ForegroundBytes(SealLen),
           PendingBytes + CheckpointBytes)

\* LocalCheckpointRoots: the floor, and what markers, decided seals and the
\* recorder state of an undecided slot name.
LocalCheckpointRoots ==
  ({floorRoot} \cup markers \cup {s.root : s \in seals}
     \cup (IF Recorded THEN {open.root} ELSE {})) \ {NoRoot}

----------------------------------------------------------------------------
(* Appending                                                               *)

Halt == run' = Down /\ open' = IF Recorded THEN open ELSE Unused
Refused(what) == refusals' = refusals \cup {what}

\* WAL.Append of b bytes; ErrCapacity fails the operation.  Writes are paid
\* for at their admission, everything else is counted in `spent'.
Extend(b, then) ==
  IF used + b <= WalLimit
  THEN /\ used' = used + b
       /\ spent' = IF run.job = "write" THEN spent ELSE spent + b
       /\ UNCHANGED refusals /\ then
  ELSE /\ Refused("append") /\ Halt
       /\ UNCHANGED <<used, above, spent, decidedTo, markers, seals>>

----------------------------------------------------------------------------
(* Slots: proposeOwned, recoverThroughOwnedAdmitted, runSlot                *)

\* proposeOwned up to its admission; a denial changes nothing.
Propose(v) ==
  /\ At("idle") /\ decidedTo + 2 < MaxReclaimSlots
  /\ WriteAdmitted(v)
  /\ run' = Operation("slot", "write", v, NoRoot)
  /\ spent' = 0
  /\ UNCHANGED <<used, above, open, rootDirs, refusals, stops, LogState>>

Scheduled == decidedTo + 1 \in ScheduleSlots

\* reserveSlot and stageValueLocked: the value, unless the WAL already has it.
StageLocalValue ==
  /\ At("slot") /\ run.job \in {"write", "seal"} /\ open = Unused
  /\ LET len == IF Scheduled THEN ScheduleLen ELSE run.len
     IN  \E b \in {0, EntryBytes(len)} :
           Extend(b, /\ open' = [kind |-> IF Scheduled THEN "schedule" ELSE run.job,
                                 len |-> len, stage |-> "staged",
                                 root |-> IF Scheduled THEN NoRoot ELSE run.root]
                     /\ run' = [run EXCEPT !.tries = 0]
                     /\ UNCHANGED <<above, decidedTo, markers, seals>>)
  /\ UNCHANGED <<floor, floorRoot, rootDirs, stops>>

\* recordLocalOwned: every attempt appends a receipt; three are allowed.
RecordLocal ==
  /\ At("slot") /\ open # Unused /\ run.tries < 3
  /\ Extend(ReceiptBytes, /\ open' = [open EXCEPT !.stage = "recorded"]
                          /\ run' = [run EXCEPT !.tries = @ + 1]
                          /\ above' = above + ReceiptBytes
                          /\ UNCHANGED <<decidedTo, markers, seals>>)
  /\ UNCHANGED <<floor, floorRoot, rootDirs, stops>>

\* Who goes on after a decision: a write whose own value is decided returns,
\* a seal goes on to the compaction, a recovery to what it was for, and what
\* had to decide another slot first tries the next one.
AfterDecision ==
  CASE run.job = "write" /\ open.kind = "write" -> Accepting
    [] run.job = "seal" /\ open.kind = "seal" -> [run EXCEPT !.pc = "sealed"]
    [] run.job = "resume" -> Operation("slot", "seal", run.len, run.root)
    [] run.job = "recover" /\ run.root = NoRoot -> Accepting
    [] run.job = "recover" -> [run EXCEPT !.pc = "sealed"]
    [] OTHER -> Operation("slot", run.job, run.len, run.root)

\* acceptDecision and completeDecision, or acceptDecisionDurable: the decision
\* is appended and synced.
Decide ==
  /\ At("slot") /\ Recorded /\ run.tries > 0
  /\ LET b == DecisionBytes(open.len)
     IN  Extend(b, /\ decidedTo' = decidedTo + 1 /\ open' = Unused
                   /\ above' = above + b
                   /\ seals' = seals \cup
                        (IF open.kind = "seal"
                         THEN {[root |-> open.root, slot |-> decidedTo + 1]} ELSE {})
                   /\ run' = AfterDecision
                   /\ UNCHANGED markers)
  /\ UNCHANGED <<floor, floorRoot, rootDirs, stops>>

----------------------------------------------------------------------------
(* A checkpoint: reclaimLocalCheckpoint, ReclaimLocalCheckpoint...          *)

\* Mutant: the new root takes the place of the others.
WithRootAlone(root) == {root}

\* localCheckpointIdentity.Publish: a root appears when its directory is
\* renamed, complete; one that exists is validated and used again.
WithRoot(root) == rootDirs \cup {root}

\* reclaimLocalCheckpoint up to the publication.  Refusals before it (while
\* quiescing, for free space) change nothing.
PublishLocalRoot ==
  /\ At("idle") /\ decidedTo > floor /\ decidedTo + 2 < MaxReclaimSlots
  /\ \E root \in Root(decidedTo) :
       /\ rootDirs' = WithRoot(root)
       /\ run' = Operation("admit", "none", 0, root)
  /\ UNCHANGED <<used, above, spent, open, refusals, stops, LogState>>

\* prepareCheckpointOwnedWithAdmission appends the marker, unless this root is
\* prepared; another root of the same index is.  Then the seal is proposed,
\* after a recorded slot has been recovered ("resume"); one already decided is
\* not proposed again.
Prepared == run.root \in markers
Conflicting == ~ Prepared /\ \E m \in markers : m.index = run.root.index
SealJob ==
  IF ~ SealDecided(run.root)
  THEN Operation("slot", IF Recorded THEN "resume" ELSE "seal", SealLen, run.root)
  ELSE Operation(IF Recorded THEN "slot" ELSE "sealed", "recover", 0, run.root)

PrepareCheckpoint ==
  /\ At("admit") /\ ReclaimAdmitted(run.root)
  /\ \/ Conflicting /\ Halt
          /\ UNCHANGED <<used, above, spent, decidedTo, markers, seals, refusals>>
     \/ Prepared /\ run' = SealJob
          /\ UNCHANGED <<used, above, spent, open, decidedTo, markers, seals, refusals>>
     \/ ~ Prepared /\ ~ Conflicting
          /\ Extend(MarkerBytes, /\ above' = 0 /\ markers' = markers \cup {run.root}
                                 /\ run' = SealJob
                                 /\ UNCHANGED <<open, decidedTo, seals>>)
  /\ UNCHANGED <<floor, floorRoot, rootDirs, stops>>

\* A denial here fails the proposal's maintenance, or the start.
ReclaimDenied ==
  /\ At("admit") /\ ~ ReclaimAdmitted(run.root)
  /\ Halt
  /\ UNCHANGED <<used, above, spent, rootDirs, refusals, stops, LogState>>

\* OpenExact, the validator of a seal: a complete directory with this name.
RootValid(root) == root \in rootDirs

\* EstimateCompactedBytes: the base, and the entries above the root's index.
CompactedBytes == BaseBytes + above

\* compactThroughOwned, once the seal is durable and applied.
CompactThrough ==
  /\ At("sealed") /\ RootValid(run.root)
  /\ IF CompactedBytes > WalLimit
     THEN Refused("compact") /\ Halt /\ UNCHANGED <<used, above, spent, LogState>>
     ELSE /\ used' = CompactedBytes /\ spent' = above
          /\ floor' = run.root.index /\ floorRoot' = run.root
          /\ markers' = {m \in markers : m.index > run.root.index}
          /\ seals' = {s \in seals : s.slot > run.root.index}
          /\ run' = [run EXCEPT !.pc = "collect"]
          /\ UNCHANGED <<above, decidedTo, open, refusals>>
  /\ UNCHANGED <<rootDirs, stops>>

\* Collect: roots nothing refers to go, as far as the deletion gets; it does
\* not begin while a live root is absent.
Collect ==
  /\ At("collect")
  /\ \E kept \in SUBSET (rootDirs \ LocalCheckpointRoots) :
       rootDirs' = IF LocalCheckpointRoots \subseteq rootDirs
                   THEN LocalCheckpointRoots \cup kept ELSE rootDirs
  /\ run' = Accepting
  /\ UNCHANGED <<used, above, spent, open, refusals, stops, LogState>>

----------------------------------------------------------------------------
(* Crashes and restarts                                                    *)

Interrupt ==
  /\ run.pc # "down" /\ stops < MaxStops
  /\ stops' = stops + 1 /\ Halt
  /\ UNCHANGED <<used, above, spent, rootDirs, refusals, LogState>>

\* The latest prepared root is resumed only before the first compaction: a
\* WAL with a base is restored from it instead.
Resumable == IF floor = 0 THEN {m \in markers : \A n \in markers : n.index <= m.index}
             ELSE {}

\* validateLocalRoots
LocalRootsValid == \A root \in LocalCheckpointRoots : RootValid(root)

\* Open: validateLocalRoots, then resumePreparedLocalCheckpoint or
\* RecoverThrough(RecorderTip).
Reopen ==
  /\ At("down") /\ LocalRootsValid
  /\ \/ \E root \in Resumable : run' = Operation("admit", "none", 0, root)
     \/ /\ Resumable = {} /\ Recorded /\ RecoverAdmitted
        /\ run' = Operation("slot", "recover", 0, NoRoot)
     \/ Resumable = {} /\ ~ Recorded /\ run' = Accepting
  /\ UNCHANGED <<used, above, spent, open, rootDirs, refusals, stops, LogState>>

ReclaimNext ==
  \/ \E v \in Lengths : Propose(v)
  \/ StageLocalValue \/ RecordLocal \/ Decide
  \/ PublishLocalRoot \/ PrepareCheckpoint \/ ReclaimDenied \/ CompactThrough \/ Collect
  \/ Interrupt \/ Reopen

ReclaimSpec == ReclaimInit /\ [][ReclaimNext]_reclaimVars

----------------------------------------------------------------------------
(* Properties                                                              *)

ReclaimTypeOK ==
  /\ {used, above, spent, decidedTo, floor, stops} \subseteq Nat
  /\ open.kind \in {"none", "write", "schedule", "seal"} /\ open.len \in 0..ValueLimit
  /\ run.pc \in {"down", "idle", "slot", "admit", "sealed", "collect"}
  /\ run.job \in {"none", "write", "resume", "seal", "recover"} /\ run.tries \in 0..3

\* No append or rewrite of an operation that was admitted meets the WAL's
\* limit (ErrCapacity would fail the lifecycle half way): slotBytes bounds a
\* slot with three receipts, ForegroundBytes the schedule slot before it.
AdmittedWorkFits == refusals = {}

\* validateLocalRoots at any crash point finds every root that the WAL names:
\* a root is complete before its marker, and goes only after the rewrite that
\* forgets it.
WalRootsPresent == LocalCheckpointRoots \subseteq rootDirs

\* The reserve that writes leave is there when it is needed.  A running node
\* can take a checkpoint, so that a denied write can be retried; a node that
\* stopped in a slot can recover it.  Re-driven slots and abandoned
\* checkpoints use the reserve up: `spent' says how much is gone.
CheckpointPossible ==
  At("idle") /\ decidedTo > floor
    /\ spent + SlotBytes(ScheduleLen) + MarkerBytes + SlotBytes(SealLen) <= MaxSlotBytes
  => \A root \in Root(decidedTo) : ReclaimAdmitted(root)
RecoveryPossible ==
  At("down") /\ spent + SlotBytes(ScheduleLen) <= MaxSlotBytes => RecoverAdmitted
ReserveHolds ==
  /\ AdmittedWorkFits
  /\ WalLimit >= BaseBytes + 2 * MaxSlotBytes + CheckpointBytes =>
       CheckpointPossible /\ RecoveryPossible
=============================================================================
