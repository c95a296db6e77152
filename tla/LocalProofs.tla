----------------------------- MODULE LocalProofs -----------------------------
(***************************************************************************)
(* What a Local node keeps on its own disk.                                *)
(*                                                                         *)
(* The bounded WAL, for every size of the values, of the records and of    *)
(* the WAL, any number of slots, roots and stops: each root the WAL names  *)
(* is there at every crash point, no admitted operation runs into the      *)
(* limit, and the reserve that the writes leave suffices for a recovery    *)
(* and for a checkpoint.                                                   *)
(*                                                                         *)
(* The journaled replacement of a SQLite and graph pair, for any number of *)
(* crashes, failures and changes of the files: each original file is in    *)
(* place or in the backup until the new pair is validated and in place,    *)
(* only a whole new pair is opened, and a validated pair is given up only  *)
(* when all the originals are back.                                        *)
(***************************************************************************)
EXTENDS LocalReclaim, PairInstall, TLAPS

RootNames == [index : Nat, image : Images \cup {0}]

ReclaimTypes ==
    /\ used \in Nat /\ above \in Nat /\ spent \in Nat
    /\ decidedTo \in Nat /\ floor \in Nat /\ stops \in Nat
    /\ open \in [kind : {"none", "write", "schedule", "seal"}, len : 0..ValueLimit,
                 root : RootNames, stage : {"none", "staged", "recorded"}]
    /\ run \in [pc : {"down", "idle", "slot", "admit", "sealed", "collect"},
                job : {"none", "write", "resume", "seal", "recover"},
                len : 0..ValueLimit, root : RootNames, tries : 0..3]
    /\ markers \subseteq RootNames

\* Where the process may be with the slot after the tip.
Control ==
    /\ run.pc \in {"idle", "sealed", "collect"} => open = Unused
    /\ run.pc \in {"down", "admit"} => open = Unused \/ Recorded
    /\ open.kind = "none" => open = Unused
    /\ open.kind = "schedule" => Scheduled
    /\ run.pc = "admit" => run.tries = 0
    /\ run.pc = "slot" => run.job # "none"
    /\ run.job = "write" => run.pc = "slot" /\ open.kind # "seal"
    /\ run.pc = "slot" /\ run.job = "seal" => open.kind # "write" /\ run.len = SealLen
    /\ run.pc = "slot" /\ run.job \in {"resume", "recover"} => Recorded
    /\ run.job = "resume" => run.len = SealLen

Present == rootDirs \cup {NoRoot}

\* Every name of a root that can get into the WAL, or is in it, is that of a
\* directory.
RootsInv ==
    /\ floorRoot \in Present /\ open.root \in Present /\ run.root \in Present
    /\ \A m \in markers : m \in Present
    /\ \A s \in seals : s.root \in Present

\* The receipts still allowed, and what an open slot may still append.
Receipts(n) == IF n = 0 THEN 3 * ReceiptBytes ELSE IF n = 1 THEN 2 * ReceiptBytes
               ELSE IF n = 2 THEN ReceiptBytes ELSE 0
OpenCost == Receipts(run.tries) + DecisionBytes(open.len)

\* A write keeps two maximal slots and a checkpoint clear, less the schedule
\* that it may have to decide first.
Kept == 2 * MaxSlotBytes + CheckpointBytes
WriteFits ==
    run.pc = "slot" /\ run.job = "write" =>
      /\ spent = 0
      /\ open = Unused /\ Scheduled => used + SlotBytes(run.len) + Kept <= WalLimit
      /\ open = Unused =>
            used + SlotBytes(run.len) + Kept <= WalLimit + SlotBytes(ScheduleLen)
      /\ open.kind = "schedule" =>
            used + OpenCost + SlotBytes(run.len) + Kept <= WalLimit + SlotBytes(ScheduleLen)
      /\ open.kind = "write" =>
            used + OpenCost + Kept <= WalLimit + SlotBytes(ScheduleLen)

\* A seal pays for the slot it resumes, a schedule and itself.
SealKept == SlotBytes(SealLen) + CheckpointBytes
SealFits ==
    /\ run.pc = "slot" /\ run.job = "resume" =>
          used + OpenCost + MaxSlotBytes + SealKept <= WalLimit
    /\ run.pc = "slot" /\ run.job = "seal" =>
          /\ open = Unused /\ Scheduled => used + MaxSlotBytes + SealKept <= WalLimit
          /\ open = Unused => used + SealKept <= WalLimit
          /\ open.kind = "schedule" => used + OpenCost + SealKept <= WalLimit
          /\ open.kind = "seal" => used + OpenCost + CheckpointBytes <= WalLimit

RecoverFits ==
    /\ run.pc = "slot" /\ run.job = "recover" =>
          used + OpenCost + CheckpointBytes <= WalLimit + MarkerBytes
    /\ run.pc = "sealed" => used + CheckpointBytes <= WalLimit + MarkerBytes

\* What the last write left, less what was spent since.
LargeEnough == WalLimit >= BaseBytes + 2 * MaxSlotBytes + CheckpointBytes
Reserve ==
    LargeEnough => used + Kept <= WalLimit + spent + SlotBytes(ScheduleLen)

BudgetInv ==
    /\ above <= used
    /\ WriteFits /\ SealFits /\ RecoverFits /\ Reserve
    /\ refusals = {}

ReclaimInv == ReclaimTypes /\ Control /\ RootsInv /\ BudgetInv

----------------------------------------------------------------------------
(* The sizes                                                               *)

\* The sizes are natural numbers, and the seal and the schedule are values.
LEMMA ConstantTypes ==
  /\ HeaderBytes \in Nat /\ ReceiptBytes \in Nat /\ CertificateBytes \in Nat
  /\ BaseBytes \in Nat /\ SealLen \in 0..ValueLimit /\ ScheduleLen \in 0..ValueLimit
  /\ ValueLimit \in Nat /\ WalLimit \in Nat
  /\ Lengths \subseteq 0..ValueLimit
  /\ BaseBytes <= EntryBytes(ValueLimit)
BY ReclaimAssumption, SMT DEF IdentityFits, EntryBytes

\* base64Length grows with the length.
LEMMA DecisionGrows ==
  ASSUME NEW v \in 0..ValueLimit
  PROVE  /\ DecisionBytes(v) \in Nat /\ DecisionBytes(ValueLimit) \in Nat
         /\ DecisionBytes(v) <= DecisionBytes(ValueLimit)
<1>1. ValueLimit \in Nat /\ HeaderBytes \in Nat /\ CertificateBytes \in Nat
  BY ConstantTypes
<1>2. /\ (v + 2) \div 3 \in Nat /\ (ValueLimit + 2) \div 3 \in Nat
      /\ (v + 2) \div 3 <= (ValueLimit + 2) \div 3
  BY <1>1, SMT
<1>3. QED BY <1>1, <1>2, SMT DEF DecisionBytes

\* slotBytes is the sum of what a slot appends, and no slot costs more than
\* one of the longest value.
LEMMA SlotCost ==
  ASSUME NEW v \in 0..ValueLimit
  PROVE  /\ EntryBytes(v) \in Nat /\ DecisionBytes(v) \in Nat
         /\ SlotBytes(v) \in Nat /\ MaxSlotBytes \in Nat
         /\ SlotBytes(v) = EntryBytes(v) + Receipts(0) + DecisionBytes(v)
         /\ SlotBytes(v) <= MaxSlotBytes
         /\ Receipts(0) + DecisionBytes(v) <= SlotBytes(v)
BY ConstantTypes, DecisionGrows, SMT
   DEF SlotBytes, MaxSlotBytes, EntryBytes, SlotReceiptBytes, Receipts

\* A checkpoint reserves more than a base, a marker and two slots.
LEMMA CheckpointCost ==
  /\ CheckpointBytes \in Nat /\ MarkerBytes \in Nat /\ MaxSlotBytes \in Nat
  /\ BaseBytes + 2 * MaxSlotBytes <= CheckpointBytes
  /\ MarkerBytes <= MaxSlotBytes
  /\ MarkerBytes + 2 * MaxSlotBytes <= CheckpointBytes
<1>1. ValueLimit \in 0..ValueLimit /\ SealLen \in 0..ValueLimit BY ConstantTypes, SMT
<1>2. /\ SlotBytes(SealLen) <= MaxSlotBytes /\ EntryBytes(SealLen) <= SlotBytes(SealLen)
      /\ SlotBytes(SealLen) \in Nat
  BY <1>1, SlotCost, ConstantTypes, SMT DEF Receipts
<1>3. /\ EntryBytes(SealLen) \in Nat /\ EntryBytes(ValueLimit) \in Nat
      /\ EntryBytes(SealLen) <= EntryBytes(ValueLimit) /\ MaxSlotBytes \in Nat
  BY <1>1, SlotCost, ConstantTypes, SMT DEF EntryBytes
<1>4. QED BY <1>2, <1>3, ConstantTypes, SMT DEF CheckpointBytes, MarkerBytes

\* A record attempt uses one of the three receipts up.
LEMMA ReceiptSpent ==
  ASSUME NEW n \in 0..3
  PROVE  /\ Receipts(n) \in Nat
         /\ n < 3 => Receipts(n) = ReceiptBytes + Receipts(n + 1)
BY ConstantTypes, SMT DEF Receipts

----------------------------------------------------------------------------
(* The shape of the state                                                  *)

USE DEF At

\* Each step keeps the types.
LEMMA ReclaimTypesStep ==
  ASSUME ReclaimTypes, ReclaimNext
  PROVE  ReclaimTypes'
<1> USE DEF ReclaimTypes, LogState
<1>0. /\ NoRoot \in RootNames /\ 0 \in 0..ValueLimit /\ 0 \in 0..3
      /\ SealLen \in 0..ValueLimit /\ ScheduleLen \in 0..ValueLimit
      /\ Lengths \subseteq 0..ValueLimit
      /\ \A n \in Nat : Root(n) \subseteq RootNames
  BY ConstantTypes, SMT DEF NoRoot, RootNames, Root
<1>b. Halt => /\ run' = Down
              /\ open' \in [kind : {"none", "write", "schedule", "seal"},
                            len : 0..ValueLimit, root : RootNames,
                            stage : {"none", "staged", "recorded"}]
  BY <1>0, SMT DEF Halt, Unused
<1>c. ReceiptBytes \in Nat /\ BaseBytes \in Nat /\ MarkerBytes \in Nat
      /\ DecisionBytes(open.len) \in Nat /\ EntryBytes(ScheduleLen) \in Nat
      /\ EntryBytes(run.len) \in Nat
  BY <1>0, ConstantTypes, CheckpointCost, SlotCost, SMT
<1> USE DEF Operation, Down, Accepting
<1>1. ASSUME NEW v \in Lengths, Propose(v) PROVE ReclaimTypes'
  BY <1>1, <1>0, SMT DEF Propose
<1>2. CASE StageLocalValue
  BY <1>2, <1>0, <1>b, <1>c, SMT DEF StageLocalValue, Extend
<1>3. CASE RecordLocal
  BY <1>3, <1>0, <1>b, <1>c, SMT DEF RecordLocal, Extend
<1>4. CASE Decide
  BY <1>4, <1>0, <1>b, <1>c, SMT DEF Decide, Extend, AfterDecision, Unused
<1>5. CASE PublishLocalRoot
  BY <1>5, <1>0, SMT DEF PublishLocalRoot
<1>6. CASE PrepareCheckpoint
  BY <1>6, <1>0, <1>b, <1>c, SMT DEF PrepareCheckpoint, Extend, SealJob
<1>7. CASE ReclaimDenied
  BY <1>7, <1>b, <1>0, SMT DEF ReclaimDenied
<1>8. CASE CompactThrough
  BY <1>8, <1>b, <1>c, <1>0, SMT DEF CompactThrough, CompactedBytes, RootNames
<1>9. CASE Collect
  BY <1>9, <1>0, SMT DEF Collect
<1>10. CASE Interrupt
  BY <1>10, <1>b, <1>0, SMT DEF Interrupt
<1>11. CASE Reopen
  BY <1>11, <1>0, SMT DEF Reopen, Resumable
<1>12. QED
  BY <1>1, <1>2, <1>3, <1>4, <1>5, <1>6, <1>7, <1>8, <1>9, <1>10, <1>11 DEF ReclaimNext
\* Each step keeps the process and the open slot together.
LEMMA ControlStep ==
  ASSUME ReclaimTypes, Control, ReclaimNext
  PROVE  Control'
<1> USE DEF ReclaimTypes, Control, LogState, Operation, Down, Accepting, Unused, Recorded, Scheduled,
            Halt
<1>1. ASSUME NEW v \in Lengths, Propose(v) PROVE Control'
  BY <1>1, SMT DEF Propose
<1>2. CASE StageLocalValue
  BY <1>2, SMT DEF StageLocalValue, Extend
<1>3. CASE RecordLocal
  BY <1>3, SMT DEF RecordLocal, Extend
<1>4. CASE Decide
  BY <1>4, SMT DEF Decide, Extend, AfterDecision
<1>5. CASE PublishLocalRoot
  BY <1>5, SMT DEF PublishLocalRoot
<1>6. CASE PrepareCheckpoint
  BY <1>6, SMT DEF PrepareCheckpoint, Extend, SealJob
<1>7. CASE ReclaimDenied
  BY <1>7, SMT DEF ReclaimDenied
<1>8. CASE CompactThrough
  BY <1>8, SMT DEF CompactThrough
<1>9. CASE Collect
  BY <1>9, SMT DEF Collect
<1>10. CASE Interrupt
  BY <1>10, SMT DEF Interrupt
<1>11. CASE Reopen
  BY <1>11, SMT DEF Reopen, Resumable
<1>12. QED
  BY <1>1, <1>2, <1>3, <1>4, <1>5, <1>6, <1>7, <1>8, <1>9, <1>10, <1>11 DEF ReclaimNext

\* A name enters the WAL after its directory, and leaves it before.
LEMMA RootsStep ==
  ASSUME ReclaimTypes, Control, RootsInv, ReclaimNext
  PROVE  RootsInv'
<1> USE DEF ReclaimTypes, Control, RootsInv, Present, LogState, Operation, Down, Accepting, Unused,
            Recorded, Halt
<1>1. ASSUME NEW v \in Lengths, Propose(v) PROVE RootsInv'
  BY <1>1, SMT DEF Propose
<1>2. CASE StageLocalValue
  BY <1>2, SMT DEF StageLocalValue, Extend
<1>3. CASE RecordLocal
  BY <1>3, SMT DEF RecordLocal, Extend
<1>4. CASE Decide
  BY <1>4, SMT DEF Decide, Extend, AfterDecision
<1>5. CASE PublishLocalRoot
  BY <1>5, SMT DEF PublishLocalRoot, WithRoot
<1>6. CASE PrepareCheckpoint
  BY <1>6, SMT DEF PrepareCheckpoint, Extend, SealJob
<1>7. CASE ReclaimDenied
  BY <1>7, SMT DEF ReclaimDenied
<1>8. CASE CompactThrough
  BY <1>8, SMT DEF CompactThrough, RootValid
<1>9. CASE Collect
  BY <1>9, SMT DEF Collect, LocalCheckpointRoots
<1>10. CASE Interrupt
  BY <1>10, SMT DEF Interrupt
<1>11. CASE Reopen
  BY <1>11, SMT DEF Reopen, Resumable
<1>12. QED
  BY <1>1, <1>2, <1>3, <1>4, <1>5, <1>6, <1>7, <1>8, <1>9, <1>10, <1>11 DEF ReclaimNext

----------------------------------------------------------------------------
(* The budget                                                              *)

\* What the size lemmas say of the sizes that matter in a state.
LEMMA Sizes ==
  ASSUME ReclaimTypes
  PROVE  /\ OpenCost \in Nat
         /\ DecisionBytes(open.len) \in Nat /\ DecisionBytes(open.len) <= OpenCost
         /\ run.tries = 0 => OpenCost <= MaxSlotBytes
         /\ run.tries < 3 =>
               OpenCost = ReceiptBytes + Receipts(run.tries + 1) + DecisionBytes(open.len)
         /\ \A v \in {run.len, open.len, SealLen, ScheduleLen} :
               /\ EntryBytes(v) \in Nat /\ DecisionBytes(v) \in Nat /\ SlotBytes(v) \in Nat
               /\ SlotBytes(v) = EntryBytes(v) + Receipts(0) + DecisionBytes(v)
               /\ SlotBytes(v) <= MaxSlotBytes
         /\ Receipts(0) \in Nat
         /\ MaxSlotBytes \in Nat /\ CheckpointBytes \in Nat /\ MarkerBytes \in Nat
         /\ ReceiptBytes \in Nat /\ BaseBytes \in Nat /\ WalLimit \in Nat
         /\ Kept \in Nat /\ SealKept \in Nat
         /\ Kept = 2 * MaxSlotBytes + CheckpointBytes
         /\ SealKept = SlotBytes(SealLen) + CheckpointBytes
<1>1. /\ run.len \in 0..ValueLimit /\ open.len \in 0..ValueLimit
      /\ SealLen \in 0..ValueLimit /\ ScheduleLen \in 0..ValueLimit
      /\ run.tries \in 0..3 /\ 0 \in 0..3
  BY ConstantTypes, SMT DEF ReclaimTypes
<1>2. \A v \in {run.len, open.len, SealLen, ScheduleLen} :
         /\ EntryBytes(v) \in Nat /\ DecisionBytes(v) \in Nat /\ SlotBytes(v) \in Nat
         /\ SlotBytes(v) = EntryBytes(v) + Receipts(0) + DecisionBytes(v)
         /\ SlotBytes(v) <= MaxSlotBytes
  BY <1>1, SlotCost
<1>3. /\ Receipts(run.tries) \in Nat /\ Receipts(0) \in Nat
      /\ run.tries < 3 => Receipts(run.tries) = ReceiptBytes + Receipts(run.tries + 1)
  BY <1>1, ReceiptSpent
<1>4. /\ MaxSlotBytes \in Nat /\ CheckpointBytes \in Nat /\ MarkerBytes \in Nat
      /\ ReceiptBytes \in Nat /\ BaseBytes \in Nat /\ WalLimit \in Nat
  BY ConstantTypes, CheckpointCost
<1>5. /\ OpenCost \in Nat
      /\ DecisionBytes(open.len) \in Nat /\ DecisionBytes(open.len) <= OpenCost
      /\ run.tries = 0 => OpenCost <= MaxSlotBytes
  BY <1>1, <1>2, <1>3, <1>4, SMT DEF OpenCost
<1>6. run.tries < 3 =>
        OpenCost = ReceiptBytes + Receipts(run.tries + 1) + DecisionBytes(open.len)
  <2>1. SUFFICES ASSUME run.tries < 3
                 PROVE  OpenCost = ReceiptBytes + Receipts(run.tries + 1) + DecisionBytes(open.len)
    OBVIOUS
  <2>2. Receipts(run.tries) = ReceiptBytes + Receipts(run.tries + 1)  BY <1>3, <2>1
  <2>3. QED BY <2>2 DEF OpenCost
<1>7. /\ Kept \in Nat /\ SealKept \in Nat
      /\ Kept = 2 * MaxSlotBytes + CheckpointBytes
      /\ SealKept = SlotBytes(SealLen) + CheckpointBytes
  BY <1>2, <1>4, SMT DEF Kept, SealKept
<1>8. QED BY <1>2, <1>3, <1>4, <1>5, <1>6, <1>7

\* A stop leaves the budget alone.
LEMMA HaltBudget ==
  ASSUME ReclaimTypes, BudgetInv, Halt, UNCHANGED <<used, above, spent, refusals>>
  PROVE  BudgetInv'
BY SMT DEF Halt, Down, Operation, BudgetInv, WriteFits, SealFits, RecoverFits, Reserve,
           LargeEnough, Kept

\* Admission of a write: an open slot would have been recovered before.
LEMMA ProposeBudget ==
  ASSUME ReclaimTypes, Control, BudgetInv, NEW v \in Lengths, Propose(v)
  PROVE  BudgetInv'
<1>1. /\ open = Unused /\ open' = open /\ used' = used /\ above' = above
      /\ refusals' = refusals /\ decidedTo' = decidedTo /\ spent' = 0
      /\ run' = Operation("slot", "write", v, NoRoot)
  BY SMT DEF Propose, Control, LogState
<1>2. used + ForegroundBytes(v) + (MaxSlotBytes + CheckpointBytes + PendingBytes) <= WalLimit
  BY DEF Propose, WriteAdmitted, Admitted
<1>3. v \in 0..ValueLimit /\ ScheduleLen \in 0..ValueLimit  BY ConstantTypes, SMT
<1>4. /\ SlotBytes(v) \in Nat /\ SlotBytes(ScheduleLen) \in Nat /\ MaxSlotBytes \in Nat
      /\ CheckpointBytes \in Nat /\ WalLimit \in Nat /\ used \in Nat
  BY <1>3, SlotCost, CheckpointCost, ConstantTypes DEF ReclaimTypes
<1>5. used + SlotBytes(v) + Kept <= WalLimit
  BY <1>1, <1>2, <1>4, SMT DEF ForegroundBytes, PendingBytes, Kept, Recorded, Unused
<1>6. /\ run'.pc = "slot" /\ run'.job = "write" /\ run'.len = v
      /\ open'.kind = "none"
  BY <1>1, SMT DEF Operation, Unused
<1>7. WriteFits'
  BY <1>1, <1>4, <1>5, <1>6, SMT DEF WriteFits, Kept, Scheduled
<1>8. QED
  BY <1>1, <1>4, <1>5, <1>6, <1>7, SMT
  DEF BudgetInv, SealFits, RecoverFits, Reserve, Kept

\* The value is part of the slot's price.
LEMMA StageBudget ==
  ASSUME ReclaimTypes, Control, BudgetInv, StageLocalValue
  PROVE  BudgetInv'
<1> DEFINE len  == IF Scheduled THEN ScheduleLen ELSE run.len
           opened == [kind |-> IF Scheduled THEN "schedule" ELSE run.job,
                      len |-> len, stage |-> "staged",
                      root |-> IF Scheduled THEN NoRoot ELSE run.root]
<1>1. /\ run.pc = "slot" /\ run.job \in {"write", "seal"} /\ open = Unused
  BY DEF StageLocalValue
<1>2. PICK b \in {0, EntryBytes(len)} :
        Extend(b, /\ open' = opened
                  /\ run' = [run EXCEPT !.tries = 0]
                  /\ UNCHANGED <<above, decidedTo, markers, seals>>)
  BY DEF StageLocalValue
<1>3. len \in {run.len, SealLen, ScheduleLen}  OBVIOUS
<1>4. /\ EntryBytes(len) \in Nat /\ DecisionBytes(len) \in Nat /\ SlotBytes(len) \in Nat
      /\ SlotBytes(len) = EntryBytes(len) + Receipts(0) + DecisionBytes(len)
      /\ SlotBytes(len) <= MaxSlotBytes
      /\ SlotBytes(run.len) \in Nat /\ SlotBytes(ScheduleLen) \in Nat
      /\ Receipts(0) \in Nat
      /\ MaxSlotBytes \in Nat /\ CheckpointBytes \in Nat /\ WalLimit \in Nat
      /\ Kept \in Nat /\ SealKept \in Nat
      /\ Kept = 2 * MaxSlotBytes + CheckpointBytes
      /\ SealKept = SlotBytes(SealLen) + CheckpointBytes
      /\ SlotBytes(SealLen) \in Nat
      /\ SlotBytes(ScheduleLen) <= MaxSlotBytes
      /\ used \in Nat /\ spent \in Nat /\ above \in Nat
  BY <1>3, Sizes, SMT DEF ReclaimTypes
<1>5. b \in Nat /\ b <= EntryBytes(len)  BY <1>2, <1>4, SMT
<1>6. run.job = "seal" => run.len = SealLen  BY <1>1, SMT DEF Control
<1>7. used + b <= WalLimit
  BY <1>1, <1>4, <1>5, <1>6, SMT DEF BudgetInv, WriteFits, SealFits
<1>8. /\ used' = used + b /\ refusals' = refusals /\ above' = above /\ open' = opened
      /\ run' = [run EXCEPT !.tries = 0] /\ decidedTo' = decidedTo
      /\ spent' = IF run.job = "write" THEN spent ELSE spent + b
  BY <1>2, <1>7 DEF Extend
<1>9. /\ run'.pc = "slot" /\ run'.job = run.job /\ run'.len = run.len /\ run'.tries = 0
      /\ open'.kind = IF Scheduled THEN "schedule" ELSE run.job
      /\ open'.len = len /\ open' # Unused
  BY <1>1, <1>8, SMT DEF ReclaimTypes, Unused
<1>10. OpenCost' = Receipts(0) + DecisionBytes(len)
  BY <1>9 DEF OpenCost
<1>11. used' + OpenCost' + SlotBytes(len) = used + b + Receipts(0) + DecisionBytes(len) + SlotBytes(len)
       /\ used' + OpenCost' <= used + SlotBytes(len)
  BY <1>4, <1>5, <1>8, <1>10, SMT
<1>12. WriteFits'
  BY <1>1, <1>4, <1>8, <1>9, <1>10, <1>11, SMT
  DEF BudgetInv, WriteFits, Kept
<1>13. SealFits'
  BY <1>1, <1>4, <1>6, <1>8, <1>9, <1>10, <1>11, SMT
  DEF BudgetInv, SealFits, SealKept
<1>14. Reserve'
  <2>1. CASE run.job = "seal"
    BY <2>1, <1>4, <1>5, <1>8, SMT DEF BudgetInv, Reserve, LargeEnough
  <2>2. CASE run.job = "write"
    BY <2>2, <1>1, <1>4, <1>5, <1>8, SMT DEF BudgetInv, WriteFits, Reserve, LargeEnough
  <2>3. QED BY <1>1, <2>1, <2>2
<1>15. above' <= used' /\ refusals' = {} /\ RecoverFits'
  BY <1>1, <1>4, <1>5, <1>8, <1>9, SMT DEF BudgetInv, RecoverFits
<1>16. QED BY <1>12, <1>13, <1>14, <1>15 DEF BudgetInv

\* A receipt is one of the three that the slot has paid for.
LEMMA RecordBudget ==
  ASSUME ReclaimTypes, Control, BudgetInv, RecordLocal
  PROVE  BudgetInv'
<1> DEFINE rest == Receipts(run.tries + 1) + DecisionBytes(open.len)
<1>1. run.pc = "slot" /\ run.tries < 3 /\ open # Unused /\ open.kind # "none"
  BY DEF RecordLocal, Control
<1>2. Extend(ReceiptBytes, /\ open' = [open EXCEPT !.stage = "recorded"]
                           /\ run' = [run EXCEPT !.tries = @ + 1]
                           /\ above' = above + ReceiptBytes
                           /\ UNCHANGED <<decidedTo, markers, seals>>)
  BY DEF RecordLocal
<1>3. run.tries + 1 \in 0..3  BY <1>1, SMT DEF ReclaimTypes
<1>4. /\ OpenCost = ReceiptBytes + rest /\ rest \in Nat /\ ReceiptBytes \in Nat
      /\ OpenCost \in Nat
      /\ SlotBytes(run.len) \in Nat /\ SlotBytes(ScheduleLen) \in Nat
      /\ SlotBytes(ScheduleLen) <= MaxSlotBytes
      /\ MaxSlotBytes \in Nat /\ CheckpointBytes \in Nat /\ WalLimit \in Nat
      /\ MarkerBytes \in Nat /\ MarkerBytes <= CheckpointBytes
      /\ Kept \in Nat /\ SealKept \in Nat
      /\ Kept = 2 * MaxSlotBytes + CheckpointBytes
      /\ used \in Nat /\ spent \in Nat /\ above \in Nat
  BY <1>1, <1>3, Sizes, ReceiptSpent, CheckpointCost, SMT DEF ReclaimTypes
<1>5. run.job # "none" /\ run.job \in {"none", "write", "resume", "seal", "recover"}
      /\ open.kind \in {"none", "write", "schedule", "seal"}
      /\ (run.job = "write" => open.kind # "seal")
      /\ (run.job = "seal" => open.kind # "write")
  BY <1>1, SMT DEF Control, ReclaimTypes
<1>6. used + OpenCost <= WalLimit
  BY <1>1, <1>4, <1>5, SMT DEF BudgetInv, WriteFits, SealFits, RecoverFits
<1>7. /\ used' = used + ReceiptBytes /\ above' = above + ReceiptBytes
      /\ refusals' = refusals /\ decidedTo' = decidedTo
      /\ open' = [open EXCEPT !.stage = "recorded"]
      /\ run' = [run EXCEPT !.tries = @ + 1]
      /\ spent' = IF run.job = "write" THEN spent ELSE spent + ReceiptBytes
  <2>1. used + ReceiptBytes <= WalLimit BY <1>4, <1>6, SMT
  <2>2. QED BY <1>2, <2>1 DEF Extend
<1>8. /\ run'.pc = "slot" /\ run'.job = run.job /\ run'.len = run.len
      /\ run'.tries = run.tries + 1
      /\ open'.kind = open.kind /\ open'.len = open.len /\ open' # Unused
  BY <1>1, <1>7, SMT DEF ReclaimTypes, Unused
<1>9. OpenCost' = rest  BY <1>8 DEF OpenCost
<1>10. used' + OpenCost' = used + OpenCost /\ used' \in Nat
  BY <1>4, <1>7, <1>9, SMT
<1>11. WriteFits'
  BY <1>1, <1>4, <1>7, <1>8, <1>9, <1>10, SMT DEF BudgetInv, WriteFits, Kept
<1>12. SealFits'
  BY <1>1, <1>4, <1>7, <1>8, <1>9, <1>10, SMT DEF BudgetInv, SealFits, SealKept
<1>13. RecoverFits'
  BY <1>1, <1>4, <1>7, <1>8, <1>9, <1>10, SMT DEF BudgetInv, RecoverFits
<1>14. Reserve'
  <2>1. CASE run.job # "write"
    BY <2>1, <1>4, <1>7, SMT DEF BudgetInv, Reserve, LargeEnough
  <2>2. CASE run.job = "write"
    BY <2>2, <1>1, <1>4, <1>5, <1>7, SMT DEF BudgetInv, WriteFits, Reserve, LargeEnough
  <2>3. QED BY <2>1, <2>2
<1>15. above' <= used' /\ refusals' = {}
  BY <1>4, <1>7, SMT DEF BudgetInv
<1>16. QED BY <1>11, <1>12, <1>13, <1>14, <1>15 DEF BudgetInv

\* After a decision the job goes on with what it has left, or is done and
\* leaves its reserve.
LEMMA DecideBudget ==
  ASSUME ReclaimTypes, Control, BudgetInv, Decide
  PROVE  BudgetInv'
<1> DEFINE b == DecisionBytes(open.len)
<1>1. run.pc = "slot" /\ Recorded /\ open.kind # "none"
  BY DEF Decide, Control, Recorded, Unused
<1>2. Extend(b, /\ decidedTo' = decidedTo + 1 /\ open' = Unused
                /\ above' = above + b
                /\ seals' = seals \cup
                     (IF open.kind = "seal"
                      THEN {[root |-> open.root, slot |-> decidedTo + 1]} ELSE {})
                /\ run' = AfterDecision
                /\ UNCHANGED markers)
  BY DEF Decide
<1>3. /\ b \in Nat /\ b <= OpenCost /\ OpenCost \in Nat
      /\ SlotBytes(run.len) \in Nat /\ SlotBytes(ScheduleLen) \in Nat
      /\ SlotBytes(ScheduleLen) <= MaxSlotBytes
      /\ SlotBytes(SealLen) \in Nat
      /\ MaxSlotBytes \in Nat /\ CheckpointBytes \in Nat /\ WalLimit \in Nat
      /\ MarkerBytes \in Nat /\ MarkerBytes <= CheckpointBytes
      /\ Kept \in Nat /\ SealKept \in Nat
      /\ Kept = 2 * MaxSlotBytes + CheckpointBytes
      /\ SealKept = SlotBytes(SealLen) + CheckpointBytes
      /\ used \in Nat /\ spent \in Nat /\ above \in Nat /\ decidedTo \in Nat
  BY Sizes, CheckpointCost, SMT DEF ReclaimTypes
<1>4. /\ run.job \in {"write", "resume", "seal", "recover"}
      /\ open.kind \in {"write", "schedule", "seal"}
      /\ (run.job = "write" => open.kind # "seal")
      /\ (run.job = "seal" => open.kind # "write")
      /\ (run.job \in {"seal", "resume"} => run.len = SealLen)
      /\ (open.kind = "schedule" => Scheduled)
  BY <1>1, SMT DEF Control, ReclaimTypes
<1>5. used + OpenCost <= WalLimit
  BY <1>1, <1>3, <1>4, SMT DEF BudgetInv, WriteFits, SealFits, RecoverFits
<1>6. /\ used' = used + b /\ above' = above + b /\ refusals' = refusals
      /\ decidedTo' = decidedTo + 1 /\ open' = Unused /\ run' = AfterDecision
      /\ spent' = IF run.job = "write" THEN spent ELSE spent + b
  <2>1. used + b <= WalLimit BY <1>3, <1>5, SMT
  <2>2. QED BY <1>2, <2>1 DEF Extend
<1>7. above' <= used' /\ refusals' = {} /\ open'.kind = "none" /\ used' \in Nat
  BY <1>3, <1>6, SMT DEF BudgetInv, Unused
<1>8. open.kind = "schedule" => ~ Scheduled'
  BY <1>3, <1>4, <1>6, ReclaimAssumption, SMT DEF Scheduled
<1>9. Reserve'
  <2>1. CASE run.job # "write"
    BY <2>1, <1>3, <1>6, SMT DEF BudgetInv, Reserve, LargeEnough
  <2>2. CASE run.job = "write"
    BY <2>2, <1>1, <1>3, <1>4, <1>6, SMT DEF BudgetInv, WriteFits, Reserve, LargeEnough
  <2>3. QED BY <2>1, <2>2
<1>10. WriteFits' /\ SealFits' /\ RecoverFits'
  <2>1. CASE run.job = "write" /\ open.kind = "write"
    <3>1. run'.pc = "idle"
      BY <2>1, <1>6, SMT DEF AfterDecision, Accepting, Operation
    <3>2. QED BY <3>1, SMT DEF WriteFits, SealFits, RecoverFits
  <2>2. CASE run.job = "write" /\ open.kind = "schedule"
    <3>1. run'.pc = "slot" /\ run'.job = "write" /\ run'.len = run.len
      BY <2>2, <1>6, SMT DEF AfterDecision, Operation
    <3>2. SealFits' /\ RecoverFits'  BY <3>1, SMT DEF SealFits, RecoverFits
    <3>3. WriteFits'
      BY <2>2, <3>1, <1>1, <1>3, <1>6, <1>7, <1>8, SMT DEF BudgetInv, WriteFits, Kept
    <3>4. QED BY <3>2, <3>3
  <2>3. CASE run.job = "seal" /\ open.kind = "seal"
    <3>1. run'.pc = "sealed" /\ run'.job = "seal"
      BY <2>3, <1>6, SMT DEF AfterDecision, ReclaimTypes
    <3>2. used' + CheckpointBytes <= WalLimit
      BY <2>3, <1>1, <1>3, <1>6, SMT DEF BudgetInv, SealFits
    <3>3. QED BY <3>1, <3>2, <1>3, <1>7, SMT DEF WriteFits, SealFits, RecoverFits
  <2>4. CASE run.job = "seal" /\ open.kind = "schedule"
    <3>1. run'.pc = "slot" /\ run'.job = "seal" /\ run'.len = run.len
      BY <2>4, <1>6, SMT DEF AfterDecision, Operation
    <3>2. WriteFits' /\ RecoverFits'  BY <3>1, SMT DEF WriteFits, RecoverFits
    <3>3. SealFits'
      BY <2>4, <3>1, <1>1, <1>3, <1>6, <1>7, <1>8, SMT DEF BudgetInv, SealFits, SealKept
    <3>4. QED BY <3>2, <3>3
  <2>5. CASE run.job = "resume"
    <3>1. run'.pc = "slot" /\ run'.job = "seal" /\ run'.len = run.len
      BY <2>5, <1>6, SMT DEF AfterDecision, Operation
    <3>2. WriteFits' /\ RecoverFits'  BY <3>1, SMT DEF WriteFits, RecoverFits
    <3>3. SealFits'
      BY <2>5, <3>1, <1>1, <1>3, <1>6, <1>7, SMT DEF BudgetInv, SealFits, SealKept
    <3>4. QED BY <3>2, <3>3
  <2>6. CASE run.job = "recover"
    <3>1. run'.pc \in {"idle", "sealed"} /\ run'.job \in {"none", "recover"}
      BY <2>6, <1>6, SMT DEF AfterDecision, Accepting, Operation, ReclaimTypes
    <3>2. used' + CheckpointBytes <= WalLimit + MarkerBytes
      BY <2>6, <1>1, <1>3, <1>6, SMT DEF BudgetInv, RecoverFits
    <3>3. QED BY <3>1, <3>2, SMT DEF WriteFits, SealFits, RecoverFits
  <2>7. QED BY <1>4, <2>1, <2>2, <2>3, <2>4, <2>5, <2>6
<1>11. QED BY <1>7, <1>9, <1>10 DEF BudgetInv

\* Two facts of arithmetic that the solver misses in larger steps.
LEMMA Slack ==
  ASSUME NEW u \in Nat, NEW c \in Nat, NEW w \in Nat, NEW p \in Nat, NEW o \in Nat,
         NEW k \in Nat, u + p + c <= w + k, o <= p
  PROVE  u + o + c <= w + k
BY SMT

LEMMA Less ==
  ASSUME NEW u \in Nat, NEW c \in Nat, NEW w \in Nat, NEW p \in Nat,
         NEW k \in Nat, u + p + c <= w + k
  PROVE  u + c <= w + k
BY SMT

\* The admission of a checkpoint pays for the marker, a slot that has to be
\* recovered, a schedule and the seal.
LEMMA PrepareBudget ==
  ASSUME ReclaimTypes, Control, BudgetInv, PrepareCheckpoint
  PROVE  BudgetInv'
<1>1. /\ run.pc = "admit" /\ ReclaimAdmitted(run.root) /\ run.tries = 0
      /\ open = Unused \/ Recorded
      /\ run.job # "write"
  BY SMT DEF PrepareCheckpoint, Control
<1>2. CASE Conflicting /\ Halt /\ UNCHANGED <<used, above, spent, refusals>>
  BY <1>2, HaltBudget
<1>3. CASE \E b \in {0, MarkerBytes} :
             /\ used' = used + b /\ spent' = spent + b
             /\ above' \in {0, above} /\ refusals' = refusals
             /\ open' = open /\ decidedTo' = decidedTo /\ run' = SealJob
  <2>1. PICK b \in {0, MarkerBytes} :
             /\ used' = used + b /\ spent' = spent + b
             /\ above' \in {0, above} /\ refusals' = refusals
             /\ open' = open /\ decidedTo' = decidedTo /\ run' = SealJob
    BY <1>3
  <2>2. /\ OpenCost <= MaxSlotBytes /\ OpenCost \in Nat
        /\ SlotBytes(ScheduleLen) \in Nat /\ SlotBytes(SealLen) \in Nat
        /\ MaxSlotBytes \in Nat /\ CheckpointBytes \in Nat /\ WalLimit \in Nat
        /\ MarkerBytes \in Nat
        /\ Kept \in Nat /\ SealKept \in Nat
        /\ SealKept = SlotBytes(SealLen) + CheckpointBytes
        /\ used \in Nat /\ spent \in Nat /\ above \in Nat
    BY <1>1, Sizes, CheckpointCost, SMT DEF ReclaimTypes
  <2>3. PendingBytes \in Nat /\ (Recorded => PendingBytes = MaxSlotBytes)
    BY <2>2, SMT DEF PendingBytes
  <2>4. Reserve'
    BY <2>1, <2>2, SMT DEF BudgetInv, Reserve, LargeEnough
  <2>5. above' <= used' /\ refusals' = {}
    BY <2>1, <2>2, SMT DEF BudgetInv
  <2>6. CASE ~ SealDecided(run.root)
    <3>1. used + (MarkerBytes + (SlotBytes(SealLen) + MaxSlotBytes))
            + (PendingBytes + CheckpointBytes) <= WalLimit
      BY <1>1, <2>6, SMT DEF ReclaimAdmitted, Admitted, ForegroundBytes
    <3>2. /\ run'.pc = "slot" /\ run'.tries = 0
          /\ run'.job = IF Recorded THEN "resume" ELSE "seal"
      BY <2>1, <2>6, SMT DEF SealJob, Operation
    <3>3. OpenCost' = OpenCost  BY <1>1, <2>1, <3>2 DEF OpenCost
    <3>4. WriteFits' /\ RecoverFits'  BY <3>2, SMT DEF WriteFits, RecoverFits
    <3>5. used' + MaxSlotBytes + SealKept + PendingBytes <= WalLimit /\ used' \in Nat
      BY <2>1, <2>2, <2>3, <3>1, SMT
    <3>6. Recorded => used' + OpenCost' + MaxSlotBytes + SealKept <= WalLimit
      BY <2>2, <2>3, <3>3, <3>5, SMT
    <3>7. ~ Recorded => open'.kind = "none" BY <1>1, <2>1, SMT DEF Unused
    <3>8. SealFits'
      BY <2>2, <2>3, <3>2, <3>5, <3>6, <3>7, SMT DEF SealFits, SealKept
    <3>9. QED BY <2>4, <2>5, <3>4, <3>8 DEF BudgetInv
  <2>7. CASE SealDecided(run.root)
    <3>1. used + 0 + (PendingBytes + CheckpointBytes) <= WalLimit
      BY <1>1, <2>7, SMT DEF ReclaimAdmitted, Admitted
    <3>2. /\ run'.pc = IF Recorded THEN "slot" ELSE "sealed"
          /\ run'.job = "recover" /\ run'.tries = 0
      BY <2>1, <2>7, SMT DEF SealJob, Operation
    <3>3. OpenCost' = OpenCost  BY <1>1, <2>1, <3>2 DEF OpenCost
    <3>4. WriteFits' /\ SealFits'  BY <3>2, SMT DEF WriteFits, SealFits
    <3>5. used' + PendingBytes + CheckpointBytes <= WalLimit + MarkerBytes
      BY <2>1, <2>2, <2>3, <3>1, SMT
    <3>6. used' \in Nat BY <2>1, <2>2, SMT
    <3>7. RecoverFits'
      <4>1. Recorded => used' + OpenCost' + CheckpointBytes <= WalLimit + MarkerBytes
        <5>1. SUFFICES ASSUME Recorded
                       PROVE  used' + OpenCost' + CheckpointBytes <= WalLimit + MarkerBytes
          OBVIOUS
        <5>2. OpenCost' <= PendingBytes /\ OpenCost' \in Nat
          BY <2>2, <2>3, <3>3, <5>1
        <5>3. QED BY ONLY Slack, <2>2, <2>3, <3>5, <3>6, <5>2
      <4>2. used' + CheckpointBytes <= WalLimit + MarkerBytes
        BY ONLY Less, <2>2, <2>3, <3>5, <3>6
      <4>3. QED BY <3>2, <4>1, <4>2 DEF RecoverFits
    <3>8. QED BY <2>4, <2>5, <3>4, <3>7 DEF BudgetInv
  <2>8. QED BY <2>6, <2>7
<1>4. used + MarkerBytes <= WalLimit
  <2>1. /\ SlotBytes(SealLen) \in Nat /\ MaxSlotBytes \in Nat /\ CheckpointBytes \in Nat
        /\ WalLimit \in Nat /\ MarkerBytes \in Nat /\ used \in Nat
        /\ MarkerBytes <= CheckpointBytes
    BY Sizes, CheckpointCost, SMT DEF ReclaimTypes
  <2>2. PendingBytes \in Nat BY <2>1, SMT DEF PendingBytes
  <2>3. QED BY <1>1, <2>1, <2>2, SMT DEF ReclaimAdmitted, Admitted, ForegroundBytes
<1>5. CASE Extend(MarkerBytes, /\ above' = 0 /\ markers' = markers \cup {run.root}
                               /\ run' = SealJob
                               /\ UNCHANGED <<open, decidedTo, seals>>)
  <2>1. /\ used' = used + MarkerBytes /\ spent' = spent + MarkerBytes /\ above' = 0
        /\ refusals' = refusals /\ open' = open /\ decidedTo' = decidedTo
        /\ run' = SealJob
    BY <1>1, <1>4, <1>5 DEF Extend
  <2>2. QED BY <1>3, <2>1
<1>6. CASE /\ run' = SealJob
           /\ UNCHANGED <<used, above, spent, open, decidedTo, refusals>>
  <2>1. used' = used + 0 /\ spent' = spent + 0  BY <1>6, SMT DEF ReclaimTypes
  <2>2. QED BY <1>3, <1>6, <2>1
<1>7. QED BY <1>2, <1>5, <1>6 DEF PrepareCheckpoint

\* The rewritten WAL is what the checkpoint left above its root.
LEMMA CompactBudget ==
  ASSUME ReclaimTypes, BudgetInv, CompactThrough
  PROVE  BudgetInv'
<1>1. /\ MaxSlotBytes \in Nat /\ CheckpointBytes \in Nat /\ MarkerBytes \in Nat
      /\ BaseBytes \in Nat /\ WalLimit \in Nat
      /\ BaseBytes + MarkerBytes <= CheckpointBytes
      /\ SlotBytes(ScheduleLen) \in Nat /\ Kept \in Nat
      /\ Kept = 2 * MaxSlotBytes + CheckpointBytes
      /\ used \in Nat /\ spent \in Nat /\ above \in Nat
  BY Sizes, CheckpointCost, SMT DEF ReclaimTypes
<1>2. run.pc = "sealed" BY DEF CompactThrough
<1>3. used + CheckpointBytes <= WalLimit + MarkerBytes /\ above <= used /\ refusals = {}
  BY <1>2, SMT DEF BudgetInv, RecoverFits
<1>4. CompactedBytes <= WalLimit
  BY <1>1, <1>3, SMT DEF CompactedBytes
<1>5. /\ used' = BaseBytes + above /\ spent' = above /\ above' = above
      /\ run' = [run EXCEPT !.pc = "collect"] /\ refusals' = refusals
  BY <1>1, <1>4, SMT DEF CompactThrough, CompactedBytes
<1>6. run'.pc = "collect"
  BY <1>5, SMT DEF ReclaimTypes
<1>7. WriteFits' /\ SealFits' /\ RecoverFits'
  BY <1>6, SMT DEF WriteFits, SealFits, RecoverFits
<1>8. Reserve'
  BY <1>1, <1>5, SMT DEF Reserve, LargeEnough
<1>9. QED BY <1>1, <1>3, <1>5, <1>7, <1>8, SMT DEF BudgetInv

\* Each step keeps the budget.
LEMMA BudgetStep ==
  ASSUME ReclaimTypes, Control, BudgetInv, ReclaimNext
  PROVE  BudgetInv'
<1>1. CASE \E v \in Lengths : Propose(v)  BY <1>1, ProposeBudget
<1>2. CASE StageLocalValue  BY <1>2, StageBudget
<1>3. CASE RecordLocal  BY <1>3, RecordBudget
<1>4. CASE Decide  BY <1>4, DecideBudget
<1>5. CASE PublishLocalRoot
  <2>1. /\ run'.pc = "admit" /\ UNCHANGED <<used, above, spent, refusals>>
    BY <1>5, SMT DEF PublishLocalRoot, Operation
  <2>2. QED
    BY <2>1, SMT DEF BudgetInv, WriteFits, SealFits, RecoverFits, Reserve, LargeEnough, Kept
<1>6. CASE PrepareCheckpoint  BY <1>6, PrepareBudget
<1>7. CASE ReclaimDenied  BY <1>7, HaltBudget DEF ReclaimDenied
<1>8. CASE CompactThrough  BY <1>8, CompactBudget
<1>9. CASE Collect
  <2>1. /\ run'.pc = "idle" /\ UNCHANGED <<used, above, spent, refusals>>
    BY <1>9, SMT DEF Collect, Accepting, Operation
  <2>2. QED
    BY <2>1, SMT DEF BudgetInv, WriteFits, SealFits, RecoverFits, Reserve, LargeEnough, Kept
<1>10. CASE Interrupt  BY <1>10, HaltBudget DEF Interrupt
<1>11. CASE Reopen
  <2>1. UNCHANGED <<used, above, spent, open, refusals>>
    BY <1>11 DEF Reopen
  <2>2. CASE run'.pc \in {"admit", "idle"}
    BY <2>1, <2>2, SMT DEF BudgetInv, WriteFits, SealFits, RecoverFits, Reserve, LargeEnough, Kept
  <2>3. CASE Recorded /\ RecoverAdmitted /\ run' = Operation("slot", "recover", 0, NoRoot)
    <3>1. run'.pc = "slot" /\ run'.job = "recover" /\ run'.tries = 0
      BY <2>3, SMT DEF Operation
    <3>2. WriteFits' /\ SealFits' /\ Reserve'
      BY <2>1, <3>1, SMT DEF BudgetInv, WriteFits, SealFits, Reserve, LargeEnough, Kept
    <3>3. used + MaxSlotBytes + CheckpointBytes <= WalLimit
      BY <2>3, SMT DEF RecoverAdmitted, Admitted, PendingBytes
    <3>4. OpenCost' = Receipts(0) + DecisionBytes(open.len)
      BY <2>1, <3>1 DEF OpenCost
    <3>5. /\ OpenCost' <= MaxSlotBytes /\ OpenCost' \in Nat
          /\ MaxSlotBytes \in Nat /\ CheckpointBytes \in Nat /\ MarkerBytes \in Nat
          /\ WalLimit \in Nat /\ used \in Nat
      BY <3>4, Sizes, SMT DEF ReclaimTypes
    <3>b. used' + MaxSlotBytes + CheckpointBytes <= WalLimit + MarkerBytes
      BY <2>1, <3>3, <3>5, SMT
    <3>6. used' + OpenCost' + CheckpointBytes <= WalLimit + MarkerBytes
      <4>1. used' \in Nat  BY <2>1, <3>5
      <4>2. QED BY ONLY Slack, <3>b, <3>5, <4>1
    <3>a. RecoverFits'
      BY <3>1, <3>6 DEF RecoverFits
    <3>7. QED BY <2>1, <3>2, <3>a DEF BudgetInv
  <2>4. (\E root \in Resumable : run' = Operation("admit", "none", 0, root))
          \/ run' = Accepting
          \/ (Recorded /\ RecoverAdmitted /\ run' = Operation("slot", "recover", 0, NoRoot))
    BY <1>11 DEF Reopen
  <2>5. QED BY <2>2, <2>3, <2>4, SMT DEF Accepting, Operation
<1>12. QED
  BY <1>1, <1>2, <1>3, <1>4, <1>5, <1>6, <1>7, <1>8, <1>9, <1>10, <1>11 DEF ReclaimNext

----------------------------------------------------------------------------
(* The theorems                                                            *)

\* ReclaimTypes, control, roots and budget together are inductive.
THEOREM ReclaimInductive == ReclaimSpec => []ReclaimInv
<1>1. ReclaimInit => ReclaimInv
  <2>1. SUFFICES ASSUME ReclaimInit PROVE ReclaimInv  OBVIOUS
  <2>2. /\ run.pc = "idle" /\ run.job = "none" /\ run.root = NoRoot /\ run.tries = 0
        /\ open = Unused /\ open.kind = "none" /\ open.root = NoRoot
    BY <2>1, SMT DEF ReclaimInit, Accepting, Operation, Unused
  <2>3. ReclaimTypes
    BY <2>1, ConstantTypes, SMT DEF ReclaimInit, ReclaimTypes, Accepting, Operation, Unused, RootNames, NoRoot
  <2>4. Control  BY <2>2, SMT DEF Control
  <2>5. RootsInv  BY <2>1, <2>2, SMT DEF ReclaimInit, RootsInv, Present
  <2>6. BudgetInv
    <3>1. WriteFits /\ SealFits /\ RecoverFits
      BY <2>2, SMT DEF WriteFits, SealFits, RecoverFits
    <3>2. Reserve
      BY <2>1, <2>3, Sizes, SMT DEF ReclaimInit, Reserve, LargeEnough
    <3>3. QED BY <2>1, <3>1, <3>2, SMT DEF ReclaimInit, BudgetInv
  <2>7. QED BY <2>3, <2>4, <2>5, <2>6 DEF ReclaimInv
<1>2. ReclaimInv /\ [ReclaimNext]_reclaimVars => ReclaimInv'
  <2>1. SUFFICES ASSUME ReclaimInv, [ReclaimNext]_reclaimVars PROVE ReclaimInv'  OBVIOUS
  <2>2. CASE ReclaimNext
    BY <2>1, <2>2, ReclaimTypesStep, ControlStep, RootsStep, BudgetStep DEF ReclaimInv
  <2>3. CASE UNCHANGED reclaimVars
    BY <2>1, <2>3 DEF reclaimVars, ReclaimInv, ReclaimTypes, Control, RootsInv, BudgetInv, Recorded,
       Scheduled, Present, WriteFits, SealFits, RecoverFits, Reserve, OpenCost
  <2>4. QED BY <2>1, <2>2, <2>3
<1>3. QED BY <1>1, <1>2, PTL DEF ReclaimSpec

\* The variables have their types.
THEOREM ReclaimTypeCorrect == ReclaimSpec => []ReclaimTypeOK
<1>1. ReclaimInv => ReclaimTypeOK
  BY SMT DEF ReclaimInv, ReclaimTypes, ReclaimTypeOK
<1>2. QED BY <1>1, ReclaimInductive, PTL

\* Whenever the process dies, the checkpoint directory has every root that
\* validateLocalRoots will look for: one that the WAL's floor, a marker, a seal
\* or a recorded proposal names.
THEOREM RootsSurvive == ReclaimSpec => []WalRootsPresent
<1>1. ReclaimInv => WalRootsPresent
  BY SMT DEF ReclaimInv, RootsInv, Present, WalRootsPresent, LocalCheckpointRoots
<1>2. QED BY <1>1, ReclaimInductive, PTL

\* The costs of local_cost.go add up: what was admitted never meets the WAL's
\* limit half way, a recovery is always admitted and so is a checkpoint, as far
\* as the reserve has not been spent on slots decided again and on abandoned
\* checkpoints.
THEOREM ReserveSuffices == ReclaimSpec => []ReserveHolds
<1>1. ReclaimInv => ReserveHolds
  <2>1. SUFFICES ASSUME ReclaimInv PROVE ReserveHolds  OBVIOUS
  <2>2. ReclaimTypes /\ Control /\ BudgetInv /\ refusals = {} BY <2>1 DEF ReclaimInv, BudgetInv
  <2>3. /\ SlotBytes(ScheduleLen) \in Nat /\ SlotBytes(SealLen) \in Nat
        /\ MaxSlotBytes \in Nat /\ CheckpointBytes \in Nat /\ WalLimit \in Nat
        /\ MarkerBytes \in Nat
        /\ Kept = 2 * MaxSlotBytes + CheckpointBytes
        /\ used \in Nat /\ spent \in Nat
    BY <2>2, Sizes, SMT DEF ReclaimTypes
  <2>4. SUFFICES ASSUME LargeEnough PROVE CheckpointPossible /\ RecoveryPossible
    BY <2>2 DEF ReserveHolds, AdmittedWorkFits, LargeEnough
  <2>5. used + Kept <= WalLimit + spent + SlotBytes(ScheduleLen)
    BY <2>2, <2>4 DEF BudgetInv, Reserve
  <2>6. CheckpointPossible
    <3>1. SUFFICES ASSUME run.pc = "idle",
                          spent + SlotBytes(ScheduleLen) + MarkerBytes + SlotBytes(SealLen)
                            <= MaxSlotBytes,
                          NEW root
                   PROVE  ReclaimAdmitted(root)
      BY DEF CheckpointPossible
    <3>2. PendingBytes = 0
      BY <2>2, <3>1, SMT DEF Control, PendingBytes, Recorded, Unused
    <3>3. used + (MarkerBytes + (SlotBytes(SealLen) + MaxSlotBytes)) + CheckpointBytes <= WalLimit
      BY <2>3, <2>5, <3>1, SMT
    <3>4. QED
      BY <2>3, <3>2, <3>3, SMT DEF ReclaimAdmitted, Admitted, ForegroundBytes
  <2>7. RecoveryPossible
    <3>1. SUFFICES ASSUME spent + SlotBytes(ScheduleLen) <= MaxSlotBytes
                   PROVE  RecoverAdmitted
      BY DEF RecoveryPossible
    <3>2. PendingBytes \in Nat /\ PendingBytes <= MaxSlotBytes
      BY <2>3, SMT DEF PendingBytes
    <3>3. QED BY <2>3, <2>5, <3>1, <3>2, SMT DEF RecoverAdmitted, Admitted
  <2>8. QED BY <2>6, <2>7
<1>2. QED BY <1>1, ReclaimInductive, PTL

-----------------------------------------------------------------------------

Files == [PairItems -> Int]

PairTypes ==
    /\ flavor \in {"local", "managed"}
    /\ origin \in [PairItems -> {Absent, Original}]
    /\ saved \in [PairItems -> {Absent, Original, Fresh}]
    /\ live \in Files /\ staging \in Files /\ newInv \in Files

\* The phases that each procedure writes.
Phases ==
    /\ Local => journalAt \in {NoPhase, "intent", "staged", "moving", "installed"}
    /\ ~ Local => journalAt \in {NoPhase, "intent", "staged", "moving", "opening", "opened",
                                 "committed", "final-opened"}

Installing == {"graph", "placed", "main", "unmain", "landed", "published"}
Opened == {"validated", "close", "commit"}
Undoing == {"rollback", "undo", "undone"}
Finishing == {"cleanup", "reopen", "reopened"}

\* What the process may do in which phase of the journal.
InPhase ==
    /\ journalAt = NoPhase => doing \in {"down", "refused", "serving"}
    /\ doing \in {"inputs", "verify", "close", "commit"} \cup Undoing \cup Finishing
        => ~ Local
    /\ doing \in {"inputs", "stage", "backup", "moved"} \cup Installing => ~ Replaced
    /\ doing \in Undoing /\ keepInput => ~ Replaced
    /\ doing \in {"open"} \cup Opened => Local \/ ~ Replaced
    /\ doing \in Finishing => Committed
    /\ doing \in {"finalize", "finalized"} =>
          journalAt = IF Local THEN "installed" ELSE "final-opened"

\* Where the originals are.
OriginalsInv ==
    /\ \A i \in PairItems : live[i] = Original => Had(i) /\ saved[i] # Original
    /\ \A i \in PairItems : saved[i] = Original => Had(i)
    /\ ~ Local => \A i \in PairItems : saved[i] # Fresh
    /\ OldPairKept \/ (Replaced /\ NewPairWhole(live))
    /\ doing \in Undoing => OldPairKept
    /\ \/ ~ Replaced /\ doing \in Installing \cup {"open"} \cup Opened
       \/ doing = "cleanup" /\ ~ keepInput
       => \A i \in PairItems : Had(i) => saved[i] = Original
    /\ journalAt = NoPhase /\ doing # "serving" => live = origin
    /\ doing = "undone" => live = origin

\* Where the new pair is.
PairInv ==
    /\ doing \in {"backup", "moved", "graph"} => staging["graph"] >= Fresh
    /\ doing \in {"backup", "moved", "graph", "placed", "main", "unmain"} =>
          staging["main"] >= Fresh
    /\ doing \in {"placed", "main", "unmain", "landed", "published", "open"} \cup Opened =>
          live["graph"] >= Fresh
    /\ doing \in {"landed", "published", "open"} \cup Opened => live["main"] >= Fresh
    /\ doing \in Finishing \cup {"finalize", "finalized", "serving"} => NewPairWhole(live)
    /\ Local /\ journalAt = "installed" => NewPairWhole(live)
    /\ Committed => NewPairWhole(newInv)
    /\ OpenedPairsWhole

InstallInv == PairTypes /\ Phases /\ InPhase /\ OriginalsInv /\ PairInv

\* Each step keeps the types.
LEMMA PairTypesStep ==
  ASSUME PairTypes, PairNext
  PROVE  PairTypes'
<1> USE DEF PairTypes, Files, PairItems, Contents, Nowhere, Local, Had, PairAt,
    Absent, Original, Fresh, Torn, Keep, KeepFiles, KeepJournal
<1>1. CASE BeginInstall
  BY <1>1, SMT DEF BeginInstall, Fault
<1>2. CASE DieAtIntent
  BY <1>2, SMT DEF DieAtIntent, Fault
<1>3. CASE RetryStart
  BY <1>3, SMT DEF RetryStart
<1>4. CASE RetainInputs
  BY <1>4, SMT DEF RetainInputs
<1>5. CASE ResumeLocal
  BY <1>5, SMT DEF ResumeLocal
<1>6. CASE CheckOriginals
  BY <1>6, SMT DEF CheckOriginals, WithSidecar, SameEmpty
<1>7. CASE RecoverInstall
  BY <1>7, SMT DEF RecoverInstall, AttemptKnown
<1>8. CASE Verified
  BY <1>8, SMT DEF Verified, KnownInstalled
<1>9. CASE StagePair
  BY <1>9, SMT DEF StagePair
<1>10. ASSUME NEW i \in PairItems, BackupOriginal(i) PROVE PairTypes'
  BY <1>10, SMT DEF BackupOriginal, BackupNext, BackupDue
<1>11. CASE RemoveTarget("graph", "backup", "graph")
  BY <1>11, SMT DEF RemoveTarget, BackedUp, BackupDue, Unpublished
<1>12. CASE PublishStaged("graph", "graph", "placed")
  BY <1>12, SMT DEF PublishStaged
<1>13. CASE RemoveTarget("main", "main", "unmain")
  BY <1>13, SMT DEF RemoveTarget, Unpublished
<1>14. CASE PublishStaged("main", "unmain", "landed")
  BY <1>14, SMT DEF PublishStaged
<1>15. CASE RecordMove
  BY <1>15, SMT DEF RecordMove
<1>16. CASE AnnounceOpen
  BY <1>16, SMT DEF AnnounceOpen
<1>17. CASE OpenPair
  BY <1>17, SMT DEF OpenPair, AfterUse, Touched
<1>18. CASE RecordOpened
  BY <1>18, SMT DEF RecordOpened
<1>19. CASE ClosePair
  BY <1>19, SMT DEF ClosePair, AfterUse, Touched
<1>20. CASE Commit
  BY <1>20, SMT DEF Commit
<1>21. CASE CleanUp
  BY <1>21, SMT DEF CleanUp
<1>22. CASE FinalOpen
  BY <1>22, SMT DEF FinalOpen, AfterUse, Touched
<1>23. CASE RecordFinal
  BY <1>23, SMT DEF RecordFinal
<1>24. CASE RemoveAttempt
  BY <1>24, SMT DEF RemoveAttempt
<1>25. CASE RemoveJournal
  BY <1>25, SMT DEF RemoveJournal
<1>26. CASE StartRollback
  BY <1>26, SMT DEF StartRollback, RollbackSafe
<1>27. ASSUME NEW i \in PairItems, RemoveAlien(i) PROVE PairTypes'
  BY <1>27, SMT DEF RemoveAlien, Alien, AlienDue
<1>28. ASSUME NEW i \in PairItems, RestoreOriginal(i) PROVE PairTypes'
  BY <1>28, SMT DEF RestoreOriginal, Restorable, Alien
<1>29. CASE RolledBack
  BY <1>29, SMT DEF RolledBack, Undone, Alien
<1>30. CASE EndRollback
  BY <1>30, SMT DEF EndRollback
<1>31. CASE PairFails
  BY <1>31, SMT DEF PairFails, Fault
<1>32. CASE PairDies
  BY <1>32, SMT DEF PairDies, Fault, HalfRemoved, GraphRemoval, BackedUp, BackupDue,
      Unpublished, AlienDue, Alien, Restorable, Undone, JournalSteps
<1>33. QED
  BY <1>1, <1>2, <1>3, <1>4, <1>5, <1>6, <1>7, <1>8, <1>9, <1>10, <1>11, <1>12, <1>13,
      <1>14, <1>15, <1>16, <1>17, <1>18, <1>19, <1>20, <1>21, <1>22, <1>23, <1>24,
      <1>25, <1>26, <1>27, <1>28, <1>29, <1>30, <1>31, <1>32 DEF PairNext

\* Each step writes a phase of its own procedure.
LEMMA PhasesStep ==
  ASSUME PairTypes, Phases, InPhase, PairNext
  PROVE  Phases'
<1> USE DEF PairTypes, Phases, InPhase, Local, Had, PairAt, Absent, Original, Fresh,
    Torn, Keep, KeepFiles, KeepJournal, NoPhase, Opening, Committed, Replaced,
    Installing, Opened, Undoing, Finishing
<1>1. CASE BeginInstall
  BY <1>1, SMT DEF BeginInstall, Fault
<1>2. CASE DieAtIntent
  BY <1>2, SMT DEF DieAtIntent, Fault
<1>3. CASE RetryStart
  BY <1>3, SMT DEF RetryStart
<1>4. CASE RetainInputs
  BY <1>4, SMT DEF RetainInputs
<1>5. CASE ResumeLocal
  BY <1>5, SMT DEF ResumeLocal
<1>6. CASE CheckOriginals
  BY <1>6, SMT DEF CheckOriginals, WithSidecar, SameEmpty
<1>7. CASE RecoverInstall
  BY <1>7, SMT DEF RecoverInstall, AttemptKnown
<1>8. CASE Verified
  BY <1>8, SMT DEF Verified, KnownInstalled
<1>9. CASE StagePair
  BY <1>9, SMT DEF StagePair
<1>10. ASSUME NEW i \in PairItems, BackupOriginal(i) PROVE Phases'
  BY <1>10, SMT DEF BackupOriginal, BackupNext, BackupDue
<1>11. CASE RemoveTarget("graph", "backup", "graph")
  BY <1>11, SMT DEF RemoveTarget, BackedUp, BackupDue, Unpublished
<1>12. CASE PublishStaged("graph", "graph", "placed")
  BY <1>12, SMT DEF PublishStaged
<1>13. CASE RemoveTarget("main", "main", "unmain")
  BY <1>13, SMT DEF RemoveTarget, Unpublished
<1>14. CASE PublishStaged("main", "unmain", "landed")
  BY <1>14, SMT DEF PublishStaged
<1>15. CASE RecordMove
  BY <1>15, SMT DEF RecordMove
<1>16. CASE AnnounceOpen
  BY <1>16, SMT DEF AnnounceOpen
<1>17. CASE OpenPair
  BY <1>17, SMT DEF OpenPair, AfterUse, Touched
<1>18. CASE RecordOpened
  BY <1>18, SMT DEF RecordOpened
<1>19. CASE ClosePair
  BY <1>19, SMT DEF ClosePair, AfterUse, Touched
<1>20. CASE Commit
  BY <1>20, SMT DEF Commit
<1>21. CASE CleanUp
  BY <1>21, SMT DEF CleanUp
<1>22. CASE FinalOpen
  BY <1>22, SMT DEF FinalOpen, AfterUse, Touched
<1>23. CASE RecordFinal
  BY <1>23, SMT DEF RecordFinal
<1>24. CASE RemoveAttempt
  BY <1>24, SMT DEF RemoveAttempt
<1>25. CASE RemoveJournal
  BY <1>25, SMT DEF RemoveJournal
<1>26. CASE StartRollback
  BY <1>26, SMT DEF StartRollback, RollbackSafe
<1>27. ASSUME NEW i \in PairItems, RemoveAlien(i) PROVE Phases'
  BY <1>27, SMT DEF RemoveAlien, Alien, AlienDue
<1>28. ASSUME NEW i \in PairItems, RestoreOriginal(i) PROVE Phases'
  BY <1>28, SMT DEF RestoreOriginal, Restorable, Alien
<1>29. CASE RolledBack
  BY <1>29, SMT DEF RolledBack, Undone, Alien
<1>30. CASE EndRollback
  BY <1>30, SMT DEF EndRollback
<1>31. CASE PairFails
  BY <1>31, SMT DEF PairFails, Fault
<1>32. CASE PairDies
  BY <1>32, SMT DEF PairDies, Fault, HalfRemoved, GraphRemoval, BackedUp, BackupDue,
      Unpublished, AlienDue, Alien, Restorable, Undone, JournalSteps
<1>33. QED
  BY <1>1, <1>2, <1>3, <1>4, <1>5, <1>6, <1>7, <1>8, <1>9, <1>10, <1>11, <1>12, <1>13,
      <1>14, <1>15, <1>16, <1>17, <1>18, <1>19, <1>20, <1>21, <1>22, <1>23, <1>24,
      <1>25, <1>26, <1>27, <1>28, <1>29, <1>30, <1>31, <1>32 DEF PairNext

\* Each step keeps the process within its phase.
LEMMA InPhaseStep ==
  ASSUME PairTypes, Phases, InPhase, PairNext
  PROVE  InPhase'
<1> USE DEF PairTypes, Phases, InPhase, Local, Had, PairAt, Absent, Original, Fresh,
    Torn, Keep, KeepFiles, KeepJournal, NoPhase, Opening, Committed, Replaced,
    Installing, Opened, Undoing, Finishing
<1>1. CASE BeginInstall
  BY <1>1, SMT DEF BeginInstall, Fault
<1>2. CASE DieAtIntent
  BY <1>2, SMT DEF DieAtIntent, Fault
<1>3. CASE RetryStart
  BY <1>3, SMT DEF RetryStart
<1>4. CASE RetainInputs
  BY <1>4, SMT DEF RetainInputs
<1>5. CASE ResumeLocal
  BY <1>5, SMT DEF ResumeLocal
<1>6. CASE CheckOriginals
  BY <1>6, SMT DEF CheckOriginals, WithSidecar, SameEmpty
<1>7. CASE RecoverInstall
  BY <1>7, SMT DEF RecoverInstall, AttemptKnown
<1>8. CASE Verified
  BY <1>8, SMT DEF Verified, KnownInstalled
<1>9. CASE StagePair
  BY <1>9, SMT DEF StagePair
<1>10. ASSUME NEW i \in PairItems, BackupOriginal(i) PROVE InPhase'
  BY <1>10, SMT DEF BackupOriginal, BackupNext, BackupDue
<1>11. CASE RemoveTarget("graph", "backup", "graph")
  BY <1>11, SMT DEF RemoveTarget, BackedUp, BackupDue, Unpublished
<1>12. CASE PublishStaged("graph", "graph", "placed")
  BY <1>12, SMT DEF PublishStaged
<1>13. CASE RemoveTarget("main", "main", "unmain")
  BY <1>13, SMT DEF RemoveTarget, Unpublished
<1>14. CASE PublishStaged("main", "unmain", "landed")
  BY <1>14, SMT DEF PublishStaged
<1>15. CASE RecordMove
  BY <1>15, SMT DEF RecordMove
<1>16. CASE AnnounceOpen
  BY <1>16, SMT DEF AnnounceOpen
<1>17. CASE OpenPair
  BY <1>17, SMT DEF OpenPair, AfterUse, Touched
<1>18. CASE RecordOpened
  BY <1>18, SMT DEF RecordOpened
<1>19. CASE ClosePair
  BY <1>19, SMT DEF ClosePair, AfterUse, Touched
<1>20. CASE Commit
  BY <1>20, SMT DEF Commit
<1>21. CASE CleanUp
  BY <1>21, SMT DEF CleanUp
<1>22. CASE FinalOpen
  BY <1>22, SMT DEF FinalOpen, AfterUse, Touched
<1>23. CASE RecordFinal
  BY <1>23, SMT DEF RecordFinal
<1>24. CASE RemoveAttempt
  BY <1>24, SMT DEF RemoveAttempt
<1>25. CASE RemoveJournal
  BY <1>25, SMT DEF RemoveJournal
<1>26. CASE StartRollback
  BY <1>26, SMT DEF StartRollback, RollbackSafe
<1>27. ASSUME NEW i \in PairItems, RemoveAlien(i) PROVE InPhase'
  BY <1>27, SMT DEF RemoveAlien, Alien, AlienDue
<1>28. ASSUME NEW i \in PairItems, RestoreOriginal(i) PROVE InPhase'
  BY <1>28, SMT DEF RestoreOriginal, Restorable, Alien
<1>29. CASE RolledBack
  BY <1>29, SMT DEF RolledBack, Undone, Alien
<1>30. CASE EndRollback
  BY <1>30, SMT DEF EndRollback
<1>31. CASE PairFails
  BY <1>31, SMT DEF PairFails, Fault
<1>32. CASE PairDies
  BY <1>32, SMT DEF PairDies, Fault, HalfRemoved, GraphRemoval, BackedUp, BackupDue,
      Unpublished, AlienDue, Alien, Restorable, Undone, JournalSteps
<1>33. QED
  BY <1>1, <1>2, <1>3, <1>4, <1>5, <1>6, <1>7, <1>8, <1>9, <1>10, <1>11, <1>12, <1>13,
      <1>14, <1>15, <1>16, <1>17, <1>18, <1>19, <1>20, <1>21, <1>22, <1>23, <1>24,
      <1>25, <1>26, <1>27, <1>28, <1>29, <1>30, <1>31, <1>32 DEF PairNext

\* A step that moves or overwrites an original has it in the backup, and the
\* backup goes only when the new pair is whole and its journal says so.
LEMMA OriginalsStep ==
  ASSUME PairTypes, Phases, InPhase, OriginalsInv, PairInv, PairNext
  PROVE  OriginalsInv'
<1> USE DEF PairTypes, Files, Phases, InPhase, OriginalsInv, PairInv, OldPairKept,
    NewPairWhole, PairItems, Contents, Nowhere, Local, Had, PairAt, Absent, Original,
    Fresh, Torn, Keep, KeepFiles, KeepJournal, NoPhase, Opening, Committed, Replaced,
    Installing, Opened, Undoing, Finishing
<1>1. CASE BeginInstall
  BY <1>1, SMT DEF BeginInstall, Fault
<1>2. CASE DieAtIntent
  BY <1>2, SMT DEF DieAtIntent, Fault
<1>3. CASE RetryStart
  BY <1>3, SMT DEF RetryStart
<1>4. CASE RetainInputs
  BY <1>4, SMT DEF RetainInputs
<1>5. CASE ResumeLocal
  BY <1>5, SMT DEF ResumeLocal
<1>6. CASE CheckOriginals
  BY <1>6, SMT DEF CheckOriginals, WithSidecar, SameEmpty
<1>7. CASE RecoverInstall
  BY <1>7, SMT DEF RecoverInstall, AttemptKnown
<1>8. CASE Verified
  <2>1. keepInput'  BY <1>8, Zenon DEF Verified
  <2>2. QED BY <1>8, <2>1, SMT DEF Verified, KnownInstalled
<1>9. CASE StagePair
  BY <1>9, SMT DEF StagePair
<1>10. ASSUME NEW i \in PairItems, BackupOriginal(i) PROVE OriginalsInv'
  BY <1>10, SMT DEF BackupOriginal, BackupNext, BackupDue
<1>11. CASE RemoveTarget("graph", "backup", "graph")
  BY <1>11, SMT DEF RemoveTarget, BackedUp, BackupDue, Unpublished
<1>12. CASE PublishStaged("graph", "graph", "placed")
  BY <1>12, SMT DEF PublishStaged
<1>13. CASE RemoveTarget("main", "main", "unmain")
  BY <1>13, SMT DEF RemoveTarget, Unpublished
<1>14. CASE PublishStaged("main", "unmain", "landed")
  BY <1>14, SMT DEF PublishStaged
<1>15. CASE RecordMove
  BY <1>15, SMT DEF RecordMove
<1>16. CASE AnnounceOpen
  BY <1>16, SMT DEF AnnounceOpen
<1>17. CASE OpenPair
  BY <1>17, SMT DEF OpenPair, AfterUse, Touched
<1>18. CASE RecordOpened
  BY <1>18, SMT DEF RecordOpened
<1>19. CASE ClosePair
  BY <1>19, SMT DEF ClosePair, AfterUse, Touched
<1>20. CASE Commit
  BY <1>20, SMT DEF Commit
<1>21. CASE CleanUp
  BY <1>21, SMT DEF CleanUp
<1>22. CASE FinalOpen
  BY <1>22, SMT DEF FinalOpen, AfterUse, Touched
<1>23. CASE RecordFinal
  BY <1>23, SMT DEF RecordFinal
<1>24. CASE RemoveAttempt
  BY <1>24, SMT DEF RemoveAttempt
<1>25. CASE RemoveJournal
  BY <1>25, SMT DEF RemoveJournal
<1>26. CASE StartRollback
  BY <1>26, SMT DEF StartRollback, RollbackSafe
<1>27. ASSUME NEW i \in PairItems, RemoveAlien(i) PROVE OriginalsInv'
  BY <1>27, SMT DEF RemoveAlien, Alien, AlienDue
<1>28. ASSUME NEW i \in PairItems, RestoreOriginal(i) PROVE OriginalsInv'
  BY <1>28, SMT DEF RestoreOriginal, Restorable, Alien
<1>29. CASE RolledBack
  BY <1>29, SMT DEF RolledBack, Undone, Alien
<1>30. CASE EndRollback
  BY <1>30, SMT DEF EndRollback
<1>31. CASE PairFails
  BY <1>31, SMT DEF PairFails, Fault
<1>32. CASE PairDies
  BY <1>32, SMT DEF PairDies, Fault, HalfRemoved, GraphRemoval, BackedUp, BackupDue,
      Unpublished, AlienDue, Alien, Restorable, Undone, JournalSteps
<1>33. QED
  BY <1>1, <1>2, <1>3, <1>4, <1>5, <1>6, <1>7, <1>8, <1>9, <1>10, <1>11, <1>12, <1>13,
      <1>14, <1>15, <1>16, <1>17, <1>18, <1>19, <1>20, <1>21, <1>22, <1>23, <1>24,
      <1>25, <1>26, <1>27, <1>28, <1>29, <1>30, <1>31, <1>32 DEF PairNext

\* What is published, opened and kept in service is the new pair.
LEMMA PairStep ==
  ASSUME PairTypes, Phases, InPhase, OriginalsInv, PairInv, PairNext
  PROVE  PairInv'
<1> USE DEF OpenedPairsWhole, PairTypes, Files, Phases, InPhase, OriginalsInv,
    PairInv, OldPairKept, NewPairWhole, PairItems, Contents, Nowhere, Local, Had,
    PairAt, Absent, Original, Fresh, Torn, Keep, KeepFiles, KeepJournal, NoPhase,
    Opening, Committed, Replaced, Installing, Opened, Undoing, Finishing
<1>1. CASE BeginInstall
  BY <1>1, SMT DEF BeginInstall, Fault
<1>2. CASE DieAtIntent
  BY <1>2, SMT DEF DieAtIntent, Fault
<1>3. CASE RetryStart
  BY <1>3, SMT DEF RetryStart
<1>4. CASE RetainInputs
  BY <1>4, SMT DEF RetainInputs
<1>5. CASE ResumeLocal
  BY <1>5, SMT DEF ResumeLocal
<1>6. CASE CheckOriginals
  BY <1>6, SMT DEF CheckOriginals, WithSidecar, SameEmpty
<1>7. CASE RecoverInstall
  BY <1>7, SMT DEF RecoverInstall, AttemptKnown
<1>8. CASE Verified
  <2>1. doing' \in {"refused", "cleanup", "rollback"}  BY <1>8, SMT DEF Verified
  <2>2. doing' = "cleanup" => Committed /\ KnownInstalled
    BY <1>8, SMT DEF Verified, KnownInstalled
  <2>3. Committed /\ KnownInstalled => NewPairWhole(live)
    BY SMT DEF KnownInstalled
  <2>4. QED BY <1>8, <2>1, <2>2, <2>3, SMT DEF Verified
<1>9. CASE StagePair
  BY <1>9, SMT DEF StagePair
<1>10. ASSUME NEW i \in PairItems, BackupOriginal(i) PROVE PairInv'
  BY <1>10, SMT DEF BackupOriginal, BackupNext, BackupDue
<1>11. CASE RemoveTarget("graph", "backup", "graph")
  BY <1>11, SMT DEF RemoveTarget, BackedUp, BackupDue, Unpublished
<1>12. CASE PublishStaged("graph", "graph", "placed")
  BY <1>12, SMT DEF PublishStaged
<1>13. CASE RemoveTarget("main", "main", "unmain")
  BY <1>13, SMT DEF RemoveTarget, Unpublished
<1>14. CASE PublishStaged("main", "unmain", "landed")
  BY <1>14, SMT DEF PublishStaged
<1>15. CASE RecordMove
  BY <1>15, SMT DEF RecordMove
<1>16. CASE AnnounceOpen
  BY <1>16, SMT DEF AnnounceOpen
<1>17. CASE OpenPair
  BY <1>17, SMT DEF OpenPair, AfterUse, Touched
<1>18. CASE RecordOpened
  BY <1>18, SMT DEF RecordOpened
<1>19. CASE ClosePair
  BY <1>19, SMT DEF ClosePair, AfterUse, Touched
<1>20. CASE Commit
  BY <1>20, SMT DEF Commit
<1>21. CASE CleanUp
  BY <1>21, SMT DEF CleanUp
<1>22. CASE FinalOpen
  BY <1>22, SMT DEF FinalOpen, AfterUse, Touched
<1>23. CASE RecordFinal
  BY <1>23, SMT DEF RecordFinal
<1>24. CASE RemoveAttempt
  BY <1>24, SMT DEF RemoveAttempt
<1>25. CASE RemoveJournal
  BY <1>25, SMT DEF RemoveJournal
<1>26. CASE StartRollback
  BY <1>26, SMT DEF StartRollback, RollbackSafe
<1>27. ASSUME NEW i \in PairItems, RemoveAlien(i) PROVE PairInv'
  BY <1>27, SMT DEF RemoveAlien, Alien, AlienDue
<1>28. ASSUME NEW i \in PairItems, RestoreOriginal(i) PROVE PairInv'
  BY <1>28, SMT DEF RestoreOriginal, Restorable, Alien
<1>29. CASE RolledBack
  BY <1>29, SMT DEF RolledBack, Undone, Alien
<1>30. CASE EndRollback
  BY <1>30, SMT DEF EndRollback
<1>31. CASE PairFails
  BY <1>31, SMT DEF PairFails, Fault
<1>32. CASE PairDies
  BY <1>32, SMT DEF PairDies, Fault, HalfRemoved, GraphRemoval, BackedUp, BackupDue,
      Unpublished, AlienDue, Alien, Restorable, Undone, JournalSteps
<1>33. QED
  BY <1>1, <1>2, <1>3, <1>4, <1>5, <1>6, <1>7, <1>8, <1>9, <1>10, <1>11, <1>12, <1>13,
      <1>14, <1>15, <1>16, <1>17, <1>18, <1>19, <1>20, <1>21, <1>22, <1>23, <1>24,
      <1>25, <1>26, <1>27, <1>28, <1>29, <1>30, <1>31, <1>32 DEF PairNext

----------------------------------------------------------------------------
(* The theorems                                                            *)

\* Types, phases, originals and the new pair together are inductive.
THEOREM PairInductive == PairSpec => []InstallInv
<1>1. PairInit => InstallInv
  <2> SUFFICES ASSUME PairInit PROVE InstallInv  OBVIOUS
  <2> USE DEF PairInit, Local, Had, PairAt, Absent, Original, Fresh, NoPhase, Replaced,
        Committed, Nowhere, PairItems, Files
  <2>1. PairTypes  BY SMT DEF PairTypes
  <2>2. Phases /\ InPhase
    BY SMT DEF Phases, InPhase, Installing, Opened, Undoing, Finishing
  <2>3. OriginalsInv
    BY SMT DEF OriginalsInv, OldPairKept, Installing, Opened, Undoing
  <2>4. PairInv
    BY SMT DEF PairInv, Opened, Finishing, OpenedPairsWhole
  <2>5. QED BY <2>1, <2>2, <2>3, <2>4 DEF InstallInv
<1>2. InstallInv /\ [PairNext]_pairVars => InstallInv'
  <2>1. SUFFICES ASSUME InstallInv, [PairNext]_pairVars PROVE InstallInv'  OBVIOUS
  <2>2. CASE PairNext
    BY <2>1, <2>2, PairTypesStep, PhasesStep, InPhaseStep, OriginalsStep, PairStep DEF
        InstallInv
  <2>3. CASE UNCHANGED pairVars
    BY <2>1, <2>3 DEF pairVars, InstallInv, PairTypes, Phases, InPhase, OriginalsInv,
        PairInv, Local, Had, PairAt, Replaced, Committed, OldPairKept, NewPairWhole,
        OpenedPairsWhole
  <2>4. QED BY <2>1, <2>2, <2>3
<1>3. QED BY <1>1, <1>2, PTL DEF PairSpec

\* Wherever the process dies, fails or is refused, every original is in place or
\* in the backup, or the new pair is in place and the journal says that it is
\* validated; without a journal the originals are in place; and what was opened
\* was a whole new pair without the -wal of the old database.
THEOREM PairsPreserved == PairSpec => []PairPreserved
<1>1. InstallInv => PairPreserved
  <2> SUFFICES ASSUME InstallInv PROVE PairPreserved  OBVIOUS
  <2>1. OriginalsKept
    BY SMT DEF InstallInv, OriginalsInv, OriginalsKept, PairAt
  <2>2. QED BY <2>1 DEF InstallInv, PairInv, PairPreserved
<1>2. QED BY <1>1, PairInductive, PTL

\* What the journal calls validated is given up by one step only, the end of the
\* rollback of a managed installation whose commit could not be synced, and then
\* all the originals are back in place.
THEOREM ReplacedOrPutBack == PairSpec => ReplacedOrRestored
<1> DEFINE Given == Replaced' \/ (~ Local /\ live' = origin)
<1>1. InstallInv /\ [PairNext]_pairVars =>
        [Replaced => Replaced' \/ (~ Local /\ live' = origin)]_pairVars
  <2> SUFFICES ASSUME InstallInv, Replaced, PairNext PROVE Given
    BY DEF pairVars
  <2> USE DEF PairTypes, Phases, InPhase, InstallInv, OriginalsInv, Local, PairAt, Keep,
        KeepFiles, KeepJournal, NoPhase, Committed, Replaced, Installing, Opened, Undoing,
        Finishing
  <2>1. CASE BeginInstall
    BY <2>1, SMT DEF BeginInstall, Fault
  <2>2. CASE DieAtIntent
    BY <2>2, SMT DEF DieAtIntent, Fault
  <2>3. CASE RetryStart
    BY <2>3, SMT DEF RetryStart
  <2>4. CASE RetainInputs
    BY <2>4, SMT DEF RetainInputs
  <2>5. CASE ResumeLocal
    BY <2>5, SMT DEF ResumeLocal
  <2>6. CASE CheckOriginals
    BY <2>6, SMT DEF CheckOriginals, WithSidecar, SameEmpty
  <2>7. CASE RecoverInstall
    BY <2>7, SMT DEF RecoverInstall, AttemptKnown
  <2>8. CASE Verified
    BY <2>8, SMT DEF Verified, KnownInstalled
  <2>9. CASE StagePair
    BY <2>9, SMT DEF StagePair
  <2>10. ASSUME NEW i \in PairItems, BackupOriginal(i) PROVE Given
    BY <2>10, SMT DEF BackupOriginal, BackupNext, BackupDue
  <2>11. CASE RemoveTarget("graph", "backup", "graph")
    BY <2>11, SMT DEF RemoveTarget, BackedUp, BackupDue, Unpublished
  <2>12. CASE PublishStaged("graph", "graph", "placed")
    BY <2>12, SMT DEF PublishStaged
  <2>13. CASE RemoveTarget("main", "main", "unmain")
    BY <2>13, SMT DEF RemoveTarget, Unpublished
  <2>14. CASE PublishStaged("main", "unmain", "landed")
    BY <2>14, SMT DEF PublishStaged
  <2>15. CASE RecordMove
    BY <2>15, SMT DEF RecordMove
  <2>16. CASE AnnounceOpen
    BY <2>16, SMT DEF AnnounceOpen
  <2>17. CASE OpenPair
    BY <2>17, SMT DEF OpenPair, AfterUse, Touched
  <2>18. CASE RecordOpened
    BY <2>18, SMT DEF RecordOpened
  <2>19. CASE ClosePair
    BY <2>19, SMT DEF ClosePair, AfterUse, Touched
  <2>20. CASE Commit
    BY <2>20, SMT DEF Commit
  <2>21. CASE CleanUp
    BY <2>21, SMT DEF CleanUp
  <2>22. CASE FinalOpen
    BY <2>22, SMT DEF FinalOpen, AfterUse, Touched
  <2>23. CASE RecordFinal
    BY <2>23, SMT DEF RecordFinal
  <2>24. CASE RemoveAttempt
    BY <2>24, SMT DEF RemoveAttempt
  <2>25. CASE RemoveJournal
    BY <2>25, SMT DEF RemoveJournal
  <2>26. CASE StartRollback
    BY <2>26, SMT DEF StartRollback, RollbackSafe
  <2>27. ASSUME NEW i \in PairItems, RemoveAlien(i) PROVE Given
    BY <2>27, SMT DEF RemoveAlien, Alien, AlienDue
  <2>28. ASSUME NEW i \in PairItems, RestoreOriginal(i) PROVE Given
    BY <2>28, SMT DEF RestoreOriginal, Restorable, Alien
  <2>29. CASE RolledBack
    BY <2>29, SMT DEF RolledBack, Undone, Alien
  <2>30. CASE EndRollback
    BY <2>30, SMT DEF EndRollback
  <2>31. CASE PairFails
    BY <2>31, SMT DEF PairFails, Fault
  <2>32. CASE PairDies
    BY <2>32, SMT DEF PairDies, Fault, HalfRemoved, GraphRemoval, BackedUp, BackupDue,
        Unpublished, AlienDue, Alien, Restorable, Undone, JournalSteps
  <2>33. QED
    BY <2>1, <2>2, <2>3, <2>4, <2>5, <2>6, <2>7, <2>8, <2>9, <2>10, <2>11, <2>12,
        <2>13, <2>14, <2>15, <2>16, <2>17, <2>18, <2>19, <2>20, <2>21, <2>22, <2>23,
        <2>24, <2>25, <2>26, <2>27, <2>28, <2>29, <2>30, <2>31, <2>32 DEF PairNext
<1>2. QED BY <1>1, PairInductive, PTL DEF PairSpec, ReplacedOrRestored

=============================================================================
