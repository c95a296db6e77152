-------------------------- MODULE CheckpointStore --------------------------
(***************************************************************************)
(* The checkpoint objects of one prefix (pkg/checkpoint/checkpoint.go):    *)
(* immutable blocks named by their hash, and by a generation where the     *)
(* plain name is taken; immutable roots that list blocks; CURRENT, the     *)
(* certified root; PUBLISHER, the claim that publication and maintenance   *)
(* share; and recovery pins.  Several processes work on them, one request  *)
(* at a time, and a lease can run out between any two requests.            *)
(*                                                                         *)
(* A root is [index, gen, blocks], a block [hash, gen] with generation 0   *)
(* for the plain name.  Objects are young or old: old ones are past the    *)
(* grace period of the collector.                                          *)
(***************************************************************************)
EXTENDS Naturals, FiniteSets, FiniteSetsExt

CONSTANTS Publisher, Collector, Recoverer, \* three processes
          Contents,      \* what the files may hold: sets of block hashes
          MaxStoreIndex, \* bound: checkpoint indexes
          KeepRoots,     \* newest roots the collector always keeps
          MaxLeases,     \* bound: leases taken
          MaxStoreFaults \* bound: leases that run out

ASSUME StoreBounds ==
  {MaxStoreIndex, KeepRoots, MaxLeases, MaxStoreFaults} \subseteq Nat

VARIABLES roots, storedBlocks, oldObjects, \* the bucket's immutable objects
          certified,   \* checkpoint/CURRENT
          archiveBase, \* index of the archive's recovery base
          lease,       \* checkpoint/PUBLISHER
          pinned,      \* the recovery pin
          publish,     \* the AutoCheckpointer's progress
          collect,     \* garbageCollect's progress
          recover,     \* the recovering node's progress
          storeFaults

storeVars == <<roots, storedBlocks, oldObjects, certified, archiveBase, lease,
               pinned, publish, collect, recover, storeFaults>>

NoRoot == [index |-> 0, gen |-> 0, blocks |-> {}]
FreeLease == [gen |-> 0, owner |-> Publisher, index |-> 0, live |-> FALSE]

StoreInit ==
  /\ roots = {} /\ storedBlocks = {} /\ oldObjects = {}
  /\ certified = NoRoot /\ archiveBase = 0 /\ lease = FreeLease
  /\ pinned = [root |-> NoRoot, live |-> FALSE]
  /\ publish = [pc |-> "idle", gen |-> 0, root |-> NoRoot]
  /\ collect = [pc |-> "idle", gen |-> 0, pins |-> {}, current |-> NoRoot,
                listed |-> {}, removed |-> {}, floor |-> 0,
                cut |-> {}, doomed |-> {}]
  /\ recover = [pc |-> "idle", gen |-> 0, root |-> NoRoot, missed |-> 0]
  /\ storeFaults = 0

----------------------------------------------------------------------------
(* Leases                                                                  *)

\* acquireClaim: a new generation over a free lease.  Only a publisher's
\* claim carries an index, one above everything it knows of.
LeaseFree == ~lease.live /\ lease.gen < MaxLeases

ClaimedBy(process, index) ==
  [gen |-> lease.gen + 1, owner |-> process, index |-> index, live |-> TRUE]

\* confirmPublisherClaim, validatePublisherLease, validateMaintenanceClaim.
Holds(process, gen) ==
  lease.live /\ lease.owner = process /\ lease.gen = gen

\* ReleasePublisherClaim: ErrPublisherFenced is no error to the caller.
ReleasedBy(process, gen) ==
  IF lease.owner = process /\ lease.gen = gen
  THEN [lease EXCEPT !.live = FALSE] ELSE lease

LeaseExpires ==
  /\ lease.live /\ storeFaults < MaxStoreFaults
  /\ lease' = [lease EXCEPT !.live = FALSE] /\ storeFaults' = storeFaults + 1
  /\ UNCHANGED <<roots, storedBlocks, oldObjects, certified, archiveBase,
                 pinned, publish, collect, recover>>

----------------------------------------------------------------------------
(* Publication                                                             *)

ClaimPublication ==
  LET index == Max({lease.index, certified.index}) + 1 IN
  /\ publish.pc = "idle" /\ LeaseFree /\ index <= MaxStoreIndex
  /\ lease' = ClaimedBy(Publisher, index)
  /\ publish' = [publish EXCEPT !.pc = "upload", !.gen = lease.gen + 1]
  /\ UNCHANGED <<roots, storedBlocks, oldObjects, certified, archiveBase,
                 pinned, collect, recover, storeFaults>>

\* uploadFile: a block CURRENT has is reused, whatever its generation; another
\* goes to its plain name, or to this generation's if that is taken.
UploadedBlock(hash, known, gen) ==
  IF \E block \in known : block.hash = hash
  THEN CHOOSE block \in known : block.hash = hash
  ELSE IF [hash |-> hash, gen |-> 0] \in storedBlocks
       THEN [hash |-> hash, gen |-> gen] ELSE [hash |-> hash, gen |-> 0]

\* createFilesWithScanObserver: the lease is checked, CURRENT read again, and
\* the blocks of the candidate uploaded.
UploadBlocks ==
  /\ publish.pc = "upload" /\ Holds(Publisher, publish.gen)
  /\ \E content \in Contents :
       LET new == {UploadedBlock(h, certified.blocks, publish.gen) : h \in content}
       IN /\ storedBlocks' = storedBlocks \union new
          /\ oldObjects' = oldObjects \ (new \ certified.blocks)
          /\ publish' = [publish EXCEPT !.pc = "root",
               !.root = [index |-> lease.index, gen |-> publish.gen, blocks |-> new]]
  /\ UNCHANGED <<roots, certified, archiveBase, lease, pinned, collect,
                 recover, storeFaults>>

\* uploadCandidate writes the root last, and looks at no lease.
UploadRoot ==
  /\ publish.pc = "root"
  /\ roots' = roots \union {publish.root}
  /\ publish' = [publish EXCEPT !.pc = "seal"]
  /\ UNCHANGED <<storedBlocks, oldObjects, certified, archiveBase, lease,
                 pinned, collect, recover, storeFaults>>

\* PromoteCertifiedCurrent, once the seal is decided: the lease and the root
\* are checked ...
CheckPromotion ==
  /\ publish.pc = "seal" /\ Holds(Publisher, publish.gen) /\ publish.root \in roots
  /\ publish' = [publish EXCEPT !.pc = "promote"]
  /\ UNCHANGED <<roots, storedBlocks, oldObjects, certified, archiveBase,
                 lease, pinned, collect, recover, storeFaults>>

\* ... and CURRENT is swapped, unless it has moved past the candidate.
Promote ==
  /\ publish.pc = "promote"
  /\ certified' = IF certified.index < publish.root.index
                  THEN publish.root ELSE certified
  /\ lease' = ReleasedBy(Publisher, publish.gen)
  /\ publish' = [publish EXCEPT !.pc = "idle", !.gen = 0, !.root = NoRoot]
  /\ UNCHANGED <<roots, storedBlocks, oldObjects, archiveBase, pinned, collect,
                 recover, storeFaults>>

\* ErrPublisherFenced drops the candidate; its objects are left behind.
DropCandidate ==
  /\ publish.pc \in {"upload", "seal"} /\ ~Holds(Publisher, publish.gen)
  /\ publish' = [publish EXCEPT !.pc = "idle", !.gen = 0, !.root = NoRoot]
  /\ UNCHANGED <<roots, storedBlocks, oldObjects, certified, archiveBase,
                 lease, pinned, collect, recover, storeFaults>>

\* compactCertifiedCheckpoint trims the archive to the certified checkpoint.
TrimArchive ==
  /\ archiveBase < certified.index /\ archiveBase' = certified.index
  /\ UNCHANGED <<roots, storedBlocks, oldObjects, certified, lease, pinned,
                 publish, collect, recover, storeFaults>>

\* The grace period passes for everything in the bucket.  It is longer than an
\* upload takes between its first block and its root.
GracePasses ==
  /\ publish.pc # "root" /\ oldObjects # roots \union storedBlocks
  /\ oldObjects' = roots \union storedBlocks
  /\ UNCHANGED <<roots, storedBlocks, certified, archiveBase, lease, pinned,
                 publish, collect, recover, storeFaults>>

----------------------------------------------------------------------------
(* Garbage collection                                                      *)

\* activeRecoveryRoots.
ActiveRoots == IF pinned.live THEN {pinned.root} ELSE {}

\* GarbageCollectFrom takes the maintenance claim; activeRecoveryRoots reads
\* the live pins.  A base is required.
StartCollection ==
  /\ collect.pc = "idle" /\ LeaseFree /\ archiveBase > 0
  /\ lease' = ClaimedBy(Collector, 0)
  /\ collect' = [collect EXCEPT !.pc = "list", !.gen = lease.gen + 1,
       !.pins = ActiveRoots, !.floor = archiveBase]
  /\ recover' = [recover EXCEPT !.missed = IF @ = 1 THEN 2 ELSE @]
  /\ UNCHANGED <<roots, storedBlocks, oldObjects, certified, archiveBase,
                 pinned, publish, storeFaults>>

\* Load and loadAll: CURRENT and the roots there are; then the cutoff is set.
ListRoots ==
  /\ collect.pc = "list"
  /\ collect' = [collect EXCEPT !.pc = "roots", !.current = certified,
                                !.listed = roots, !.cut = oldObjects]
  /\ UNCHANGED <<roots, storedBlocks, oldObjects, certified, archiveBase,
                 lease, pinned, publish, recover, storeFaults>>

Newest(set) == {r \in set : Cardinality({q \in set : q.index > r.index}) < KeepRoots}

\* Roots the pass keeps: named ones, the newest, those from the base on, and
\* the young.
KeptRoots ==
  {r \in collect.listed : \/ r \in collect.pins \union {collect.current}
                          \/ r \in Newest(collect.listed)
                          \/ r.index >= collect.floor \/ r \notin collect.cut}

\* validateMaintenanceClaim, then the delete: the claim may lapse in between.
ApproveRoot ==
  /\ collect.pc = "roots" /\ collect.doomed = {} /\ Holds(Collector, collect.gen)
  /\ \E r \in (collect.listed \ KeptRoots) \ collect.removed :
       collect' = [collect EXCEPT !.doomed = {r}]
  /\ UNCHANGED <<roots, storedBlocks, oldObjects, certified, archiveBase,
                 lease, pinned, publish, recover, storeFaults>>

DeleteRoot ==
  /\ collect.pc = "roots" /\ collect.doomed # {}
  /\ roots' = roots \ collect.doomed /\ oldObjects' = oldObjects \ collect.doomed
  /\ collect' = [collect EXCEPT !.removed = @ \union collect.doomed, !.doomed = {}]
  /\ UNCHANGED <<storedBlocks, certified, archiveBase, lease, pinned, publish,
                 recover, storeFaults>>

\* Mutant: a root that was just deleted no longer holds its blocks.
LiveBlocksOfKept ==
  UNION {r.blocks : r \in KeptRoots \union collect.pins}

\* The blocks of every root the pass has seen, deleted or not, and of the pins.
LiveBlocks ==
  UNION {r.blocks : r \in KeptRoots \union collect.removed \union collect.pins}

RootsDone ==
  /\ collect.pc = "roots" /\ collect.listed \ KeptRoots \subseteq collect.removed
  /\ collect' = [collect EXCEPT !.pc = "blocks", !.listed = KeptRoots]
  /\ UNCHANGED <<roots, storedBlocks, oldObjects, certified, archiveBase,
                 lease, pinned, publish, recover, storeFaults>>

Expired == storedBlocks \intersect oldObjects \intersect collect.cut

ApproveBlock ==
  /\ collect.pc = "blocks" /\ collect.doomed = {} /\ Holds(Collector, collect.gen)
  /\ \E block \in Expired \ LiveBlocks :
       collect' = [collect EXCEPT !.doomed = {block}]
  /\ UNCHANGED <<roots, storedBlocks, oldObjects, certified, archiveBase,
                 lease, pinned, publish, recover, storeFaults>>

DeleteBlock ==
  /\ collect.pc = "blocks" /\ collect.doomed # {}
  /\ storedBlocks' = storedBlocks \ collect.doomed
  /\ oldObjects' = oldObjects \ collect.doomed
  /\ collect' = [collect EXCEPT !.doomed = {}]
  /\ UNCHANGED <<roots, certified, archiveBase, lease, pinned, publish,
                 recover, storeFaults>>

\* The pass ends when it is done, and early when its claim is gone.
EndCollection ==
  /\ collect.doomed = {}
  /\ \/ /\ collect.pc = "blocks"
        /\ Expired \subseteq LiveBlocks
     \/ collect.pc \in {"roots", "blocks"} /\ ~Holds(Collector, collect.gen)
  /\ lease' = ReleasedBy(Collector, collect.gen)
  /\ collect' = [collect EXCEPT !.pc = "idle", !.gen = 0, !.pins = {}, !.current = NoRoot,
                                !.listed = {}, !.removed = {}, !.floor = 0,
                                !.cut = {}]
  /\ recover' = [recover EXCEPT !.missed =
                   IF recover.pc = "pin" /\ @ = 0 THEN 1 ELSE @]
  /\ UNCHANGED <<roots, storedBlocks, oldObjects, certified, archiveBase,
                 pinned, publish, storeFaults>>

----------------------------------------------------------------------------
(* Recovery                                                                *)

\* The recovering node opens CURRENT's root and asks for a pin.
SelectRoot ==
  /\ recover.pc = "idle" /\ certified # NoRoot /\ ~pinned.live /\ LeaseFree
  /\ lease' = ClaimedBy(Recoverer, 0)
  /\ recover' = [recover EXCEPT !.pc = "check", !.gen = lease.gen + 1,
                                !.root = certified]
  /\ UNCHANGED <<roots, storedBlocks, oldObjects, certified, archiveBase,
                 pinned, publish, collect, storeFaults>>

\* PinRecoveryRoot under the claim: the root is still there ...
CheckPinned ==
  /\ recover.pc = "check"
  /\ recover' = IF recover.root \in roots
                THEN [recover EXCEPT !.pc = "pin", !.missed = 0]
                ELSE [recover EXCEPT !.pc = "idle", !.gen = 0, !.root = NoRoot]
  /\ UNCHANGED <<roots, storedBlocks, oldObjects, certified, archiveBase,
                 lease, pinned, publish, collect, storeFaults>>

\* ... and the pin, which carries the root's descriptor, is written.  No lease
\* is looked at again, and a claim lost by now is no error.  The collector rests
\* longer between two passes than the lease of a pin lasts: a pin is not
\* written after one pass has ended and another has begun (missed = 2).
WritePin ==
  /\ recover.pc = "pin" /\ recover.missed < 2
  /\ pinned' = [root |-> recover.root, live |-> TRUE]
  /\ lease' = ReleasedBy(Recoverer, recover.gen)
  /\ recover' = [recover EXCEPT !.pc = "download", !.gen = 0, !.missed = 0]
  /\ UNCHANGED <<roots, storedBlocks, oldObjects, certified, archiveBase,
                 publish, collect, storeFaults>>

\* The pause was longer than the pin's lease: ErrPublisherFenced.
PinTooLate ==
  /\ recover.pc = "pin" /\ recover.missed = 2
  /\ lease' = ReleasedBy(Recoverer, recover.gen)
  /\ recover' = [recover EXCEPT !.pc = "idle", !.gen = 0, !.root = NoRoot, !.missed = 0]
  /\ UNCHANGED <<roots, storedBlocks, oldObjects, certified, archiveBase,
                 pinned, publish, collect, storeFaults>>

\* DownloadAndVerifyRootFiles from the pinned descriptor, then Close.
Downloaded ==
  /\ recover.pc = "download" /\ pinned.live /\ pinned.root.blocks \subseteq storedBlocks
  /\ pinned' = [pinned EXCEPT !.live = FALSE, !.root = NoRoot]
  /\ recover' = [recover EXCEPT !.pc = "idle", !.gen = 0, !.root = NoRoot]
  /\ UNCHANGED <<roots, storedBlocks, oldObjects, certified, archiveBase,
                 lease, publish, collect, storeFaults>>

StoreNext ==
  \/ LeaseExpires
  \/ ClaimPublication \/ UploadBlocks \/ UploadRoot \/ CheckPromotion
  \/ Promote \/ DropCandidate \/ TrimArchive \/ GracePasses
  \/ StartCollection \/ ListRoots \/ ApproveRoot \/ DeleteRoot \/ RootsDone
  \/ ApproveBlock \/ DeleteBlock \/ EndCollection
  \/ SelectRoot \/ CheckPinned \/ WritePin \/ PinTooLate \/ Downloaded

StoreSpec == StoreInit /\ [][StoreNext]_storeVars

----------------------------------------------------------------------------
(* Properties                                                              *)

\* A node that starts can always open CURRENT and read every block of it,
\* whatever stale publishers and collectors have been doing.
CurrentReadable ==
  certified # NoRoot =>
    certified \in roots /\ certified.blocks \subseteq storedBlocks

\* A recovery that has its pin can read every block, even if its root object
\* was deleted by a collector that did not see the pin.
PinReadable == pinned.live => pinned.root.blocks \subseteq storedBlocks

\* A candidate whose publisher still holds the claim is whole once its root is
\* stored: CURRENT would be readable.
CandidateReadable ==
  publish.pc \in {"seal", "promote"} /\ Holds(Publisher, publish.gen) =>
    publish.root \in roots /\ publish.root.blocks \subseteq storedBlocks

\* What the collector may never take away.
StoreReadable == CurrentReadable /\ PinReadable /\ CandidateReadable
=============================================================================
