------------------------ MODULE ObjectStoreProofs ------------------------
(***************************************************************************)
(* What lives in the object store, proved.                                 *)
(*                                                                         *)
(* The checkpoint store, for any contents, indexes, leases and lapses of   *)
(* leases: CURRENT, a pinned root and a candidate whose publisher holds the*)
(* claim can always be read (StoreReadable).                               *)
(*                                                                         *)
(* No lease is looked at between a check and the delete it allows, so the  *)
(* argument is not mutual exclusion.  It is about what a pass of the       *)
(* collector may still do to a root: every root that is stored, or whose   *)
(* blocks are, is Safe from the pass under way.  Its blocks are held by a  *)
(* root or pin the pass has seen, or younger than the pass's cutoff, or    *)
(* were named after the pass lost its claim, when it can approve nothing   *)
(* more.                                                                   *)
(***************************************************************************)
EXTENDS CheckpointStore, Fork, FiniteSetTheorems, TLAPS

Block == [hash : UNION Contents, gen : Nat]
Root == [index : Nat, gen : Nat, blocks : SUBSET Block]

Lease == [gen : Nat, owner : {Publisher, Collector, Recoverer}, index : Nat, live : BOOLEAN]
Publication == [pc : {"idle", "upload", "root", "seal", "promote"}, gen : Nat, root : Root]
Collection == [pc : {"idle", "list", "roots", "blocks"}, gen : Nat, pins : SUBSET Root,
               current : Root, listed : SUBSET Root, removed : SUBSET Root, floor : Nat,
               cut : SUBSET (Root \cup Block), doomed : SUBSET (Root \cup Block)]
Recovery == [pc : {"idle", "check", "pin", "download"}, gen : Nat, root : Root,
             missed : {0, 1, 2}]

StoreTypes ==
    /\ roots \subseteq Root /\ IsFiniteSet(roots) /\ storedBlocks \subseteq Block
    /\ oldObjects \subseteq Root \cup Block
    /\ certified \in Root /\ archiveBase \in Nat
    /\ lease \in Lease /\ pinned \in [root : Root, live : BOOLEAN]
    /\ publish \in Publication /\ collect \in Collection /\ recover \in Recovery

\* Claims have different generations, and a block named by one carries it.
Generations ==
    /\ publish.pc # "idle" => publish.gen <= lease.gen /\ publish.gen > 0
    /\ collect.pc # "idle" => collect.gen <= lease.gen
    /\ publish.pc # "idle" /\ collect.pc # "idle" => publish.gen # collect.gen
    /\ \A b \in storedBlocks : b.gen <= lease.gen
    /\ publish.pc = "upload" => \A b \in storedBlocks : b.gen # publish.gen

\* A candidate is newer than CURRENT, and CURRENT as new as the archive's base,
\* below which alone a pass deletes roots.
Order ==
    /\ archiveBase <= certified.index
    /\ collect.pc # "idle" => collect.floor <= archiveBase
    /\ publish.pc = "upload" /\ lease.gen = publish.gen => lease.index > certified.index
    /\ publish.pc \in {"root", "seal", "promote"} => publish.root.index > certified.index
    /\ collect.pc = "roots" => \A r \in collect.doomed : r \in Root /\ r.index < collect.floor

\* The roots a reader may ask for, now or after their upload.
Named == roots \cup (IF publish.pc = "root" THEN {publish.root} ELSE {})

\* The blocks the pass under way will keep.
Held == UNION {r.blocks : r \in collect.listed \cup collect.removed \cup collect.pins}

\* The pass under way takes no block of a root away.
Safe(r) ==
    /\ collect.pc \in {"roots", "blocks"} =>
          \A b \in r.blocks : b \in Held \/ b \notin collect.cut \/ lease.gen # collect.gen
    /\ collect.pc = "blocks" => r.blocks \cap collect.doomed = {}

Readable(r) == r.blocks \subseteq storedBlocks /\ Safe(r)

Whole ==
    /\ \A r \in Named : Readable(r)
    /\ certified \in roots \/ certified = NoRoot
    /\ publish.pc \in {"seal", "promote"} => publish.root \in roots
    /\ publish.pc = "root" =>
          \A b \in publish.root.blocks : b \in certified.blocks \/ b \notin oldObjects

\* A pass knows what it keeps: at its end the listed roots are the kept ones, and
\* what it is about to delete is still there.
Pass ==
    /\ collect.pc \in {"roots", "blocks"} => IsFiniteSet(collect.listed)
    /\ collect.pc \in {"idle", "list"} => collect.doomed = {} /\ collect.removed = {}
                                          /\ collect.listed = {}
    /\ collect.pc = "roots" =>
          collect.doomed \subseteq (collect.listed \ KeptRoots) \ collect.removed
    /\ collect.pc = "blocks" => /\ KeptRoots = collect.listed
                                /\ collect.doomed \subseteq storedBlocks

\* A root that is about to be pinned was there when the last pass began, and one
\* that is pinned was, or the pass knows the pin.
Pins ==
    /\ recover.missed # 0 => recover.pc = "pin"
    /\ recover.missed = 1 => collect.pc = "idle"
    /\ recover.pc = "pin" /\ recover.missed < 2 => Readable(recover.root)
    /\ recover.pc = "pin" /\ recover.missed = 0 /\ collect.pc \in {"idle", "list"} =>
          recover.root \in roots
    /\ pinned.live => /\ Readable(pinned.root)
                      /\ collect.pc = "list" =>
                            pinned.root \in roots \/ pinned.root \in collect.pins

StoreInv == StoreTypes /\ Generations /\ Order /\ Whole /\ Pass /\ Pins

-----------------------------------------------------------------------------
(* Operators *)

\* A reused or newly named block: one of CURRENT's, or a name that is not taken.
LEMMA UploadedIs ==
    ASSUME NEW h \in UNION Contents, NEW known, known \subseteq Block, NEW gen \in Nat,
           NEW b, b = UploadedBlock(h, known, gen)
    PROVE  /\ b \in Block
           /\ \/ b \in known
              \/ b = [hash |-> h, gen |-> gen]
              \/ b = [hash |-> h, gen |-> 0] /\ b \notin storedBlocks
<1>1. CASE \E block \in known : block.hash = h
  <2>1. b = CHOOSE block \in known : block.hash = h
    BY <1>1 DEF UploadedBlock
  <2>2. b \in known
    BY <1>1, <2>1
  <2>3. b \in Block
    BY <2>2
  <2>4. QED
    BY <2>2, <2>3
<1>2. CASE ~(\E block \in known : block.hash = h)
  BY <1>2 DEF UploadedBlock, Block
<1>3. QED
  BY <1>1, <1>2

\* The index a publisher claims is above CURRENT's.
LEMMA LargerIs ==
    ASSUME NEW i \in Nat, NEW j \in Nat
    PROVE  Max({i, j}) \in Nat /\ Max({i, j}) >= j
<1>1. \E x \in {i, j} : \A y \in {i, j} : x >= y
  OBVIOUS
<1>2. QED
  BY <1>1 DEF Max

\* What is held is held by a root the pass has seen.
LEMMA HeldBy ==
    ASSUME NEW b
    PROVE  b \in Held <=> \E r \in collect.listed \cup collect.removed \cup collect.pins :
                             b \in r.blocks
BY DEF Held

\* Once the roots are done, the kept ones are the newest, named and young of
\* themselves: computing them again gives the same roots.
LEMMA KeptStable ==
    ASSUME StoreTypes, Pass, RootsDone
    PROVE  KeptRoots' = KeptRoots
<1>1. /\ collect'.listed = KeptRoots /\ collect'.pins = collect.pins
      /\ collect'.current = collect.current /\ collect'.floor = collect.floor
      /\ collect'.cut = collect.cut /\ IsFiniteSet(collect.listed)
  BY DEF RootsDone, StoreTypes, Collection, Pass
<1>2. KeptRoots \subseteq collect.listed
  BY DEF KeptRoots
<1>3. ASSUME NEW r \in Newest(collect.listed), r \in KeptRoots PROVE r \in Newest(KeptRoots)
  <2> DEFINE A == {q \in collect.listed : q.index > r.index}
             B == {q \in KeptRoots : q.index > r.index}
  <2>1. IsFiniteSet(A) /\ B \subseteq A
    BY <1>1, <1>2, FS_Subset
  <2>2. Cardinality(B) <= Cardinality(A) /\ IsFiniteSet(B)
    BY <2>1, FS_Subset
  <2>3. Cardinality(A) \in Nat /\ Cardinality(B) \in Nat
    BY <2>1, <2>2, FS_CardinalityType
  <2>4. Cardinality(A) < KeepRoots
    BY <1>3 DEF Newest
  <2>5. Cardinality(B) < KeepRoots
    BY <2>2, <2>3, <2>4, StoreBounds
  <2>6. QED
    BY <1>3, <2>5 DEF Newest
<1>4. KeptRoots' = {r \in KeptRoots : \/ r \in collect.pins \union {collect.current}
                                      \/ r \in Newest(KeptRoots)
                                      \/ r.index >= collect.floor \/ r \notin collect.cut}
  BY <1>1 DEF KeptRoots, Newest
<1>5. ASSUME NEW r \in KeptRoots PROVE r \in KeptRoots'
  <2>1. \/ r \in collect.pins \union {collect.current}
        \/ r \in Newest(collect.listed)
        \/ r.index >= collect.floor \/ r \notin collect.cut
    BY DEF KeptRoots
  <2>2. QED
    BY <1>3, <1>4, <2>1
<1>6. QED
  BY <1>4, <1>5

\* What an upload stores: CURRENT's blocks again, or blocks under new names.
LEMMA Uploads ==
    ASSUME StoreTypes, UploadBlocks
    PROVE  \E new \in SUBSET Block :
              /\ storedBlocks' = storedBlocks \cup new
              /\ oldObjects' = oldObjects \ (new \ certified.blocks)
              /\ publish' = [publish EXCEPT !.pc = "root",
                   !.root = [index |-> lease.index, gen |-> publish.gen, blocks |-> new]]
              /\ \A b \in new : \/ b \in certified.blocks
                                \/ b.gen = publish.gen
                                \/ b.gen = 0 /\ b \notin storedBlocks
<1>1. PICK content \in Contents :
        LET new == {UploadedBlock(h, certified.blocks, publish.gen) : h \in content}
        IN /\ storedBlocks' = storedBlocks \union new
           /\ oldObjects' = oldObjects \ (new \ certified.blocks)
           /\ publish' = [publish EXCEPT !.pc = "root",
                !.root = [index |-> lease.index, gen |-> publish.gen, blocks |-> new]]
  BY DEF UploadBlocks
<1> DEFINE new == {UploadedBlock(h, certified.blocks, publish.gen) : h \in content}
<1>2. certified.blocks \subseteq Block /\ publish.gen \in Nat
  BY DEF StoreTypes, Root, Publication
<1>3. ASSUME NEW b \in new
      PROVE  b \in Block /\ (\/ b \in certified.blocks
                             \/ b.gen = publish.gen
                             \/ b.gen = 0 /\ b \notin storedBlocks)
  <2>1. PICK h \in content : b = UploadedBlock(h, certified.blocks, publish.gen)
    OBVIOUS
  <2>2. h \in UNION Contents
    OBVIOUS
  <2>3. /\ b \in Block
        /\ \/ b \in certified.blocks
           \/ b = [hash |-> h, gen |-> publish.gen]
           \/ b = [hash |-> h, gen |-> 0] /\ b \notin storedBlocks
    BY <1>2, <2>1, <2>2, UploadedIs
  <2>4. QED
    BY <2>3
<1> HIDE DEF new
<1>4. /\ storedBlocks' = storedBlocks \cup new
      /\ oldObjects' = oldObjects \ (new \ certified.blocks)
      /\ publish' = [publish EXCEPT !.pc = "root",
           !.root = [index |-> lease.index, gen |-> publish.gen, blocks |-> new]]
  BY <1>1 DEF new
<1>5. new \in SUBSET Block
  BY <1>3
<1>6. QED
  BY <1>3, <1>4, <1>5

-----------------------------------------------------------------------------
(* Each part of the invariant is kept by each step. *)

\* The state keeps its shape.
LEMMA TypesStep ==
    ASSUME StoreTypes, Pass, StoreNext
    PROVE  StoreTypes'
<1>1. NoRoot \in Root
  BY DEF NoRoot, Root
<1> USE DEF StoreTypes
<1>2. CASE LeaseExpires
  BY <1>2 DEF LeaseExpires, Lease
<1>3. CASE ClaimPublication
  <2> DEFINE m == Max({lease.index, certified.index})
  <2>1. lease.index \in Nat /\ certified.index \in Nat /\ lease.gen + 1 \in Nat
    BY DEF Root, Lease
  <2>2. m \in Nat
    BY <2>1, LargerIs
  <2>3. /\ lease' = [gen |-> lease.gen + 1, owner |-> Publisher, index |-> m + 1, live |-> TRUE]
        /\ publish' = [publish EXCEPT !.pc = "upload", !.gen = lease.gen + 1]
        /\ UNCHANGED <<roots, storedBlocks, oldObjects, certified, archiveBase,
                       pinned, collect, recover>>
    BY <1>3 DEF ClaimPublication, ClaimedBy
  <2> HIDE DEF m
  <2>4. lease' \in Lease
    BY <2>1, <2>2, <2>3 DEF Lease
  <2>5. publish' \in Publication
    BY <2>1, <2>3 DEF Publication
  <2>6. QED
    BY <2>3, <2>4, <2>5
<1>4. CASE UploadBlocks
  <2>1. PICK new \in SUBSET Block :
              /\ storedBlocks' = storedBlocks \cup new
              /\ oldObjects' = oldObjects \ (new \ certified.blocks)
              /\ publish' = [publish EXCEPT !.pc = "root",
                   !.root = [index |-> lease.index, gen |-> publish.gen, blocks |-> new]]
    BY <1>4, Uploads
  <2>2. [index |-> lease.index, gen |-> publish.gen, blocks |-> new] \in Root
    BY <2>1 DEF Root, Lease, Publication
  <2>3. publish' \in Publication
    BY <2>1, <2>2 DEF Publication
  <2>4. UNCHANGED <<roots, certified, archiveBase, lease, pinned, collect, recover>>
    BY <1>4 DEF UploadBlocks
  <2>5. QED
    BY <2>1, <2>3, <2>4
<1>5. CASE UploadRoot
  <2>1. IsFiniteSet(roots') /\ roots' \subseteq Root
    BY <1>5, FS_AddElement DEF UploadRoot, Publication
  <2>2. QED
    BY <1>5, <2>1 DEF UploadRoot, Publication
<1>6. CASE CheckPromotion
  BY <1>6 DEF CheckPromotion, Publication
<1>7. CASE Promote
  BY <1>1, <1>7 DEF Promote, ReleasedBy, Publication, Lease
<1>8. CASE DropCandidate
  BY <1>1, <1>8 DEF DropCandidate, Publication
<1>9. CASE TrimArchive
  BY <1>9 DEF TrimArchive, Root
<1>10. CASE GracePasses
  BY <1>10 DEF GracePasses
<1>11. CASE StartCollection
  <2>1. ActiveRoots \in SUBSET Root /\ lease.gen + 1 \in Nat
    BY DEF ActiveRoots, Lease
  <2>2. collect' \in Collection
    BY <1>11, <2>1 DEF StartCollection, Collection
  <2>3. lease' \in Lease
    BY <1>11, <2>1 DEF StartCollection, ClaimedBy, Lease
  <2>4. recover' \in Recovery
    BY <1>11 DEF StartCollection, Recovery
  <2>5. QED
    BY <1>11, <2>2, <2>3, <2>4 DEF StartCollection
<1>12. CASE ListRoots
  BY <1>12 DEF ListRoots, Collection
<1>13. CASE ApproveRoot
  BY <1>13 DEF ApproveRoot, Collection
<1>14. CASE DeleteRoot
  <2>1. collect.doomed \subseteq collect.listed
    BY <1>14 DEF DeleteRoot, Pass
  <2>2. IsFiniteSet(roots') /\ roots' \subseteq Root
    BY <1>14, FS_Subset DEF DeleteRoot
  <2>3. collect' \in Collection
    BY <1>14, <2>1 DEF DeleteRoot, Collection
  <2>4. QED
    BY <1>14, <2>2, <2>3 DEF DeleteRoot
<1>15. CASE RootsDone
  BY <1>15 DEF RootsDone, KeptRoots, Collection
<1>16. CASE ApproveBlock
  BY <1>16 DEF ApproveBlock, Expired, Collection
<1>17. CASE DeleteBlock
  BY <1>17 DEF DeleteBlock, Collection
<1>18. CASE EndCollection
  <2>1. collect' \in Collection
    BY <1>1, <1>18 DEF EndCollection, Collection
  <2>2. lease' \in Lease
    BY <1>18 DEF EndCollection, ReleasedBy, Lease
  <2>3. recover' \in Recovery
    BY <1>18 DEF EndCollection, Recovery
  <2>4. QED
    BY <1>18, <2>1, <2>2, <2>3 DEF EndCollection
<1>19. CASE SelectRoot
  <2>1. lease.gen + 1 \in Nat
    BY DEF Lease
  <2>2. lease' \in Lease
    BY <1>19, <2>1 DEF SelectRoot, ClaimedBy, Lease
  <2>3. recover' \in Recovery
    BY <1>19, <2>1 DEF SelectRoot, Recovery
  <2>4. QED
    BY <1>19, <2>2, <2>3 DEF SelectRoot
<1>20. CASE CheckPinned
  BY <1>1, <1>20 DEF CheckPinned, Recovery
<1>21. CASE WritePin
  BY <1>21 DEF WritePin, ReleasedBy, Lease, Recovery
<1>22. CASE PinTooLate
  BY <1>1, <1>22 DEF PinTooLate, ReleasedBy, Lease, Recovery
<1>23. CASE Downloaded
  BY <1>1, <1>23 DEF Downloaded, Recovery
<1>24. QED
  BY <1>2, <1>3, <1>4, <1>5, <1>6, <1>7, <1>8, <1>9, <1>10, <1>11, <1>12, <1>13, <1>14,
     <1>15, <1>16, <1>17, <1>18, <1>19, <1>20, <1>21, <1>22, <1>23 DEF StoreNext

\* The facts about types that the next lemmas use.
LEMMA Fields ==
    ASSUME StoreTypes
    PROVE  /\ lease.gen \in Nat /\ lease.index \in Nat
           /\ publish.gen \in Nat /\ publish.root \in Root /\ publish.root.index \in Nat
           /\ collect.gen \in Nat /\ collect.floor \in Nat
           /\ certified.index \in Nat /\ archiveBase \in Nat
           /\ \A r \in Root : r.index \in Nat /\ r.blocks \subseteq Block
           /\ \A b \in Block : b.gen \in Nat
BY DEF StoreTypes, Lease, Publication, Collection, Root, Block

\* Who changes the lease: a claim takes the next generation, nothing goes back.
LEMMA LeaseStep ==
    ASSUME StoreTypes, StoreNext
    PROVE  \/ lease'.gen = lease.gen /\ lease'.index = lease.index
           \/ lease'.gen = lease.gen + 1 /\ (ClaimPublication \/ StartCollection \/ SelectRoot)
<1>1. CASE LeaseExpires \/ Promote \/ EndCollection \/ WritePin \/ PinTooLate
  BY <1>1 DEF LeaseExpires, Promote, EndCollection, WritePin, PinTooLate, ReleasedBy,
              StoreTypes, Lease
<1>2. CASE ClaimPublication \/ StartCollection \/ SelectRoot
  BY <1>2 DEF ClaimPublication, StartCollection, SelectRoot, ClaimedBy
<1>3. CASE lease' = lease
  BY <1>3
<1>4. CASE UploadBlocks \/ UploadRoot \/ CheckPromotion \/ DropCandidate \/ TrimArchive
  BY <1>3, <1>4 DEF UploadBlocks, UploadRoot, CheckPromotion, DropCandidate, TrimArchive
<1>5. CASE GracePasses \/ ListRoots \/ ApproveRoot \/ DeleteRoot \/ RootsDone \/ ApproveBlock
  BY <1>3, <1>5 DEF GracePasses, ListRoots, ApproveRoot, DeleteRoot, RootsDone, ApproveBlock
<1>6. CASE DeleteBlock \/ CheckPinned \/ Downloaded
  BY <1>3, <1>6 DEF DeleteBlock, CheckPinned, Downloaded
<1>7. QED
  BY <1>1, <1>2, <1>4, <1>5, <1>6 DEF StoreNext

\* The steps that change neither the publisher's nor the collector's progress.
Aside == LeaseExpires \/ TrimArchive \/ GracePasses \/ SelectRoot \/ CheckPinned \/ WritePin
            \/ PinTooLate \/ Downloaded

\* They leave roots, blocks and CURRENT alone.
LEMMA AsideKeeps ==
    ASSUME Aside
    PROVE  UNCHANGED <<publish, collect, storedBlocks, roots, certified>>
BY DEF Aside, LeaseExpires, TrimArchive, GracePasses, SelectRoot, CheckPinned, WritePin,
       PinTooLate, Downloaded

\* The publisher's steps after its claim, the upload of blocks apart.
Publishing == UploadRoot \/ CheckPromotion \/ Promote \/ DropCandidate

\* They store no block and leave the collector alone.
LEMMA PublishingKeeps ==
    ASSUME StoreTypes, Publishing
    PROVE  /\ UNCHANGED <<storedBlocks, oldObjects, archiveBase, collect, pinned, recover>>
           /\ publish.pc # "idle" /\ publish'.pc # "upload"
           /\ publish'.pc # "idle" => publish'.gen = publish.gen /\ publish'.root = publish.root
BY DEF Publishing, UploadRoot, CheckPromotion, Promote, DropCandidate, StoreTypes, Publication

\* The collector's steps after its claim.
Collecting == ListRoots \/ ApproveRoot \/ DeleteRoot \/ RootsDone \/ ApproveBlock \/ DeleteBlock
                 \/ EndCollection

\* They store nothing and leave the publisher alone.
LEMMA CollectingKeeps ==
    ASSUME StoreTypes, Collecting
    PROVE  /\ UNCHANGED <<publish, certified, archiveBase, pinned>>
           /\ storedBlocks' \subseteq storedBlocks /\ oldObjects' \subseteq oldObjects
           /\ roots' \subseteq roots
           /\ collect'.pc # "idle" => /\ collect.pc # "idle" /\ collect'.gen = collect.gen
                                      /\ collect'.floor = collect.floor
                                      /\ collect'.pins = collect.pins
<1>1. CASE ListRoots \/ ApproveRoot \/ DeleteRoot
  BY <1>1 DEF ListRoots, ApproveRoot, DeleteRoot, StoreTypes, Collection
<1>2. CASE RootsDone \/ ApproveBlock \/ DeleteBlock
  BY <1>2 DEF RootsDone, ApproveBlock, DeleteBlock, StoreTypes, Collection
<1>3. CASE EndCollection
  BY <1>3 DEF EndCollection, StoreTypes, Collection
<1>4. QED
  BY <1>1, <1>2, <1>3 DEF Collecting

\* Every step is of one of these kinds.
LEMMA Kinds ==
    ASSUME StoreNext
    PROVE  Aside \/ ClaimPublication \/ UploadBlocks \/ Publishing \/ StartCollection \/ Collecting
BY DEF StoreNext, Aside, Publishing, Collecting

\* CURRENT is whole.
LEMMA CurrentStored ==
    ASSUME Whole
    PROVE  certified.blocks \subseteq storedBlocks
BY DEF Whole, Named, Readable, NoRoot

\* Generations stay apart.
LEMMA GenerationsStep ==
    ASSUME StoreTypes, Generations, Whole, StoreNext
    PROVE  Generations'
<1>1. /\ lease.gen \in Nat /\ publish.gen \in Nat /\ collect.gen \in Nat
      /\ \A b \in storedBlocks : b.gen \in Nat
      /\ lease'.gen = lease.gen \/ lease'.gen = lease.gen + 1
  BY Fields, LeaseStep DEF StoreTypes
<1>2. CASE Aside
  BY <1>1, <1>2, AsideKeeps DEF Generations
<1>3. CASE ClaimPublication
  BY <1>1, <1>3 DEF ClaimPublication, ClaimedBy, Generations, StoreTypes, Publication
<1>4. CASE UploadBlocks
  <2>1. PICK new \in SUBSET Block :
              /\ storedBlocks' = storedBlocks \cup new
              /\ publish' = [publish EXCEPT !.pc = "root",
                   !.root = [index |-> lease.index, gen |-> publish.gen, blocks |-> new]]
              /\ \A b \in new : \/ b \in certified.blocks
                                \/ b.gen = publish.gen
                                \/ b.gen = 0 /\ b \notin storedBlocks
    BY <1>4, Uploads
  <2>2. publish'.pc = "root" /\ publish'.gen = publish.gen /\ publish.pc = "upload"
    BY <1>4, <2>1 DEF UploadBlocks, StoreTypes, Publication
  <2>3. UNCHANGED <<lease, collect>>
    BY <1>4 DEF UploadBlocks
  <2>4. ASSUME NEW b \in new PROVE b.gen <= lease.gen
    <3>1. CASE b \in certified.blocks
      BY <3>1, CurrentStored DEF Generations
    <3>2. QED
      BY <1>1, <2>1, <2>2, <3>1 DEF Generations
  <2>5. QED
    BY <2>1, <2>2, <2>3, <2>4 DEF Generations
<1>5. CASE Publishing
  BY <1>1, <1>5, PublishingKeeps DEF Generations
<1>6. CASE StartCollection
  BY <1>1, <1>6 DEF StartCollection, ClaimedBy, Generations, StoreTypes, Collection
<1>7. CASE Collecting
  BY <1>1, <1>7, CollectingKeeps DEF Generations
<1>8. QED
  BY <1>2, <1>3, <1>4, <1>5, <1>6, <1>7, Kinds

\* Candidates stay ahead of CURRENT, and CURRENT of what a pass may delete.
LEMMA OrderStep ==
    ASSUME StoreTypes, Generations, Order, Pass, StoreNext
    PROVE  Order'
<1>1. /\ lease.gen \in Nat /\ lease.index \in Nat /\ publish.gen \in Nat /\ archiveBase \in Nat
      /\ certified.index \in Nat /\ publish.root.index \in Nat /\ collect.floor \in Nat
      /\ \/ lease'.gen = lease.gen /\ lease'.index = lease.index
         \/ lease'.gen = lease.gen + 1 /\ (ClaimPublication \/ StartCollection \/ SelectRoot)
  BY Fields, LeaseStep
<1>2. ASSUME UNCHANGED <<publish, certified>>
      PROVE  /\ publish'.pc = "upload" /\ lease'.gen = publish'.gen => lease'.index > certified'.index
             /\ publish'.pc \in {"root", "seal", "promote"} => publish'.root.index > certified'.index
  <2>1. CASE lease'.gen = lease.gen /\ lease'.index = lease.index
    BY <1>2, <2>1 DEF Order
  <2>2. CASE lease'.gen = lease.gen + 1 /\ publish.pc = "upload"
    BY <1>1, <1>2, <2>2 DEF Order, Generations
  <2>3. QED
    BY <1>1, <1>2, <2>1, <2>2 DEF Order
<1>3. CASE Aside
  <2>1. UNCHANGED <<publish, collect, certified>>
    BY <1>3, AsideKeeps
  <2>2. \/ archiveBase' = archiveBase
        \/ archiveBase' = certified.index /\ archiveBase < certified.index
    BY <1>3 DEF Aside, LeaseExpires, TrimArchive, GracePasses, SelectRoot, CheckPinned, WritePin,
                PinTooLate, Downloaded
  <2>3. QED
    BY <1>1, <1>2, <2>1, <2>2 DEF Order
<1>4. CASE ClaimPublication
  <2> DEFINE m == Max({lease.index, certified.index})
  <2>1. m \in Nat /\ m >= certified.index
    BY <1>1, LargerIs
  <2>2. /\ lease' = [gen |-> lease.gen + 1, owner |-> Publisher, index |-> m + 1, live |-> TRUE]
        /\ publish'.pc = "upload"
        /\ UNCHANGED <<certified, archiveBase, collect>>
    BY <1>4 DEF ClaimPublication, ClaimedBy, StoreTypes, Publication
  <2> HIDE DEF m
  <2>3. lease'.index > certified'.index
    BY <1>1, <2>1, <2>2
  <2>4. QED
    BY <2>2, <2>3 DEF Order
<1>5. CASE UploadBlocks
  <2>1. PICK new \in SUBSET Block :
          publish' = [publish EXCEPT !.pc = "root",
                   !.root = [index |-> lease.index, gen |-> publish.gen, blocks |-> new]]
    BY <1>5, Uploads
  <2>2. publish'.pc = "root" /\ publish'.root.index = lease.index
    BY <2>1 DEF StoreTypes, Publication
  <2>3. /\ publish.pc = "upload" /\ lease.gen = publish.gen
        /\ UNCHANGED <<certified, archiveBase, collect, lease>>
    BY <1>5 DEF UploadBlocks, Holds
  <2>4. QED
    BY <2>2, <2>3 DEF Order
<1>6. CASE Publishing
  <2>1. /\ UNCHANGED <<archiveBase, collect>> /\ publish.pc # "idle" /\ publish'.pc # "upload"
        /\ publish'.pc # "idle" => publish'.root = publish.root
    BY <1>6, PublishingKeeps
  <2>2. CASE Promote
    <3>1. certified'.index >= certified.index /\ publish'.pc = "idle" /\ certified'.index \in Nat
      BY <1>1, <2>2 DEF Promote, StoreTypes, Publication
    <3>2. QED
      BY <1>1, <2>1, <3>1 DEF Order
  <2>3. CASE ~Promote
    <3>1. certified' = certified /\ (publish.pc \in {"root", "seal"} \/ publish'.pc = "idle")
      BY <1>6, <2>3 DEF Publishing, UploadRoot, CheckPromotion, DropCandidate, StoreTypes,
          Publication
    <3>2. QED
      BY <1>1, <2>1, <3>1 DEF Order
  <2>4. QED
    BY <2>2, <2>3
<1>7. CASE StartCollection
  <2>1. /\ UNCHANGED <<publish, certified, archiveBase>> /\ collect'.pc = "list"
        /\ collect'.floor = archiveBase
    BY <1>7 DEF StartCollection, StoreTypes, Collection
  <2>2. QED
    BY <1>1, <1>2, <2>1 DEF Order
<1>8. CASE Collecting
  <2>1. /\ UNCHANGED <<publish, certified, archiveBase>>
        /\ collect'.pc # "idle" => collect.pc # "idle" /\ collect'.floor = collect.floor
    BY <1>8, CollectingKeeps
  <2>2. collect'.pc = "roots" => \A r \in collect'.doomed : r \in Root /\ r.index < collect'.floor
    <3>1. CASE ListRoots
      BY <3>1 DEF ListRoots, Pass, StoreTypes, Collection
    <3>2. CASE ApproveRoot
      <4>1. PICK r \in (collect.listed \ KeptRoots) \ collect.removed :
              collect' = [collect EXCEPT !.doomed = {r}]
        BY <3>2 DEF ApproveRoot
      <4>2. r \in Root /\ ~(r.index >= collect.floor)
        BY <4>1 DEF KeptRoots, StoreTypes, Collection
      <4>3. r.index \in Nat
        BY <4>2, Fields
      <4>4. QED
        BY <1>1, <4>1, <4>2, <4>3 DEF StoreTypes, Collection
    <3>3. CASE DeleteRoot
      BY <3>3 DEF DeleteRoot, StoreTypes, Collection
    <3>4. CASE RootsDone \/ ApproveBlock \/ DeleteBlock
      BY <3>4 DEF RootsDone, ApproveBlock, DeleteBlock, StoreTypes, Collection
    <3>5. CASE EndCollection
      BY <3>5 DEF EndCollection, StoreTypes, Collection
    <3>6. QED
      BY <1>8, <3>1, <3>2, <3>3, <3>4, <3>5 DEF Collecting
  <2>3. QED
    BY <1>1, <1>2, <2>1, <2>2 DEF Order
<1>9. QED
  BY <1>3, <1>4, <1>5, <1>6, <1>7, <1>8, Kinds

\* What is kept depends on what the pass has read.
LEMMA SameKept ==
    ASSUME collect'.listed = collect.listed, collect'.pins = collect.pins,
           collect'.current = collect.current, collect'.floor = collect.floor,
           collect'.cut = collect.cut
    PROVE  KeptRoots' = KeptRoots
BY DEF KeptRoots, Newest

\* When the roots are done, none of them is about to be deleted.
LEMMA NoneDoomed ==
    ASSUME StoreTypes, Pass, RootsDone
    PROVE  collect.doomed = {}
BY DEF Pass, RootsDone

\* A pass knows what it keeps.
LEMMA PassStep ==
    ASSUME StoreTypes, Pass, StoreNext
    PROVE  Pass'
<1>1. ASSUME collect' = collect, storedBlocks \subseteq storedBlocks' PROVE Pass'
  <2>1. KeptRoots' = KeptRoots
    BY <1>1, SameKept
  <2>2. QED
    BY <1>1, <2>1 DEF Pass
<1>2. CASE Aside
  BY <1>1, <1>2, AsideKeeps
<1>3. CASE ClaimPublication
  BY <1>1, <1>3 DEF ClaimPublication
<1>4. CASE UploadBlocks
  <2>1. storedBlocks \subseteq storedBlocks'
    BY <1>4, Uploads
  <2>2. QED
    BY <1>1, <1>4, <2>1 DEF UploadBlocks
<1>5. CASE Publishing
  BY <1>1, <1>5, PublishingKeeps
<1>6. CASE StartCollection
  BY <1>6 DEF StartCollection, Pass, StoreTypes, Collection
<1>7. CASE ListRoots
  <2>1. /\ collect'.pc = "roots" /\ collect'.listed = roots /\ collect'.doomed = {}
    BY <1>7 DEF ListRoots, Pass, StoreTypes, Collection
  <2>2. QED
    BY <2>1 DEF Pass, StoreTypes
<1>8. CASE ApproveRoot
  <2>1. PICK r \in (collect.listed \ KeptRoots) \ collect.removed :
              collect' = [collect EXCEPT !.doomed = {r}]
    BY <1>8 DEF ApproveRoot
  <2>2. /\ collect'.pc = "roots" /\ collect.pc = "roots" /\ collect'.doomed = {r}
        /\ collect'.listed = collect.listed /\ collect'.removed = collect.removed
        /\ collect'.pins = collect.pins /\ collect'.current = collect.current
        /\ collect'.floor = collect.floor /\ collect'.cut = collect.cut
    BY <1>8, <2>1 DEF ApproveRoot, StoreTypes, Collection
  <2>3. KeptRoots' = KeptRoots
    BY <2>2, SameKept
  <2>4. QED
    BY <2>1, <2>2, <2>3 DEF Pass
<1>9. CASE DeleteRoot
  <2>1. /\ collect'.pc = "roots" /\ collect.pc = "roots" /\ collect'.doomed = {}
        /\ collect'.listed = collect.listed
    BY <1>9 DEF DeleteRoot, StoreTypes, Collection
  <2>2. QED
    BY <2>1 DEF Pass
<1>10. CASE RootsDone
  <2>1. /\ collect'.pc = "blocks" /\ collect.pc = "roots" /\ collect'.listed = KeptRoots
        /\ collect'.doomed = {}
    BY <1>10, NoneDoomed DEF RootsDone, StoreTypes, Collection
  <2>2. KeptRoots' = collect'.listed
    BY <1>10, <2>1, KeptStable
  <2>3. IsFiniteSet(collect'.listed)
    BY <2>1, FS_Subset DEF Pass, KeptRoots
  <2>4. QED
    BY <2>1, <2>2, <2>3 DEF Pass
<1>11. CASE ApproveBlock \/ DeleteBlock
  <2>1. /\ collect'.pc = "blocks" /\ collect.pc = "blocks"
        /\ collect'.listed = collect.listed /\ collect'.removed = collect.removed
        /\ collect'.pins = collect.pins /\ collect'.current = collect.current
        /\ collect'.floor = collect.floor /\ collect'.cut = collect.cut
        /\ collect'.doomed \subseteq storedBlocks'
    <3>1. CASE ApproveBlock
      BY <3>1 DEF ApproveBlock, Expired, StoreTypes, Collection
    <3>2. CASE DeleteBlock
      BY <3>2 DEF DeleteBlock, StoreTypes, Collection
    <3>3. QED
      BY <1>11, <3>1, <3>2
  <2>2. KeptRoots' = KeptRoots
    BY <2>1, SameKept
  <2>3. QED
    BY <2>1, <2>2 DEF Pass
<1>12. CASE EndCollection
  BY <1>12 DEF EndCollection, Pass, StoreTypes, Collection
<1>13. QED
  BY <1>2, <1>3, <1>4, <1>5, <1>6, <1>7, <1>8, <1>9, <1>10, <1>11, <1>12, Kinds DEF Collecting

-----------------------------------------------------------------------------
(* The main point: what is readable stays readable. *)

\* A readable root stays readable, if the pass that begins to list roots finds it
\* or one that has its blocks: no delete, however late, takes a block of it.
LEMMA StaysReadable ==
    ASSUME StoreTypes, Generations, Pass, StoreNext, NEW r, Readable(r),
           ListRoots => \A b \in r.blocks : \/ \E q \in roots \cup collect.pins : b \in q.blocks
                                            \/ b \notin oldObjects
    PROVE  Readable(r)'
<1>1. /\ lease.gen \in Nat /\ collect.gen \in Nat
      /\ collect.pc # "idle" => collect.gen <= lease.gen
      /\ lease'.gen = lease.gen \/ lease'.gen = lease.gen + 1
  BY Fields, LeaseStep DEF Generations
<1>2. ASSUME collect' = collect, storedBlocks \subseteq storedBlocks' PROVE Readable(r)'
  <2>1. Held' = Held
    BY <1>2 DEF Held
  <2>2. collect.pc \in {"roots", "blocks"} /\ lease.gen # collect.gen => lease'.gen # collect.gen
    BY <1>1
  <2>3. collect.pc \in {"roots", "blocks"} => \A b \in r.blocks :
           b \in Held' \/ b \notin collect'.cut \/ lease'.gen # collect'.gen
    BY <1>2, <2>1, <2>2 DEF Readable, Safe
  <2>4. QED
    BY <1>2, <2>3 DEF Readable, Safe
<1>3. CASE Aside
  BY <1>2, <1>3, AsideKeeps
<1>4. CASE ClaimPublication
  BY <1>2, <1>4 DEF ClaimPublication
<1>5. CASE UploadBlocks
  <2>1. storedBlocks \subseteq storedBlocks'
    BY <1>5, Uploads
  <2>2. QED
    BY <1>2, <1>5, <2>1 DEF UploadBlocks
<1>6. CASE Publishing
  BY <1>2, <1>6, PublishingKeeps
<1>7. CASE StartCollection
  BY <1>7 DEF StartCollection, Readable, Safe, StoreTypes, Collection
<1>8. CASE ListRoots
  <2>1. /\ collect'.pc = "roots" /\ collect'.listed = roots /\ collect'.pins = collect.pins
        /\ collect'.cut = oldObjects /\ storedBlocks' = storedBlocks
    BY <1>8 DEF ListRoots, StoreTypes, Collection
  <2>2. ASSUME NEW b, NEW q \in roots \cup collect.pins, b \in q.blocks PROVE b \in Held'
    BY <2>1, <2>2 DEF Held
  <2>3. \A b \in r.blocks : b \in Held' \/ b \notin collect'.cut
    BY <1>8, <2>1, <2>2
  <2>4. QED
    BY <2>1, <2>3 DEF Readable, Safe
<1>9. CASE ApproveRoot
  <2>1. /\ collect'.pc = "roots" /\ collect.pc = "roots" /\ storedBlocks' = storedBlocks
        /\ collect'.listed = collect.listed /\ collect'.removed = collect.removed
        /\ collect'.pins = collect.pins /\ collect'.cut = collect.cut
        /\ collect'.gen = collect.gen /\ lease' = lease
    BY <1>9 DEF ApproveRoot, StoreTypes, Collection
  <2>2. Held' = Held
    BY <2>1 DEF Held
  <2>3. QED
    BY <2>1, <2>2 DEF Readable, Safe
<1>10. CASE DeleteRoot
  <2>1. /\ collect'.pc = "roots" /\ collect.pc = "roots" /\ storedBlocks' = storedBlocks
        /\ collect'.listed = collect.listed /\ collect.removed \subseteq collect'.removed
        /\ collect'.pins = collect.pins /\ collect'.cut = collect.cut
        /\ collect'.gen = collect.gen /\ lease' = lease
    BY <1>10 DEF DeleteRoot, StoreTypes, Collection
  <2>2. Held \subseteq Held'
    BY <2>1 DEF Held
  <2>3. QED
    BY <2>1, <2>2 DEF Readable, Safe
<1>11. CASE RootsDone
  <2>1. /\ collect'.pc = "blocks" /\ collect.pc = "roots" /\ storedBlocks' = storedBlocks
        /\ collect.listed \subseteq collect'.listed \cup collect'.removed
        /\ collect'.removed = collect.removed
        /\ collect'.pins = collect.pins /\ collect'.cut = collect.cut
        /\ collect'.gen = collect.gen /\ lease' = lease
        /\ collect'.doomed = {}
    BY <1>11, NoneDoomed DEF RootsDone, StoreTypes, Collection
  <2>2. Held \subseteq Held'
    BY <2>1 DEF Held
  <2>3. QED
    BY <2>1, <2>2 DEF Readable, Safe
<1>12. CASE ApproveBlock
  <2>1. PICK block \in Expired \ LiveBlocks : collect' = [collect EXCEPT !.doomed = {block}]
    BY <1>12 DEF ApproveBlock
  <2>2. /\ collect'.pc = "blocks" /\ collect.pc = "blocks" /\ storedBlocks' = storedBlocks
        /\ collect'.listed = collect.listed /\ collect'.removed = collect.removed
        /\ collect'.pins = collect.pins /\ collect'.cut = collect.cut
        /\ collect'.gen = collect.gen /\ lease' = lease /\ collect'.doomed = {block}
        /\ lease.gen = collect.gen
    BY <1>12, <2>1 DEF ApproveBlock, Holds, StoreTypes, Collection
  <2>3. Held' = Held
    BY <2>2 DEF Held
  <2>4. LiveBlocks = Held
    BY <2>2 DEF LiveBlocks, Held, Pass
  <2>5. block \notin r.blocks
    BY <2>1, <2>2, <2>4 DEF Readable, Safe, Expired
  <2>6. QED
    BY <2>2, <2>3, <2>5 DEF Readable, Safe
<1>13. CASE DeleteBlock
  <2>1. /\ collect'.pc = "blocks" /\ collect.pc = "blocks"
        /\ storedBlocks' = storedBlocks \ collect.doomed
        /\ collect'.listed = collect.listed /\ collect'.removed = collect.removed
        /\ collect'.pins = collect.pins /\ collect'.cut = collect.cut
        /\ collect'.gen = collect.gen /\ lease' = lease /\ collect'.doomed = {}
    BY <1>13 DEF DeleteBlock, StoreTypes, Collection
  <2>2. Held' = Held
    BY <2>1 DEF Held
  <2>3. QED
    BY <2>1, <2>2 DEF Readable, Safe
<1>14. CASE EndCollection
  BY <1>14 DEF EndCollection, Readable, Safe, StoreTypes, Collection
<1>15. QED
  BY <1>3, <1>4, <1>5, <1>6, <1>7, <1>8, <1>9, <1>10, <1>11, <1>12, <1>13, <1>14, Kinds
     DEF Collecting

\* What is stored or about to be is whole: a new candidate has the blocks of CURRENT
\* or blocks that the pass cannot name; CURRENT and the candidate are too new to be
\* deleted.
LEMMA WholeStep ==
    ASSUME StoreTypes, Generations, Order, Whole, Pass, StoreNext
    PROVE  Whole'
<1>1. ASSUME NEW r \in Named PROVE Readable(r)'
  <2>1. Readable(r)
    BY DEF Whole
  <2>2. ASSUME NEW b \in r.blocks
        PROVE  (\E q \in roots \cup collect.pins : b \in q.blocks) \/ b \notin oldObjects
    <3>1. CASE r \in roots
      BY <3>1
    <3>2. CASE b \in certified.blocks
      BY <3>2 DEF Whole, NoRoot
    <3>3. QED
      BY <3>1, <3>2 DEF Whole, Named
  <2>3. QED
    BY <2>1, <2>2, StaysReadable
<1>2. /\ certified.index \in Nat /\ archiveBase \in Nat /\ collect.floor \in Nat
      /\ publish.root.index \in Nat
  BY Fields
<1>3. ASSUME roots \subseteq roots', certified' = certified, publish' = publish,
             roots' \subseteq Named, oldObjects' \subseteq oldObjects \/ publish.pc # "root"
      PROVE  Whole'
  <2>1. Named' \subseteq Named
    BY <1>3 DEF Named
  <2>2. QED
    BY <1>1, <1>3, <2>1 DEF Whole
<1>4. CASE Aside
  <2>1. UNCHANGED <<roots, certified, publish>>
    BY <1>4, AsideKeeps
  <2>2. oldObjects' = oldObjects \/ publish.pc # "root"
    BY <1>4 DEF Aside, LeaseExpires, TrimArchive, GracePasses, SelectRoot, CheckPinned, WritePin,
                PinTooLate, Downloaded
  <2>3. QED
    BY <1>3, <2>1, <2>2 DEF Named
<1>5. CASE ClaimPublication
  <2>1. /\ UNCHANGED <<roots, certified>> /\ publish'.pc = "upload"
    BY <1>5 DEF ClaimPublication, StoreTypes, Publication
  <2>2. Named' \subseteq Named
    BY <2>1 DEF Named
  <2>3. QED
    BY <1>1, <2>1, <2>2 DEF Whole
<1>6. CASE UploadBlocks
  <2>1. PICK new \in SUBSET Block :
              /\ storedBlocks' = storedBlocks \cup new
              /\ oldObjects' = oldObjects \ (new \ certified.blocks)
              /\ publish' = [publish EXCEPT !.pc = "root",
                   !.root = [index |-> lease.index, gen |-> publish.gen, blocks |-> new]]
              /\ \A b \in new : \/ b \in certified.blocks
                                \/ b.gen = publish.gen
                                \/ b.gen = 0 /\ b \notin storedBlocks
    BY <1>6, Uploads
  <2>2. publish'.pc = "root" /\ publish'.root.blocks = new
    BY <2>1 DEF StoreTypes, Publication
  <2>3. /\ publish.pc = "upload" /\ lease.gen = publish.gen
        /\ UNCHANGED <<roots, certified, lease, collect>>
    BY <1>6 DEF UploadBlocks, Holds
  <2>4. collect.pc # "idle" => lease.gen # collect.gen
    BY <2>3 DEF Generations
  <2>5. ASSUME NEW b \in new, collect.pc = "blocks" PROVE b \notin collect.doomed
    <3>1. CASE b \in certified.blocks
      BY <2>5, <3>1 DEF Whole, Named, Readable, Safe, NoRoot
    <3>2. CASE b.gen = publish.gen
      BY <2>3, <2>5, <3>2 DEF Generations, Pass
    <3>3. CASE b \notin storedBlocks
      BY <2>5, <3>3 DEF Pass
    <3>4. QED
      BY <2>1, <3>1, <3>2, <3>3
  <2>6. Readable(publish.root)'
    <3>1. publish'.root.blocks \subseteq storedBlocks'
      BY <2>1, <2>2
    <3>2. collect'.pc \in {"roots", "blocks"} => lease'.gen # collect'.gen
      BY <2>3, <2>4
    <3>3. collect'.pc = "blocks" => publish'.root.blocks \cap collect'.doomed = {}
      BY <2>2, <2>3, <2>5
    <3>4. QED
      BY <3>1, <3>2, <3>3 DEF Readable, Safe
  <2>7. Named' = roots \cup {publish'.root} /\ roots \subseteq Named
    BY <2>2, <2>3 DEF Named
  <2>8. QED
    BY <1>1, <2>1, <2>2, <2>3, <2>6, <2>7 DEF Whole
<1>7. CASE UploadRoot
  <2>1. /\ publish.pc = "root" /\ publish'.pc = "seal" /\ publish'.root = publish.root
        /\ roots' = roots \cup {publish.root} /\ certified' = certified
    BY <1>7 DEF UploadRoot, StoreTypes, Publication
  <2>2. Named' = Named
    BY <2>1 DEF Named
  <2>3. QED
    BY <1>1, <2>1, <2>2 DEF Whole
<1>8. CASE CheckPromotion \/ DropCandidate
  <2>1. /\ UNCHANGED <<roots, certified>> /\ publish'.pc \in {"promote", "idle"}
        /\ publish'.pc = "promote" => publish'.root \in roots
    BY <1>8 DEF CheckPromotion, DropCandidate, StoreTypes, Publication
  <2>2. Named' \subseteq Named
    BY <2>1 DEF Named
  <2>3. QED
    BY <1>1, <2>1, <2>2 DEF Whole
<1>9. CASE Promote
  <2>1. /\ roots' = roots /\ publish'.pc = "idle" /\ publish.pc = "promote"
        /\ certified' \in {certified, publish.root}
    BY <1>9 DEF Promote, StoreTypes, Publication
  <2>2. Named' \subseteq Named
    BY <2>1 DEF Named
  <2>3. QED
    BY <1>1, <2>1, <2>2 DEF Whole
<1>10. CASE StartCollection
  <2>1. UNCHANGED <<roots, certified, publish, oldObjects>>
    BY <1>10 DEF StartCollection
  <2>2. QED
    BY <1>3, <2>1 DEF Named
<1>11. CASE DeleteRoot
  <2>1. /\ UNCHANGED <<publish, certified>> /\ roots' = roots \ collect.doomed
        /\ collect.pc = "roots" /\ oldObjects' \subseteq oldObjects
    BY <1>11 DEF DeleteRoot
  <2>2. \A r \in collect.doomed : r.index \in Nat /\ r.index < collect.floor
    BY <2>1, Fields DEF Order
  <2>3. \A r \in collect.doomed : r.index < certified.index
    BY <1>2, <2>1, <2>2 DEF Order
  <2>4. certified \notin collect.doomed
    BY <1>2, <2>3
  <2>5. publish.pc \in {"seal", "promote"} => publish.root \notin collect.doomed
    BY <1>2, <2>2, <2>3 DEF Order
  <2>6. Named' \subseteq Named
    BY <2>1 DEF Named
  <2>7. QED
    BY <1>1, <2>1, <2>4, <2>5, <2>6 DEF Whole
<1>12. CASE Collecting /\ ~DeleteRoot
  <2>1. UNCHANGED <<publish, certified>> /\ oldObjects' \subseteq oldObjects
    BY <1>12, CollectingKeeps
  <2>2. roots' = roots
    BY <1>12 DEF Collecting, ListRoots, ApproveRoot, RootsDone, ApproveBlock, DeleteBlock,
                 EndCollection
  <2>3. QED
    BY <1>3, <2>1, <2>2 DEF Named
<1>13. QED
  BY <1>4, <1>5, <1>6, <1>7, <1>8, <1>9, <1>10, <1>11, <1>12, Kinds DEF Publishing

\* A root that is about to be pinned is readable while a pin may still be written,
\* and a pinned one until its pin is released.
LEMMA PinsStep ==
    ASSUME StoreTypes, Generations, Whole, Pass, Pins, StoreNext
    PROVE  Pins'
<1>1. ASSUME NEW r, Readable(r), r \in roots \cup collect.pins \/ ~ListRoots
      PROVE  Readable(r)'
  BY <1>1, StaysReadable
<1>2. recover \in Recovery /\ recover.missed \in {0, 1, 2} /\ collect \in Collection
  BY DEF StoreTypes, Recovery
\* The two roots in question.
<1>3. ASSUME NEW q, q = recover.root, recover.pc = "pin", recover.missed < 2
      PROVE  Readable(q)'
  <2>1. Readable(q)
    BY <1>3 DEF Pins
  <2>2. ListRoots => q \in roots
    BY <1>2, <1>3 DEF ListRoots, Pins
  <2>3. QED
    BY <1>1, <2>1, <2>2
<1>4. ASSUME NEW q, q = pinned.root, pinned.live
      PROVE  Readable(q)'
  <2>1. Readable(q)
    BY <1>4 DEF Pins
  <2>2. ListRoots => q \in roots \cup collect.pins
    BY <1>4 DEF ListRoots, Pins
  <2>3. QED
    BY <1>1, <2>1, <2>2
<1>5. ASSUME recover' = recover PROVE recover'.pc = "pin" /\ recover'.missed < 2 =>
                                        Readable(recover.root)'
  BY <1>3, <1>5 DEF Readable, Safe
<1>6. ASSUME pinned' = pinned PROVE pinned'.live => Readable(pinned.root)'
  BY <1>4, <1>6 DEF Readable, Safe
<1>7. ASSUME UNCHANGED <<recover, pinned, collect>>, roots \subseteq roots' PROVE Pins'
  BY <1>5, <1>6, <1>7 DEF Pins
<1>8. CASE LeaseExpires \/ TrimArchive \/ GracePasses \/ ClaimPublication \/ UploadBlocks
  BY <1>7, <1>8 DEF LeaseExpires, TrimArchive, GracePasses, ClaimPublication, UploadBlocks
<1>9. CASE Publishing
  <2>1. roots \subseteq roots'
    BY <1>9 DEF Publishing, UploadRoot, CheckPromotion, Promote, DropCandidate
  <2>2. QED
    BY <1>7, <1>9, <2>1, PublishingKeeps
<1>10. CASE StartCollection
  <2>1. /\ UNCHANGED <<roots, pinned>> /\ collect.pc = "idle" /\ collect'.pc = "list"
        /\ collect'.pins = ActiveRoots /\ recover'.pc = recover.pc /\ recover'.root = recover.root
        /\ recover'.missed = (IF recover.missed = 1 THEN 2 ELSE recover.missed)
    BY <1>2, <1>10 DEF StartCollection, Collection, Recovery
  <2>2. recover'.pc = "pin" /\ recover'.missed < 2 => Readable(recover.root)'
    BY <1>2, <1>3, <2>1 DEF Readable, Safe
  <2>3. pinned'.live => pinned'.root \in collect'.pins
    BY <2>1 DEF ActiveRoots
  <2>4. QED
    BY <1>2, <1>6, <2>1, <2>2, <2>3 DEF Pins
<1>11. CASE Collecting /\ ~EndCollection
  <2>1. /\ UNCHANGED <<pinned, recover>> /\ collect.pc # "idle" /\ collect'.pc \in {"roots", "blocks"}
    BY <1>2, <1>11 DEF Collecting, ListRoots, ApproveRoot, DeleteRoot, RootsDone, ApproveBlock,
                 DeleteBlock, Collection
  <2>2. QED
    BY <1>5, <1>6, <2>1 DEF Pins
<1>12. CASE EndCollection
  <2>1. /\ UNCHANGED <<roots, pinned>> /\ collect.pc # "idle" /\ collect'.pc = "idle"
        /\ recover'.pc = recover.pc /\ recover'.root = recover.root
        /\ recover'.missed = IF recover.pc = "pin" /\ recover.missed = 0 THEN 1 ELSE recover.missed
    BY <1>2, <1>12 DEF EndCollection, Collection, Recovery
  <2>2. recover'.pc = "pin" /\ recover'.missed < 2 => Readable(recover.root)'
    BY <1>2, <1>3, <2>1 DEF Readable, Safe
  <2>3. QED
    BY <1>2, <1>6, <2>1, <2>2 DEF Pins
<1>13. CASE SelectRoot
  <2>1. /\ UNCHANGED <<roots, pinned, collect>> /\ recover'.pc = "check" /\ recover.pc = "idle"
        /\ recover'.missed = recover.missed
    BY <1>2, <1>13 DEF SelectRoot, Recovery
  <2>2. QED
    BY <1>6, <2>1 DEF Pins
<1>14. CASE CheckPinned
  <2>1. UNCHANGED <<roots, pinned, collect>> /\ recover.pc = "check" /\ ~ListRoots
    BY <1>2, <1>14 DEF CheckPinned, Recovery, ListRoots
  <2>2. CASE recover.root \in roots
    <3>1. recover'.pc = "pin" /\ recover'.missed = 0 /\ recover'.root = recover.root
      BY <1>2, <1>14, <2>2 DEF CheckPinned, Recovery
    <3>2. Readable(recover.root)
      BY <2>2 DEF Whole, Named
    <3>3. ASSUME NEW q, q = recover.root PROVE Readable(q)'
      BY <1>1, <2>2, <3>2, <3>3
    <3>4. Readable(recover.root)'
      BY <3>1, <3>3 DEF Readable, Safe
    <3>5. QED
      BY <1>6, <2>1, <2>2, <3>1, <3>4 DEF Pins
  <2>3. CASE recover.root \notin roots
    <3>1. recover'.pc = "idle" /\ recover'.missed = recover.missed
      BY <1>2, <1>14, <2>3 DEF CheckPinned, Recovery
    <3>2. QED
      BY <1>6, <2>1, <3>1 DEF Pins
  <2>4. QED
    BY <2>2, <2>3
<1>15. CASE WritePin
  <2>1. /\ UNCHANGED <<roots, collect>> /\ recover.pc = "pin" /\ recover.missed < 2
        /\ recover'.pc = "download" /\ recover'.missed = 0
        /\ pinned'.live /\ pinned'.root = recover.root
    BY <1>2, <1>15 DEF WritePin, Recovery
  <2>2. Readable(pinned.root)'
    BY <1>3, <2>1 DEF Readable, Safe
  <2>3. collect'.pc = "list" => pinned'.root \in roots'
    BY <1>2, <2>1 DEF Pins
  <2>4. QED
    BY <2>1, <2>2, <2>3 DEF Pins
<1>16. CASE PinTooLate
  <2>1. /\ UNCHANGED <<roots, pinned, collect>> /\ recover'.pc = "idle" /\ recover'.missed = 0
    BY <1>2, <1>16 DEF PinTooLate, Recovery
  <2>2. QED
    BY <1>6, <2>1 DEF Pins
<1>17. CASE Downloaded
  <2>1. /\ UNCHANGED <<roots, collect>> /\ recover.pc = "download" /\ recover'.pc = "idle"
        /\ recover'.missed = recover.missed /\ ~pinned'.live
    BY <1>2, <1>17 DEF Downloaded, Recovery, StoreTypes
  <2>2. QED
    BY <2>1 DEF Pins
<1>18. QED
  BY <1>8, <1>9, <1>10, <1>11, <1>12, <1>13, <1>14, <1>15, <1>16, <1>17, Kinds DEF Aside

-----------------------------------------------------------------------------
(* The invariant, and what readers rely on. *)

\* An empty bucket satisfies the invariant.
LEMMA StoreInitial == StoreInit => StoreInv
<1> SUFFICES ASSUME StoreInit PROVE StoreInv
  OBVIOUS
<1>1. NoRoot \in Root /\ NoRoot.index = 0 /\ {} \in SUBSET Root /\ {} \in SUBSET (Root \cup Block)
  BY DEF NoRoot, Root
<1>2. IsFiniteSet({})
  BY FS_EmptySet
<1>3. StoreTypes
  BY <1>1, <1>2 DEF StoreInit, StoreTypes, FreeLease, Lease, Publication, Collection, Recovery
<1>4. Generations /\ Order /\ Pass
  BY <1>1, <1>2 DEF StoreInit, Generations, Order, Pass
<1>5. Whole /\ Pins
  BY DEF StoreInit, Whole, Pins, Named
<1>6. QED
  BY <1>3, <1>4, <1>5 DEF StoreInv

\* The inductive invariant: every root that is stored or being uploaded, pinned or
\* about to be pinned is whole, and the collector's pass under way, whether or not
\* it still has its claim, will take no block of it.
THEOREM StoreInvariant == StoreSpec => []StoreInv
<1>1. ASSUME StoreInv, [StoreNext]_storeVars PROVE StoreInv'
  <2>1. CASE StoreNext
    BY <1>1, <2>1, TypesStep, GenerationsStep, OrderStep, WholeStep, PassStep,
        PinsStep DEF StoreInv
  <2>2. CASE UNCHANGED storeVars
    BY <1>1, <2>2 DEF StoreInv, storeVars, StoreTypes, Generations, Order, Whole, Pass, Pins,
        Named,
                      Held, Safe, Readable, KeptRoots, Newest
  <2>3. QED
    BY <1>1, <2>1, <2>2
<1>2. QED
  BY <1>1, StoreInitial, PTL DEF StoreSpec

\* CURRENT, pinned roots and candidates under a claim can always be read, for any
\* number of claims, lapsed leases and passes of garbageCollect.
THEOREM StoreStaysReadable == StoreSpec => []StoreReadable
<1>1. StoreInv => StoreReadable
  <2> SUFFICES ASSUME StoreInv PROVE StoreReadable
    OBVIOUS
  <2>1. CurrentReadable
    BY CurrentStored DEF StoreInv, Whole, CurrentReadable
  <2>2. PinReadable
    BY DEF StoreInv, Pins, Readable, PinReadable
  <2>3. CandidateReadable
    BY DEF StoreInv, Whole, Named, Readable, CandidateReadable
  <2>4. QED
    BY <2>1, <2>2, <2>3 DEF StoreReadable
<1>2. QED
  BY <1>1, StoreInvariant, PTL

-----------------------------------------------------------------------------
(***************************************************************************)
(* Forks, for any operations, calls, lengths of source and target, stopped *)
(* calls and lapsed leases: a result is true, one operation succeeds on a  *)
(* target, an undisturbed retry of it that begins after the leases of      *)
(* earlier calls does not fail (ForkSound), and no                         *)
(* call touches what a node in service works with (RunningUndisturbed).    *)
(*                                                                         *)
(* The intent is written once and names a sealed source, so that all calls *)
(* past it are of one operation and copy the same manifest (Pinned).  Each *)
(* object is written only when absent, and then its content is determined *)
(* by what was written before it (Copied, Anchored).                       *)
(***************************************************************************)

Opt(S) == S \cup {Absent}
Ops == ForkOps \cup {Waiting.op}
ManifestSet == [base : Nat, tip : Nat]
ForkRoot == [index : Nat, gen : Nat]
AnchorSet == [op : Ops, manifest : ManifestSet, root : ForkRoot]

TargetSet ==
    [intent : Opt([op : Ops, manifest : ManifestSet]), roots : SUBSET ForkRoot,
     current : Opt(ForkRoot), extents : SUBSET Nat,
     head : Opt([base : Nat, tip : Nat, lineage : Opt(AnchorSet)]),
     anchor : Opt(AnchorSet), result : Opt([manifest : ManifestSet]),
     claim : [gen : Nat, owner : Ops \cup {"none", "node"}, bound : Nat, live : BOOLEAN]]

PlainSteps == {"check", "root", "extents", "head"}
AnchoredSteps == {"resume", "load", "refresh", "claim", "create", "bind", "lease", "anchor",
                  "initialize"}
\* The steps after the intent, with the pinned manifest.
Copying == PlainSteps \cup AnchoredSteps \cup {"recheck", "promote", "result"}

RunSet ==
    [pc : Copying \cup {"waiting", "failed", "done", "empty", "pin", "intent", "verify"},
     op : Ops, snapshot : Opt(ManifestSet), root : Opt(ForkRoot), gen : Nat,
     pin : {Unpinned, "source", "target"}, alone : BOOLEAN]

ForkTypes ==
    /\ source \in [base : Nat, tip : Nat, sealed : BOOLEAN]
    /\ source.base <= source.tip /\ source.tip > 0
    /\ target \in TargetSet
    /\ runs \in [ForkRuns -> RunSet]
    /\ running \in BOOLEAN

\* The target belongs to a plain, or to an anchored, operation.
Plain == target.intent # Absent /\ target.intent.op \notin AnchoredOps
Anchored == target.intent # Absent /\ target.intent.op \in AnchoredOps

\* All work on a target is for its intent, and the intent's source is sealed.
Pinned ==
    /\ target.intent # Absent => source.sealed /\ target.intent.manifest = Manifest(source)
    /\ target.result # Absent => target.intent # Absent /\ target.result.manifest = Manifest(source)
    /\ target.intent = Absent =>
          /\ target.roots = {} /\ target.current = Absent /\ target.head = Absent
          /\ target.anchor = Absent /\ target.claim.gen = 0 /\ ~ target.claim.live
    /\ running => target.result # Absent

PinnedRun(call) ==
    /\ call.pc = "intent" \/ call.pc \in Copying =>
          source.sealed /\ call.snapshot = Manifest(source)
    /\ call.pc \in Copying \cup {"verify", "done"} =>
          target.intent # Absent /\ target.intent.op = call.op
    /\ call.pc \in PlainSteps => call.op \notin AnchoredOps
    /\ call.pc \in AnchoredSteps => call.op \in AnchoredOps
    /\ call.pc \in {"verify", "done"} => target.result # Absent
    /\ call.pc \in {"empty", "pin", "intent", "check", "root"} => call.root = Absent

BaseRoot == [index |-> source.base, gen |-> 0]

\* What a copy consists of, in the order it is written.
RootThere == source.base > 0 /\ ~ running => BaseRoot \in target.roots
ExtentsThere == (source.base + 1)..source.tip \subseteq target.extents
CurrentThere == source.base > 0 => target.current # Absent

Copied ==
    /\ target.anchor = Absent
    /\ target.current # Absent => target.current.index >= source.base
    /\ ~ running =>
          /\ target.current \in {Absent, BaseRoot}
          /\ target.head \in {Absent, [base |-> source.base, tip |-> source.tip,
                                       lineage |-> Absent]}
          /\ target.claim.gen = 0 /\ ~ target.claim.live
    /\ target.result # Absent => ExtentsThere /\ RootThere /\ target.head # Absent /\ CurrentThere

CopiedRun(call) ==
    /\ call.pc \in {"extents", "head", "recheck", "promote", "result"} =>
          call.root = (IF source.base > 0 THEN BaseRoot ELSE Absent) /\ RootThere
    /\ call.pc \in {"head", "recheck", "promote", "result"} => ExtentsThere
    /\ call.pc \in {"recheck", "promote", "result"} => target.head # Absent
    /\ call.pc = "promote" => source.base > 0
    /\ call.pc = "result" => CurrentThere

\* An anchored target: CURRENT is set once, the anchor names it, the archive
\* starts at the anchor.
Materialized ==
    /\ target.current # Absent => target.current.index >= source.tip
    /\ target.head # Absent => target.anchor # Absent
    /\ target.result # Absent => target.head # Absent
    /\ target.anchor # Absent =>
          /\ target.anchor.op = target.intent.op /\ target.anchor.manifest = Manifest(source)
          /\ target.current # Absent
    /\ ~ running =>
          /\ target.current # Absent =>
                target.current.index = source.tip /\ target.current \in target.roots
          /\ target.anchor # Absent => target.current = target.anchor.root
          /\ target.head \in {Absent, [base |-> source.tip, tip |-> source.tip,
                                       lineage |-> target.anchor]}
          /\ target.claim.gen > 0 =>
                target.claim.owner = target.intent.op /\ target.claim.bound <= source.tip
          /\ target.claim.live => target.claim.gen > 0

MaterializedRun(call) ==
    /\ call.pc \in {"bind", "lease", "promote"} =>
          /\ call.root # Absent /\ call.root.index = source.tip
          /\ ~ running => call.root \in target.roots
    /\ call.pc \in {"recheck", "anchor"} =>
          /\ call.root # Absent
          /\ ~ running => call.root = target.current
    /\ call.pc \in {"initialize", "result"} => target.anchor # Absent
    /\ call.pc = "result" => target.head # Absent

\* A call that nobody disturbed finds the target as it left it.
Alone(call) ==
    /\ ~ running
    /\ call.pc = "empty" => target.intent = Absent
    /\ call.pc = "failed" => target.intent = Absent \/ target.intent.op # call.op
    /\ target.claim.live =>
          /\ call.pc \in {"create", "bind", "lease", "promote", "recheck", "anchor",
                             "initialize", "result"}
          /\ target.claim.gen = call.gen /\ call.gen > 0
    /\ call.pc \in {"create", "bind", "lease"} => target.claim.live
    /\ call.op \in AnchoredOps =>
          /\ call.pc \in {"load", "refresh", "claim", "create", "bind", "lease", "promote",
                             "recheck", "anchor"} => target.anchor = Absent
          /\ call.pc \in {"refresh", "claim", "create", "bind", "lease", "promote"} =>
                target.current = Absent
          /\ call.pc = "claim" => call.root = Absent

Fits(call) ==
    /\ PinnedRun(call)
    /\ Plain => CopiedRun(call)
    /\ Anchored => MaterializedRun(call)
    /\ call.alone => Alone(call)

TargetOK ==
    /\ Pinned
    /\ Plain => Copied
    /\ Anchored => Materialized

ForkInv == ForkTypes /\ TargetOK /\ \A r \in ForkRuns : Fits(runs[r])

\* No other call's pin is in the way of a call that nobody disturbed.
Unhindered ==
    \A r \in ForkRuns :
      runs[r].alone => ~ PinBusy(runs[r].op, {"source", "target"}, ForkRuns \ {r})

-----------------------------------------------------------------------------
(* Operators *)

\* What is absent is no record of the other kinds.
LEMMA AbsentIsNone ==
    /\ Absent \notin ManifestSet /\ Absent \notin ForkRoot /\ Absent \notin AnchorSet
    /\ Absent \notin [op : Ops, manifest : ManifestSet]
    /\ Absent \notin [manifest : ManifestSet]
    /\ Absent \notin [base : Nat, tip : Nat, lineage : Opt(AnchorSet)]
<1>1. DOMAIN Absent = {"absent"}
  BY DEF Absent
<1>2. QED
  BY <1>1 DEF ManifestSet, ForkRoot, AnchorSet

\* A step of one call leaves the others where they are, no longer alone.
Apart(r) ==
    /\ runs' \in [ForkRuns -> RunSet]
    /\ \A q \in ForkRuns : q # r =>
          /\ runs'[q].pc = runs[q].pc /\ runs'[q].op = runs[q].op
          /\ runs'[q].snapshot = runs[q].snapshot /\ runs'[q].root = runs[q].root
          /\ runs'[q].gen = runs[q].gen /\ runs'[q].alone = FALSE

\* What ForkMoved makes of the calls.
LEMMA MovedIs ==
    ASSUME ForkTypes, NEW r \in ForkRuns, NEW new \in RunSet, runs' = ForkMoved(r, new)
    PROVE  Apart(r) /\ runs'[r] = new
<1>1. \A q \in ForkRuns : runs[q] \in RunSet
  BY DEF ForkTypes
<1>2. \A q \in ForkRuns : [runs[q] EXCEPT !.alone = FALSE] \in RunSet
  BY <1>1 DEF RunSet
<1>3. QED
  BY <1>1, <1>2 DEF ForkMoved, RunSet, Apart

\* The manifest of a source that has one.
LEMMA ManifestIs ==
    ASSUME ForkTypes
    PROVE  /\ Manifest(source) \in ManifestSet
           /\ Manifest(source).base = source.base /\ Manifest(source).tip = source.tip
BY DEF ForkTypes, Manifest, ManifestSet

\* The claim that a call leaves behind when it ends.
LEMMA UnclaimedIs ==
    ASSUME ForkTypes, NEW r \in ForkRuns
    PROVE  LET c == Unclaimed(r) IN
           /\ c \in [gen : Nat, owner : Ops \cup {"none", "node"}, bound : Nat, live : BOOLEAN]
           /\ c.gen = target.claim.gen /\ c.owner = target.claim.owner
           /\ c.bound = target.claim.bound /\ (c.live => target.claim.live)
           /\ runs[r].gen > 0 /\ target.claim.gen = runs[r].gen => ~ c.live
<1>1. target.claim \in [gen : Nat, owner : Ops \cup {"none", "node"}, bound : Nat,
                        live : BOOLEAN]
  BY DEF ForkTypes, TargetSet
<1>2. QED
  BY <1>1 DEF Unclaimed

\* RunTo changes where the call is and nothing else of it.
LEMMA ToIs ==
    ASSUME ForkTypes, NEW r \in ForkRuns, NEW pc, RunTo(r, pc),
           pc \in Copying \cup {"failed", "done", "pin", "intent"}
    PROVE  /\ Apart(r)
           /\ runs'[r].pc = pc /\ runs'[r].op = runs[r].op
           /\ runs'[r].snapshot = runs[r].snapshot /\ runs'[r].root = runs[r].root
           /\ runs'[r].gen = runs[r].gen /\ runs'[r].alone = runs[r].alone
<1>1. runs[r] \in RunSet
  BY DEF ForkTypes
<1>2. [runs[r] EXCEPT !.pc = pc] \in RunSet
  BY <1>1 DEF RunSet
<1>3. Apart(r) /\ runs'[r] = [runs[r] EXCEPT !.pc = pc]
  BY <1>2, MovedIs DEF RunTo
<1>4. QED
  BY <1>1, <1>3 DEF RunSet

\* EndRun drops the pin as well.
LEMMA EndIs ==
    ASSUME ForkTypes, NEW r \in ForkRuns, NEW pc \in {"failed", "done"}, EndRun(r, pc)
    PROVE  /\ Apart(r)
           /\ runs'[r].pc = pc /\ runs'[r].op = runs[r].op
           /\ runs'[r].snapshot = runs[r].snapshot /\ runs'[r].root = runs[r].root
           /\ runs'[r].gen = runs[r].gen /\ runs'[r].alone = runs[r].alone
<1> DEFINE new == [runs[r] EXCEPT !.pc = pc, !.pin = Unpinned]
<1>1. runs[r] \in RunSet
  BY DEF ForkTypes
<1>2. /\ new \in RunSet /\ new.pc = pc /\ new.op = runs[r].op
      /\ new.snapshot = runs[r].snapshot /\ new.root = runs[r].root
      /\ new.gen = runs[r].gen /\ new.alone = runs[r].alone
  BY <1>1 DEF RunSet
<1>3. Apart(r) /\ runs'[r] = new
  BY <1>2, MovedIs DEF EndRun
<1>4. QED
  BY <1>2, <1>3

\* A call that goes on with a root in hand.
LEMMA RootedIs ==
    ASSUME ForkTypes, NEW r \in ForkRuns, NEW pc \in Copying, NEW root \in Opt(ForkRoot),
           runs' = ForkMoved(r, [runs[r] EXCEPT !.pc = pc, !.root = root])
    PROVE  /\ Apart(r)
           /\ runs'[r].pc = pc /\ runs'[r].op = runs[r].op
           /\ runs'[r].snapshot = runs[r].snapshot /\ runs'[r].root = root
           /\ runs'[r].gen = runs[r].gen /\ runs'[r].alone = runs[r].alone
<1>1. runs[r] \in RunSet
  BY DEF ForkTypes
<1> DEFINE new == [runs[r] EXCEPT !.pc = pc, !.root = root]
<1>2. /\ new \in RunSet /\ new.pc = pc /\ new.op = runs[r].op
      /\ new.snapshot = runs[r].snapshot /\ new.root = root
      /\ new.gen = runs[r].gen /\ new.alone = runs[r].alone
  BY <1>1 DEF RunSet
<1>3. Apart(r) /\ runs'[r] = new
  BY <1>2, MovedIs
<1>4. QED
  BY <1>2, <1>3

-----------------------------------------------------------------------------
(* Steps of a call *)

\* What a call does to the target: it adds what is absent.
Kept ==
    /\ source' = source /\ running' = running /\ target' \in TargetSet
    /\ target.intent # Absent => target'.intent = target.intent
    /\ target.roots \subseteq target'.roots /\ target.extents \subseteq target'.extents
    /\ target.current # Absent => target'.current = target.current
    /\ target.head # Absent => target'.head = target.head
    /\ target.anchor # Absent => target'.anchor = target.anchor
    /\ target.result # Absent => target'.result = target.result
    /\ Plain /\ source.base = 0 => target'.current = target.current

\* Then what the other calls know stays true.
LEMMA OthersKnow ==
    ASSUME ForkInv, NEW r \in ForkRuns, Apart(r), Kept, NEW q \in ForkRuns, q # r
    PROVE  Fits(runs[q])'
<1>1. /\ runs'[q].pc = runs[q].pc /\ runs'[q].op = runs[q].op
      /\ runs'[q].snapshot = runs[q].snapshot /\ runs'[q].root = runs[q].root
      /\ runs'[q].alone = FALSE
  BY DEF Apart
<1>2. Fits(runs[q]) /\ Pinned
  BY DEF ForkInv, TargetOK
<1>3. PinnedRun(runs[q])'
  BY <1>1, <1>2 DEF Fits, PinnedRun, Kept, StepIs
<1>4. Plain' => CopiedRun(runs[q])'
  <2>1. CASE runs[q].pc \in Copying
    BY <1>1, <1>2, <2>1 DEF Fits, PinnedRun, Plain, CopiedRun, Kept, StepIs, RootThere,
        ExtentsThere, CurrentThere, BaseRoot
  <2>2. CASE runs[q].pc \notin Copying
    BY <1>1, <2>2 DEF CopiedRun, StepIs, Copying, PlainSteps
  <2>3. QED
    BY <2>1, <2>2
<1>5. Anchored' => MaterializedRun(runs[q])'
  <2>1. CASE runs[q].pc \in Copying
    <3>1. CASE running
      BY <1>1, <1>2, <2>1, <3>1 DEF Fits, PinnedRun, Anchored, MaterializedRun, Kept, StepIs
    <3>2. CASE ~ running
      BY <1>1, <1>2, <2>1, <3>2 DEF Fits, PinnedRun, Anchored, MaterializedRun, Kept, StepIs
    <3>3. QED
      BY <3>1, <3>2
  <2>2. CASE runs[q].pc \notin Copying
    BY <1>1, <2>2 DEF MaterializedRun, StepIs, Copying, AnchoredSteps
  <2>3. QED
    BY <2>1, <2>2
<1>6. QED
  BY <1>1, <1>3, <1>4, <1>5 DEF Fits

\* It remains to be seen what the call itself leaves.
LEMMA CallKeeps ==
    ASSUME ForkInv, NEW r \in ForkRuns, Apart(r), Kept, TargetOK', Fits(runs[r])'
    PROVE  ForkInv'
<1>1. ForkTypes'
  BY DEF ForkInv, ForkTypes, Apart, Kept
<1>2. \A q \in ForkRuns : Fits(runs[q])'
  BY OthersKnow
<1>3. QED
  BY <1>1, <1>2 DEF ForkInv

\* A call that writes nothing.
LEMMA LookKeeps ==
    ASSUME ForkInv, NEW r \in ForkRuns, Apart(r), UNCHANGED <<target, source, running>>,
           Fits(runs[r])'
    PROVE  ForkInv' /\ Kept
<1>1. Kept
  BY DEF ForkInv, ForkTypes, Kept
<1>2. TargetOK'
  BY DEF ForkInv, TargetOK, Pinned, Plain, Copied, Anchored, Materialized, RootThere, ExtentsThere,
      CurrentThere, BaseRoot
<1>3. QED
  BY <1>1, <1>2, CallKeeps

\* A call that fails and was disturbed, or is not of the target's operation.
LEMMA FailKeeps ==
    ASSUME ForkInv, NEW r \in ForkRuns, Fail(r), Still,
           runs[r].alone /\ target.intent # Absent => target.intent.op # runs[r].op
    PROVE  ForkInv' /\ Kept
<1>1. /\ Apart(r) /\ runs'[r].pc = "failed" /\ runs'[r].op = runs[r].op
      /\ runs'[r].gen = runs[r].gen /\ runs'[r].alone = runs[r].alone
  BY EndIs DEF ForkInv, Fail
<1>2. /\ target' = [target EXCEPT !.claim = Unclaimed(r)]
      /\ source' = source /\ running' = running
  BY DEF Fail, Still
<1>3. LET c == Unclaimed(r) IN
           /\ c \in [gen : Nat, owner : Ops \cup {"none", "node"}, bound : Nat, live : BOOLEAN]
           /\ c.gen = target.claim.gen /\ c.owner = target.claim.owner
           /\ c.bound = target.claim.bound /\ (c.live => target.claim.live)
           /\ runs[r].gen > 0 /\ target.claim.gen = runs[r].gen => ~ c.live
  BY UnclaimedIs DEF ForkInv
<1>4. target \in TargetSet
  BY DEF ForkInv, ForkTypes
<1>5. /\ target' \in TargetSet
      /\ target'.intent = target.intent /\ target'.roots = target.roots
      /\ target'.current = target.current /\ target'.extents = target.extents
      /\ target'.head = target.head /\ target'.anchor = target.anchor
      /\ target'.result = target.result /\ target'.claim = Unclaimed(r)
  BY <1>2, <1>3, <1>4 DEF TargetSet
<1>6. Kept
  BY <1>2, <1>5 DEF Kept
<1>7. TargetOK'
  BY <1>2, <1>3, <1>5 DEF ForkInv, TargetOK, Pinned, Plain, Copied, Anchored, Materialized,
      RootThere,
      ExtentsThere, CurrentThere, BaseRoot
<1>8. runs[r].alone => Alone(runs[r])
  BY DEF ForkInv, Fits
<1>9. runs'[r].alone => Alone(runs[r])'
  BY <1>1, <1>2, <1>3, <1>5, <1>8 DEF Alone, StepIs
<1>10. Fits(runs[r])'
  BY <1>1, <1>9 DEF Fits, PinnedRun, CopiedRun, MaterializedRun, StepIs, Copying, PlainSteps,
      AnchoredSteps
<1>11. QED
  BY <1>1, <1>6, <1>7, <1>10, CallKeeps

\* Facts about the call and the target that the steps below use.
LEMMA RunFacts ==
    ASSUME ForkInv, NEW r \in ForkRuns
    PROVE  /\ runs[r] \in RunSet /\ target \in TargetSet
           /\ Fits(runs[r]) /\ TargetOK
           /\ Manifest(source) \in ManifestSet
           /\ Manifest(source).base = source.base /\ Manifest(source).tip = source.tip
           /\ source.base \in Nat /\ source.tip \in Nat /\ source.tip > 0
BY ManifestIs DEF ForkInv, ForkTypes

\* A call that has not begun.
LEMMA WaitingIs == Waiting \in RunSet /\ Waiting.pc = "waiting" /\ Waiting.alone = FALSE
                     /\ Waiting.root = Absent /\ Waiting.pin = Unpinned
<1>1. Waiting.op \in Ops
  BY DEF Ops
<1> DEFINE o == CHOOSE o \in ForkOps : TRUE
<1>2. Waiting.op = o
  BY DEF Waiting
<1>3. Waiting = [pc |-> "waiting", op |-> o, snapshot |-> Absent, root |-> Absent,
                 gen |-> 0, pin |-> Unpinned, alone |-> FALSE]
  BY DEF Waiting
<1> HIDE DEF o
<1>4. QED
  BY <1>1, <1>2, <1>3 DEF RunSet, Opt

\* The beginning of a call.
LEMMA StartKeeps ==
    ASSUME ForkInv, NEW r \in ForkRuns, NEW op \in ForkOps, StartFork(r, op)
    PROVE  ForkInv' /\ Kept
<1> DEFINE pc == IF target.intent = Absent THEN "empty"
                 ELSE IF target.intent.op # op THEN "failed"
                 ELSE IF target.result # Absent THEN "verify" ELSE "pin"
           alone == /\ ~target.claim.live /\ ~running
                    /\ ~PinBusy(op, {"source", "target"}, ForkRuns \ {r})
           new == [Waiting EXCEPT !.op = op, !.alone = alone, !.pc = pc]
<1>1. runs' = ForkMoved(r, new) /\ UNCHANGED <<source, target, running>>
  BY DEF StartFork
<1>2. alone \in BOOLEAN
  OBVIOUS
<1>3. pc \in {"empty", "failed", "verify", "pin"}
  OBVIOUS
<1>4. Waiting \in RunSet /\ Waiting.root = Absent
  BY WaitingIs
<1>5. new \in RunSet /\ new.pc = pc /\ new.op = op /\ new.alone = alone
      /\ new.root = Absent
  <2> HIDE DEF pc, alone
  <2>1. QED
    BY <1>2, <1>3, <1>4 DEF RunSet, Ops, Copying, PlainSteps, AnchoredSteps
<1> HIDE DEF new
<1>6. Apart(r) /\ runs'[r] = new
  BY <1>1, <1>5, MovedIs DEF ForkInv
<1>7. /\ runs'[r].pc = pc /\ runs'[r].op = op /\ runs'[r].alone = alone
      /\ runs'[r].root = Absent
  BY <1>5, <1>6
<1>8. runs'[r].alone => Alone(runs[r])'
  <2>1. runs'[r].alone => ~target.claim.live /\ ~running
    BY <1>7
  <2>2. /\ pc = "empty" => target.intent = Absent
        /\ pc = "failed" => target.intent.op # op
    OBVIOUS
  <2> HIDE DEF pc, alone
  <2>3. QED
    BY <1>1, <1>3, <1>7, <2>1, <2>2 DEF Alone, StepIs
<1>9. Fits(runs[r])'
  BY <1>1, <1>7, <1>8 DEF Fits, PinnedRun, CopiedRun, MaterializedRun, StepIs, Copying, PlainSteps,
      AnchoredSteps
<1>10. QED
  BY <1>1, <1>6, <1>9, LookKeeps

\* The steps before the intent.
LEMMA CheckKeeps ==
    ASSUME ForkInv, NEW r \in ForkRuns, CheckEmpty(r)
    PROVE  ForkInv' /\ Kept
<1>1. Fits(runs[r]) /\ TargetOK
  BY RunFacts
<1>2. CASE target.intent = Absent /\ RunTo(r, "pin") /\ UNCHANGED target
  <2>1. /\ Apart(r) /\ runs'[r].pc = "pin" /\ runs'[r].op = runs[r].op
        /\ runs'[r].root = runs[r].root /\ runs'[r].alone = runs[r].alone /\ UNCHANGED <<target, source, running>>
    BY <1>2, ToIs DEF ForkInv, CheckEmpty, Still
  <2>2. Fits(runs[r])'
    BY <1>1, <1>2, <2>1 DEF CheckEmpty, Fits, PinnedRun, CopiedRun, MaterializedRun, StepIs, Alone,
        Copying, PlainSteps, AnchoredSteps, TargetOK, Pinned
  <2>3. QED
    BY <2>1, <2>2, LookKeeps
<1>3. CASE Fail(r) /\ target.intent = Absent
  BY <1>3, FailKeeps DEF CheckEmpty
<1>4. CASE Fail(r) /\ target.intent # Absent
  <2>1. ~ runs[r].alone
    BY <1>1, <1>4 DEF Fits, Alone, CheckEmpty, StepIs
  <2>2. QED
    BY <1>4, <2>1, FailKeeps DEF CheckEmpty
<1>5. QED
  BY <1>2, <1>3, <1>4 DEF CheckEmpty

\* PinSource: only a sealed source is pinned, so the snapshot is the source's,
\* and no pin is in the way of a call that nobody disturbed.
LEMMA PinKeeps ==
    ASSUME ForkInv, Unhindered, NEW r \in ForkRuns, PinSource(r)
    PROVE  ForkInv' /\ Kept
<1>1. /\ Fits(runs[r]) /\ TargetOK /\ runs[r] \in RunSet /\ Manifest(source) \in ManifestSet
      /\ StepIs(r, "pin") /\ Still
  BY RunFacts DEF PinSource
<1> DEFINE busy == PinBusy(runs[r].op, {"source"}, ForkRuns \ {r})
<1>2. CASE source.sealed /\ ~ busy /\ UNCHANGED target
  <2> DEFINE new == [runs[r] EXCEPT !.pc = "intent", !.snapshot = Manifest(source),
                                    !.pin = "source"]
  <2>1. new \in RunSet
    BY <1>1 DEF RunSet, Opt
  <2>2. runs' = ForkMoved(r, new) /\ UNCHANGED <<target, source, running>>
    BY <1>2 DEF PinSource, Still
  <2>3. Apart(r) /\ runs'[r] = new
    BY <2>1, <2>2, MovedIs DEF ForkInv
  <2>4. /\ runs'[r].pc = "intent" /\ runs'[r].op = runs[r].op /\ runs'[r].alone = runs[r].alone
        /\ runs'[r].snapshot = Manifest(source) /\ runs'[r].root = runs[r].root
    BY <1>1, <2>3 DEF RunSet
  <2> HIDE DEF new
  <2>5. Fits(runs[r])'
    BY <1>1, <1>2, <2>2, <2>4 DEF Fits, PinnedRun, CopiedRun, MaterializedRun, StepIs, Alone,
        Copying, PlainSteps, AnchoredSteps
  <2>6. QED
    BY <2>2, <2>3, <2>5, LookKeeps
<1>3. CASE Fail(r) /\ ~ source.sealed
  BY <1>1, <1>3, FailKeeps DEF TargetOK, Pinned
<1>4. CASE Fail(r) /\ busy
  <2>1. ~ runs[r].alone
    BY <1>4 DEF Unhindered, PinBusy
  <2>2. QED
    BY <1>1, <1>4, <2>1, FailKeeps
<1>5. QED
  BY <1>2, <1>3, <1>4 DEF PinSource

\* AcquireForkIntent: the first intent settles the operation; of two intents of
\* one operation the manifests agree, both name the sealed source.
LEMMA IntentKeeps ==
    ASSUME ForkInv, NEW r \in ForkRuns, AcquireForkIntent(r)
    PROVE  ForkInv' /\ Kept
<1> DEFINE want == [op |-> runs[r].op, manifest |-> runs[r].snapshot]
<1>1. /\ Fits(runs[r]) /\ TargetOK /\ runs[r] \in RunSet /\ Manifest(source) \in ManifestSet
      /\ StepIs(r, "intent") /\ Still /\ target \in TargetSet
      /\ source.sealed /\ runs[r].snapshot = Manifest(source)
  BY RunFacts DEF AcquireForkIntent, Fits, PinnedRun, StepIs
<1>2. want \in [op : Ops, manifest : ManifestSet] /\ want # Absent
      /\ want.op = runs[r].op /\ want.manifest = Manifest(source)
  BY <1>1, AbsentIsNone DEF RunSet
<1>3. CASE target.intent \in {Absent, want} /\ Write(r, [target EXCEPT !.intent = want], AfterIntent(r))
  <2>1. AfterIntent(r) \in {"resume", "check"}
        /\ AfterIntent(r) = IF runs[r].op \in AnchoredOps THEN "resume" ELSE "check"
    BY DEF AfterIntent
  <2>2. /\ Apart(r) /\ runs'[r].pc = AfterIntent(r) /\ runs'[r].op = runs[r].op
        /\ runs'[r].root = runs[r].root
        /\ runs'[r].snapshot = runs[r].snapshot /\ runs'[r].alone = runs[r].alone
        /\ UNCHANGED <<source, running>>
    BY <1>1, <1>3, <2>1, ToIs DEF ForkInv, Write, Still, Copying, PlainSteps, AnchoredSteps
  <2>3. /\ target' \in TargetSet
        /\ target'.intent = want /\ target'.roots = target.roots
        /\ target'.current = target.current /\ target'.extents = target.extents
        /\ target'.head = target.head /\ target'.anchor = target.anchor
        /\ target'.result = target.result /\ target'.claim = target.claim
    <3> HIDE DEF want
    <3>1. QED
      BY <1>1, <1>2, <1>3 DEF Write, TargetSet, Opt
  <2> HIDE DEF want
  <2>4. Kept
    BY <1>3, <2>2, <2>3 DEF Kept
  <2>5. TargetOK'
    <3>1. Pinned'
      BY <1>1, <1>2, <2>2, <2>3 DEF TargetOK, Pinned
    <3>2. CASE target.intent = Absent
      BY <1>1, <3>1, <3>2, <2>2, <2>3 DEF TargetOK, Pinned, Copied, Materialized
    <3>3. CASE target.intent = want
      BY <1>1, <3>1, <3>3, <2>2, <2>3 DEF TargetOK, Plain, Anchored, Copied, Materialized,
          RootThere, ExtentsThere, CurrentThere, BaseRoot
    <3>4. QED
      BY <1>3, <3>2, <3>3
  <2>6. Fits(runs[r])'
    BY <1>1, <1>2, <2>1, <2>2, <2>3 DEF Fits, PinnedRun, CopiedRun, MaterializedRun, StepIs, Alone,
        Copying, PlainSteps, AnchoredSteps
  <2>7. QED
    BY <2>2, <2>4, <2>5, <2>6, CallKeeps
<1>4. CASE target.intent \notin {Absent, want} /\ Fail(r)
  <2>1. target.intent.op # runs[r].op
    <3>1. target.intent \in [op : Ops, manifest : ManifestSet] /\ target.intent.manifest = Manifest(source)
      BY <1>1, <1>4 DEF TargetSet, Opt, TargetOK, Pinned
    <3>2. QED
      BY <1>1, <1>4, <3>1
  <2>2. QED
    BY <1>1, <1>4, <2>1, FailKeeps
<1>5. QED
  BY <1>3, <1>4 DEF AcquireForkIntent

\* A call that goes on without writing.
LEMMA GoOnKeeps ==
    ASSUME ForkInv, NEW r \in ForkRuns, NEW pc \in Copying \cup {"done"}, RunTo(r, pc),
           UNCHANGED target, Still, Fits([runs[r] EXCEPT !.pc = pc])
    PROVE  ForkInv' /\ Kept
<1> DEFINE new == [runs[r] EXCEPT !.pc = pc]
<1>1. new \in RunSet
  BY RunFacts DEF RunSet
<1>2. Apart(r) /\ runs'[r] = new /\ UNCHANGED <<target, source, running>>
  BY <1>1, MovedIs DEF ForkInv, RunTo, Still
<1> HIDE DEF new
<1>3. Fits(new)
  BY DEF new
<1>4. Fits(runs[r])'
  BY <1>2, <1>3 DEF Fits, PinnedRun, Plain, CopiedRun, Anchored, MaterializedRun, Alone, RootThere,
      ExtentsThere, CurrentThere, BaseRoot
<1>5. QED
  BY <1>2, <1>4, LookKeeps

-----------------------------------------------------------------------------
(* A plain operation *)

\* VerifySnapshot reads only.
LEMMA SnapshotKeeps ==
    ASSUME ForkInv, NEW r \in ForkRuns, VerifySnapshot(r)
    PROVE  ForkInv' /\ Kept
<1>1. runs[r].pc = "check" /\ Fits(runs[r]) /\ runs[r] \in RunSet
  BY RunFacts DEF VerifySnapshot, StepIs
<1>2. Fits([runs[r] EXCEPT !.pc = "root"])
  BY <1>1 DEF RunSet, Fits, PinnedRun, CopiedRun, MaterializedRun, Alone, Plain, Anchored,
      RootThere, ExtentsThere,
      CurrentThere, BaseRoot, Copying, PlainSteps, AnchoredSteps
<1>3. QED
  BY <1>2, GoOnKeeps DEF VerifySnapshot, Copying, PlainSteps

\* CopyRoot: the base root is there before any extent.
LEMMA RootKeeps ==
    ASSUME ForkInv, NEW r \in ForkRuns, CopyRoot(r)
    PROVE  ForkInv' /\ Kept
<1>1. /\ runs[r].pc = "root" /\ Fits(runs[r]) /\ runs[r] \in RunSet /\ Still
      /\ target \in TargetSet /\ TargetOK
      /\ Manifest(source).base = source.base /\ source.base \in Nat
  BY RunFacts DEF CopyRoot, StepIs
<1>2. /\ runs[r].snapshot = Manifest(source) /\ source.sealed
      /\ target.intent # Absent /\ target.intent.op = runs[r].op /\ runs[r].op \notin AnchoredOps
  BY <1>1 DEF Fits, PinnedRun, Copying, PlainSteps
<1>3. CASE source.base = 0
  <2>1. RunTo(r, "extents") /\ UNCHANGED target
    BY <1>1, <1>2, <1>3 DEF CopyRoot
  <2>2. Fits([runs[r] EXCEPT !.pc = "extents"])
    BY <1>1, <1>2, <1>3 DEF RunSet, Fits, PinnedRun, CopiedRun, MaterializedRun, Alone, Plain,
        Anchored, RootThere, ExtentsThere,
        CurrentThere, BaseRoot, Copying, PlainSteps, AnchoredSteps
  <2>3. QED
    BY <1>1, <2>1, <2>2, GoOnKeeps DEF Copying, PlainSteps
<1>4. CASE source.base > 0
  <2> DEFINE copied == [index |-> runs[r].snapshot.base, gen |-> 0]
  <2>1. PICK root : root = copied
    OBVIOUS
  <2>2. root = BaseRoot /\ root \in ForkRoot /\ root \in Opt(ForkRoot)
    BY <1>1, <1>2, <2>1 DEF BaseRoot, ForkRoot, Opt
  <2>3. ~ (runs[r].snapshot.base = 0)
    BY <1>1, <1>2, <1>4
  <2>4. /\ target' = [target EXCEPT !.roots = @ \union {root}]
        /\ runs' = ForkMoved(r, [runs[r] EXCEPT !.pc = "extents", !.root = root])
    BY <2>1, <2>3, Zenon DEF CopyRoot
  <2>5. /\ Apart(r) /\ runs'[r].pc = "extents" /\ runs'[r].op = runs[r].op
        /\ runs'[r].snapshot = runs[r].snapshot /\ runs'[r].root = root
        /\ runs'[r].gen = runs[r].gen /\ runs'[r].alone = runs[r].alone
        /\ UNCHANGED <<source, running>>
    <3>1. ForkTypes /\ "extents" \in Copying /\ UNCHANGED <<source, running>>
      BY <1>1 DEF ForkInv, Copying, PlainSteps, Still
    <3>2. QED
      BY <2>2, <2>4, <3>1, RootedIs, Zenon
  <2>6. /\ target' \in TargetSet
        /\ target'.intent = target.intent /\ target'.roots = target.roots \cup {root}
        /\ target'.current = target.current /\ target'.extents = target.extents
        /\ target'.head = target.head /\ target'.anchor = target.anchor
        /\ target'.result = target.result /\ target'.claim = target.claim
    BY <1>1, <2>2, <2>4 DEF TargetSet
  <2>7. Kept
    BY <2>5, <2>6 DEF Kept
  <2>8. TargetOK'
    BY <1>1, <1>2, <2>5, <2>6 DEF TargetOK, Pinned, Plain, Anchored, Copied, Materialized,
        RootThere, ExtentsThere, CurrentThere, BaseRoot
  <2>9. Fits(runs[r])'
    BY <1>1, <1>2, <1>4, <2>2, <2>5, <2>6 DEF Fits, PinnedRun, CopiedRun, MaterializedRun, Alone,
        Plain, Anchored, RootThere, BaseRoot, Copying, PlainSteps, AnchoredSteps
  <2>10. QED
    BY <2>5, <2>7, <2>8, <2>9, CallKeeps
<1>5. QED
  BY <1>1, <1>3, <1>4

\* CopyExtent: when none is missing the archive's head may be written.
LEMMA ExtentKeeps ==
    ASSUME ForkInv, NEW r \in ForkRuns, CopyExtent(r)
    PROVE  ForkInv' /\ Kept
<1>1. /\ runs[r].pc = "extents" /\ Fits(runs[r]) /\ runs[r] \in RunSet /\ Still
      /\ target \in TargetSet /\ TargetOK
      /\ Manifest(source).base = source.base /\ Manifest(source).tip = source.tip
      /\ source.base \in Nat /\ source.tip \in Nat
  BY RunFacts DEF CopyExtent, StepIs
<1>2. /\ runs[r].snapshot = Manifest(source) /\ source.sealed
      /\ target.intent # Absent /\ target.intent.op = runs[r].op /\ runs[r].op \notin AnchoredOps
  BY <1>1 DEF Fits, PinnedRun, Copying, PlainSteps
<1>3. CASE ExtentsThere /\ RunTo(r, "head") /\ UNCHANGED target
  <2>1. Fits([runs[r] EXCEPT !.pc = "head"])
    BY <1>1, <1>2, <1>3 DEF RunSet, Fits, PinnedRun, CopiedRun, MaterializedRun, Alone, Plain,
        Anchored, RootThere, ExtentsThere,
        CurrentThere, BaseRoot, Copying, PlainSteps, AnchoredSteps
  <2>2. QED
    BY <1>1, <1>3, <2>1, GoOnKeeps DEF Copying, PlainSteps
<1>4. ASSUME NEW slot \in Nat, Write(r, [target EXCEPT !.extents = @ \union {slot}], "extents")
      PROVE  ForkInv' /\ Kept
  <2>1. /\ Apart(r) /\ runs'[r].pc = runs[r].pc /\ runs'[r].op = runs[r].op
        /\ runs'[r].snapshot = runs[r].snapshot /\ runs'[r].root = runs[r].root
        /\ runs'[r].gen = runs[r].gen /\ runs'[r].alone = runs[r].alone
        /\ UNCHANGED <<source, running>>
    BY <1>1, <1>4, ToIs DEF ForkInv, Write, Still, Copying, PlainSteps
  <2>2. /\ target' \in TargetSet
        /\ target'.intent = target.intent /\ target'.roots = target.roots
        /\ target'.current = target.current /\ target'.extents = target.extents \cup {slot}
        /\ target'.head = target.head /\ target'.anchor = target.anchor
        /\ target'.result = target.result /\ target'.claim = target.claim
    BY <1>1, <1>4 DEF Write, TargetSet
  <2>3. Kept
    BY <2>1, <2>2 DEF Kept
  <2>4. TargetOK'
    BY <1>1, <1>2, <2>1, <2>2 DEF TargetOK, Pinned, Plain, Anchored, Copied, Materialized,
        RootThere, ExtentsThere,
        CurrentThere, BaseRoot
  <2>5. Fits(runs[r])'
    BY <1>1, <1>2, <2>1, <2>2 DEF Fits, PinnedRun, CopiedRun, MaterializedRun, Alone, Plain,
        Anchored, RootThere, ExtentsThere,
        CurrentThere, BaseRoot, Copying, PlainSteps, AnchoredSteps
  <2>6. QED
    BY <2>1, <2>3, <2>4, <2>5, CallKeeps
<1>5. CASE \E slot \in (source.base + 1)..source.tip :
             Write(r, [target EXCEPT !.extents = @ \union {slot}], "extents")
  BY <1>1, <1>4, <1>5
<1>6. QED
  BY <1>1, <1>2, <1>3, <1>5 DEF CopyExtent, ExtentsThere

\* WriteForkArchiveHead: a head that is there is the same, until a node serves.
LEMMA HeadKeeps ==
    ASSUME ForkInv, NEW r \in ForkRuns, WriteForkArchiveHead(r)
    PROVE  ForkInv' /\ Kept
<1> DEFINE want == [base |-> runs[r].snapshot.base, tip |-> runs[r].snapshot.tip,
                    lineage |-> Absent]
<1>1. /\ runs[r].pc = "head" /\ Fits(runs[r]) /\ runs[r] \in RunSet /\ Still
      /\ target \in TargetSet /\ TargetOK
      /\ Manifest(source).base = source.base /\ Manifest(source).tip = source.tip
      /\ source.base \in Nat /\ source.tip \in Nat
  BY RunFacts DEF WriteForkArchiveHead, StepIs
<1>2. /\ runs[r].snapshot = Manifest(source) /\ source.sealed
      /\ target.intent # Absent /\ target.intent.op = runs[r].op /\ runs[r].op \notin AnchoredOps
  BY <1>1 DEF Fits, PinnedRun, Copying, PlainSteps
<1>3. /\ want = [base |-> source.base, tip |-> source.tip, lineage |-> Absent]
      /\ want \in [base : Nat, tip : Nat, lineage : Opt(AnchorSet)] /\ want # Absent
  BY <1>1, <1>2, AbsentIsNone DEF Opt
<1>4. CASE target.head \in {Absent, want} /\ Write(r, [target EXCEPT !.head = want], "recheck")
  <2>1. /\ Apart(r) /\ runs'[r].pc = "recheck" /\ runs'[r].op = runs[r].op
        /\ runs'[r].snapshot = runs[r].snapshot /\ runs'[r].root = runs[r].root
        /\ runs'[r].gen = runs[r].gen /\ runs'[r].alone = runs[r].alone
        /\ UNCHANGED <<source, running>>
    BY <1>1, <1>4, ToIs DEF ForkInv, Write, Still, Copying, PlainSteps
  <2> HIDE DEF want
  <2>2. /\ target' \in TargetSet
        /\ target'.intent = target.intent /\ target'.roots = target.roots
        /\ target'.current = target.current /\ target'.extents = target.extents
        /\ target'.head = want /\ target'.anchor = target.anchor
        /\ target'.result = target.result /\ target'.claim = target.claim
    BY <1>1, <1>3, <1>4 DEF Write, TargetSet, Opt
  <2>3. Kept
    BY <1>4, <2>1, <2>2 DEF Kept
  <2>4. TargetOK'
    BY <1>1, <1>2, <1>3, <2>1, <2>2 DEF TargetOK, Pinned, Plain, Anchored, Copied, Materialized,
        RootThere, ExtentsThere,
        CurrentThere, BaseRoot
  <2>5. Fits(runs[r])'
    BY <1>1, <1>2, <1>3, <2>1, <2>2 DEF Fits, PinnedRun, CopiedRun, MaterializedRun, Alone,
        Plain, Anchored, RootThere, ExtentsThere,
        CurrentThere, BaseRoot, Copying, PlainSteps, AnchoredSteps
  <2>6. QED
    BY <2>1, <2>3, <2>4, <2>5, CallKeeps
<1>5. CASE target.head \notin {Absent, want} /\ Fail(r)
  <2>1. ~ runs[r].alone
    BY <1>1, <1>2, <1>3, <1>5 DEF Fits, Alone, TargetOK, Plain, Copied
  <2>2. QED
    BY <1>1, <1>5, <2>1, FailKeeps
<1>6. QED
  BY <1>4, <1>5 DEF WriteForkArchiveHead

-----------------------------------------------------------------------------
(* An anchored operation *)

\* What a call of an anchored operation knows once its intent is there.
Anchoring(r) ==
    /\ runs[r].pc \in Copying /\ runs[r].op \in AnchoredOps
    /\ runs[r] \in RunSet /\ target \in TargetSet /\ TargetOK
    /\ target.intent # Absent /\ target.intent.op = runs[r].op
    /\ Materialized /\ MaterializedRun(runs[r]) /\ (runs[r].alone => Alone(runs[r]))
    /\ runs[r].snapshot = Manifest(source) /\ source.sealed
    /\ Manifest(source) \in ManifestSet /\ Manifest(source).tip = source.tip
    /\ source.tip \in Nat /\ source.tip > 0
    /\ running => target.result # Absent

\* The invariant, for such a call.
LEMMA AnchoringIs ==
    ASSUME ForkInv, NEW r \in ForkRuns, runs[r].pc \in Copying,
           runs[r].pc \in AnchoredSteps \/ runs[r].op \in AnchoredOps
    PROVE  Anchoring(r)
<1>1. /\ runs[r] \in RunSet /\ target \in TargetSet /\ TargetOK /\ Fits(runs[r])
      /\ Manifest(source) \in ManifestSet /\ Manifest(source).tip = source.tip
      /\ source.tip \in Nat /\ source.tip > 0
  BY RunFacts
<1>2. PinnedRun(runs[r])
  BY <1>1 DEF Fits
<1>3. /\ target.intent # Absent /\ target.intent.op = runs[r].op /\ runs[r].op \in AnchoredOps
      /\ runs[r].snapshot = Manifest(source) /\ source.sealed
  BY <1>2 DEF PinnedRun
<1>4. QED
  BY <1>1, <1>3 DEF Anchoring, Fits, TargetOK, Anchored, Pinned

\* What a step of such a call has to leave.
LEMMA AnchoringKeeps ==
    ASSUME ForkInv, NEW r \in ForkRuns, Anchoring(r), Apart(r), Kept,
           runs'[r].op = runs[r].op, runs'[r].snapshot = runs[r].snapshot,
           target'.result = target.result,
           runs'[r].pc \in AnchoredSteps \cup {"recheck", "promote", "result"},
           Materialized', MaterializedRun(runs[r])', runs'[r].alone => Alone(runs[r])'
    PROVE  ForkInv'
<1>1. /\ target'.intent = target.intent /\ source' = source /\ running' = running
      /\ target.result # Absent => target'.result = target.result
  BY DEF Anchoring, Kept
<1>2. Anchored' /\ ~ Plain'
  BY <1>1 DEF Anchored, Plain, Anchoring
<1>3. PinnedRun(runs[r])'
  BY <1>1 DEF PinnedRun, Anchoring, Copying, PlainSteps, AnchoredSteps
<1>4. Fits(runs[r])'
  BY <1>2, <1>3 DEF Fits
<1>5. Pinned'
  BY <1>1 DEF Pinned, Anchoring, TargetOK
<1>6. QED
  BY <1>2, <1>4, <1>5, CallKeeps DEF TargetOK

\* ResumeMaterialized: an anchor of the operation has its root, until a node
\* serves and its collector drops it.
LEMMA ResumeKeeps ==
    ASSUME ForkInv, NEW r \in ForkRuns, ResumeMaterialized(r)
    PROVE  ForkInv' /\ Kept
<1>1. runs[r].pc = "resume" /\ Anchoring(r) /\ Still
  BY AnchoringIs DEF ResumeMaterialized, StepIs, Copying, AnchoredSteps
<1>2. ASSUME NEW pc \in {"load", "initialize"}, RunTo(r, pc), UNCHANGED target,
             pc = "load" <=> target.anchor = Absent
      PROVE  ForkInv' /\ Kept
  <2>1. /\ Apart(r) /\ runs'[r].pc = pc /\ runs'[r].op = runs[r].op
        /\ runs'[r].snapshot = runs[r].snapshot /\ runs'[r].root = runs[r].root
        /\ runs'[r].gen = runs[r].gen /\ runs'[r].alone = runs[r].alone
        /\ UNCHANGED <<source, running>>
    BY <1>1, <1>2, ToIs DEF ForkInv, Still, Copying, AnchoredSteps
  <2>2. Kept
    BY <1>1, <1>2, <2>1 DEF Kept, Anchoring
  <2>3. Materialized'
    BY <1>1, <1>2, <2>1 DEF Materialized, Anchoring
  <2>4. MaterializedRun(runs[r])'
    BY <1>2, <2>1 DEF MaterializedRun
  <2>5. runs'[r].alone => Alone(runs[r])'
    BY <1>1, <1>2, <2>1 DEF Alone, Anchoring
  <2>6. QED
    BY <1>1, <1>2, <2>1, <2>2, <2>3, <2>4, <2>5, AnchoringKeeps DEF AnchoredSteps
<1>3. CASE /\ Fail(r) /\ target.anchor # Absent
           /\ ~ (/\ target.anchor.op = runs[r].op
                 /\ target.anchor.manifest = runs[r].snapshot
                 /\ target.anchor.root \in target.roots)
  <2>1. ~ runs[r].alone
    BY <1>1, <1>3 DEF Anchoring, Alone, Materialized
  <2>2. QED
    BY <1>1, <1>3, <2>1, FailKeeps
<1>4. QED
  BY <1>2, <1>3 DEF ResumeMaterialized

\* LoadCurrent: a CURRENT that is there was made of the same source.
LEMMA LoadKeeps ==
    ASSUME ForkInv, NEW r \in ForkRuns, LoadCurrent(r)
    PROVE  ForkInv' /\ Kept
<1>1. runs[r].pc = "load" /\ Anchoring(r) /\ Still
  BY AnchoringIs DEF LoadCurrent, StepIs, Copying, AnchoredSteps
<1>2. CASE target.current = Absent /\ RunTo(r, "refresh") /\ UNCHANGED target
  <2>1. /\ Apart(r) /\ runs'[r].pc = "refresh" /\ runs'[r].op = runs[r].op
        /\ runs'[r].snapshot = runs[r].snapshot /\ runs'[r].root = runs[r].root
        /\ runs'[r].gen = runs[r].gen /\ runs'[r].alone = runs[r].alone
        /\ UNCHANGED <<source, running>>
    BY <1>1, <1>2, ToIs DEF ForkInv, Still, Copying, AnchoredSteps
  <2>2. Kept
    BY <1>1, <1>2, <2>1 DEF Kept, Anchoring
  <2>3. Materialized'
    BY <1>1, <1>2, <2>1 DEF Materialized, Anchoring
  <2>4. MaterializedRun(runs[r])'
    BY <1>2, <2>1 DEF MaterializedRun
  <2>5. runs'[r].alone => Alone(runs[r])'
    BY <1>1, <1>2, <2>1 DEF Alone, Anchoring
  <2>6. QED
    BY <1>1, <1>2, <2>1, <2>2, <2>3, <2>4, <2>5, AnchoringKeeps DEF AnchoredSteps
<1>3. CASE /\ target.current # Absent /\ UNCHANGED target
           /\ runs' = ForkMoved(r, [runs[r] EXCEPT !.pc = "recheck", !.root = target.current])
  <2>1. /\ Apart(r) /\ runs'[r].pc = "recheck" /\ runs'[r].op = runs[r].op
        /\ runs'[r].snapshot = runs[r].snapshot /\ runs'[r].root = target.current
        /\ runs'[r].gen = runs[r].gen /\ runs'[r].alone = runs[r].alone
        /\ UNCHANGED <<source, running>>
    <3>1. target.current \in Opt(ForkRoot)
      BY <1>1 DEF Anchoring, TargetSet
    <3>2. PICK root \in Opt(ForkRoot) : root = target.current
      BY <3>1
    <3>3. runs' = ForkMoved(r, [runs[r] EXCEPT !.pc = "recheck", !.root = root])
      BY <1>3, <3>2, Zenon
    <3>4. QED
      <4>1. ForkTypes /\ "recheck" \in Copying /\ UNCHANGED <<source, running>>
        BY <1>1 DEF ForkInv, Copying, Still
      <4>2. QED
        BY <3>2, <3>3, <4>1, RootedIs, Zenon
  <2>2. Kept
    BY <1>1, <1>3, <2>1 DEF Kept, Anchoring
  <2>3. Materialized'
    BY <1>1, <1>3, <2>1 DEF Materialized, Anchoring
  <2>4. MaterializedRun(runs[r])'
    BY <1>3, <2>1 DEF MaterializedRun
  <2>5. runs'[r].alone => Alone(runs[r])'
    BY <1>1, <1>3, <2>1 DEF Alone, Anchoring
  <2>6. QED
    BY <1>1, <1>3, <2>1, <2>2, <2>3, <2>4, <2>5, AnchoringKeeps DEF AnchoredSteps
<1>4. CASE target.current # Absent /\ ~ SourcesMatch(r) /\ Fail(r)
  <2>1. ~ runs[r].alone
    BY <1>1, <1>4 DEF Anchoring, Alone, Materialized, SourcesMatch
  <2>2. QED
    BY <1>1, <1>4, <2>1, FailKeeps
<1>5. QED
  BY <1>2, <1>3, <1>4 DEF LoadCurrent

\* RefreshCurrent reads only.
LEMMA RefreshKeeps ==
    ASSUME ForkInv, NEW r \in ForkRuns, RefreshCurrent(r)
    PROVE  ForkInv' /\ Kept
<1>1. runs[r].pc = "refresh" /\ Anchoring(r) /\ Still /\ UNCHANGED target
  BY AnchoringIs DEF RefreshCurrent, StepIs, Copying, AnchoredSteps
<1>2. /\ Apart(r) /\ runs'[r].pc = "claim" /\ runs'[r].op = runs[r].op
      /\ runs'[r].snapshot = runs[r].snapshot /\ runs'[r].root = target.current
      /\ runs'[r].gen = runs[r].gen /\ runs'[r].alone = runs[r].alone
      /\ UNCHANGED <<source, running>>
  <2>1. target.current \in Opt(ForkRoot)
    BY <1>1 DEF Anchoring, TargetSet
  <2>2. PICK root \in Opt(ForkRoot) : root = target.current
    BY <2>1
  <2>3. runs' = ForkMoved(r, [runs[r] EXCEPT !.pc = "claim", !.root = root])
    BY <2>2, Zenon DEF RefreshCurrent
  <2>4. QED
    <3>1. ForkTypes /\ "claim" \in Copying /\ UNCHANGED <<source, running>>
      BY <1>1 DEF ForkInv, Copying, AnchoredSteps, Still
    <3>2. QED
      BY <2>2, <2>3, <3>1, RootedIs, Zenon
<1>3. Kept
  BY <1>1, <1>2 DEF Kept, Anchoring
<1>4. Materialized'
  BY <1>1, <1>2 DEF Materialized, Anchoring
<1>5. MaterializedRun(runs[r])'
  BY <1>2 DEF MaterializedRun
<1>6. runs'[r].alone => Alone(runs[r])'
  BY <1>1, <1>2 DEF Alone, Anchoring
<1>7. QED
  BY <1>1, <1>2, <1>3, <1>4, <1>5, <1>6, AnchoringKeeps DEF AnchoredSteps

\* AcquireGenerationClaim: an undisturbed retry finds the claim free, or its own
\* operation's and lapsed.
LEMMA ClaimKeeps ==
    ASSUME ForkInv, NEW r \in ForkRuns, AcquireGenerationClaim(r)
    PROVE  ForkInv' /\ Kept
<1> DEFINE taken == [gen |-> target.claim.gen + 1, owner |-> runs[r].op, bound |-> 0,
                     live |-> TRUE]
           free == IF target.claim.gen = 0 THEN runs[r].root = Absent
                   ELSE /\ target.claim.owner = runs[r].op
                        /\ target.claim.bound <= runs[r].snapshot.tip
                        /\ runs[r].root # Absent =>
                             /\ runs[r].root.index = runs[r].snapshot.tip
                             /\ target.claim.bound = runs[r].snapshot.tip
                        /\ ~target.claim.live
<1>1. /\ runs[r].pc = "claim" /\ Anchoring(r) /\ Still
      /\ target.claim \in [gen : Nat, owner : Ops \cup {"none", "node"}, bound : Nat,
                           live : BOOLEAN]
  BY AnchoringIs DEF AcquireGenerationClaim, StepIs, Copying, AnchoredSteps, Anchoring, TargetSet
<1>2. CASE /\ target' = [target EXCEPT !.claim = taken]
           /\ runs' = ForkMoved(r, [runs[r] EXCEPT !.pc = "create", !.gen = target.claim.gen + 1])
  <2>1. /\ Apart(r) /\ runs'[r].pc = "create" /\ runs'[r].op = runs[r].op
        /\ runs'[r].snapshot = runs[r].snapshot /\ runs'[r].root = runs[r].root
        /\ runs'[r].gen = target.claim.gen + 1 /\ runs'[r].alone = runs[r].alone
        /\ UNCHANGED <<source, running>>
    <3>1. PICK gen \in Nat : gen = target.claim.gen + 1
      BY <1>1
    <3> DEFINE new == [runs[r] EXCEPT !.pc = "create", !.gen = gen]
    <3>2. /\ new \in RunSet /\ new.pc = "create" /\ new.op = runs[r].op
          /\ new.snapshot = runs[r].snapshot /\ new.root = runs[r].root
          /\ new.gen = gen /\ new.alone = runs[r].alone
      BY <1>1 DEF RunSet, Anchoring, Copying, AnchoredSteps
    <3>3. runs' = ForkMoved(r, new)
      BY <1>2, <3>1, Zenon
    <3>4. Apart(r) /\ runs'[r] = new
      BY <3>2, <3>3, MovedIs DEF ForkInv
    <3>5. QED
      BY <1>1, <3>1, <3>2, <3>4 DEF Still
  <2>2. /\ target' \in TargetSet
        /\ target'.intent = target.intent /\ target'.roots = target.roots
        /\ target'.current = target.current /\ target'.extents = target.extents
        /\ target'.head = target.head /\ target'.anchor = target.anchor
        /\ target'.result = target.result /\ target'.claim = taken
        /\ taken.gen = target.claim.gen + 1 /\ taken.owner = runs[r].op /\ taken.bound = 0
        /\ taken.live = TRUE /\ taken.gen > 0
    <3>1. taken \in [gen : Nat, owner : Ops \cup {"none", "node"}, bound : Nat, live : BOOLEAN]
      BY <1>1 DEF Anchoring, RunSet
    <3>2. taken.gen > 0
      BY <1>1
    <3>3. QED
      BY <1>1, <1>2, <3>1, <3>2 DEF Anchoring, TargetSet
  <2> HIDE DEF taken
  <2>3. Kept
    BY <1>1, <1>2, <2>1, <2>2 DEF Kept, Anchoring
  <2>4. Materialized'
    BY <1>1, <1>2, <2>1, <2>2 DEF Materialized, MaterializedRun, Anchoring
  <2>5. MaterializedRun(runs[r])'
    BY <1>1, <1>2, <2>1, <2>2 DEF Materialized, MaterializedRun, Anchoring
  <2>6. runs'[r].alone => Alone(runs[r])'
    BY <1>1, <1>2, <2>1, <2>2 DEF Alone, Anchoring
  <2>7. QED
    BY <1>1, <2>1, <2>2, <2>3, <2>4, <2>5, <2>6, AnchoringKeeps DEF AnchoredSteps
<1>3. CASE ~ free /\ Fail(r)
  <2>1. ~ runs[r].alone
    BY <1>1, <1>3 DEF Anchoring, Alone, Materialized, MaterializedRun
  <2>2. QED
    BY <1>1, <1>3, <2>1, FailKeeps
<1>4. QED
  BY <1>2, <1>3 DEF AcquireGenerationClaim

\* CreateRoot: a new root, at the source's tip.
LEMMA CreateKeeps ==
    ASSUME ForkInv, NEW r \in ForkRuns, CreateRoot(r)
    PROVE  ForkInv' /\ Kept
<1> DEFINE made == [index |-> runs[r].snapshot.tip, gen |-> runs[r].gen]
<1>1. runs[r].pc = "create" /\ Anchoring(r) /\ Still
  BY AnchoringIs DEF CreateRoot, StepIs, Copying, AnchoredSteps
<1>2. CASE /\ target' = [target EXCEPT !.roots = @ \union {made}]
           /\ runs' = ForkMoved(r, [runs[r] EXCEPT !.pc = "bind", !.root = made])
  <2>0. PICK root : root = made
    OBVIOUS
  <2>a. root \in ForkRoot /\ root \in Opt(ForkRoot) /\ root.index = source.tip /\ root # Absent
    BY <1>1, <2>0, AbsentIsNone DEF Anchoring, ForkRoot, Opt, RunSet
  <2>b. /\ target' = [target EXCEPT !.roots = @ \union {root}]
        /\ runs' = ForkMoved(r, [runs[r] EXCEPT !.pc = "bind", !.root = root])
    BY <1>2, <2>0, Zenon
  <2>1. /\ Apart(r) /\ runs'[r].pc = "bind" /\ runs'[r].op = runs[r].op
        /\ runs'[r].snapshot = runs[r].snapshot /\ runs'[r].root = root
        /\ runs'[r].gen = runs[r].gen /\ runs'[r].alone = runs[r].alone
        /\ UNCHANGED <<source, running>>
    <3>1. ForkTypes /\ "bind" \in Copying /\ UNCHANGED <<source, running>>
      BY <1>1 DEF ForkInv, Copying, AnchoredSteps, Still
    <3>2. QED
      BY <2>a, <2>b, <3>1, RootedIs, Zenon
  <2>2. /\ target' \in TargetSet
        /\ target'.intent = target.intent /\ target'.roots = target.roots \cup {root}
        /\ target'.current = target.current /\ target'.extents = target.extents
        /\ target'.head = target.head /\ target'.anchor = target.anchor
        /\ target'.result = target.result /\ target'.claim = target.claim
    BY <1>1, <2>a, <2>b DEF Anchoring, TargetSet
  <2>3. Kept
    BY <1>1, <2>a, <2>1, <2>2 DEF Kept, Anchoring
  <2>4. Materialized'
    BY <1>1, <2>a, <2>1, <2>2 DEF Materialized, MaterializedRun, Anchoring
  <2>5. MaterializedRun(runs[r])'
    BY <1>1, <2>a, <2>1, <2>2 DEF Materialized, MaterializedRun, Anchoring
  <2>6. runs'[r].alone => Alone(runs[r])'
    BY <1>1, <2>a, <2>1, <2>2 DEF Alone, Anchoring
  <2>7. QED
    BY <1>1, <2>1, <2>2, <2>3, <2>4, <2>5, <2>6, AnchoringKeeps DEF AnchoredSteps
<1>3. CASE ~ Leased(r) /\ Fail(r)
  <2>1. ~ runs[r].alone
    BY <1>1, <1>3 DEF Anchoring, Alone, Materialized, MaterializedRun, Leased
  <2>2. QED
    BY <1>1, <1>3, <2>1, FailKeeps
<1>4. QED
  BY <1>2, <1>3 DEF CreateRoot

\* BindClaim: the claim is bound to the source's tip.
LEMMA BindKeeps ==
    ASSUME ForkInv, NEW r \in ForkRuns, BindClaim(r)
    PROVE  ForkInv' /\ Kept
<1>1. runs[r].pc = "bind" /\ Anchoring(r) /\ Still
  BY AnchoringIs DEF BindClaim, StepIs, Copying, AnchoredSteps
<1>2. CASE Leased(r) /\ Write(r, [target EXCEPT !.claim.bound = runs[r].root.index], "lease")
  <2>1. /\ Apart(r) /\ runs'[r].pc = "lease" /\ runs'[r].op = runs[r].op
        /\ runs'[r].snapshot = runs[r].snapshot /\ runs'[r].root = runs[r].root
        /\ runs'[r].gen = runs[r].gen /\ runs'[r].alone = runs[r].alone
        /\ UNCHANGED <<source, running>>
    BY <1>1, <1>2, ToIs DEF ForkInv, Still, Write, Copying, AnchoredSteps
  <2>2. /\ target' \in TargetSet
        /\ target'.intent = target.intent /\ target'.roots = target.roots
        /\ target'.current = target.current /\ target'.extents = target.extents
        /\ target'.head = target.head /\ target'.anchor = target.anchor
        /\ target'.result = target.result /\ target'.claim = [target.claim EXCEPT !.bound = source.tip]
        /\ target'.claim.gen = target.claim.gen /\ target'.claim.owner = target.claim.owner
        /\ target'.claim.bound = source.tip /\ target'.claim.live = target.claim.live
    <3>1. runs[r].root.index = source.tip
      BY <1>1 DEF Anchoring, MaterializedRun
    <3>2. target' = [target EXCEPT !.claim = [target.claim EXCEPT !.bound = source.tip]]
      BY <1>2, <3>1 DEF Write
    <3>3. target.claim \in [gen : Nat, owner : Ops \cup {"none", "node"}, bound : Nat,
                            live : BOOLEAN]
      BY <1>1 DEF Anchoring, TargetSet
    <3>4. /\ [target.claim EXCEPT !.bound = source.tip]
               \in [gen : Nat, owner : Ops \cup {"none", "node"}, bound : Nat, live : BOOLEAN]
          /\ [target.claim EXCEPT !.bound = source.tip].gen = target.claim.gen
          /\ [target.claim EXCEPT !.bound = source.tip].owner = target.claim.owner
          /\ [target.claim EXCEPT !.bound = source.tip].bound = source.tip
          /\ [target.claim EXCEPT !.bound = source.tip].live = target.claim.live
      BY <1>1, <3>3 DEF Anchoring
    <3>5. QED
      BY <1>1, <3>2, <3>4 DEF Anchoring, TargetSet
  <2>3. Kept
    BY <1>1, <1>2, <2>1, <2>2 DEF Kept, Anchoring
  <2>4. Materialized'
    BY <1>1, <1>2, <2>1, <2>2 DEF Materialized, MaterializedRun, Anchoring
  <2>5. MaterializedRun(runs[r])'
    BY <1>1, <1>2, <2>1, <2>2 DEF Materialized, MaterializedRun, Anchoring
  <2>6. runs'[r].alone => Alone(runs[r])'
    BY <1>1, <1>2, <2>1, <2>2 DEF Alone, Anchoring
  <2>7. QED
    BY <1>1, <2>1, <2>2, <2>3, <2>4, <2>5, <2>6, AnchoringKeeps DEF AnchoredSteps
<1>3. CASE ~ Leased(r) /\ Fail(r)
  <2>1. ~ runs[r].alone
    BY <1>1, <1>3 DEF Anchoring, Alone, Materialized, MaterializedRun, Leased
  <2>2. QED
    BY <1>1, <1>3, <2>1, FailKeeps
<1>4. QED
  BY <1>2, <1>3 DEF BindClaim

\* CheckLease: the root of the call is there, until a node serves.
LEMMA LeaseKeeps ==
    ASSUME ForkInv, NEW r \in ForkRuns, CheckLease(r)
    PROVE  ForkInv' /\ Kept
<1>1. runs[r].pc = "lease" /\ Anchoring(r) /\ Still
  BY AnchoringIs DEF CheckLease, StepIs, Copying, AnchoredSteps
<1>2. CASE RunTo(r, "promote") /\ UNCHANGED target
  <2>1. /\ Apart(r) /\ runs'[r].pc = "promote" /\ runs'[r].op = runs[r].op
        /\ runs'[r].snapshot = runs[r].snapshot /\ runs'[r].root = runs[r].root
        /\ runs'[r].gen = runs[r].gen /\ runs'[r].alone = runs[r].alone
        /\ UNCHANGED <<source, running>>
    BY <1>1, <1>2, ToIs DEF ForkInv, Still, Copying, AnchoredSteps
  <2>2. UNCHANGED target
    BY <1>2
  <2>3. Kept
    BY <1>1, <1>2, <2>1, <2>2 DEF Kept, Anchoring
  <2>4. Materialized'
    BY <1>1, <1>2, <2>1, <2>2 DEF Materialized, MaterializedRun, Anchoring
  <2>5. MaterializedRun(runs[r])'
    BY <1>1, <1>2, <2>1, <2>2 DEF Materialized, MaterializedRun, Anchoring
  <2>6. runs'[r].alone => Alone(runs[r])'
    BY <1>1, <1>2, <2>1, <2>2 DEF Alone, Anchoring
  <2>7. QED
    BY <1>1, <2>1, <2>2, <2>3, <2>4, <2>5, <2>6, AnchoringKeeps DEF AnchoredSteps
<1>3. CASE ~ (Leased(r) /\ runs[r].root \in target.roots) /\ Fail(r)
  <2>1. ~ runs[r].alone
    BY <1>1, <1>3 DEF Anchoring, Alone, Materialized, MaterializedRun, Leased
  <2>2. QED
    BY <1>1, <1>3, <2>1, FailKeeps
<1>4. QED
  BY <1>2, <1>3 DEF CheckLease

\* PublishAnchor: the anchor names CURRENT.
LEMMA AnchorKeeps ==
    ASSUME ForkInv, NEW r \in ForkRuns, PublishAnchor(r)
    PROVE  ForkInv' /\ Kept
<1>1. /\ runs[r].pc = "anchor" /\ Anchoring(r) /\ Still
      /\ target.anchor = Absent \/ target.anchor \in AnchorSet
  BY AnchoringIs DEF PublishAnchor, StepIs, Copying, AnchoredSteps, Anchoring, TargetSet, Opt
<1> DEFINE want == AnchorOf(r)
<1>a. /\ want \in AnchorSet /\ want # Absent /\ want.op = runs[r].op
      /\ want.manifest = Manifest(source) /\ want.root = runs[r].root
  BY <1>1, AbsentIsNone DEF AnchorOf, AnchorSet, Anchoring, RunSet, MaterializedRun, Opt
<1> HIDE DEF want
<1>2. CASE target.anchor \in {Absent, want} /\ Write(r, [target EXCEPT !.anchor = want], "initialize")
  <2>1. /\ Apart(r) /\ runs'[r].pc = "initialize" /\ runs'[r].op = runs[r].op
        /\ runs'[r].snapshot = runs[r].snapshot /\ runs'[r].root = runs[r].root
        /\ runs'[r].gen = runs[r].gen /\ runs'[r].alone = runs[r].alone
        /\ UNCHANGED <<source, running>>
    BY <1>1, <1>2, ToIs DEF ForkInv, Still, Write, Copying, AnchoredSteps
  <2>2. /\ target' \in TargetSet
        /\ target'.intent = target.intent /\ target'.roots = target.roots
        /\ target'.current = target.current /\ target'.extents = target.extents
        /\ target'.head = target.head /\ target'.anchor = want
        /\ target'.result = target.result /\ target'.claim = target.claim
    BY <1>1, <1>a, <1>2 DEF Anchoring, TargetSet, Write, Opt
  <2>3. Kept
    BY <1>1, <1>a, <1>2, <2>1, <2>2 DEF Kept, Anchoring
  <2>4. Materialized'
    BY <1>1, <1>a, <1>2, <2>1, <2>2 DEF Materialized, MaterializedRun, Anchoring
  <2>5. MaterializedRun(runs[r])'
    BY <1>1, <1>a, <1>2, <2>1, <2>2 DEF Materialized, MaterializedRun, Anchoring
  <2>6. runs'[r].alone => Alone(runs[r])'
    BY <1>1, <1>a, <1>2, <2>1, <2>2 DEF Alone, Anchoring
  <2>7. QED
    BY <1>1, <2>1, <2>2, <2>3, <2>4, <2>5, <2>6, AnchoringKeeps DEF AnchoredSteps
<1>3. CASE target.anchor \notin {Absent, want} /\ Fail(r)
  <2>1. ~ runs[r].alone
    BY <1>1, <1>3 DEF Anchoring, Alone, Materialized, MaterializedRun
  <2>2. QED
    BY <1>1, <1>3, <2>1, FailKeeps
<1>4. QED
  BY <1>2, <1>3 DEF PublishAnchor, want

\* InitializeFencedGeneration: the archive starts at the anchor.
LEMMA InitializeKeeps ==
    ASSUME ForkInv, NEW r \in ForkRuns, InitializeFencedGeneration(r)
    PROVE  ForkInv' /\ Kept
<1>1. /\ runs[r].pc = "initialize" /\ Anchoring(r) /\ Still
  BY AnchoringIs DEF InitializeFencedGeneration, StepIs, Copying, AnchoredSteps
<1>b. /\ target.anchor # Absent /\ target.anchor \in Opt(AnchorSet)
      /\ target.anchor.manifest.tip = source.tip
  BY <1>1 DEF Anchoring, MaterializedRun, Materialized, TargetSet
<1> DEFINE want == [base |-> target.anchor.manifest.tip, tip |-> target.anchor.manifest.tip,
                    lineage |-> target.anchor]
<1>a. /\ want \in [base : Nat, tip : Nat, lineage : Opt(AnchorSet)] /\ want # Absent
      /\ want = [base |-> source.tip, tip |-> source.tip, lineage |-> target.anchor]
  <2>1. want = [base |-> source.tip, tip |-> source.tip, lineage |-> target.anchor]
    BY <1>b
  <2>2. QED
    BY <1>1, <1>b, <2>1, AbsentIsNone DEF Anchoring
<1>2. CASE target.head \in {Absent, want} /\ Write(r, [target EXCEPT !.head = want], "result")
  <2>1. /\ Apart(r) /\ runs'[r].pc = "result" /\ runs'[r].op = runs[r].op
        /\ runs'[r].snapshot = runs[r].snapshot /\ runs'[r].root = runs[r].root
        /\ runs'[r].gen = runs[r].gen /\ runs'[r].alone = runs[r].alone
        /\ UNCHANGED <<source, running>>
    BY <1>1, <1>2, ToIs DEF ForkInv, Still, Write, Copying, AnchoredSteps
  <2> HIDE DEF want
  <2>2. /\ target' \in TargetSet
        /\ target'.intent = target.intent /\ target'.roots = target.roots
        /\ target'.current = target.current /\ target'.extents = target.extents
        /\ target'.head = want /\ target'.anchor = target.anchor
        /\ target'.result = target.result /\ target'.claim = target.claim
    BY <1>1, <1>a, <1>2 DEF Anchoring, TargetSet, Write, Opt
  <2>3. Kept
    BY <1>1, <1>a, <1>b, <1>2, <2>1, <2>2 DEF Kept, Anchoring
  <2>4. Materialized'
    BY <1>1, <1>a, <1>b, <1>2, <2>1, <2>2 DEF Materialized, MaterializedRun, Anchoring
  <2>5. MaterializedRun(runs[r])'
    BY <1>1, <1>a, <1>b, <1>2, <2>1, <2>2 DEF Materialized, MaterializedRun, Anchoring
  <2>6. runs'[r].alone => Alone(runs[r])'
    BY <1>1, <1>a, <1>b, <1>2, <2>1, <2>2 DEF Alone, Anchoring
  <2>7. QED
    BY <1>1, <2>1, <2>2, <2>3, <2>4, <2>5, <2>6, AnchoringKeeps DEF AnchoredSteps
<1>3. CASE target.head \notin {Absent, want} /\ Fail(r)
  <2>1. ~ runs[r].alone
    BY <1>1, <1>a, <1>3 DEF Anchoring, Alone, Materialized
  <2>2. QED
    BY <1>1, <1>3, <2>1, FailKeeps
<1>4. QED
  BY <1>2, <1>3 DEF InitializeFencedGeneration

-----------------------------------------------------------------------------
(* Steps of both kinds of operation *)

\* What a call of a plain operation knows once its intent is there.
Copies(r) ==
    /\ runs[r].op \notin AnchoredOps
    /\ runs[r] \in RunSet /\ target \in TargetSet /\ TargetOK
    /\ target.intent # Absent /\ target.intent.op = runs[r].op
    /\ Pinned /\ Copied /\ CopiedRun(runs[r]) /\ (runs[r].alone => Alone(runs[r]))
    /\ runs[r].snapshot = Manifest(source) /\ source.sealed
    /\ Manifest(source) \in ManifestSet /\ Manifest(source).base = source.base
    /\ source.base \in Nat
    /\ BaseRoot \in ForkRoot /\ BaseRoot # Absent /\ BaseRoot.index = source.base

\* The invariant, for such a call.
LEMMA CopiesIs ==
    ASSUME ForkInv, NEW r \in ForkRuns, runs[r].pc \in Copying, runs[r].op \notin AnchoredOps
    PROVE  Copies(r)
<1>1. /\ runs[r] \in RunSet /\ target \in TargetSet /\ TargetOK /\ Fits(runs[r])
      /\ Manifest(source) \in ManifestSet /\ Manifest(source).base = source.base
      /\ source.base \in Nat
  BY RunFacts
<1>2. /\ target.intent # Absent /\ target.intent.op = runs[r].op
      /\ runs[r].snapshot = Manifest(source) /\ source.sealed
  BY <1>1 DEF Fits, PinnedRun
<1>3. BaseRoot \in ForkRoot /\ BaseRoot # Absent /\ BaseRoot.index = source.base
  BY <1>1, AbsentIsNone DEF BaseRoot, ForkRoot
<1>4. QED
  BY <1>1, <1>2, <1>3 DEF Copies, Fits, TargetOK, Plain

\* What a step of such a call has to leave.
LEMMA CopiesKeeps ==
    ASSUME ForkInv, NEW r \in ForkRuns, Copies(r), Apart(r), Kept,
           runs'[r].op = runs[r].op, runs'[r].snapshot = runs[r].snapshot,
           target'.result = target.result,
           runs'[r].pc \in {"recheck", "promote", "result"},
           Copied', CopiedRun(runs[r])', runs'[r].alone => Alone(runs[r])'
    PROVE  ForkInv'
<1>1. target'.intent = target.intent /\ source' = source /\ running' = running
  BY DEF Copies, Kept
<1>2. Plain' /\ ~ Anchored'
  BY <1>1 DEF Anchored, Plain, Copies
<1>3. PinnedRun(runs[r])'
  BY <1>1 DEF PinnedRun, Copies, Copying, PlainSteps, AnchoredSteps
<1>4. Fits(runs[r])'
  BY <1>2, <1>3 DEF Fits
<1>5. Pinned'
  BY <1>1 DEF Pinned, Copies
<1>6. QED
  BY <1>2, <1>4, <1>5, CallKeeps DEF TargetOK

\* RecheckSource: a sealed source does not move, so the check succeeds.
LEMMA RecheckKeeps ==
    ASSUME ForkInv, NEW r \in ForkRuns, RecheckSource(r)
    PROVE  ForkInv' /\ Kept
<1>1. runs[r].pc = "recheck" /\ runs[r].pc \in Copying /\ Still
  BY DEF RecheckSource, StepIs, Copying
<1>2. CASE runs[r].op \in AnchoredOps
  <2>1. Anchoring(r)
    BY <1>1, <1>2, AnchoringIs
  <2>2. RunTo(r, "anchor") /\ UNCHANGED target
    BY <1>2, <2>1 DEF RecheckSource, Anchoring
  <2>3. /\ Apart(r) /\ runs'[r].pc = "anchor" /\ runs'[r].op = runs[r].op
        /\ runs'[r].snapshot = runs[r].snapshot /\ runs'[r].root = runs[r].root
        /\ runs'[r].gen = runs[r].gen /\ runs'[r].alone = runs[r].alone
        /\ UNCHANGED <<source, running>>
    BY <1>1, <2>2, ToIs DEF ForkInv, Still, Copying, AnchoredSteps
  <2>4. Kept /\ Materialized'
    BY <2>1, <2>2, <2>3 DEF Kept, Materialized, Anchoring
  <2>5. MaterializedRun(runs[r])'
    BY <1>1, <2>1, <2>2, <2>3 DEF MaterializedRun, Anchoring
  <2>6. runs'[r].alone => Alone(runs[r])'
    BY <1>1, <2>1, <2>2, <2>3 DEF Alone, Anchoring
  <2>7. QED
    BY <2>1, <2>2, <2>3, <2>4, <2>5, <2>6, AnchoringKeeps DEF AnchoredSteps
<1>3. CASE runs[r].op \notin AnchoredOps
  <2>1. Copies(r)
    BY <1>1, <1>3, CopiesIs
  <2> DEFINE pc == IF runs[r].root = Absent THEN "result" ELSE "promote"
  <2>2. RunTo(r, pc) /\ UNCHANGED target
    BY <1>3, <2>1 DEF RecheckSource, Copies
  <2>3. /\ pc \in {"promote", "result"}
        /\ pc = "promote" => source.base > 0
        /\ pc = "result" => source.base = 0
    BY <1>1, <2>1 DEF Copies, CopiedRun
  <2> HIDE DEF pc
  <2>4. /\ Apart(r) /\ runs'[r].pc = pc /\ runs'[r].op = runs[r].op
        /\ runs'[r].snapshot = runs[r].snapshot /\ runs'[r].root = runs[r].root
        /\ runs'[r].gen = runs[r].gen /\ runs'[r].alone = runs[r].alone
        /\ UNCHANGED <<source, running>>
    BY <1>1, <2>2, <2>3, ToIs DEF ForkInv, Still, Copying
  <2>5. Kept
    BY <2>1, <2>2, <2>4 DEF Kept, Copies
  <2>6. Copied' /\ CopiedRun(runs[r])'
    BY <1>1, <2>1, <2>2, <2>3, <2>4 DEF Copied, CopiedRun, Copies, RootThere, ExtentsThere,
        CurrentThere, BaseRoot
  <2>7. runs'[r].alone => Alone(runs[r])'
    BY <1>1, <1>3, <2>1, <2>2, <2>3, <2>4 DEF Alone, Copies
  <2>8. QED
    BY <2>1, <2>2, <2>3, <2>4, <2>5, <2>6, <2>7, CopiesKeeps
<1>4. QED
  BY <1>2, <1>3

\* PromoteRoot: CURRENT is set once by all calls.
LEMMA PromoteKeeps ==
    ASSUME ForkInv, NEW r \in ForkRuns, PromoteRoot(r)
    PROVE  ForkInv' /\ Kept
<1>1. runs[r].pc = "promote" /\ runs[r].pc \in Copying /\ Still
  BY DEF PromoteRoot, StepIs, Copying
<1>2. CASE runs[r].op \in AnchoredOps
  <2>1. Anchoring(r) /\ runs[r].root \in ForkRoot /\ runs[r].root # Absent
        /\ runs[r].root.index = source.tip
    BY <1>1, <1>2, AnchoringIs DEF Anchoring, MaterializedRun, RunSet, Opt
  <2>2. CASE /\ CurrentIndex < runs[r].root.index \/ target.current = runs[r].root
             /\ Write(r, [target EXCEPT !.current = runs[r].root], "recheck")
    <3>1. /\ Apart(r) /\ runs'[r].pc = "recheck" /\ runs'[r].op = runs[r].op
          /\ runs'[r].snapshot = runs[r].snapshot /\ runs'[r].root = runs[r].root
          /\ runs'[r].gen = runs[r].gen /\ runs'[r].alone = runs[r].alone
          /\ UNCHANGED <<source, running>>
      BY <1>1, <2>2, ToIs DEF ForkInv, Still, Write, Copying
    <3>2. /\ target' \in TargetSet
          /\ target'.intent = target.intent /\ target'.roots = target.roots
          /\ target'.current = runs[r].root /\ target'.extents = target.extents
          /\ target'.head = target.head /\ target'.anchor = target.anchor
          /\ target'.result = target.result /\ target'.claim = target.claim
      BY <2>1, <2>2 DEF Anchoring, TargetSet, Write, Opt
    <3>3. target.current = Absent \/ target.current = runs[r].root
      <4>1. target.current # Absent => target.current.index >= source.tip
                                       /\ target.current.index \in Nat
        BY <2>1 DEF Anchoring, Materialized, TargetSet, Opt, ForkRoot
      <4>2. QED
        BY <2>1, <2>2, <4>1 DEF CurrentIndex, Anchoring
    <3>4. Kept
      BY <1>2, <2>1, <3>1, <3>2, <3>3 DEF Kept, Anchoring, Plain
    <3>5. Materialized'
      BY <1>1, <2>1, <3>1, <3>2, <3>3 DEF Materialized, MaterializedRun, Anchoring
    <3>6. MaterializedRun(runs[r])'
      BY <2>1, <3>1, <3>2 DEF MaterializedRun
    <3>7. runs'[r].alone => Alone(runs[r])'
      BY <1>1, <2>1, <3>1, <3>2 DEF Alone, Anchoring
    <3>8. QED
      BY <2>1, <3>1, <3>2, <3>4, <3>5, <3>6, <3>7, AnchoringKeeps
  <2>3. CASE Fail(r) /\ ~ (CurrentIndex < runs[r].root.index \/ target.current = runs[r].root)
    <3>1. ~ runs[r].alone
      BY <1>1, <1>2, <2>1, <2>3 DEF Anchoring, Alone, CurrentIndex
    <3>2. QED
      BY <1>1, <2>3, <3>1, FailKeeps
  <2>4. QED
    BY <1>2, <2>2, <2>3 DEF PromoteRoot
<1>3. CASE runs[r].op \notin AnchoredOps
  <2>1. Copies(r) /\ runs[r].root = BaseRoot /\ source.base > 0
    BY <1>1, <1>3, CopiesIs DEF Copies, CopiedRun
  <2>2. CASE /\ CurrentIndex < runs[r].root.index \/ target.current = runs[r].root
             /\ Write(r, [target EXCEPT !.current = runs[r].root], "result")
    <3>1. /\ Apart(r) /\ runs'[r].pc = "result" /\ runs'[r].op = runs[r].op
          /\ runs'[r].snapshot = runs[r].snapshot /\ runs'[r].root = runs[r].root
          /\ runs'[r].gen = runs[r].gen /\ runs'[r].alone = runs[r].alone
          /\ UNCHANGED <<source, running>>
      BY <1>1, <2>2, ToIs DEF ForkInv, Still, Write, Copying
    <3>2. /\ target' \in TargetSet
          /\ target'.intent = target.intent /\ target'.roots = target.roots
          /\ target'.current = BaseRoot /\ target'.extents = target.extents
          /\ target'.head = target.head /\ target'.anchor = target.anchor
          /\ target'.result = target.result /\ target'.claim = target.claim
      BY <2>1, <2>2 DEF Copies, TargetSet, Write, Opt
    <3>3. target.current = Absent \/ target.current = BaseRoot
      <4>1. target.current # Absent => target.current.index >= source.base
                                       /\ target.current.index \in Nat
        BY <2>1 DEF Copies, Copied, TargetSet, Opt, ForkRoot
      <4>2. QED
        BY <2>1, <2>2, <4>1 DEF CurrentIndex, Copies
    <3>4. Kept
      BY <2>1, <3>1, <3>2, <3>3 DEF Kept, Copies
    <3>5. Copied' /\ CopiedRun(runs[r])'
      <4>1. BaseRoot' = BaseRoot
        BY <3>1 DEF BaseRoot
      <4>2. QED
        BY <1>1, <2>1, <3>1, <3>2, <3>3, <4>1 DEF Copied, CopiedRun, Copies, RootThere,
            ExtentsThere,
            CurrentThere
    <3>6. runs'[r].alone => Alone(runs[r])'
      BY <1>1, <1>3, <2>1, <3>1, <3>2 DEF Alone, Copies
    <3>7. QED
      BY <2>1, <3>1, <3>2, <3>4, <3>5, <3>6, CopiesKeeps
  <2>3. CASE Fail(r) /\ ~ (CurrentIndex < runs[r].root.index \/ target.current = runs[r].root)
    <3>1. ~ runs[r].alone
      BY <1>1, <1>3, <2>1, <2>3 DEF Copies, Alone, Copied, CurrentIndex
    <3>2. QED
      BY <1>1, <2>3, <3>1, FailKeeps
  <2>4. QED
    BY <1>3, <2>2, <2>3 DEF PromoteRoot
<1>4. QED
  BY <1>2, <1>3

\* WriteForkResult: everything the result speaks of is there.
LEMMA ResultKeeps ==
    ASSUME ForkInv, NEW r \in ForkRuns, WriteForkResult(r)
    PROVE  ForkInv' /\ Kept
<1>1. /\ runs[r].pc = "result" /\ runs[r].pc \in Copying /\ Still /\ target \in TargetSet
      /\ TargetOK /\ Fits(runs[r]) /\ Manifest(source) \in ManifestSet
  BY RunFacts DEF WriteForkResult, StepIs, Copying
<1>2. /\ target.intent # Absent /\ target.intent.op = runs[r].op
      /\ runs[r].snapshot = Manifest(source) /\ source.sealed
  BY <1>1 DEF Fits, PinnedRun
<1> DEFINE want == [manifest |-> runs[r].snapshot]
<1>3. want \in [manifest : ManifestSet] /\ want # Absent /\ want.manifest = Manifest(source)
  BY <1>1, <1>2, AbsentIsNone
<1>4. target.result \in {Absent, want}
  <2>1. target.result # Absent =>
          target.result \in [manifest : ManifestSet] /\ target.result.manifest = Manifest(source)
    BY <1>1 DEF TargetSet, Opt, TargetOK, Pinned
  <2>2. QED
    BY <1>2, <2>1
<1>5. target' = [target EXCEPT !.result = want, !.claim = Unclaimed(r)] /\ EndRun(r, "done")
  BY <1>4 DEF WriteForkResult
<1> HIDE DEF want
<1>6. /\ Apart(r) /\ runs'[r].pc = "done" /\ runs'[r].op = runs[r].op
      /\ runs'[r].snapshot = runs[r].snapshot /\ runs'[r].root = runs[r].root
      /\ runs'[r].gen = runs[r].gen /\ runs'[r].alone = runs[r].alone
      /\ UNCHANGED <<source, running>>
  BY <1>1, <1>5, EndIs DEF ForkInv, Still
<1>7. LET c == Unclaimed(r) IN
           /\ c \in [gen : Nat, owner : Ops \cup {"none", "node"}, bound : Nat, live : BOOLEAN]
           /\ c.gen = target.claim.gen /\ c.owner = target.claim.owner
           /\ c.bound = target.claim.bound /\ (c.live => target.claim.live)
           /\ runs[r].gen > 0 /\ target.claim.gen = runs[r].gen => ~ c.live
  BY UnclaimedIs DEF ForkInv
<1>8. /\ target' \in TargetSet
      /\ target'.intent = target.intent /\ target'.roots = target.roots
      /\ target'.current = target.current /\ target'.extents = target.extents
      /\ target'.head = target.head /\ target'.anchor = target.anchor
      /\ target'.result = want /\ target'.claim = Unclaimed(r)
  BY <1>1, <1>3, <1>5, <1>7 DEF TargetSet, Opt
<1>9. Kept
  BY <1>4, <1>6, <1>8 DEF Kept
<1>10. Pinned'
  BY <1>1, <1>2, <1>3, <1>6, <1>8 DEF TargetOK, Pinned
<1>11. Plain' => Copied'
  BY <1>1, <1>2, <1>6, <1>7, <1>8 DEF Fits, TargetOK, Plain, Copied, CopiedRun, RootThere,
      ExtentsThere, CurrentThere, BaseRoot
<1>12. Anchored' => Materialized'
  BY <1>1, <1>2, <1>6, <1>7, <1>8 DEF Fits, TargetOK, Anchored, Materialized, MaterializedRun
<1>13. runs'[r].alone => Alone(runs[r])'
  <2>1. runs[r].alone => Alone(runs[r])
    BY <1>1 DEF Fits
  <2>2. QED
    BY <1>1, <1>6, <1>7, <1>8, <2>1 DEF Alone
<1>14. Fits(runs[r])'
  BY <1>2, <1>3, <1>6, <1>8, <1>13 DEF Fits, PinnedRun, CopiedRun, MaterializedRun, Copying,
      PlainSteps, AnchoredSteps
<1>15. QED
  BY <1>6, <1>9, <1>10, <1>11, <1>12, <1>14, CallKeeps DEF TargetOK

\* VerifyCached: what a result speaks of is found, until a node serves.
LEMMA VerifyKeeps ==
    ASSUME ForkInv, Unhindered, NEW r \in ForkRuns, VerifyCached(r)
    PROVE  ForkInv' /\ Kept
<1>1. /\ runs[r].pc = "verify" /\ Still /\ target \in TargetSet /\ runs[r] \in RunSet
      /\ TargetOK /\ Fits(runs[r]) /\ source.base \in Nat /\ source.tip \in Nat
      /\ Manifest(source).base = source.base /\ Manifest(source).tip = source.tip
  BY RunFacts DEF VerifyCached, StepIs
<1>2. /\ target.intent # Absent /\ target.intent.op = runs[r].op /\ target.result # Absent
      /\ target.result.manifest = Manifest(source)
  BY <1>1 DEF Fits, PinnedRun, TargetOK, Pinned
<1>3. CASE EndRun(r, "done") /\ UNCHANGED target
  <2>1. /\ Apart(r) /\ runs'[r].pc = "done" /\ runs'[r].op = runs[r].op
        /\ runs'[r].gen = runs[r].gen /\ runs'[r].alone = runs[r].alone
        /\ UNCHANGED <<target, source, running>>
    BY <1>1, <1>3, EndIs DEF ForkInv, Still
  <2>2. runs'[r].alone => Alone(runs[r])'
    BY <1>1, <2>1 DEF Fits, Alone
  <2>3. Fits(runs[r])'
    BY <1>1, <1>2, <2>1, <2>2 DEF Fits, PinnedRun, CopiedRun, MaterializedRun, Copying, PlainSteps,
        AnchoredSteps
  <2>4. QED
    BY <2>1, <2>3, LookKeeps
<1> DEFINE busy == PinBusy(runs[r].op, {"target"}, ForkRuns \ {r})
<1>4. CASE busy /\ Fail(r)
  <2>1. ~ runs[r].alone
    BY <1>4 DEF Unhindered, PinBusy
  <2>2. QED
    BY <1>1, <1>4, <2>1, FailKeeps
<1>5. CASE ~ Verified(runs[r].op) /\ Fail(r)
  <2>1. ~ runs[r].alone
    <3>1. SUFFICES ASSUME ~ running PROVE Verified(runs[r].op)
      BY <1>1, <1>5 DEF Fits, Alone
    <3>2. CASE runs[r].op \in AnchoredOps
      <4>1. /\ Materialized /\ target.head # Absent /\ target.anchor # Absent
            /\ target.current # Absent
        BY <1>1, <1>2, <3>2 DEF TargetOK, Anchored, Materialized
      <4>2. /\ target.anchor.op = target.intent.op
            /\ target.anchor.manifest = target.result.manifest
            /\ target.anchor.manifest.tip = source.tip
        BY <1>1, <1>2, <4>1 DEF Materialized
      <4>3. /\ target.head = [base |-> source.tip, tip |-> source.tip, lineage |-> target.anchor]
            /\ target.anchor.root \in target.roots
        BY <3>1, <4>1 DEF Materialized
      <4>4. target.head.lineage = target.anchor /\ target.head.base = source.tip
        BY <4>3
      <4>5. QED
        BY <1>1, <3>2, <4>1, <4>2, <4>3, <4>4 DEF Verified, VerifiedAnchor
    <3>3. CASE runs[r].op \notin AnchoredOps
      <4>1. Copied
        BY <1>1, <1>2, <3>3 DEF TargetOK, Plain
      <4>2. /\ target.head = [base |-> source.base, tip |-> source.tip, lineage |-> Absent]
            /\ source.base > 0 => target.current = BaseRoot
            /\ target.head # Absent /\ ExtentsThere
        BY <1>2, <3>1, <4>1 DEF Copied, CurrentThere
      <4>3. Manifest(target.head) = Manifest(source)
        BY <4>2 DEF Manifest
      <4>4. QED
        BY <1>1, <1>2, <3>3, <4>2, <4>3 DEF Verified, VerifiedCopy, ExtentsThere, BaseRoot
    <3>4. QED
      BY <3>2, <3>3
  <2>2. QED
    BY <1>1, <1>5, <2>1, FailKeeps
<1>6. QED
  BY <1>3, <1>4, <1>5 DEF VerifyCached

-----------------------------------------------------------------------------
(* Source, target in service and faults *)

\* Everybody is told that they are not alone.
LEMMA AllMovedIs ==
    ASSUME ForkTypes, runs' = [r \in ForkRuns |-> [runs[r] EXCEPT !.alone = FALSE]]
    PROVE  /\ runs' \in [ForkRuns -> RunSet]
           /\ \A q \in ForkRuns :
                /\ runs'[q].pc = runs[q].pc /\ runs'[q].op = runs[q].op
                /\ runs'[q].snapshot = runs[q].snapshot /\ runs'[q].root = runs[q].root
                /\ runs'[q].gen = runs[q].gen /\ runs'[q].alone = FALSE
<1>1. \A q \in ForkRuns : runs[q] \in RunSet
  BY DEF ForkTypes
<1>2. \A q \in ForkRuns : [runs[q] EXCEPT !.alone = FALSE] \in RunSet
  BY <1>1 DEF RunSet
<1>3. QED
  BY <1>1, <1>2 DEF RunSet

\* A source moves only while no call has it pinned.
LEMMA SourceKeeps ==
    ASSUME ForkInv, SourceAdvances
    PROVE  ForkInv'
<1>1. /\ ~ source.sealed /\ UNCHANGED <<target, runs, running>>
      /\ source \in [base : Nat, tip : Nat, sealed : BOOLEAN]
      /\ source.base <= source.tip /\ source.tip > 0
  BY DEF SourceAdvances, ForkInv, ForkTypes
<1>2. source' \in [base : Nat, tip : Nat, sealed : BOOLEAN]
      /\ source'.base <= source'.tip /\ source'.tip > 0
  <2>1. CASE source' = [source EXCEPT !.tip = @ + 1]
    BY <1>1, <2>1
  <2>2. CASE source' = [source EXCEPT !.base = source.tip]
    BY <1>1, <2>2
  <2>3. CASE source' = [source EXCEPT !.sealed = TRUE]
    BY <1>1, <2>3
  <2>4. QED
    BY <2>1, <2>2, <2>3 DEF SourceAdvances
<1>3. target.intent = Absent /\ target.result = Absent
  BY <1>1 DEF ForkInv, TargetOK, Pinned
<1>4. TargetOK'
  BY <1>1, <1>3 DEF ForkInv, TargetOK, Pinned, Plain, Anchored
<1>5. \A q \in ForkRuns : Fits(runs[q])'
  <2> TAKE q \in ForkRuns
  <2>1. Fits(runs[q])
    BY DEF ForkInv
  <2>2. runs[q].pc # "intent" /\ runs[q].pc \notin Copying
    BY <1>1, <2>1 DEF Fits, PinnedRun
  <2>3. PinnedRun(runs[q])'
    BY <1>1, <2>1, <2>2 DEF Fits, PinnedRun
  <2>4. QED
    BY <1>1, <1>3, <2>1, <2>3 DEF Fits, Plain, Anchored, Alone
<1>6. ForkTypes'
  BY <1>1, <1>2 DEF ForkInv, ForkTypes
<1>7. QED
  BY <1>4, <1>5, <1>6 DEF ForkInv

\* StartTarget: the node finds a result; from now on less is promised.
LEMMA StartTargetKeeps ==
    ASSUME ForkInv, StartTarget
    PROVE  ForkInv'
<1>1. /\ ForkTypes /\ TargetOK /\ running' = TRUE /\ UNCHANGED <<source, target>>
      /\ target.intent # Absent
  BY DEF ForkInv, StartTarget
<1>2. /\ runs' \in [ForkRuns -> RunSet]
      /\ \A q \in ForkRuns :
           /\ runs'[q].pc = runs[q].pc /\ runs'[q].op = runs[q].op
           /\ runs'[q].snapshot = runs[q].snapshot /\ runs'[q].root = runs[q].root
           /\ runs'[q].gen = runs[q].gen /\ runs'[q].alone = FALSE
  BY <1>1, AllMovedIs DEF StartTarget
<1>3. target.result # Absent
  <2>1. CASE target.intent.op \in AnchoredOps
    BY <2>1 DEF StartTarget
  <2>2. CASE target.intent.op \notin AnchoredOps
    <3>1. PICK q \in ForkRuns : runs[q].pc = "done"
      BY <2>2 DEF StartTarget, StepIs
    <3>2. QED
      BY <3>1 DEF ForkInv, Fits, PinnedRun
  <2>3. QED
    BY <2>1, <2>2
<1>4. TargetOK'
  <2>1. Pinned'
    BY <1>1, <1>3 DEF TargetOK, Pinned
  <2>2. Plain' => Copied'
    BY <1>1 DEF TargetOK, Plain, Copied, RootThere, ExtentsThere, CurrentThere, BaseRoot
  <2>3. Anchored' => Materialized'
    BY <1>1 DEF TargetOK, Anchored, Materialized
  <2>4. QED
    BY <2>1, <2>2, <2>3 DEF TargetOK
<1>5. \A q \in ForkRuns : Fits(runs[q])'
  <2> TAKE q \in ForkRuns
  <2>1. /\ Fits(runs[q]) /\ runs'[q].pc = runs[q].pc /\ runs'[q].op = runs[q].op
        /\ runs'[q].snapshot = runs[q].snapshot /\ runs'[q].root = runs[q].root
        /\ runs'[q].alone = FALSE
    BY <1>2 DEF ForkInv
  <2>2. PinnedRun(runs[q])'
    BY <1>1, <2>1 DEF Fits, PinnedRun
  <2>3. Plain' => CopiedRun(runs[q])'
    BY <1>1, <2>1 DEF Fits, Plain, CopiedRun, RootThere, ExtentsThere, CurrentThere, BaseRoot
  <2>4. Anchored' => MaterializedRun(runs[q])'
    BY <1>1, <2>1 DEF Fits, Anchored, MaterializedRun
  <2>5. QED
    BY <2>1, <2>2, <2>3, <2>4 DEF Fits
<1>6. QED
  BY <1>1, <1>2, <1>4, <1>5 DEF ForkInv, ForkTypes

\* What a node in service may do to its target.
LEMMA ServiceKeeps ==
    ASSUME ForkInv, running, UNCHANGED <<source, runs, running>>, target' \in TargetSet,
           target'.intent = target.intent, target'.anchor = target.anchor,
           target'.result = target.result, target'.extents = target.extents,
           target'.head # Absent,
           target.current # Absent =>
             target'.current # Absent /\ target'.current.index >= target.current.index
    PROVE  ForkInv'
<1>1. /\ ForkTypes /\ TargetOK /\ target.result # Absent /\ target.intent # Absent
      /\ source.base \in Nat /\ source.tip \in Nat
  BY DEF ForkInv, TargetOK, Pinned, ForkTypes
<1>2. /\ target.current # Absent => target.current.index \in Nat
      /\ target'.current # Absent => target'.current.index \in Nat
  BY <1>1 DEF ForkTypes, TargetSet, Opt, ForkRoot
<1>3. Pinned'
  BY <1>1 DEF TargetOK, Pinned
<1>4. Plain' => Copied'
  BY <1>1, <1>2 DEF TargetOK, Plain, Copied, RootThere, ExtentsThere, CurrentThere, BaseRoot
<1>5. Anchored' => Materialized'
  BY <1>1, <1>2 DEF TargetOK, Anchored, Materialized
<1>6. \A q \in ForkRuns : Fits(runs[q])'
  <2> TAKE q \in ForkRuns
  <2>1. Fits(runs[q]) /\ ~ runs[q].alone
    BY DEF ForkInv, Fits, Alone
  <2>2. PinnedRun(runs[q])'
    BY <2>1 DEF Fits, PinnedRun
  <2>3. Plain' => CopiedRun(runs[q])'
    BY <2>1 DEF Fits, Plain, CopiedRun, RootThere, ExtentsThere, CurrentThere, BaseRoot
  <2>4. Anchored' => MaterializedRun(runs[q])'
    BY <2>1 DEF Fits, Anchored, MaterializedRun
  <2>5. QED
    BY <2>1, <2>2, <2>3, <2>4 DEF Fits
<1>7. QED
  BY <1>1, <1>3, <1>4, <1>5, <1>6 DEF ForkInv, ForkTypes, TargetOK

\* TargetAdvances: CURRENT moves forward, the archive stays there.
LEMMA TargetKeeps ==
    ASSUME ForkInv, TargetAdvances
    PROVE  ForkInv'
<1>1. /\ running /\ UNCHANGED <<source, runs, running>> /\ target \in TargetSet
      /\ target.head # Absent /\ target.intent # Absent
  BY DEF ForkInv, ForkTypes, TargetAdvances, TargetOK, Pinned, Plain, Anchored, Copied,
      Materialized
<1>2. /\ target.head \in [base : Nat, tip : Nat, lineage : Opt(AnchorSet)]
      /\ target.current = Absent \/ target.current \in ForkRoot
      /\ CurrentIndex \in Nat /\ (target.current # Absent => CurrentIndex = target.current.index)
      /\ target.claim \in [gen : Nat, owner : Ops \cup {"none", "node"}, bound : Nat,
                           live : BOOLEAN]
  BY <1>1 DEF TargetSet, Opt, ForkRoot, CurrentIndex
<1>3. CASE target' = [target EXCEPT !.head.tip = @ + 1]
  <2> DEFINE head == [target.head EXCEPT !.tip = @ + 1]
  <2>1. head \in [base : Nat, tip : Nat, lineage : Opt(AnchorSet)] /\ head # Absent
    BY <1>2, AbsentIsNone
  <2>2. target' = [target EXCEPT !.head = head]
    BY <1>3
  <2> HIDE DEF head
  <2>3. /\ target' \in TargetSet
        /\ target'.intent = target.intent /\ target'.roots = target.roots
        /\ target'.current = target.current /\ target'.extents = target.extents
        /\ target'.head = head /\ target'.anchor = target.anchor
        /\ target'.result = target.result /\ target'.claim = target.claim
    BY <1>1, <2>1, <2>2 DEF TargetSet, Opt
  <2>4. QED
    BY <1>1, <1>2, <2>1, <2>3, ServiceKeeps DEF ForkRoot
<1>4. CASE /\ CurrentIndex < target.head.tip
           /\ LET root == [index |-> target.head.tip, gen |-> target.claim.gen + 1] IN
              target' = [target EXCEPT !.roots = @ \union {root}, !.current = root,
                !.claim = [gen |-> @.gen + 1, owner |-> "node",
                           bound |-> root.index, live |-> FALSE]]
  <2> DEFINE root == [index |-> target.head.tip, gen |-> target.claim.gen + 1]
             claim == [gen |-> target.claim.gen + 1, owner |-> "node", bound |-> root.index,
                       live |-> FALSE]
  <2>1. root \in ForkRoot /\ root # Absent /\ root.index = target.head.tip
    BY <1>2, AbsentIsNone DEF ForkRoot
  <2>2. claim \in [gen : Nat, owner : Ops \cup {"none", "node"}, bound : Nat, live : BOOLEAN]
    BY <1>2
  <2>3. target' = [target EXCEPT !.roots = @ \union {root}, !.current = root, !.claim = claim]
    BY <1>4
  <2> HIDE DEF root, claim
  <2>4. /\ target' \in TargetSet
        /\ target'.intent = target.intent /\ target'.extents = target.extents
        /\ target'.head = target.head /\ target'.anchor = target.anchor
        /\ target'.result = target.result /\ target'.current = root
    BY <1>1, <2>1, <2>2, <2>3 DEF TargetSet, Opt
  <2>5. target.current # Absent => root.index >= target.current.index
    BY <1>2, <1>4, <2>1
  <2>6. QED
    BY <1>1, <2>1, <2>4, <2>5, ServiceKeeps
<1>5. CASE target' = [target EXCEPT !.head.base = CurrentIndex]
  <2> DEFINE head == [target.head EXCEPT !.base = CurrentIndex]
  <2>1. head \in [base : Nat, tip : Nat, lineage : Opt(AnchorSet)] /\ head # Absent
    BY <1>2, AbsentIsNone
  <2>2. target' = [target EXCEPT !.head = head]
    BY <1>5
  <2> HIDE DEF head
  <2>3. /\ target' \in TargetSet
        /\ target'.intent = target.intent /\ target'.roots = target.roots
        /\ target'.current = target.current /\ target'.extents = target.extents
        /\ target'.head = head /\ target'.anchor = target.anchor
        /\ target'.result = target.result /\ target'.claim = target.claim
    BY <1>1, <2>1, <2>2 DEF TargetSet, Opt
  <2>4. QED
    BY <1>1, <1>2, <2>1, <2>3, ServiceKeeps DEF ForkRoot
<1>6. CASE CurrentIndex > 0 /\ target' = [target EXCEPT !.roots = {target.current}]
  <2>1. target.current \in ForkRoot
    BY <1>2, <1>6 DEF CurrentIndex
  <2>2. /\ target' \in TargetSet
        /\ target'.intent = target.intent /\ target'.roots = {target.current}
        /\ target'.current = target.current /\ target'.extents = target.extents
        /\ target'.head = target.head /\ target'.anchor = target.anchor
        /\ target'.result = target.result /\ target'.claim = target.claim
    BY <1>1, <1>6, <2>1 DEF TargetSet
  <2>3. QED
    BY <1>1, <1>2, <2>1, <2>2, ServiceKeeps DEF ForkRoot
<1>7. QED
  BY <1>3, <1>4, <1>5, <1>6 DEF TargetAdvances

\* A call stops anywhere, a lease runs out.
LEMMA FaultKeeps ==
    ASSUME ForkInv, ForkFault
    PROVE  ForkInv' /\ Kept
<1>1. UNCHANGED <<source, running>> /\ ForkTypes /\ TargetOK /\ target \in TargetSet
  BY Zenon DEF ForkFault, ForkInv, ForkTypes
<1>2. ASSUME NEW r \in ForkRuns, NEW left \in PinsLeft(r), UNCHANGED target,
             runs' = ForkMoved(r, [runs[r] EXCEPT !.pc = "failed", !.pin = left,
                                                  !.alone = FALSE])
      PROVE  ForkInv' /\ Kept
  <2> DEFINE new == [runs[r] EXCEPT !.pc = "failed", !.pin = left, !.alone = FALSE]
  <2>1. runs[r] \in RunSet /\ left \in {Unpinned, "source", "target"}
    <3>1. runs[r] \in RunSet
      BY <1>1 DEF ForkTypes
    <3>2. runs[r].pin \in {Unpinned, "source", "target"}
      BY <3>1 DEF RunSet
    <3>3. QED
      BY <3>1, <3>2 DEF PinsLeft
  <2>2. new \in RunSet /\ new.pc = "failed" /\ new.alone = FALSE
    BY <2>1 DEF RunSet
  <2>3. Apart(r) /\ runs'[r] = new
    BY <1>1, <1>2, <2>2, MovedIs
  <2> HIDE DEF new
  <2>4. Fits(runs[r])'
    BY <2>2, <2>3 DEF Fits, PinnedRun, CopiedRun, MaterializedRun, Copying, PlainSteps,
        AnchoredSteps
  <2>5. QED
    BY <1>1, <1>2, <2>3, <2>4, LookKeeps
<1>3. CASE /\ target' = [target EXCEPT !.claim.live = FALSE]
           /\ runs' = [r \in ForkRuns |-> [runs[r] EXCEPT !.alone = FALSE]]
  <2>1. /\ runs' \in [ForkRuns -> RunSet]
        /\ \A q \in ForkRuns :
             /\ runs'[q].pc = runs[q].pc /\ runs'[q].op = runs[q].op
             /\ runs'[q].snapshot = runs[q].snapshot /\ runs'[q].root = runs[q].root
             /\ runs'[q].gen = runs[q].gen /\ runs'[q].alone = FALSE
    BY <1>1, <1>3, AllMovedIs
  <2> DEFINE claim == [target.claim EXCEPT !.live = FALSE]
  <2>2. target.claim \in [gen : Nat, owner : Ops \cup {"none", "node"}, bound : Nat,
                          live : BOOLEAN]
    BY <1>1 DEF TargetSet
  <2>3. /\ claim \in [gen : Nat, owner : Ops \cup {"none", "node"}, bound : Nat, live : BOOLEAN]
        /\ claim.gen = target.claim.gen /\ claim.owner = target.claim.owner
        /\ claim.bound = target.claim.bound /\ claim.live = FALSE
    BY <2>2
  <2>4. target' = [target EXCEPT !.claim = claim]
    BY <1>3
  <2> HIDE DEF claim
  <2>5. /\ target' \in TargetSet
        /\ target'.intent = target.intent /\ target'.roots = target.roots
        /\ target'.current = target.current /\ target'.extents = target.extents
        /\ target'.head = target.head /\ target'.anchor = target.anchor
        /\ target'.result = target.result /\ target'.claim = claim
    BY <1>1, <2>3, <2>4 DEF TargetSet
  <2>6. Kept
    BY <1>1, <2>5 DEF Kept
  <2>7. TargetOK'
    BY <1>1, <2>3, <2>5 DEF TargetOK, Pinned, Plain, Copied, Anchored, Materialized, RootThere,
        ExtentsThere, CurrentThere, BaseRoot
  <2>8. \A q \in ForkRuns : Fits(runs[q])'
    <3> TAKE q \in ForkRuns
    <3>1. /\ Fits(runs[q]) /\ runs'[q].pc = runs[q].pc /\ runs'[q].op = runs[q].op
          /\ runs'[q].snapshot = runs[q].snapshot /\ runs'[q].root = runs[q].root
          /\ runs'[q].alone = FALSE
      BY <2>1 DEF ForkInv
    <3>2. PinnedRun(runs[q])'
      BY <1>1, <2>5, <3>1 DEF Fits, PinnedRun
    <3>3. Plain' => CopiedRun(runs[q])'
      BY <1>1, <2>5, <3>1 DEF Fits, Plain, CopiedRun, RootThere, ExtentsThere, CurrentThere,
          BaseRoot
    <3>4. Anchored' => MaterializedRun(runs[q])'
      BY <1>1, <2>5, <3>1 DEF Fits, Anchored, MaterializedRun
    <3>5. QED
      BY <3>1, <3>2, <3>3, <3>4 DEF Fits
  <2>9. QED
    BY <1>1, <2>1, <2>5, <2>6, <2>7, <2>8 DEF ForkInv, ForkTypes
<1>4. QED
  BY <1>2, <1>3, Zenon DEF ForkFault

\* The lease of a pin runs out.
LEMMA LapseKeeps ==
    ASSUME ForkInv, NEW r \in ForkRuns, PinLapses(r)
    PROVE  ForkInv' /\ Kept
<1> DEFINE new == [runs[r] EXCEPT !.pin = Unpinned, !.alone = FALSE]
<1>1. UNCHANGED <<source, target, running>> /\ runs[r] \in RunSet /\ Fits(runs[r])
  BY RunFacts DEF PinLapses
<1>2. /\ new \in RunSet /\ new.pc = runs[r].pc /\ new.op = runs[r].op
      /\ new.snapshot = runs[r].snapshot /\ new.root = runs[r].root /\ new.alone = FALSE
  BY <1>1 DEF RunSet
<1>3. runs' = [runs EXCEPT ![r] = new] /\ runs \in [ForkRuns -> RunSet]
  BY DEF PinLapses, ForkInv, ForkTypes
<1> HIDE DEF new
<1>4. Kept
  BY <1>1 DEF ForkInv, ForkTypes, Kept
<1>5. ForkTypes' /\ TargetOK'
  BY <1>1, <1>2, <1>3 DEF ForkInv, ForkTypes, TargetOK, Pinned, Plain, Copied, Anchored,
      Materialized, RootThere, ExtentsThere, CurrentThere, BaseRoot
<1>6. Fits(runs[r])'
  BY <1>1, <1>2, <1>3 DEF Fits, PinnedRun, Plain, CopiedRun, Anchored, MaterializedRun, RootThere,
      ExtentsThere, CurrentThere, BaseRoot
<1>7. ASSUME NEW q \in ForkRuns, q # r PROVE Fits(runs[q])'
  <2>1. Fits(runs[q]) /\ runs'[q] = runs[q]
    BY <1>3, <1>7 DEF ForkInv
  <2>2. QED
    BY <1>1, <2>1 DEF Fits, PinnedRun, Plain, CopiedRun, Anchored, MaterializedRun, Alone,
        RootThere, ExtentsThere, CurrentThere, BaseRoot
<1>8. QED
  BY <1>4, <1>5, <1>6, <1>7 DEF ForkInv

-----------------------------------------------------------------------------
(* Theorems *)

\* A step of a call.
Call(r) ==
    \/ \E op \in ForkOps : StartFork(r, op)
    \/ CheckEmpty(r) \/ PinSource(r) \/ AcquireForkIntent(r)
    \/ VerifySnapshot(r) \/ CopyRoot(r) \/ CopyExtent(r) \/ WriteForkArchiveHead(r)
    \/ RecheckSource(r) \/ PromoteRoot(r) \/ WriteForkResult(r) \/ VerifyCached(r)
    \/ ResumeMaterialized(r) \/ LoadCurrent(r) \/ RefreshCurrent(r)
    \/ AcquireGenerationClaim(r) \/ CreateRoot(r) \/ BindClaim(r)
    \/ CheckLease(r) \/ PublishAnchor(r) \/ InitializeFencedGeneration(r)

\* Every step of a call keeps the invariant and overwrites nothing.
LEMMA CallStep ==
    ASSUME ForkInv, Unhindered, NEW r \in ForkRuns, Call(r)
    PROVE  ForkInv' /\ Kept
BY StartKeeps, CheckKeeps, PinKeeps, IntentKeeps, SnapshotKeeps, RootKeeps, ExtentKeeps, HeadKeeps,
   RecheckKeeps, PromoteKeeps, ResultKeeps, VerifyKeeps, ResumeKeeps, LoadKeeps, RefreshKeeps,
   ClaimKeeps, CreateKeeps, BindKeeps, LeaseKeeps, AnchorKeeps, InitializeKeeps, Zenon DEF Call

\* The steps, by who takes them.
LEMMA NextIs ==
    ForkNext <=> \/ SourceAdvances \/ StartTarget \/ TargetAdvances \/ ForkFault
                 \/ \E r \in ForkRuns : Call(r) \/ PinLapses(r)
BY Zenon DEF ForkNext, Call

\* What a step leaves of the pins, if the call is as alone as before it.
LEMMA MovedPins ==
    ASSUME ForkTypes, Unhindered, NEW r \in ForkRuns, NEW new, runs' = ForkMoved(r, new),
           new.alone => ~ PinBusy(new.op, {"source", "target"}, ForkRuns \ {r})
    PROVE  Unhindered'
<1>1. runs'[r] = new
  BY DEF ForkMoved
<1>2. \A q \in ForkRuns \ {r} : /\ runs'[q].alone = FALSE /\ runs'[q].op = runs[q].op
                              /\ runs'[q].pin = runs[q].pin
  BY DEF ForkMoved, ForkTypes, RunSet
<1>3. QED
  BY <1>1, <1>2 DEF Unhindered, PinBusy

\* RunTo and Fail are such steps.
LEMMA ToPins ==
    ASSUME ForkTypes, Unhindered, NEW r \in ForkRuns, NEW pc, RunTo(r, pc) \/ EndRun(r, pc)
    PROVE  Unhindered'
<1>1. runs[r] \in RunSet
  BY DEF ForkTypes
<1> DEFINE there == [runs[r] EXCEPT !.pc = pc]
           ended == [runs[r] EXCEPT !.pc = pc, !.pin = Unpinned]
<1>2. /\ there.op = runs[r].op /\ there.alone = runs[r].alone
      /\ ended.op = runs[r].op /\ ended.alone = runs[r].alone
  BY <1>1 DEF RunSet
<1>3. runs' = ForkMoved(r, there) \/ runs' = ForkMoved(r, ended)
  BY DEF RunTo, EndRun
<1>4. runs[r].alone => ~ PinBusy(runs[r].op, {"source", "target"}, ForkRuns \ {r})
  BY DEF Unhindered
<1> HIDE DEF there, ended
<1>5. QED
  BY <1>2, <1>3, <1>4, MovedPins

\* Every step of a call leaves those that nobody disturbed unhindered.
LEMMA CallPins ==
    ASSUME ForkInv, Unhindered, NEW r \in ForkRuns, Call(r)
    PROVE  Unhindered'
<1>1. ForkTypes /\ runs[r] \in RunSet /\ Waiting \in RunSet
  BY WaitingIs DEF ForkInv, ForkTypes
<1>2. runs[r].alone => ~ PinBusy(runs[r].op, {"source", "target"}, ForkRuns \ {r})
  BY DEF Unhindered
<1>3. ASSUME NEW op \in ForkOps, StartFork(r, op) PROVE Unhindered'
  <2> DEFINE alone == /\ ~target.claim.live /\ ~running
                      /\ ~PinBusy(op, {"source", "target"}, ForkRuns \ {r})
             pc == IF target.intent = Absent THEN "empty"
                   ELSE IF target.intent.op # op THEN "failed"
                   ELSE IF target.result # Absent THEN "verify" ELSE "pin"
             new == [Waiting EXCEPT !.op = op, !.alone = alone, !.pc = pc]
  <2>1. runs' = ForkMoved(r, new)
    BY <1>3 DEF StartFork
  <2>2. new.op = op /\ new.alone = alone
    <3> HIDE DEF alone, pc
    <3>1. QED
      BY WaitingIs DEF RunSet
  <2>3. alone => ~ PinBusy(op, {"source", "target"}, ForkRuns \ {r})
    OBVIOUS
  <2> HIDE DEF alone, new
  <2>4. QED
    BY <1>1, <2>1, <2>2, <2>3, MovedPins
<1>4. ASSUME NEW pc, NEW snapshot, NEW pin,
             runs' = ForkMoved(r, [runs[r] EXCEPT !.pc = pc, !.snapshot = snapshot, !.pin = pin])
      PROVE  Unhindered'
  <2> DEFINE new == [runs[r] EXCEPT !.pc = pc, !.snapshot = snapshot, !.pin = pin]
  <2>1. new.op = runs[r].op /\ new.alone = runs[r].alone
    BY <1>1 DEF RunSet
  <2>2. runs' = ForkMoved(r, new)
    BY <1>4
  <2> HIDE DEF new
  <2>3. QED
    BY <1>1, <1>2, <2>1, <2>2, MovedPins
<1>5. ASSUME NEW pc, NEW root, runs' = ForkMoved(r, [runs[r] EXCEPT !.pc = pc, !.root = root])
      PROVE  Unhindered'
  <2> DEFINE new == [runs[r] EXCEPT !.pc = pc, !.root = root]
  <2>1. new.op = runs[r].op /\ new.alone = runs[r].alone
    BY <1>1 DEF RunSet
  <2>2. runs' = ForkMoved(r, new)
    BY <1>5
  <2> HIDE DEF new
  <2>3. QED
    BY <1>1, <1>2, <2>1, <2>2, MovedPins
<1>6. ASSUME NEW pc, NEW gen, runs' = ForkMoved(r, [runs[r] EXCEPT !.pc = pc, !.gen = gen])
      PROVE  Unhindered'
  <2> DEFINE new == [runs[r] EXCEPT !.pc = pc, !.gen = gen]
  <2>1. new.op = runs[r].op /\ new.alone = runs[r].alone
    BY <1>1 DEF RunSet
  <2>2. runs' = ForkMoved(r, new)
    BY <1>6
  <2> HIDE DEF new
  <2>3. QED
    BY <1>1, <1>2, <2>1, <2>2, MovedPins
<1>7. CASE PinSource(r)
  BY <1>1, <1>4, <1>7, ToPins, Zenon DEF PinSource, Fail
<1>8. CASE CopyRoot(r) \/ LoadCurrent(r) \/ RefreshCurrent(r) \/ CreateRoot(r)
  BY <1>1, <1>5, <1>8, ToPins, Zenon DEF CopyRoot, LoadCurrent, RefreshCurrent, CreateRoot, Fail
<1>9. CASE AcquireGenerationClaim(r)
  BY <1>1, <1>6, <1>9, ToPins, Zenon DEF AcquireGenerationClaim, Fail
<1>10. CASE \/ CheckEmpty(r) \/ AcquireForkIntent(r) \/ VerifySnapshot(r) \/ CopyExtent(r)
            \/ WriteForkArchiveHead(r) \/ RecheckSource(r) \/ PromoteRoot(r)
            \/ WriteForkResult(r) \/ VerifyCached(r) \/ ResumeMaterialized(r) \/ BindClaim(r)
            \/ CheckLease(r) \/ PublishAnchor(r) \/ InitializeFencedGeneration(r)
  <2>1. \E pc : RunTo(r, pc) \/ EndRun(r, pc)
    BY <1>10, Zenon DEF CheckEmpty, AcquireForkIntent, VerifySnapshot, CopyExtent,
        WriteForkArchiveHead, RecheckSource, PromoteRoot, WriteForkResult, VerifyCached,
        ResumeMaterialized, BindClaim, CheckLease, PublishAnchor, InitializeFencedGeneration,
        Fail, Write
  <2>2. QED
    BY <1>1, <2>1, ToPins, Zenon
<1>11. QED
  BY <1>3, <1>7, <1>8, <1>9, <1>10, Zenon DEF Call

\* The other steps disturb everybody or free a pin.
LEMMA OtherPins ==
    ASSUME ForkInv, Unhindered,
           SourceAdvances \/ StartTarget \/ TargetAdvances \/ ForkFault
             \/ \E r \in ForkRuns : PinLapses(r)
    PROVE  Unhindered'
<1>1. ForkTypes /\ \A q \in ForkRuns : runs[q] \in RunSet
  BY DEF ForkInv, ForkTypes
<1>2. CASE runs' = runs
  BY <1>2 DEF Unhindered, PinBusy
<1>3. CASE runs' = [r \in ForkRuns |-> [runs[r] EXCEPT !.alone = FALSE]]
  BY <1>1, <1>3, AllMovedIs DEF Unhindered
<1>4. ASSUME NEW r \in ForkRuns, NEW left,
             runs' = ForkMoved(r, [runs[r] EXCEPT !.pc = "failed", !.pin = left,
                                                  !.alone = FALSE])
      PROVE  Unhindered'
  <2> DEFINE new == [runs[r] EXCEPT !.pc = "failed", !.pin = left, !.alone = FALSE]
  <2>1. new.alone = FALSE
    BY <1>1 DEF RunSet
  <2>2. runs' = ForkMoved(r, new)
    BY <1>4
  <2> HIDE DEF new
  <2>3. QED
    BY <1>1, <2>1, <2>2, MovedPins
<1>5. ASSUME NEW r \in ForkRuns, PinLapses(r) PROVE Unhindered'
  <2> DEFINE new == [runs[r] EXCEPT !.pin = Unpinned, !.alone = FALSE]
  <2>1. runs' = [runs EXCEPT ![r] = new]
    BY <1>5 DEF PinLapses
  <2>2. new.alone = FALSE /\ new.op = runs[r].op /\ new.pin = Unpinned
    BY <1>1 DEF RunSet
  <2> HIDE DEF new
  <2>3. /\ runs'[r] = new /\ \A q \in ForkRuns \ {r} : runs'[q] = runs[q]
    BY <2>1 DEF ForkInv, ForkTypes
  <2>4. ASSUME NEW q \in ForkRuns, runs'[q].alone
        PROVE  ~ PinBusy(runs[q].op, {"source", "target"}, ForkRuns \ {q})'
    <3>1. q # r /\ runs'[q] = runs[q]
      BY <2>2, <2>3, <2>4
    <3>2. ~ PinBusy(runs[q].op, {"source", "target"}, ForkRuns \ {q})
      BY <2>4, <3>1 DEF Unhindered
    <3>3. Unpinned \notin {"source", "target"}
      BY DEF Unpinned
    <3>4. QED
      BY <2>2, <2>3, <3>1, <3>2, <3>3 DEF PinBusy
  <2>5. QED
    BY <2>4 DEF Unhindered
<1>6. QED
  BY <1>2, <1>3, <1>4, <1>5, Zenon DEF SourceAdvances, StartTarget, TargetAdvances, ForkFault

\* ForkInit makes the invariant true.
LEMMA ForkStarts == ForkInit => ForkInv
<1> SUFFICES ASSUME ForkInit PROVE ForkInv
  OBVIOUS
<1>1. /\ source = [base |-> 0, tip |-> 1, sealed |-> FALSE] /\ running = FALSE
      /\ runs = [r \in ForkRuns |-> Waiting]
  BY DEF ForkInit
<1>2. source \in [base : Nat, tip : Nat, sealed : BOOLEAN]
      /\ source.base <= source.tip /\ source.tip > 0
  BY <1>1
<1>3. /\ target \in TargetSet /\ target.intent = Absent /\ target.result = Absent
      /\ target.roots = {} /\ target.current = Absent /\ target.head = Absent
      /\ target.anchor = Absent /\ target.claim.gen = 0 /\ ~ target.claim.live
  <2> DEFINE claim == [gen |-> 0, owner |-> "none", bound |-> 0, live |-> FALSE]
  <2>1. /\ claim \in [gen : Nat, owner : Ops \cup {"none", "node"}, bound : Nat, live : BOOLEAN]
        /\ claim.gen = 0 /\ ~ claim.live
    OBVIOUS
  <2>2. target = [intent |-> Absent, roots |-> {}, current |-> Absent, extents |-> {},
                  head |-> Absent, anchor |-> Absent, result |-> Absent, claim |-> claim]
    BY DEF ForkInit
  <2> HIDE DEF claim
  <2>3. QED
    BY <2>1, <2>2 DEF TargetSet, Opt
<1>4. \A r \in ForkRuns : runs[r] = Waiting
  BY <1>1
<1>5. ForkTypes
  BY <1>1, <1>2, <1>3, WaitingIs DEF ForkTypes
<1>6. TargetOK
  BY <1>1, <1>3 DEF TargetOK, Pinned, Plain, Anchored
<1>7. Fits(Waiting)
  BY <1>3, WaitingIs DEF Fits, PinnedRun, CopiedRun, MaterializedRun, Plain, Anchored, Copying,
      PlainSteps, AnchoredSteps
<1>8. QED
  BY <1>4, <1>5, <1>6, <1>7 DEF ForkInv

\* The inductive invariant of forks: the intent pins operation and source,
\* every object of the target is what its predecessors determine, and a call
\* that nobody disturbed finds no live pin of another call in its way.
THEOREM ForkInvariant == ForkSpec => [](ForkInv /\ Unhindered)
<1>1. ForkInit => ForkInv /\ Unhindered
  <2>1. ForkInit => Unhindered
    BY WaitingIs DEF ForkInit, Unhindered
  <2>2. QED
    BY <2>1, ForkStarts
<1>2. ForkInv /\ Unhindered /\ [ForkNext]_forkVars => (ForkInv /\ Unhindered)'
  <2> SUFFICES ASSUME ForkInv, Unhindered, [ForkNext]_forkVars PROVE (ForkInv /\ Unhindered)'
    OBVIOUS
  <2>1. CASE UNCHANGED forkVars
    <3>1. ForkInv'
      BY <2>1 DEF forkVars, ForkInv, ForkTypes, TargetOK, Pinned, Plain, Copied, Anchored,
          Materialized, Fits, PinnedRun, CopiedRun, MaterializedRun, Alone, RootThere,
          ExtentsThere, CurrentThere, BaseRoot
    <3>2. Unhindered'
      BY <2>1 DEF forkVars, Unhindered, PinBusy
    <3>3. QED
      BY <3>1, <3>2
  <2>2. CASE ForkNext
    <3>1. ForkInv'
      BY <2>2, NextIs, CallStep, SourceKeeps, StartTargetKeeps, TargetKeeps, FaultKeeps, LapseKeeps
    <3>2. Unhindered'
      BY <2>2, NextIs, CallPins, OtherPins, Zenon
    <3>3. QED
      BY <3>1, <3>2
  <2>3. QED
    BY <2>1, <2>2
<1>3. QED
  BY <1>1, <1>2, PTL DEF ForkSpec

\* What Fork leaves is true, one operation's, and completed by a retry
\* (fork.go Fork, anchor.go MaterializeGeneration).
THEOREM ForkIsSound == ForkSpec => []ForkSound
<1>1. ForkInv => ForkSound
  <2> SUFFICES ASSUME ForkInv PROVE ForkSound
    OBVIOUS
  <2>1. /\ TargetOK /\ source.base \in Nat /\ source.tip \in Nat
        /\ Manifest(source).base = source.base /\ Manifest(source).tip = source.tip
    BY ManifestIs DEF ForkInv, ForkTypes
  <2>2. ResultTrue
    <3> SUFFICES ASSUME target.result # Absent PROVE ResultTrue
      BY DEF ResultTrue
    <3>1. /\ target.intent # Absent /\ target.result.manifest = Manifest(source)
          /\ source.sealed /\ target.intent.manifest = Manifest(source)
      BY <2>1 DEF TargetOK, Pinned
    <3>2. CASE running
      BY <3>1, <3>2 DEF ResultTrue
    <3>3. CASE ~ running /\ target.intent.op \in AnchoredOps
      <4>1. Materialized
        BY <2>1, <3>1, <3>3 DEF TargetOK, Anchored
      <4>2. /\ target.anchor # Absent /\ target.anchor.op = target.intent.op
            /\ target.anchor.root \in target.roots /\ target.current = target.anchor.root
            /\ target.head = [base |-> source.tip, tip |-> source.tip, lineage |-> target.anchor]
        BY <3>3, <4>1 DEF Materialized
      <4>3. QED
        BY <2>1, <3>1, <3>3, <4>2 DEF ResultTrue
    <3>4. CASE ~ running /\ target.intent.op \notin AnchoredOps
      <4>1. Copied
        BY <2>1, <3>1, <3>4 DEF TargetOK, Plain
      <4>2. /\ target.head = [base |-> source.base, tip |-> source.tip, lineage |-> Absent]
            /\ source.base > 0 => target.current = BaseRoot /\ BaseRoot \in target.roots
            /\ target.head # Absent /\ ExtentsThere
        BY <3>4, <4>1 DEF Copied, CurrentThere, RootThere
      <4>3. Manifest(target.head) = Manifest(source)
        BY <4>2 DEF Manifest
      <4>4. QED
        BY <2>1, <3>1, <3>4, <4>2, <4>3 DEF ResultTrue, ExtentsThere, BaseRoot
    <3>5. QED
      BY <3>2, <3>3, <3>4
  <2>3. OneOperation
    BY DEF ForkInv, OneOperation, StepIs, Fits, PinnedRun
  <2>4. RetryCompletes
    BY DEF ForkInv, RetryCompletes, StepIs, Fits, Alone
  <2>5. QED
    BY <2>2, <2>3, <2>4 DEF ForkSound
<1>2. QED
  BY <1>1, ForkInvariant, PTL

\* No call of Fork, however late, changes what a node in service works with.
THEOREM ServiceUndisturbed == ForkSpec => RunningUndisturbed
<1>1. ForkInv /\ Unhindered /\ [ForkNext]_forkVars =>
        [running /\ runs' # runs =>
           UNCHANGED <<target.head, target.current, target.anchor, target.result>>]_forkVars
  <2> SUFFICES ASSUME ForkInv, Unhindered, ForkNext, running, runs' # runs
               PROVE  UNCHANGED <<target.head, target.current, target.anchor, target.result>>
    OBVIOUS
  <2>1. ForkInv' /\ Kept
    <3>1. ~ SourceAdvances /\ ~ StartTarget /\ ~ TargetAdvances
      BY DEF SourceAdvances, StartTarget, TargetAdvances
    <3>2. QED
      BY <3>1, NextIs, CallStep, FaultKeeps, LapseKeeps
  <2>2. /\ target.intent # Absent /\ target.result # Absent /\ target'.intent = target.intent
        /\ target'.result = target.result
    BY <2>1 DEF ForkInv, TargetOK, Pinned, Kept
  <2>3. CASE Plain
    <3>1. Copied /\ Copied'
      BY <2>1, <2>2, <2>3 DEF ForkInv, TargetOK, Plain
    <3>2. target'.head = target.head /\ target'.anchor = target.anchor
      BY <2>1, <2>2, <3>1 DEF Copied, Kept
    <3>3. target'.current = target.current
      <4>1. source.base \in Nat
        BY DEF ForkInv, ForkTypes
      <4>2. QED
        BY <2>1, <2>2, <2>3, <3>1, <4>1 DEF Copied, CurrentThere, Kept
    <3>4. QED
      BY <2>2, <3>2, <3>3
  <2>4. CASE Anchored
    BY <2>1, <2>2, <2>4 DEF ForkInv, TargetOK, Materialized, Kept
  <2>5. QED
    BY <2>2, <2>3, <2>4 DEF Plain, Anchored
<1>2. QED
  BY <1>1, ForkInvariant, PTL DEF ForkSpec, RunningUndisturbed
=============================================================================
