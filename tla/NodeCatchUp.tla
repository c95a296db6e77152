---------------------------- MODULE NodeCatchUp ----------------------------
(***************************************************************************)
(* How a voter gets back to the cluster's log: pkg/node/node.go.  A start   *)
(* selects certified evidence (CURRENT, a pinned archive head, the seals of *)
(* its own log), restores what its WAL and its database lack and replays.   *)
(* Afterwards two workers run side by side: startCatchUp fetches pages from *)
(* the peers, and the archive ticker fetches, uploads and compacts.  Each   *)
(* may find that the history it needs is compacted and restore a checkpoint *)
(* over the running node (restoreArchiveCatchUp).                           *)
(*                                                                         *)
(* The decided log is one sequence of slots (agreement is QuePaxa's), some  *)
(* of which decide checkpoint seals; what differs is who has which part.    *)
(* A peer may answer with any page, or that it has compacted below the      *)
(* archive's base.  Archive and checkpoint store are the ones of Archive    *)
(* and CheckpointStore: uploads are atomic here.  Managed nodes restore     *)
(* through PairInstall, Local ones through LocalReclaim and PairInstall.    *)
(***************************************************************************)
EXTENDS Naturals

CONSTANTS LastSlot,     \* bound: slots the cluster decides
          SealOf,       \* index of the checkpoint sealed in a slot
          MaxNodeStops  \* bound: crashes, failed starts and shutdowns

CatchUpSlots == 1..LastSlot
SealSlots == DOMAIN SealOf

\* A seal is decided after the slots it covers.
ASSUME CatchUpAssumption ==
  /\ LastSlot \in Nat /\ MaxNodeStops \in Nat
  /\ SealSlots \subseteq CatchUpSlots
  /\ SealOf \in [SealSlots -> CatchUpSlots]
  /\ \A s \in SealSlots : SealOf[s] < s

VARIABLES headTip,    \* the archive: its tip
          headBase,   \* and the checkpoint it is trimmed to
          currentTo,  \* the checkpoint CURRENT names
          pin,        \* this node's recovery pin on the archive
          walHas,     \* decisions the WAL has, synced, above its base
          walBase,    \* c.floor
          learned,    \* c.decided
          matTip,     \* the slot the database is at
          phase,      \* how far the node has started
          seen,       \* CURRENT as loaded at start
          servable,   \* n.ready
          restore,    \* the archive head a restore works from
          job,        \* what the start and the two workers do
          nodeStops

archiveVars == <<headTip, headBase, currentTo>>
logVars == <<walHas, walBase, learned>>
catchUpVars == <<archiveVars, pin, logVars, matTip, phase, seen, servable,
                 restore, job, nodeStops>>

\* The start, the worker of startCatchUp, the archive ticker.
Workers == {"start", "peers", "archive"}

\* Where a worker is, with the page it works on and what follows its replay.
Step(pc, from, to, then) == [pc |-> pc, from |-> from, to |-> to, then |-> then]
Resting == Step("rest", 0, 0, "none")
Idle == [w \in Workers |-> Resting]

\* Who restores from the archive, the pinned head, the seal a start selected.
Pinned(by, base, tip, seal) == [by |-> by, base |-> base, tip |-> tip, seal |-> seal]
NoRestore == Pinned("nobody", 0, 0, 0)

CatchUpInit ==
  /\ headTip = 0 /\ headBase = 0 /\ currentTo = 0 /\ pin = "none"
  /\ walHas = {} /\ walBase = 0 /\ learned = {} /\ matTip = 0
  /\ phase = "down" /\ seen = 0 /\ servable = FALSE
  /\ restore = NoRestore /\ job = Idle /\ nodeStops = 0

\* advanceTipLocked: c.tip is the end of the certified prefix.
Certified(t) == t >= walBase /\ \A s \in (walBase + 1)..t : s \in learned
TipIs(t) == t \in 0..LastSlot /\ Certified(t) /\ (t + 1) \notin learned

\* LatestCheckpointSeal: the seals decided in the retained log.
KnownSeals == {SealOf[s] : s \in {x \in SealSlots : x > walBase /\ Certified(x)}}
LatestSeal(i) == IF KnownSeals = {} THEN i = 0
                 ELSE i \in KnownSeals /\ \A j \in KnownSeals : j <= i

At(w, pc) == job[w].pc = pc
Do(w, step) == job' = [job EXCEPT ![w] = step]
MaxOf(x, y) == IF x >= y THEN x ELSE y

----------------------------------------------------------------------------
(* What workers share                                                      *)

\* RestoreCheckpointBase, if the certified tip is below the base: the WAL is
\* rewritten above it.
InstallBase(base) ==
  \E t \in 0..LastSlot :
    /\ TipIs(t)
    /\ IF t < base
       THEN /\ walBase' = base
            /\ walHas' = {s \in walHas : s > base} /\ learned' = {s \in learned : s > base}
       ELSE UNCHANGED logVars

\* AcceptCertifiedValues: a page is accepted, appended and synced.
AcceptCertifiedValues(from, to) ==
  /\ from > walBase
  /\ learned' = learned \cup (from..to) /\ walHas' = walHas \cup (from..to)
  /\ UNCHANGED walBase

\* A page of archived decisions after the tip.
AcceptArchived(through) ==
  \E t \in 0..LastSlot : /\ TipIs(t) /\ t < through
                         /\ \E to \in (t + 1)..through : AcceptCertifiedValues(t + 1, to)
ReachedTip(through) == \E t \in 0..LastSlot : TipIs(t) /\ t >= through

\* replayLocalDecisionsTo holds replayMu from the page it reads to its apply.
Replaying(w) == job[w].pc \in {"log", "applyLogged"}

\* DecisionsFrom the slot after the database, unless that is compacted.
ReadPage(w) ==
  /\ At(w, "replay") /\ \A o \in Workers : ~ Replaying(o)
  /\ matTip + 1 > walBase
  /\ \E t \in 0..LastSlot :
       /\ TipIs(t)
       /\ IF matTip >= t THEN Do(w, Step(job[w].then, 0, 0, "none"))
          ELSE \E to \in (matTip + 1)..t : Do(w, Step("log", matTip + 1, to, job[w].then))
  /\ UNCHANGED <<archiveVars, pin, logVars, matTip, phase, seen, servable, restore, nodeStops>>

\* EnsureDurableThrough the end of the page.
LogPage(w) ==
  /\ At(w, "log")
  /\ walHas' = walHas \cup {s \in learned : s <= job[w].to}
  /\ Do(w, Step("applyLogged", job[w].from, job[w].to, job[w].then))
  /\ UNCHANGED <<archiveVars, pin, walBase, learned, matTip, phase, seen, servable, restore,
                 nodeStops>>

\* ApplyBatch: slots that are applied are skipped, a gap is an error (WorkFails).
ApplyPage(w) ==
  /\ job[w].pc \in {"applyLogged", "applyFetched"}
  /\ job[w].from <= matTip + 1
  /\ matTip' = MaxOf(matTip, job[w].to)
  /\ Do(w, Step("replay", 0, 0, job[w].then))
  /\ UNCHANGED <<archiveVars, pin, logVars, phase, seen, servable, restore, nodeStops>>

----------------------------------------------------------------------------
(* Starting: openInternal                                                  *)

\* CURRENT is loaded before the archive head is pinned.
LoadCurrent ==
  /\ phase = "down" /\ phase' = "loaded" /\ seen' = currentTo
  /\ UNCHANGED <<archiveVars, pin, logVars, matTip, servable, restore, job, nodeStops>>

\* newStartupRecoveryGuard, the database (a damaged one is set aside and built
\* anew) and the core over the WAL.
PinHead ==
  /\ phase = "loaded" /\ phase' = "pinned" /\ pin' = "held"
  /\ restore' = Pinned("start", headBase, headTip, 0)
  /\ matTip' \in {matTip, 0}
  /\ learned' = walHas
  /\ UNCHANGED <<archiveVars, walHas, walBase, seen, servable, job, nodeStops>>

StartBase ==
  /\ phase = "pinned" /\ phase' = "based" /\ InstallBase(restore.base)
  /\ UNCHANGED <<archiveVars, pin, matTip, seen, servable, restore, job, nodeStops>>

StartSuffix ==
  /\ phase = "based" /\ AcceptArchived(restore.tip)
  /\ UNCHANGED <<archiveVars, pin, matTip, phase, seen, servable, restore, job, nodeStops>>

\* Mutant: CURRENT is read again when it is compared.
CurrentSeenNow == currentTo

\* CURRENT must be backed by a certified seal.
CurrentSeen == seen
SelectSeal ==
  /\ phase = "based" /\ ReachedTip(restore.tip)
  /\ \E i \in 0..LastSlot :
       /\ LatestSeal(i)
       /\ phase' = IF CurrentSeen <= i THEN "selected" ELSE "refused"
       /\ restore' = Pinned("start", restore.base, restore.tip, i)
  /\ UNCHANGED <<archiveVars, pin, logVars, matTip, seen, servable, job, nodeStops>>

\* RecoverThrough the database, the recorder and the selected checkpoint.
RecoverLog ==
  /\ phase = "selected" /\ phase' = "recovered"
  /\ \E target \in 0..LastSlot :
       /\ target >= matTip /\ target >= restore.seal
       /\ learned' = learned \cup ((walBase + 1)..target)
  /\ UNCHANGED <<archiveVars, pin, walHas, walBase, matTip, seen, servable, restore, job,
                 nodeStops>>

\* A database below the selected checkpoint is replaced by it, then the rest
\* is replayed; a base above the database cannot be (ErrCompacted).
StartDatabase ==
  /\ phase = "recovered"
  /\ matTip' = MaxOf(matTip, restore.seal)
  /\ IF matTip' + 1 > walBase
     THEN phase' = "replaying" /\ Do("start", Step("replay", 0, 0, "open"))
     ELSE phase' = "refused" /\ UNCHANGED job
  /\ UNCHANGED <<archiveVars, pin, logVars, seen, servable, restore, nodeStops>>

\* The pins are released, the selected checkpoint is published (after the
\* decisions it rests on) and the background loops start.
FinishOpen ==
  /\ phase = "replaying" /\ At("start", "open")
  /\ \E t \in 0..LastSlot :
       /\ TipIs(t)
       /\ IF restore.seal = 0 THEN UNCHANGED archiveVars
          ELSE /\ headTip' = MaxOf(headTip, t)
               /\ currentTo' = MaxOf(currentTo, restore.seal)
               /\ UNCHANGED headBase
  /\ phase' = "open" /\ pin' = "none" /\ restore' = NoRestore
  /\ Do("start", Resting)
  /\ UNCHANGED <<logVars, matTip, seen, servable, nodeStops>>

----------------------------------------------------------------------------
(* Restoring a checkpoint over the running node: restoreArchiveCatchUp      *)

\* Under recoveryMu.  The node stops serving before anything else.
BeginRestore(w) ==
  /\ At(w, "restore") /\ restore = NoRestore /\ headBase # 0
  /\ servable' = FALSE /\ pin' = "held"
  /\ restore' = Pinned(w, headBase, headTip, 0)
  /\ Do(w, Step("base", 0, 0, "none"))
  /\ UNCHANGED <<archiveVars, logVars, matTip, phase, seen, nodeStops>>

\* The checkpoint is downloaded and the server is quiet.
RestoreBase(w) ==
  /\ At(w, "base") /\ InstallBase(restore.base)
  /\ Do(w, Step("check", 0, 0, "none"))
  /\ UNCHANGED <<archiveVars, pin, matTip, phase, seen, servable, restore, nodeStops>>

\* The database is compared before RestoreCheckpoint takes its lock.
CheckDatabase(w) ==
  /\ At(w, "check")
  /\ Do(w, Step(IF matTip < restore.base THEN "install" ELSE "suffix", 0, 0, "none"))
  /\ UNCHANGED <<archiveVars, pin, logVars, matTip, phase, seen, servable, restore, nodeStops>>
InstallDatabase(w) ==
  /\ At(w, "install") /\ matTip' = restore.base
  /\ Do(w, Step("suffix", 0, 0, "none"))
  /\ UNCHANGED <<archiveVars, pin, logVars, phase, seen, servable, restore, nodeStops>>

\* The snapshot's decisions and what was archived since, then the replay.
RestoreSuffix(w) ==
  /\ At(w, "suffix")
  /\ \/ AcceptArchived(headTip) /\ UNCHANGED job
     \/ /\ ReachedTip(headTip) /\ Do(w, Step("replay", 0, 0, "restored"))
        /\ UNCHANGED logVars
  /\ UNCHANGED <<archiveVars, pin, matTip, phase, seen, servable, restore, nodeStops>>
Restored(w) ==
  /\ At(w, "restored")
  /\ restore' = NoRestore /\ pin' = "none"
  /\ Do(w, IF w = "peers" THEN Step("replay", 0, 0, "fetch") ELSE Step("archived", 0, 0, "none"))
  /\ UNCHANGED <<archiveVars, logVars, matTip, phase, seen, servable, nodeStops>>

\* The lease of a pin lapses while its process sleeps.
ExpirePin ==
  /\ pin = "held" /\ pin' = "lapsed"
  /\ UNCHANGED <<archiveVars, logVars, matTip, phase, seen, servable, restore, job, nodeStops>>

----------------------------------------------------------------------------
(* Catching up from the peers: startCatchUp                                *)

StartRound ==
  /\ phase = "open" /\ At("peers", "rest")
  /\ Do("peers", Step("replay", 0, 0, "fetch"))
  /\ UNCHANGED <<archiveVars, pin, logVars, matTip, phase, seen, servable, restore, nodeStops>>

\* FetchDecisions after the database's slot: a page, nothing newer, or
\* ErrCompacted.  A quorum round without news makes the node ready
\* (observeCatchUp); one peer asked by a ready node does not.
FetchDecisions ==
  /\ At("peers", "fetch")
  /\ \/ \E to \in (matTip + 1)..LastSlot :
          Do("peers", Step("accept", matTip + 1, to, "fetch")) /\ UNCHANGED servable
     \/ matTip + 1 <= headBase /\ Do("peers", Step("restore", 0, 0, "none"))
          /\ UNCHANGED servable
     \/ Do("peers", Resting) /\ (UNCHANGED servable \/ servable' = TRUE)
  /\ UNCHANGED <<archiveVars, pin, logVars, matTip, phase, seen, restore, nodeStops>>

AcceptPage ==
  /\ At("peers", "accept")
  /\ AcceptCertifiedValues(job["peers"].from, job["peers"].to)
  /\ Do("peers", Step("applyFetched", job["peers"].from, job["peers"].to, "fetch"))
  /\ UNCHANGED <<archiveVars, pin, matTip, phase, seen, servable, restore, nodeStops>>

----------------------------------------------------------------------------
(* The archive ticker: catchUpArchive, SyncThrough, compactCertified...     *)

ArchiveTick ==
  /\ phase = "open" /\ At("archive", "rest")
  /\ \E t \in 0..LastSlot :
       /\ TipIs(t)
       /\ Do("archive", Step(IF t < headBase THEN "restore" ELSE "load", 0, 0, "none"))
  /\ UNCHANGED <<archiveVars, pin, logVars, matTip, phase, seen, servable, restore, nodeStops>>

CatchUpArchive ==
  /\ At("archive", "load")
  /\ \/ AcceptArchived(headTip) /\ UNCHANGED job
     \/ /\ ReachedTip(headTip) /\ Do("archive", Step("replay", 0, 0, "archived"))
        /\ UNCHANGED logVars
  /\ UNCHANGED <<archiveVars, pin, matTip, phase, seen, servable, restore, nodeStops>>

SyncArchive ==
  /\ At("archive", "archived")
  /\ \E t \in 0..LastSlot : TipIs(t) /\ headTip' = MaxOf(headTip, t)
  /\ Do("archive", Step("compact", 0, 0, "none"))
  /\ UNCHANGED <<headBase, currentTo, pin, logVars, matTip, phase, seen, servable, restore,
                 nodeStops>>

\* compactCertifiedCheckpoint: the latest seal, once the database is past it;
\* the archive is synced through its decision and trimmed, unless a pin holds
\* it (then the ticker tries again).
TrimArchive ==
  /\ At("archive", "compact")
  /\ \E s \in SealSlots :
       /\ s > walBase /\ Certified(s) /\ LatestSeal(SealOf[s])
       /\ SealOf[s] > walBase /\ matTip >= SealOf[s]
       /\ headTip' = MaxOf(headTip, s)
       /\ IF pin = "held"
          THEN Do("archive", Resting) /\ UNCHANGED headBase
          ELSE /\ headBase' = MaxOf(headBase, SealOf[s])
               /\ Do("archive", Step("rewrite", 0, SealOf[s], "none"))
  /\ UNCHANGED <<currentTo, pin, logVars, matTip, phase, seen, servable, restore, nodeStops>>

\* Core.CompactThrough, unless the base has moved meanwhile (WorkFails).
CompactWal ==
  /\ At("archive", "rewrite") /\ job["archive"].to > walBase
  /\ walBase' = job["archive"].to
  /\ walHas' = {s \in walHas : s > walBase'} /\ learned' = {s \in learned : s > walBase'}
  /\ Do("archive", Resting)
  /\ UNCHANGED <<archiveVars, pin, matTip, phase, seen, servable, restore, nodeStops>>

\* An error ends the round of a worker: the pins are released, what a restore
\* has installed stays.
WorkFails(w) ==
  /\ phase = "open" /\ ~ At(w, "rest")
  /\ Do(w, Resting)
  /\ IF restore.by = w THEN restore' = NoRestore /\ pin' = "none"
     ELSE UNCHANGED <<restore, pin>>
  /\ UNCHANGED <<archiveVars, logVars, matTip, phase, seen, servable, nodeStops>>

----------------------------------------------------------------------------
(* The rest of the node and the cluster                                    *)

\* A decision of its own, or a hint from a peer, in any order.
LearnHint ==
  /\ phase = "open"
  /\ \E s \in CatchUpSlots : s > walBase /\ learned' = learned \cup {s}
  /\ UNCHANGED <<archiveVars, pin, walHas, walBase, matTip, phase, seen, servable, restore,
                 job, nodeStops>>

\* applyDecisions logs what it applies; a restore excludes it while it is
\* between its base and its suffix (Quiesce holds applyMu).
QuietServer == restore.by \in {"peers", "archive"} /\ ~ At(restore.by, "base")
ApplyDecisions ==
  /\ phase = "open" /\ ~ QuietServer /\ matTip + 1 > walBase
  /\ \E to \in (matTip + 1)..LastSlot :
       /\ Certified(to) /\ matTip' = to
       /\ walHas' = walHas \cup {s \in learned : s <= to}
  /\ UNCHANGED <<archiveVars, pin, walBase, learned, phase, seen, servable, restore, job,
                 nodeStops>>

\* wakeCatchUp: a request found a peer that has compacted what it needs.
WakeCatchUp ==
  /\ phase = "open" /\ servable' = FALSE
  /\ UNCHANGED <<archiveVars, pin, logVars, matTip, phase, seen, restore, job, nodeStops>>

\* The periodic sync: any of what was learned may have been appended.
BackgroundSync ==
  /\ phase \notin {"down", "loaded"} /\ \E s \in learned : walHas' = walHas \cup {s}
  /\ UNCHANGED <<archiveVars, pin, walBase, learned, matTip, phase, seen, servable, restore,
                 job, nodeStops>>

\* Other voters archive decisions, publish certified checkpoints that are
\* archived, and trim the archive to one.
OtherVoters ==
  /\ \/ \E t \in (headTip + 1)..LastSlot : headTip' = t /\ UNCHANGED <<headBase, currentTo>>
     \/ \E s \in SealSlots :
          /\ s <= headTip
          /\ \/ currentTo' = MaxOf(currentTo, SealOf[s]) /\ UNCHANGED headBase
             \/ pin # "held" /\ headBase' = MaxOf(headBase, SealOf[s]) /\ UNCHANGED currentTo
          /\ UNCHANGED headTip
  /\ UNCHANGED <<pin, logVars, matTip, phase, seen, servable, restore, job, nodeStops>>

\* The process stops, or a start fails for lack of a peer or an object.
StopNode(through) ==
  /\ nodeStops < MaxNodeStops /\ nodeStops' = nodeStops + 1
  /\ phase' = "down" /\ servable' = FALSE /\ learned' = {}
  /\ restore' = NoRestore /\ pin' = "none" /\ job' = Idle /\ seen' = 0
  /\ headTip' = MaxOf(headTip, through)
  /\ UNCHANGED <<headBase, currentTo, walHas, walBase, matTip>>
NodeCrash == phase \notin {"down", "refused"} /\ StopNode(0)

\* Shutdown waits for the workers and archives what is certified.
Shutdown ==
  /\ phase = "open" /\ job = Idle
  /\ \E t \in 0..LastSlot : TipIs(t) /\ StopNode(t)

CatchUpNext ==
  \/ LoadCurrent \/ PinHead \/ StartBase \/ StartSuffix \/ SelectSeal \/ RecoverLog
  \/ StartDatabase \/ FinishOpen
  \/ \E w \in Workers :
       ReadPage(w) \/ LogPage(w) \/ ApplyPage(w) \/ BeginRestore(w) \/ RestoreBase(w)
       \/ CheckDatabase(w) \/ InstallDatabase(w) \/ RestoreSuffix(w) \/ Restored(w)
       \/ WorkFails(w)
  \/ ExpirePin \/ StartRound \/ FetchDecisions \/ AcceptPage
  \/ ArchiveTick \/ CatchUpArchive \/ SyncArchive \/ TrimArchive \/ CompactWal
  \/ LearnHint \/ ApplyDecisions \/ WakeCatchUp \/ BackgroundSync \/ OtherVoters
  \/ NodeCrash \/ Shutdown

CatchUpSpec == CatchUpInit /\ [][CatchUpNext]_catchUpVars

----------------------------------------------------------------------------
(* Properties                                                              *)

\* What the database shows, whoever applied it and whatever was known from
\* hints only, is in the WAL or, where a restore took the database from the
\* archive, archived: a restart gets at it without a peer.
AppliedIsLogged == \A s \in (walBase + 1)..matTip : s \in walHas \/ s <= headTip

\* No start is refused: CURRENT is always backed by a seal in the log or in
\* the pinned archive, and a base above the database, left by a restore that
\* stopped half way or by a lost database, always has a checkpoint to restore.
StartRecovers == phase # "refused"

CatchUpSound == AppliedIsLogged /\ StartRecovers
=============================================================================
