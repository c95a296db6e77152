--------------------------- MODULE CheckpointSeal ---------------------------
(***************************************************************************)
(* Certified checkpoints: a publisher holding the claim of the object      *)
(* store (pkg/checkpoint) cuts the state at its tip, binds the root to the *)
(* claim, has a majority verify the root and write a marker of it to their *)
(* WALs (Core.PrepareCheckpoint), and only then proposes the seal as an    *)
(* ordinary value.  A recorder votes for a seal only if it is the newest   *)
(* one it has prepared.  Later the sealed prefix is dropped from the WAL.  *)
(*                                                                         *)
(* A seal is [index |-> the cut, root |-> the claim generation its root    *)
(* was made under]: the root hash covers the generation, the rest of the   *)
(* seal is a function of the agreed prefix.  That a slot has one decision  *)
(* is QuePaxa's; here a slot may decide a seal once a majority has         *)
(* recorded it, and anything else (a Noop) at any time.                    *)
(***************************************************************************)
EXTENDS Naturals, Sequences, FiniteSets, FiniteSetsExt, SequencesExt

CONSTANTS Voters,          \* the members of the cluster
          Publishers,      \* the voters whose AutoCheckpointer is due
          Reach,           \* <<publisher, peer>>: links that are up
          Compacting,      \* the voters that compact their log
          Crashing,        \* the voters that may be restarted
          MaxSealSlot,     \* bound: slots of the log
          MaxClaims,       \* bound: generations of the publisher claim
          MaxMaintenance,  \* bound: maintenance claims taken
          MaxSealFaults    \* bound: lapsed leases and restarts

ASSUME SealBounds ==
  /\ Publishers \union Compacting \union Crashing \subseteq Voters
  /\ {MaxSealSlot, MaxClaims, MaxMaintenance, MaxSealFaults} \subseteq Nat

VARIABLES chosen,      \* chosen[s]: what consensus decided in slot s
          tip,         \* tip[n]: c.tip, and the materializer's behind it
          wal,         \* wal[n]: the entries of the node's log
          synced,      \* synced[n]: how many of them are on disk
          prepared,    \* c.preparedCheckpoints: the fence
          pending,     \* c.pendingPrepares: a marker that is not synced yet
          verifying,   \* candidates whose claim was checked, before checkpointMu
          publication, \* what the AutoCheckpointer of a node is doing
          claim,       \* checkpoint/PUBLISHER
          sealFaults

sealVars == <<chosen, tip, wal, synced, prepared, pending, verifying,
              publication, claim, sealFaults>>

SealSlots == 1..MaxSealSlot
NoSeal == [index |-> 0, root |-> 0]
Undecided == NoSeal
Noop == [index |-> 0, root |-> 1]
Majority == {Q \in SUBSET Voters : 2 * Cardinality(Q) > Cardinality(Voters)}

Unpublished == [pc |-> "idle", gen |-> 0, reserved |-> 0, seal |-> NoSeal,
                answered |-> {}, slot |-> 0]

NoClaim == [gen |-> 0, purpose |-> "none", reserved |-> 0, bound |-> NoSeal,
            live |-> FALSE]

SealInit ==
  /\ chosen = [s \in SealSlots |-> Undecided]
  /\ tip = [n \in Voters |-> 0]
  /\ wal = [n \in Voters |-> <<>>] /\ synced = [n \in Voters |-> 0]
  /\ prepared = [n \in Voters |-> NoSeal]
  /\ pending = [n \in Voters |-> NoSeal]
  /\ verifying = [n \in Voters |-> {}]
  /\ publication = [p \in Publishers |-> Unpublished]
  /\ claim = NoClaim /\ sealFaults = 0

----------------------------------------------------------------------------
(* The log of a node                                                       *)

IsSeal(v) == v.index > 0

\* EntryDecision, EntryReceipt, EntryCheckpointVerified, EntryCheckpoint.
LogEntry(kind, s, v) == [kind |-> kind, slot |-> s, seal |-> v]

Entries(log, kind) == {k \in 1..Len(log) : log[k].kind = kind}

LogFloor(log) ==
  IF Entries(log, "base") = {} THEN 0 ELSE log[1].slot

LoggedSlots(log) == {log[k].slot : k \in Entries(log, "decision")}

OnDisk(n) == SubSeq(wal[n], 1, synced[n])

\* c.recorders: what the receipts of a slot that is not decided here hold.
Recorded(n, s) ==
  {wal[n][k].seal : k \in {k \in Entries(wal[n], "receipt") : wal[n][k].slot = s}}

\* sealedRoots: the seals among the decisions the node has.
Sealed(n) ==
  {chosen[s] : s \in {s \in 1..tip[n] : /\ IsSeal(chosen[s])
                                        /\ chosen[s].index >= LogFloor(wal[n])}}

\* LatestCheckpointSeal: the newest, or an error when two share its index.
Latest(n) == {v \in Sealed(n) : \A w \in Sealed(n) : w.index <= v.index}

----------------------------------------------------------------------------
(* The publisher claim                                                     *)

\* The floor a publisher asks for: everything it knows to be covered.
ClaimFloor(p) ==
  Max({tip[p], prepared[p].index} \union {v.index : v \in Sealed(p)})

Reservation(p) == Max({ClaimFloor(p), claim.reserved, claim.bound.index}) + 1

\* acquireClaim by a publisher over a claim that is free.
AcquireClaim(p) ==
  /\ publication[p].pc = "idle" /\ ~claim.live /\ claim.gen < MaxClaims
  /\ claim' = [gen |-> claim.gen + 1, purpose |-> "publisher",
               reserved |-> Reservation(p), bound |-> NoSeal, live |-> TRUE]
  /\ publication' = [publication EXCEPT
       ![p] = [Unpublished EXCEPT !.pc = "cut", !.gen = claim.gen + 1,
                                  !.reserved = Reservation(p)]]
  /\ UNCHANGED <<chosen, tip, wal, synced, prepared, pending, verifying, sealFaults>>

\* withMaintenanceClaim around a garbage collection or a recovery pin: the
\* claim it writes and releases reserves no index.
MaintenanceClaim ==
  /\ ~claim.live /\ claim.gen > 0 /\ claim.gen < MaxClaims
  /\ claim.purpose = "publisher" /\ MaxMaintenance > 0
  /\ claim' = [NoClaim EXCEPT !.gen = claim.gen + 1, !.purpose = "maintenance"]
  /\ UNCHANGED <<chosen, tip, wal, synced, prepared, pending, verifying,
                 publication, sealFaults>>

\* validatePublisherLease.
HoldsClaim(p) ==
  /\ claim.live /\ claim.purpose = "publisher"
  /\ claim.gen = publication[p].gen

\* ValidatePublisherClaim: the claim is live and bound to this candidate.
BoundTo(p, v) == HoldsClaim(p) /\ claim.bound = v

\* A lease runs out: its holder is paused longer than it lasts.
LapseClaim ==
  /\ claim.live /\ sealFaults < MaxSealFaults
  /\ claim' = [claim EXCEPT !.live = FALSE]
  /\ sealFaults' = sealFaults + 1
  /\ UNCHANGED <<chosen, tip, wal, synced, prepared, pending, verifying, publication>>

----------------------------------------------------------------------------
(* AutoCheckpointer.create                                                 *)

\* The cut: once the reserved index is applied, the files at the tip are
\* uploaded and the claim is bound to their root.
CutAndBind(p) ==
  LET v == [index |-> tip[p], root |-> publication[p].gen] IN
  /\ publication[p].pc = "cut" /\ HoldsClaim(p)
  /\ tip[p] >= publication[p].reserved
  /\ claim' = [claim EXCEPT !.bound = v]
  /\ publication' = [publication EXCEPT ![p].pc = "prepare", ![p].seal = v]
  /\ UNCHANGED <<chosen, tip, wal, synced, prepared, pending, verifying, sealFaults>>

\* The publication callback and preparePeerCheckpoint: the claim is read, the
\* prefix waited for, and the root verified, before c.mu is taken.
RequestPrepare(p, n) ==
  LET v == publication[p].seal IN
  /\ publication[p].pc = "prepare" /\ n \notin publication[p].answered
  /\ n = p \/ (p \in publication[p].answered /\ <<p, n>> \in Reach)
  /\ v \notin verifying[n] /\ BoundTo(p, v) /\ tip[n] >= v.index
  /\ verifying' = [verifying EXCEPT ![n] = @ \union {v}]
  /\ UNCHANGED <<chosen, tip, wal, synced, prepared, pending, publication,
                 claim, sealFaults>>

\* Transport.PrepareCheckpoint has a majority, and core.Propose a slot.
ProposeSeal(p) ==
  /\ publication[p].pc = "prepare" /\ publication[p].answered \in Majority
  /\ \E s \in (tip[p] + 1)..MaxSealSlot :
       publication' = [publication EXCEPT ![p].pc = "propose", ![p].slot = s]
  /\ UNCHANGED <<chosen, tip, wal, synced, prepared, pending, verifying,
                 claim, sealFaults>>

\* The slot went to another value: core.Propose tries the next one.
ProposeSealAgain(p) ==
  LET t == publication[p] IN
  /\ t.pc = "propose" /\ t.slot <= tip[p] /\ chosen[t.slot] # t.seal
  /\ \E s \in (tip[p] + 1)..MaxSealSlot :
       publication' = [publication EXCEPT ![p].slot = s]
  /\ UNCHANGED <<chosen, tip, wal, synced, prepared, pending, verifying,
                 claim, sealFaults>>

\* The seal is decided: CURRENT is promoted and the claim released.
Published(p) ==
  LET t == publication[p] IN
  /\ t.pc = "propose" /\ t.slot <= tip[p] /\ chosen[t.slot] = t.seal
  /\ HoldsClaim(p)
  /\ claim' = [claim EXCEPT !.live = FALSE]
  /\ publication' = [publication EXCEPT ![p] = Unpublished]
  /\ UNCHANGED <<chosen, tip, wal, synced, prepared, pending, verifying, sealFaults>>

\* ErrPublisherFenced, from a renewal or a check: the candidate is dropped.
Fenced(p) ==
  /\ publication[p].pc # "idle" /\ ~HoldsClaim(p)
  /\ publication' = [publication EXCEPT ![p] = Unpublished]
  /\ UNCHANGED <<chosen, tip, wal, synced, prepared, pending, verifying,
                 claim, sealFaults>>

----------------------------------------------------------------------------
(* Core.PrepareCheckpoint                                                  *)

\* Mutant: the claim checked before the lock is trusted under it.
PreparableAsClaimed(n, v) ==
  /\ LogFloor(wal[n]) <= v.index /\ v.index <= tip[n] /\ prepared[n] # v
  /\ \A s \in (tip[n] + 1)..MaxSealSlot : Recorded(n, s) \subseteq {v}

\* checkpointIdentity and pendingCheckpointSealLocked, under c.mu: the cut is
\* in the retained prefix, above the fence, and no older seal can still be
\* decided with this node's receipt.
Preparable(n, v) ==
  /\ LogFloor(wal[n]) <= v.index /\ v.index <= tip[n]
  /\ prepared[n].index < v.index
  /\ \A s \in (tip[n] + 1)..MaxSealSlot : \A w \in Recorded(n, s) :
       w.index > v.index \/ w = v
  /\ \A s \in 1..tip[n] : chosen[s].index = v.index => chosen[s] = v \/
       s \in LoggedSlots(OnDisk(n))

\* appendUndurablePrefix, and the older seals whose decisions must not be
\* younger than the marker.
MissingDecisions(n, v) ==
  {s \in (LogFloor(wal[n]) + 1)..tip[n] :
     /\ s \notin LoggedSlots(wal[n])
     /\ s <= v.index \/ (IsSeal(chosen[s]) /\ chosen[s].index <= v.index)}

DecisionEntries(slots) ==
  [k \in 1..Cardinality(slots) |->
     LET s == SetToSortSeq(slots, <)[k] IN LogEntry("decision", s, chosen[s])]

\* prepareCheckpointOwnedWithAdmission: the marker goes behind its prefix.
AppendMarker(n) ==
  /\ pending[n] = NoSeal
  /\ \E v \in verifying[n] :
       /\ Preparable(n, v)
       /\ wal' = [wal EXCEPT ![n] = @ \o DecisionEntries(MissingDecisions(n, v))
                                      \o <<LogEntry("marker", v.index, v)>>]
       /\ pending' = [pending EXCEPT ![n] = v]
       /\ verifying' = [verifying EXCEPT ![n] = @ \ {v}]
  /\ UNCHANGED <<chosen, tip, synced, prepared, publication, claim, sealFaults>>

\* Publishers that wait for this candidate.
Answer(n, v) ==
  publication' = [p \in Publishers |->
    IF publication[p].pc = "prepare" /\ publication[p].seal = v
    THEN [publication[p] EXCEPT !.answered = @ \union {n}] ELSE publication[p]]

\* finishPendingCheckpointPrepare: the marker is synced and becomes the fence.
FinishPrepare(n) ==
  /\ pending[n] # NoSeal
  /\ synced' = [synced EXCEPT ![n] = Len(wal[n])]
  /\ prepared' = [prepared EXCEPT ![n] = pending[n]]
  /\ pending' = [pending EXCEPT ![n] = NoSeal]
  /\ Answer(n, pending[n])
  /\ UNCHANGED <<chosen, tip, wal, verifying, claim, sealFaults>>

\* The candidate is the fence already, or it is refused.
EndPrepare(n) ==
  /\ pending[n] = NoSeal
  /\ \E v \in verifying[n] :
       /\ ~Preparable(n, v)
       /\ verifying' = [verifying EXCEPT ![n] = @ \ {v}]
       /\ IF prepared[n] = v THEN Answer(n, v) ELSE UNCHANGED publication
  /\ UNCHANGED <<chosen, tip, wal, synced, prepared, pending, claim, sealFaults>>

----------------------------------------------------------------------------
(* Consensus on the slots, as far as seals are concerned                   *)

\* RequirePreparedCheckpoint and checkCheckpointRecordEligibilityLocked.
Eligible(n, v) ==
  /\ prepared[n] = v /\ pending[n].index <= v.index
  /\ LogFloor(wal[n]) <= v.index /\ v.index <= tip[n]

\* What the proposers that reach the node offer in a slot.
Offered(n, s) ==
  {publication[p].seal : p \in {p \in Publishers :
     /\ publication[p].pc = "propose" /\ publication[p].slot = s
     /\ n = p \/ <<p, n>> \in Reach}}

\* RecordContext: a receipt for the seal, synced before it is answered; one
\* that was lost, or kept unanswered, is as if not made, or made.
RecordSeal(n, s) ==
  \E v \in Offered(n, s) \ Recorded(n, s) :
    /\ s > tip[n] /\ Eligible(n, v)
    /\ wal' = [wal EXCEPT ![n] = Append(@, LogEntry("receipt", s, v))]
    /\ synced' = [synced EXCEPT ![n] = Len(wal[n]) + 1]
    /\ UNCHANGED <<chosen, tip, prepared, pending, verifying, publication,
                   claim, sealFaults>>

\* A majority has answered for one value of the slot.  Other values are not
\* looked at before their turn to be learnt, so they are chosen in order.
ChooseValue(s) ==
  /\ chosen[s] = Undecided
  /\ \E v \in {Noop} \union UNION {Recorded(n, s) : n \in Voters} :
       /\ \/ v = Noop /\ \A u \in 1..(s - 1) : chosen[u] # Undecided
          \/ {n \in Voters : v \in Recorded(n, s)} \in Majority
       /\ chosen' = [chosen EXCEPT ![s] = v]
  /\ UNCHANGED <<tip, wal, synced, prepared, pending, verifying, publication,
                 claim, sealFaults>>

\* A node hears of the next decision, and applies it.
LearnValue(n) ==
  /\ tip[n] < MaxSealSlot /\ chosen[tip[n] + 1] # Undecided
  /\ tip' = [tip EXCEPT ![n] = @ + 1]
  /\ UNCHANGED <<chosen, wal, synced, prepared, pending, verifying,
                 publication, claim, sealFaults>>

\* EnsureDurable: the decisions the node has are logged and synced.
EnsureDecisions(n) ==
  LET missing == ((LogFloor(wal[n]) + 1)..tip[n]) \ LoggedSlots(wal[n]) IN
  /\ missing # {} /\ pending[n] = NoSeal
  /\ wal' = [wal EXCEPT ![n] = @ \o DecisionEntries(missing)]
  /\ synced' = [synced EXCEPT ![n] = Len(wal'[n])]
  /\ UNCHANGED <<chosen, tip, prepared, pending, verifying, publication,
                 claim, sealFaults>>

----------------------------------------------------------------------------
(* Compaction and recovery                                                 *)

\* compactCertifiedCheckpoint verifies the newest seal first.
VerifyLatest(n) ==
  /\ Cardinality(Latest(n)) = 1
  /\ \E v \in Latest(n) \ verifying[n] :
       /\ v.index > LogFloor(wal[n]) /\ prepared[n].index < v.index
       /\ verifying' = [verifying EXCEPT ![n] = @ \union {v}]
  /\ UNCHANGED <<chosen, tip, wal, synced, prepared, pending, publication,
                 claim, sealFaults>>

\* The rewrite keeps what is above the base; the base itself marks the seal.
Rewritten(n, v) ==
  <<LogEntry("base", v.index, v)>> \o
  SelectSeq(wal[n], LAMBDA entry : entry.slot > v.index)

\* CompactThrough.
CompactLog(n) ==
  /\ Cardinality(Latest(n)) = 1 /\ pending[n] = NoSeal
  /\ \E v \in Latest(n) :
       /\ v.index > LogFloor(wal[n]) /\ prepared[n] = v
       /\ wal' = [wal EXCEPT ![n] = Rewritten(n, v)]
       /\ synced' = [synced EXCEPT ![n] = Len(Rewritten(n, v))]
  /\ UNCHANGED <<chosen, tip, prepared, pending, verifying, publication,
                 claim, sealFaults>>

\* The prefix a log leads to.
RecoveredTip(log) ==
  Max({t \in LogFloor(log)..MaxSealSlot :
         \A s \in (LogFloor(log) + 1)..t : s \in LoggedSlots(log)})

LastMarker(log) ==
  LET markers == Entries(log, "marker")
  IN IF markers = {} THEN NoSeal ELSE log[Max(markers)].seal

\* recover, after a crash that kept what was synced and perhaps more.
RestartVoter(n) ==
  /\ sealFaults < MaxSealFaults /\ sealFaults' = sealFaults + 1
  /\ \E k \in synced[n]..Len(wal[n]) :
       LET log == SubSeq(wal[n], 1, k) IN
       /\ wal' = [wal EXCEPT ![n] = log]
       /\ synced' = [synced EXCEPT ![n] = k]
       /\ tip' = [tip EXCEPT ![n] = RecoveredTip(log)]
       /\ prepared' = [prepared EXCEPT ![n] = LastMarker(log)]
  /\ pending' = [pending EXCEPT ![n] = NoSeal]
  /\ verifying' = [verifying EXCEPT ![n] = {}]
  /\ publication' = [p \in Publishers |->
                       IF p = n THEN Unpublished ELSE publication[p]]
  /\ UNCHANGED <<chosen, claim>>

SealNext ==
  \/ MaintenanceClaim \/ LapseClaim
  \/ \E p \in Publishers :
       \/ AcquireClaim(p) \/ CutAndBind(p)
       \/ ProposeSeal(p) \/ ProposeSealAgain(p) \/ Published(p) \/ Fenced(p)
       \/ \E n \in Voters : RequestPrepare(p, n)
  \/ \E n \in Voters :
       \/ AppendMarker(n) \/ FinishPrepare(n) \/ EndPrepare(n)
       \/ LearnValue(n) \/ \E s \in SealSlots : RecordSeal(n, s)
  \/ \E n \in Compacting : VerifyLatest(n) \/ CompactLog(n) \/ EnsureDecisions(n)
  \/ \E n \in Crashing : RestartVoter(n)
  \/ \E s \in SealSlots : ChooseValue(s)

SealSpec == SealInit /\ [][SealNext]_sealVars

----------------------------------------------------------------------------
(* Properties                                                              *)

\* recover refuses a WAL whose markers go back or whose prefix is missing: no
\* crash may leave such a WAL behind, whatever was synced of it.
RecoverySucceeds ==
  \A n \in Voters : \A k \in synced[n]..Len(wal[n]) :
    LET log == SubSeq(wal[n], 1, k) IN
    \A i \in Entries(log, "marker") :
      /\ log[i].seal.index <= RecoveredTip(log)
      /\ \A j \in Entries(log, "marker") :
           j < i => \/ log[j].seal.index < log[i].seal.index
                    \/ log[j].seal = log[i].seal

\* LatestCheckpointSeal fails for good once two seals of one index are
\* decided.  The fence and the claim do not rule it out: with MaxClaims = 3 a
\* maintenance claim between two publishers does it (README, section 5).
NoConflictingSeals ==
  \A s, u \in SealSlots :
    IsSeal(chosen[s]) /\ chosen[s].index = chosen[u].index => chosen[s] = chosen[u]

\* A decided seal is recoverable: it lies behind its cut, and a majority has
\* verified its root and kept the marker, or built its log on it or a later one.
SealsVerified ==
  \A s \in SealSlots : IsSeal(chosen[s]) =>
    /\ chosen[s].index < s
    /\ {n \in Voters : \E k \in 1..synced[n] :
          /\ wal[n][k].kind \in {"marker", "base"}
          /\ wal[n][k].seal.index >= chosen[s].index} \in Majority

\* The sealed cuts do not go back along the log.
SealsAscend ==
  \A s, u \in SealSlots :
    s < u /\ IsSeal(chosen[s]) /\ IsSeal(chosen[u]) =>
      chosen[s].index <= chosen[u].index

\* What certification promises: cuts that follow the log, and a majority that
\* can recover from every sealed cut, after any crash (PrepareCheckpoint).
SealsRecoverable == RecoverySucceeds /\ SealsAscend /\ SealsVerified
=============================================================================
