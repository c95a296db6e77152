-------------------------------- MODULE Fork --------------------------------
(***************************************************************************)
(* Forking a sealed generation into an empty object-store prefix            *)
(* (pkg/recovery/fork.go, anchor.go).  A plain operation copies the source's*)
(* checkpoint, extents and head; an anchored one materializes the source    *)
(* into a new checkpoint, publishes an anchor that binds it to the source,  *)
(* and starts the target's archive at the anchor.  The controller calls     *)
(* Fork again until it succeeds, so several runs of one operation, and runs *)
(* of rival operations, may work on a target at once and stop anywhere.     *)
(*                                                                         *)
(* A manifest [base, tip] stands for the hash of a sealed source head.      *)
(***************************************************************************)
EXTENDS Naturals, FiniteSets

CONSTANTS ForkRuns,      \* concurrent calls of Fork
          ForkOps,           \* operations: ID, members and all the other options
          AnchoredOps,   \* those with a target membership
          MaxSourceTip,  \* bound: slots of the source
          MaxTargetTip,  \* bound: slots of the target
          MaxStarts,     \* bound: calls
          MaxForkFaults  \* bound: stopped calls and lapsed leases

ASSUME ForkBounds ==
  /\ AnchoredOps \subseteq ForkOps
  /\ {MaxSourceTip, MaxTargetTip, MaxStarts, MaxForkFaults} \subseteq Nat

VARIABLES source,  \* head of the source archive
          target,  \* objects under the target prefix
          runs,    \* progress of each call
          running, \* a node serves from the target
          starts, forkFaults

forkVars == <<source, target, runs, running, starts, forkFaults>>

Absent == [absent |-> TRUE]
Manifest(head) == [base |-> head.base, tip |-> head.tip]

\* A call: what it knows, the live recovery pin it holds or has left behind,
\* on the source or on the target, and whether it has had the target to itself.
Unpinned == "none"
Waiting == [pc |-> "waiting", op |-> CHOOSE op \in ForkOps : TRUE,
            snapshot |-> Absent, root |-> Absent, gen |-> 0, pin |-> Unpinned,
            alone |-> FALSE]

ForkInit ==
  /\ source = [base |-> 0, tip |-> 1, sealed |-> FALSE]
  /\ target = [intent |-> Absent, roots |-> {}, current |-> Absent,
               extents |-> {}, head |-> Absent, anchor |-> Absent,
               result |-> Absent,
               claim |-> [gen |-> 0, owner |-> "none", bound |-> 0,
                          live |-> FALSE]]
  /\ runs = [r \in ForkRuns |-> Waiting]
  /\ running = FALSE /\ starts = 0 /\ forkFaults = 0

Active(r) == runs[r].pc \notin {"waiting", "failed", "done"}

\* What a step of r leaves of the others' belief that they were alone.
ForkMoved(r, new) == [q \in ForkRuns |-> IF q = r THEN new
                                     ELSE [runs[q] EXCEPT !.alone = FALSE]]

\* ReleasePublisherClaim, deferred: any end of a call that got a claim.
Unclaimed(r) == IF runs[r].gen > 0 /\ target.claim.gen = runs[r].gen
                THEN [target.claim EXCEPT !.live = FALSE] ELSE target.claim

CurrentIndex == IF target.current = Absent THEN 0 ELSE target.current.index
StepIs(r, pc) == runs[r].pc = pc
RunTo(r, pc) == runs' = ForkMoved(r, [runs[r] EXCEPT !.pc = pc])

\* The end of a call closes its pins (closeSnapshot, closeRootPin, deferred).
EndRun(r, pc) == runs' = ForkMoved(r, [runs[r] EXCEPT !.pc = pc, !.pin = Unpinned])
Fail(r) == EndRun(r, "failed") /\ target' = [target EXCEPT !.claim = Unclaimed(r)]

\* A pin is an object named after the operation: while it is live, no other
\* call of that operation gets one.
PinBusy(op, pins, others) ==
  \E q \in others : runs[q].op = op /\ runs[q].pin \in pins

\* One object is written, the call goes on.
Write(r, new, pc) == target' = new /\ RunTo(r, pc)
Still == UNCHANGED <<source, running, starts, forkFaults>>

----------------------------------------------------------------------------
(* The source, before and after it is fenced                               *)

SourceAdvances ==
  /\ ~source.sealed
  /\ \/ source.tip < MaxSourceTip /\ source' = [source EXCEPT !.tip = @ + 1]
     \/ source.base < source.tip /\ source' = [source EXCEPT !.base = source.tip]
     \/ source' = [source EXCEPT !.sealed = TRUE]
  /\ UNCHANGED <<target, runs, running, starts, forkFaults>>

----------------------------------------------------------------------------
(* Steps of both kinds of operation                                        *)

\* readForkIntent: another operation's intent refuses, this operation's own
\* result is verified, and without an intent the target must be empty.
StartFork(r, op) ==
  /\ ~Active(r) /\ ~StepIs(r, "done") /\ runs[r].pin = Unpinned
  /\ starts < MaxStarts
  /\ starts' = starts + 1
  /\ runs' = ForkMoved(r, [Waiting EXCEPT !.op = op,
       !.alone = /\ ~target.claim.live /\ ~running
                 /\ ~PinBusy(op, {"source", "target"}, ForkRuns \ {r}),
       !.pc = IF target.intent = Absent THEN "empty"
              ELSE IF target.intent.op # op THEN "failed"
              ELSE IF target.result # Absent THEN "verify" ELSE "pin"])
  /\ UNCHANGED <<source, target, running, forkFaults>>

\* ensureForkTargetEmpty.
CheckEmpty(r) ==
  /\ StepIs(r, "empty")
  /\ IF target.intent = Absent /\ target.roots = {} /\ target.head = Absent
     THEN RunTo(r, "pin") /\ UNCHANGED target ELSE Fail(r)
  /\ Still

\* BeginRecoverySnapshot and PinRecoveryRoot: busy while an earlier call's pin
\* is live; a sealed source, the same one as in an intent read before.
PinSource(r) ==
  /\ StepIs(r, "pin")
  /\ IF source.sealed /\ ~PinBusy(runs[r].op, {"source"}, ForkRuns \ {r})
     THEN /\ runs' = ForkMoved(r, [runs[r] EXCEPT !.pc = "intent",
                                              !.snapshot = Manifest(source),
                                              !.pin = "source"])
          /\ UNCHANGED target
     ELSE Fail(r)
  /\ Still

\* An anchored operation goes on in MaterializeGeneration.
AfterIntent(r) == IF runs[r].op \in AnchoredOps THEN "resume" ELSE "check"

\* Mutant: the intent is written over what is there.
AcquireForkIntentOver(r) ==
  /\ StepIs(r, "intent")
  /\ Write(r, [target EXCEPT !.intent =
                 [op |-> runs[r].op, manifest |-> runs[r].snapshot]],
           AfterIntent(r))
  /\ Still

\* Uploaded with IfNotExists; an intent that is there must be this one.
AcquireForkIntent(r) ==
  LET want == [op |-> runs[r].op, manifest |-> runs[r].snapshot] IN
  /\ StepIs(r, "intent")
  /\ IF target.intent \in {Absent, want}
     THEN Write(r, [target EXCEPT !.intent = want],
                AfterIntent(r))
     ELSE Fail(r)
  /\ Still

\* The source is loaded again: it is still what was copied.
RecheckSource(r) ==
  /\ StepIs(r, "recheck")
  /\ IF Manifest(source) = runs[r].snapshot
     THEN /\ UNCHANGED target
          /\ RunTo(r, IF runs[r].op \in AnchoredOps THEN "anchor"
                     ELSE IF runs[r].root = Absent THEN "result" ELSE "promote")
     ELSE Fail(r)
  /\ Still

\* PromoteCertifiedCurrent: CURRENT moves forward only, and never between two
\* roots of one index.
PromoteRoot(r) ==
  LET root == runs[r].root IN
  /\ StepIs(r, "promote")
  /\ IF CurrentIndex < root.index \/ target.current = root
     THEN Write(r, [target EXCEPT !.current = root],
                IF runs[r].op \in AnchoredOps THEN "recheck" ELSE "result")
     ELSE Fail(r)
  /\ Still

\* writeForkResult: IfNotExists, and what is there must be the same.
WriteForkResult(r) ==
  LET want == [manifest |-> runs[r].snapshot] IN
  /\ StepIs(r, "result")
  /\ IF target.result \in {Absent, want}
     THEN /\ target' = [target EXCEPT !.result = want, !.claim = Unclaimed(r)]
          /\ EndRun(r, "done")
     ELSE Fail(r)
  /\ Still

----------------------------------------------------------------------------
(* A plain operation                                                       *)

\* verifyForkSnapshot: an observer accepts every certified decision from the
\* source's base to its tip.  The certificates of a sealed source hold.
VerifySnapshot(r) ==
  /\ StepIs(r, "check") /\ RunTo(r, "root") /\ UNCHANGED target /\ Still

\* CopyRoot, if the source has a recovery base.
CopyRoot(r) ==
  LET root == [index |-> runs[r].snapshot.base, gen |-> 0] IN
  /\ StepIs(r, "root")
  /\ IF runs[r].snapshot.base = 0
     THEN RunTo(r, "extents") /\ UNCHANGED target
     ELSE /\ target' = [target EXCEPT !.roots = @ \union {root}]
          /\ runs' = ForkMoved(r, [runs[r] EXCEPT !.pc = "extents", !.root = root])
  /\ Still

\* copyArchiveObject, one extent after the other.
CopyExtent(r) ==
  LET snapshot == runs[r].snapshot
      missing == (snapshot.base + 1)..snapshot.tip \ target.extents
  IN
  /\ StepIs(r, "extents")
  /\ \/ /\ missing = {} /\ RunTo(r, "head") /\ UNCHANGED target
     \/ \E slot \in missing : Write(r, [target EXCEPT !.extents = @ \union {slot}],
                                    "extents")
  /\ Still

\* writeForkArchiveHead: IfNotExists, and what is there must be the same.
WriteForkArchiveHead(r) ==
  LET want == [base |-> runs[r].snapshot.base, tip |-> runs[r].snapshot.tip,
               lineage |-> Absent] IN
  /\ StepIs(r, "head")
  /\ IF target.head \in {Absent, want}
     THEN Write(r, [target EXCEPT !.head = want], "recheck") ELSE Fail(r)
  /\ Still

\* VerifyGenerationAnchor: intent, anchor, result and the archive's lineage
\* agree; the archive may have moved on.
VerifiedAnchor ==
  /\ target.anchor # Absent /\ target.intent.op = target.anchor.op
  /\ target.anchor.manifest = target.result.manifest
  /\ target.head # Absent /\ target.head.lineage = target.anchor
  /\ target.head.base >= target.anchor.manifest.tip
  /\ target.head.base = target.anchor.manifest.tip /\ CurrentIndex = target.head.base
       => target.anchor.root \in target.roots

\* verifyCachedForkResult: the target is as the fork left it.
VerifiedCopy ==
  LET manifest == target.result.manifest IN
  /\ target.head # Absent /\ Manifest(target.head) = manifest
  /\ (manifest.base + 1)..manifest.tip \subseteq target.extents
  /\ manifest.base > 0 => target.current = [index |-> manifest.base, gen |-> 0]

Verified(op) == IF op \in AnchoredOps THEN VerifiedAnchor ELSE VerifiedCopy

\* Under a pin of its own on the target ("fork-verify-").
VerifyCached(r) ==
  /\ StepIs(r, "verify")
  /\ IF Verified(runs[r].op) /\ ~PinBusy(runs[r].op, {"target"}, ForkRuns \ {r})
     THEN EndRun(r, "done") /\ UNCHANGED target ELSE Fail(r)
  /\ Still

----------------------------------------------------------------------------
(* An anchored operation: MaterializeGeneration                            *)

\* resumeMaterializedGeneration: an anchor of this operation, whose root is
\* still there, leaves only the archive to be started.
ResumeMaterialized(r) ==
  /\ StepIs(r, "resume")
  /\ IF target.anchor = Absent THEN RunTo(r, "load") /\ UNCHANGED target
     ELSE IF /\ target.anchor.op = runs[r].op
             /\ target.anchor.manifest = runs[r].snapshot
             /\ target.anchor.root \in target.roots
     THEN RunTo(r, "initialize") /\ UNCHANGED target
     ELSE Fail(r)
  /\ Still

\* checkpointSourcesMatch: the files of CURRENT are those of the materialized
\* source, which are the same whenever the tip is.
SourcesMatch(r) == target.current.index = runs[r].snapshot.tip

\* The source is materialized; a CURRENT that holds the same state is used.
LoadCurrent(r) ==
  /\ StepIs(r, "load")
  /\ IF target.current = Absent THEN RunTo(r, "refresh") /\ UNCHANGED target
     ELSE IF SourcesMatch(r)
     THEN /\ runs' = ForkMoved(r, [runs[r] EXCEPT !.pc = "recheck",
                                              !.root = target.current])
          /\ UNCHANGED target
     ELSE Fail(r)
  /\ Still

\* AcquireGenerationClaim reads CURRENT ...
RefreshCurrent(r) ==
  /\ StepIs(r, "refresh")
  /\ runs' = ForkMoved(r, [runs[r] EXCEPT !.pc = "claim", !.root = target.current])
  /\ UNCHANGED target /\ Still

\* ... and takes the claim of an empty namespace, or an expired one of the
\* same operation for the same index.
AcquireGenerationClaim(r) ==
  LET claim == target.claim
      tip == runs[r].snapshot.tip
      free == IF claim.gen = 0 THEN runs[r].root = Absent
              ELSE /\ claim.owner = runs[r].op /\ claim.bound <= tip
                   /\ runs[r].root # Absent =>
                        runs[r].root.index = tip /\ claim.bound = tip
                   /\ ~claim.live
  IN
  /\ StepIs(r, "claim")
  /\ IF free
     THEN /\ target' = [target EXCEPT !.claim = [gen |-> claim.gen + 1,
                          owner |-> runs[r].op, bound |-> 0, live |-> TRUE]]
          /\ runs' = ForkMoved(r, [runs[r] EXCEPT !.pc = "create",
                                              !.gen = claim.gen + 1])
     ELSE Fail(r)
  /\ Still

Leased(r) == target.claim.live /\ target.claim.gen = runs[r].gen

\* CreateFiles: the lease is checked, then blocks and root are written.
CreateRoot(r) ==
  LET root == [index |-> runs[r].snapshot.tip, gen |-> runs[r].gen] IN
  /\ StepIs(r, "create")
  /\ IF Leased(r)
     THEN /\ target' = [target EXCEPT !.roots = @ \union {root}]
          /\ runs' = ForkMoved(r, [runs[r] EXCEPT !.pc = "bind", !.root = root])
     ELSE Fail(r)
  /\ Still

\* BindPublisherClaim.
BindClaim(r) ==
  /\ StepIs(r, "bind")
  /\ IF Leased(r)
     THEN Write(r, [target EXCEPT !.claim.bound = runs[r].root.index], "lease")
     ELSE Fail(r)
  /\ Still

\* PromoteCertifiedCurrent looks at the lease and the root before CURRENT.
CheckLease(r) ==
  /\ StepIs(r, "lease")
  /\ IF Leased(r) /\ runs[r].root \in target.roots
     THEN RunTo(r, "promote") /\ UNCHANGED target ELSE Fail(r)
  /\ Still

AnchorOf(r) == [op |-> runs[r].op, manifest |-> runs[r].snapshot,
                root |-> runs[r].root]

\* The anchor: IfNotExists, and what is there must be the same.
PublishAnchor(r) ==
  /\ StepIs(r, "anchor")
  /\ IF target.anchor \in {Absent, AnchorOf(r)}
     THEN Write(r, [target EXCEPT !.anchor = AnchorOf(r)], "initialize")
     ELSE Fail(r)
  /\ Still

\* Mutant: an archive that has moved on is started again.
InitializeFencedGenerationAgain(r) ==
  /\ StepIs(r, "initialize")
  /\ Write(r, [target EXCEPT !.head =
                 [base |-> target.anchor.manifest.tip,
                  tip |-> target.anchor.manifest.tip, lineage |-> target.anchor]],
           "result")
  /\ Still

\* initializeFencedGeneration: an empty archive, or one just so started.
InitializeFencedGeneration(r) ==
  LET tip == target.anchor.manifest.tip
      want == [base |-> tip, tip |-> tip, lineage |-> target.anchor] IN
  /\ StepIs(r, "initialize")
  /\ IF target.head \in {Absent, want}
     THEN Write(r, [target EXCEPT !.head = want], "result") ELSE Fail(r)
  /\ Still

----------------------------------------------------------------------------
(* The target in service                                                   *)

\* A plain target is started once Fork has returned, an anchored one once
\* VerifyGenerationAnchor accepts it.
StartTarget ==
  /\ ~running /\ target.intent # Absent
  /\ IF target.intent.op \in AnchoredOps
     THEN target.result # Absent /\ Verified(target.intent.op)
     ELSE \E r \in ForkRuns : StepIs(r, "done")
  /\ running' = TRUE
  /\ runs' = [r \in ForkRuns |-> [runs[r] EXCEPT !.alone = FALSE]]
  /\ UNCHANGED <<source, target, starts, forkFaults>>

\* Its archive grows, it publishes a checkpoint, trims the archive to it, and
\* the collector drops the root the target began with.
TargetAdvances ==
  /\ running
  /\ \/ /\ target.head.tip < MaxTargetTip
        /\ target' = [target EXCEPT !.head.tip = @ + 1]
     \/ /\ CurrentIndex < target.head.tip
        /\ ~target.claim.live
        /\ LET root == [index |-> target.head.tip, gen |-> target.claim.gen + 1] IN
           target' = [target EXCEPT !.roots = @ \union {root}, !.current = root,
             !.claim = [gen |-> @.gen + 1, owner |-> "node",
                        bound |-> root.index, live |-> FALSE]]
     \/ /\ target.head.base < CurrentIndex
        /\ target' = [target EXCEPT !.head.base = CurrentIndex]
     \/ /\ target.head.base = CurrentIndex /\ CurrentIndex > 0
        /\ target.roots # {target.current}
        /\ target' = [target EXCEPT !.roots = {target.current}]
  /\ UNCHANGED <<source, runs, running, starts, forkFaults>>

\* The pin a call that stops now leaves: the one it holds, or the one of the
\* step it was in.
PinsLeft(r) == {runs[r].pin} \union
               (IF StepIs(r, "pin") THEN {"source"} ELSE {}) \union
               (IF StepIs(r, "verify") THEN {"target"} ELSE {})

\* A call stops anywhere, or the lease of a claim runs out.
ForkFault ==
  /\ forkFaults < MaxForkFaults /\ forkFaults' = forkFaults + 1
  /\ \/ /\ UNCHANGED target
        /\ \E r \in ForkRuns : Active(r) /\ \E left \in PinsLeft(r) :
             runs' = ForkMoved(r, [runs[r] EXCEPT !.pc = "failed", !.pin = left,
                                                  !.alone = FALSE])
     \/ /\ target.claim.live
        /\ target' = [target EXCEPT !.claim.live = FALSE]
        /\ runs' = [r \in ForkRuns |-> [runs[r] EXCEPT !.alone = FALSE]]
  /\ UNCHANGED <<source, running, starts>>

\* forkLease after its last renewal a pin is dead, and the next call may have it.
PinLapses(r) ==
  /\ runs[r].pin # Unpinned
  /\ runs' = [runs EXCEPT ![r].pin = Unpinned, ![r].alone = FALSE]
  /\ UNCHANGED <<source, target, running, starts, forkFaults>>

ForkNext ==
  \/ SourceAdvances \/ StartTarget \/ TargetAdvances \/ ForkFault
  \/ \E r \in ForkRuns :
       \/ \E op \in ForkOps : StartFork(r, op)
       \/ PinLapses(r)
       \/ CheckEmpty(r) \/ PinSource(r) \/ AcquireForkIntent(r)
       \/ VerifySnapshot(r) \/ CopyRoot(r) \/ CopyExtent(r) \/ WriteForkArchiveHead(r)
       \/ RecheckSource(r) \/ PromoteRoot(r) \/ WriteForkResult(r)
       \/ VerifyCached(r)
       \/ ResumeMaterialized(r) \/ LoadCurrent(r) \/ RefreshCurrent(r)
       \/ AcquireGenerationClaim(r) \/ CreateRoot(r) \/ BindClaim(r)
       \/ CheckLease(r) \/ PublishAnchor(r) \/ InitializeFencedGeneration(r)

ForkSpec == ForkInit /\ [][ForkNext]_forkVars

----------------------------------------------------------------------------
(* Properties                                                              *)

\* A result in the target is the whole truth: the source was sealed with that
\* manifest, and before a node serves from it the target holds every object a
\* start from it needs.
ResultTrue ==
  target.result # Absent =>
    LET manifest == target.result.manifest IN
    /\ source.sealed /\ manifest = Manifest(source)
    /\ target.intent.manifest = manifest
    /\ ~running =>
         IF target.intent.op \in AnchoredOps
         THEN /\ target.anchor # Absent /\ target.anchor.op = target.intent.op
              /\ target.anchor.root \in target.roots
              /\ target.current = target.anchor.root
              /\ target.head = [base |-> manifest.tip, tip |-> manifest.tip,
                                lineage |-> target.anchor]
         ELSE /\ (manifest.base + 1)..manifest.tip \subseteq target.extents
              /\ target.head # Absent /\ Manifest(target.head) = manifest
              /\ manifest.base > 0 =>
                   /\ target.current = [index |-> manifest.base, gen |-> 0]
                   /\ target.current \in target.roots

\* One operation only ever succeeds on a target.
OneOperation ==
  \A r \in ForkRuns : StepIs(r, "done") => runs[r].op = target.intent.op

\* A run of the operation that owns the target, begun when no claim and no pin
\* of the operation is live and undisturbed from there by other runs, lapsed
\* leases and a target in service, does not fail: whatever an earlier run has
\* left behind, a retry completes it once the leases of that run are over.
RetryCompletes ==
  \A r \in ForkRuns :
    ~(/\ StepIs(r, "failed") /\ runs[r].alone
      /\ target.intent # Absent /\ target.intent.op = runs[r].op)

\* What a fork leaves is true, one operation's, and can be completed.
ForkSound == ResultTrue /\ OneOperation /\ RetryCompletes

\* No run, however late, touches what the node in service works with.
RunningUndisturbed ==
  [][running /\ runs' # runs =>
       UNCHANGED <<target.head, target.current, target.anchor, target.result>>
    ]_forkVars
=============================================================================
