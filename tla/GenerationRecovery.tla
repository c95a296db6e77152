------------------------- MODULE GenerationRecovery -------------------------
(***************************************************************************)
(* Recovery of a whole generation by the operator (pkg/operator): a        *)
(* RhizaRecovery resource names a source cluster that lost its quorum, and *)
(* reconcilers take it through                                             *)
(*     "" -> Reserved -> Sealed -> Stopping -> Starting -> Restarted       *)
(*        -> Complete                                                      *)
(* until the StatefulSet runs the successor generation that was forked     *)
(* from the source's archive.  A reconciler's pass lists the resource,     *)
(* reads the StatefulSet, has one effect outside (a bucket object, an      *)
(* anchor record or the StatefulSet) and records the next stage in the     *)
(* resource's status.  Passes of several operator replicas interleave, may *)
(* be cut short anywhere, and work on what they read: the API server takes *)
(* a PUT only if the object still is the one that was read.                *)
(*                                                                         *)
(* A generation is named by the recovery that creates it (Genesis for the  *)
(* first one).  The StatefulSet's contract flag stands for everything the  *)
(* checks of config.go read from its template.  The source's durability is *)
(* "before-ack" and the recovery is anchored.                              *)
(***************************************************************************)
EXTENDS Naturals, FiniteSets

CONSTANTS Recoveries,         \* recovery resources; each names its target generation
          Operators,   \* reconciler processes
          Genesis,     \* the generation the StatefulSet starts with
          SourceOf,    \* spec.sourceClusterID of each resource
          None,        \* no generation, owner or tip
          MaxTip,      \* bound on a generation's archive tip
          MaxEdits     \* bound on edits of the StatefulSet by somebody else

Generations == {Genesis} \cup Recoveries

ASSUME RecoveryAssumption ==
    /\ Genesis \notin Recoveries /\ None \notin Generations \cup Nat
    /\ SourceOf \in [Recoveries -> Generations]
    /\ MaxTip \in Nat /\ MaxEdits \in Nat

VARIABLES
    workload,     \* the StatefulSet
    livePods,     \* generations with a running Pod of the StatefulSet
    recovery,     \* status of each resource
    fenced,       \* resources whose spec carries a confirmed fence
    successors,   \* recovery/successor.json of each generation
    sealedGens,   \* generations whose archive is sealed
    archiveTip,   \* certified tip of each generation's archive
    ackedTip,     \* highest write acknowledged by each generation
    forkTip,      \* tip of the completed fork into each target
    credentials,  \* recoveries whose target Secret exists
    anchorRec,    \* the anchor record (a ConfigMap)
    passes,       \* what each reconciler is doing
    edits         \* edits of the StatefulSet by somebody else

recoveryVars == <<workload, livePods, recovery, fenced, successors, sealedGens,
                  archiveTip, ackedTip, forkTip, credentials, anchorRec,
                  passes, edits>>

bucketVars == <<successors, sealedGens, archiveTip, ackedTip, forkTip>>
envVars == <<fenced, livePods, edits>>

Stages == {"", "Reserved", "Sealed", "Stopping", "Starting", "Restarted",
           "Complete"}

Workload == [cluster : Generations, up : BOOLEAN, owner : Recoveries \cup {None},
             contract : BOOLEAN]

Status == [stage : Stages, tip : 0 .. MaxTip, receipt : Recoveries \cup {None}]

NoPass == [op |-> None]

RecoveryInit ==
    /\ workload = [cluster |-> Genesis, up |-> TRUE, owner |-> None,
                   contract |-> TRUE]
    /\ livePods = {Genesis}
    /\ recovery = [op \in Recoveries |-> [stage |-> "", tip |-> 0, receipt |-> None]]
    /\ fenced = {}
    /\ successors = [g \in Generations |-> None]
    /\ sealedGens = {}
    /\ archiveTip = [g \in Generations |-> IF g = Genesis THEN 1 ELSE 0]
    /\ ackedTip = [g \in Generations |-> 0]
    /\ forkTip = [op \in Recoveries |-> None]
    /\ credentials = {}
    /\ anchorRec = [binding |-> Genesis, transition |-> None, last |-> None,
                    pending |-> FALSE]
    /\ passes = [o \in Operators |-> NoPass]
    /\ edits = 0

-----------------------------------------------------------------------------
(* A pass.                                                                 *)

PassAt(o, step) == passes[o].op # None /\ passes[o].at = step

Source(o) == SourceOf[passes[o].op]

(* A write of the resource's status (or of the StatefulSet) makes what the *)
(* other passes read of it out of date.                                    *)
Outdated(p, what) == IF p.op = None THEN p ELSE [p EXCEPT ![what] = FALSE]

(* The next step of o's pass, when it wrote nothing others may have read.  *)
GoTo(o, step) == passes' = [passes EXCEPT ![o].at = step]

EndPass(o) == passes' = [passes EXCEPT ![o] = NoPass]

(* The last step: record the status the pass arrived at.                   *)
GoRecord(o, st) ==
    passes' = [passes EXCEPT ![o].at = "record", ![o].st = st]

(* record: PUT .../status of the resource, refused when it was written     *)
(* after this pass listed it.                                              *)
Record(o) ==
    /\ PassAt(o, "record")
    /\ LET p == passes[o]
       IN IF p.fresh
          THEN /\ recovery' = [recovery EXCEPT ![p.op] = p.st]
               /\ passes' = [q \in Operators |->
                    IF q = o THEN NoPass
                    ELSE IF passes[q].op = p.op
                         THEN Outdated(passes[q], "fresh")
                         ELSE passes[q]]
          ELSE EndPass(o) /\ UNCHANGED recovery
    /\ UNCHANGED <<workload, bucketVars, envVars, credentials, anchorRec>>

PutWorkloadAnyway(o, w, step) ==
    /\ workload' = w
    /\ passes' = [q \in Operators |->
         IF q = o
         THEN IF step = "end" THEN NoPass
              ELSE [passes[o] EXCEPT !.at = step, !.sts = w]
         ELSE Outdated(passes[q], "unchanged")]

(* Kube.Put of the StatefulSet as the pass read it, changed to w: refused  *)
(* when somebody wrote it since.                                           *)
PutWorkload(o, w, step) ==
    IF passes[o].unchanged
    THEN /\ workload' = w
         /\ passes' = [q \in Operators |->
              IF q = o
              THEN IF step = "end" THEN NoPass
                   ELSE [passes[o] EXCEPT !.at = step, !.sts = w]
              ELSE Outdated(passes[q], "unchanged")]
    ELSE EndPass(o) /\ UNCHANGED workload

(* reconcileAll lists the resources.                                       *)
ListResource(o, op) ==
    /\ passes[o] = NoPass
    /\ passes' = [passes EXCEPT ![o] =
         [op |-> op, at |-> "listed", st |-> recovery[op], fresh |-> TRUE,
          sts |-> None, unchanged |-> FALSE]]
    /\ UNCHANGED <<workload, recovery, bucketVars, envVars, credentials,
                   anchorRec>>

(* The template satisfies the deployment contract: the container and its   *)
(* flattened environment, no PVC, the operator's object store, the anchor  *)
(* opt-in and the exported membership.                                     *)
Deployable(w) == w.contract

(* validateFence: the spec confirms a fence of this operation.             *)
FenceConfirmed(op) == op \in fenced

(* verifyReservation: the source's successor still is this recovery.       *)
ReservationHeld(op) == successors[SourceOf[op]] = op

(* What reconcile demands before it touches a source that still runs.      *)
SourceReady(st, op, w) ==
    /\ Deployable(w)
    /\ w.cluster = SourceOf[op]
    /\ st.stage = "" => w.up
    /\ FenceConfirmed(op)
    /\ IF st.stage = "" THEN archiveTip[SourceOf[op]] > 0
                        ELSE ReservationHeld(op)

(* What startAndObserve demands once the source has been stopped.          *)
TargetReady(st, op, w) ==
    /\ ReservationHeld(op)
    /\ FenceConfirmed(op)
    /\ w.owner = op
    /\ Deployable(w)
    /\ op \in credentials
    /\ st.tip > 0 /\ st.receipt = op

NextStep(st, op, w) ==
    CASE st.stage = "Complete"                  -> "release"
      [] st.stage \in {"Starting", "Restarted"} -> "start"
      [] st.stage = ""                          -> "reserve"
      [] OTHER                                  -> "claim"

(* reconcile reads the StatefulSet and checks what its stage calls for; a  *)
(* check that fails records Blocked or AwaitingFence, which leaves the     *)
(* stage alone and is left out (AbandonPass).                              *)
ReadWorkload(o) ==
    /\ PassAt(o, "listed")
    /\ LET st == passes[o].st
           op == passes[o].op
       IN /\ CASE st.stage = "Complete" -> workload.owner = op
               [] st.stage \in {"Starting", "Restarted"} ->
                    TargetReady(st, op, workload)
               [] OTHER -> SourceReady(st, op, workload)
          /\ passes' = [passes EXCEPT ![o].at = NextStep(st, op, workload),
                                      ![o].sts = workload,
                                      ![o].unchanged = TRUE]
    /\ UNCHANGED <<workload, recovery, bucketVars, envVars, credentials,
                   anchorRec>>

(* The pass fails or is cut short: a refused check, an error of the API    *)
(* server or the bucket, a lost answer, a crash of the operator.           *)
AbandonPass(o) ==
    /\ passes[o] # NoPass
    /\ EndPass(o)
    /\ UNCHANGED <<workload, recovery, bucketVars, envVars, credentials,
                   anchorRec>>

-----------------------------------------------------------------------------
(* The stages of advance.                                                  *)

(* c.immutable: create the object or read back the one that is there.      *)
Immutable(old, new) == IF old = None THEN new ELSE old

(* Stage "": reserve the source's one successor.                           *)
Reserve(o) ==
    /\ PassAt(o, "reserve")
    /\ LET op == passes[o].op
           holder == Immutable(successors[Source(o)], op)
       IN /\ successors' = [successors EXCEPT ![Source(o)] = holder]
          /\ IF holder = op
             THEN GoRecord(o, [passes[o].st EXCEPT !.stage = "Reserved"])
             ELSE EndPass(o)
    /\ UNCHANGED <<workload, recovery, sealedGens, archiveTip, ackedTip,
                   forkTip, envVars, credentials, anchorRec>>

(* claimStatefulSet: the recovery-owner annotation.                        *)
ClaimStatefulSet(o) ==
    /\ PassAt(o, "claim")
    /\ LET w == passes[o].sts
           op == passes[o].op
           step == passes[o].st.stage
       IN CASE w.owner = op   -> GoTo(o, step) /\ UNCHANGED workload
            [] w.owner = None -> PutWorkload(o, [w EXCEPT !.owner = op], step)
            [] OTHER          -> EndPass(o) /\ UNCHANGED workload
    /\ UNCHANGED <<recovery, bucketVars, envVars, credentials, anchorRec>>

SealSourceNot(o) ==
    /\ PassAt(o, "Reserved")
    /\ GoRecord(o, [passes[o].st EXCEPT !.stage = "Sealed"])
    /\ UNCHANGED <<workload, recovery, bucketVars, envVars, credentials,
                   anchorRec>>

(* Reserved: no publication to the source's archive succeeds any more.     *)
SealSource(o) ==
    /\ PassAt(o, "Reserved")
    /\ sealedGens' = sealedGens \cup {Source(o)}
    /\ GoRecord(o, [passes[o].st EXCEPT !.stage = "Sealed"])
    /\ UNCHANGED <<workload, recovery, successors, archiveTip, ackedTip,
                   forkTip, envVars, credentials, anchorRec>>

(* Sealed: targetCredentials creates the immutable Secret once.            *)
TargetCredentials(o) ==
    /\ PassAt(o, "Sealed")
    /\ credentials' = credentials \cup {passes[o].op}
    /\ GoTo(o, "fork")
    /\ UNCHANGED <<workload, recovery, bucketVars, envVars, anchorRec>>

(* recovery.Fork copies the sealed archive and answers with the tip of the *)
(* copy, the same one on a retry; the target's membership and its lineage  *)
(* are written with it.                                                    *)
ForkArchive(o) ==
    /\ PassAt(o, "fork")
    /\ LET op == passes[o].op
           tip == Immutable(forkTip[op], archiveTip[Source(o)])
       IN /\ forkTip' = [forkTip EXCEPT ![op] = tip]
          /\ archiveTip' = IF forkTip[op] = None
                           THEN [archiveTip EXCEPT ![op] = tip] ELSE archiveTip
          /\ passes' = [passes EXCEPT ![o].at = "anchor", ![o].st.tip = tip]
    /\ UNCHANGED <<workload, recovery, successors, sealedGens, ackedTip,
                   envVars, credentials, anchorRec>>

(* The anchor's record is committed for this recovery.                     *)
AnchorCommitted(op) ==
    /\ anchorRec.last = op /\ anchorRec.binding = op
    /\ anchorRec.transition = None

(* Coordinator.Activate, first CAS: freeze the source binding under this   *)
(* request.                                                                *)
AnchorReserve(o) ==
    /\ PassAt(o, "anchor")
    /\ ~AnchorCommitted(passes[o].op)
    /\ anchorRec.binding = Source(o)
    /\ ~anchorRec.pending
    /\ anchorRec.transition = None
    /\ anchorRec' = [anchorRec EXCEPT !.transition = passes[o].op]
    /\ UNCHANGED <<workload, recovery, bucketVars, envVars, credentials,
                   passes>>

(* Second CAS: bind the anchor to the target and drop the transition.      *)
AnchorCommit(o) ==
    /\ PassAt(o, "anchor")
    /\ anchorRec.transition = passes[o].op
    /\ anchorRec.binding = Source(o)
    /\ ~anchorRec.pending
    /\ anchorRec' = [anchorRec EXCEPT !.transition = None,
                                      !.binding = passes[o].op,
                                      !.last = passes[o].op]
    /\ UNCHANGED <<workload, recovery, bucketVars, envVars, credentials,
                   passes>>

(* The receipt is journaled before the source's Pods may be deleted.       *)
AnchorReceipt(o) ==
    /\ PassAt(o, "anchor")
    /\ AnchorCommitted(passes[o].op)
    /\ GoRecord(o, [passes[o].st EXCEPT !.stage = "Stopping",
                                        !.receipt = passes[o].op])
    /\ UNCHANGED <<workload, recovery, bucketVars, envVars, credentials,
                   anchorRec>>

(* Stopping: scale the source to zero, then wait for its Pods to end.      *)
ScaleDown(o) ==
    /\ PassAt(o, "Stopping")
    /\ passes[o].sts.up
    /\ PutWorkload(o, [passes[o].sts EXCEPT !.up = FALSE], "end")
    /\ UNCHANGED <<recovery, bucketVars, envVars, credentials, anchorRec>>

SourceStopped(o) ==
    /\ PassAt(o, "Stopping")
    /\ ~passes[o].sts.up
    /\ livePods = {}
    /\ GoRecord(o, [passes[o].st EXCEPT !.stage = "Starting"])
    /\ UNCHANGED <<workload, recovery, bucketVars, envVars, credentials,
                   anchorRec>>

-----------------------------------------------------------------------------
(* The stages of startAndObserve.                                          *)

(* Starting: the evidence is unchanged, the source still down, its Pods    *)
(* gone and the receipt still the anchor's.                                *)
VerifyTarget(o) ==
    /\ PassAt(o, "start")
    /\ passes[o].st.stage = "Starting"
    /\ LET op == passes[o].op
           w == passes[o].sts
       IN /\ AnchorCommitted(op)
          /\ \/ /\ w.cluster = Source(o)
                /\ forkTip[op] = passes[o].st.tip
                /\ ~w.up
                /\ livePods = {}
                /\ GoTo(o, "activate")
             \/ /\ w.cluster = op
                /\ GoRecord(o, [passes[o].st EXCEPT !.stage = "Restarted"])
    /\ UNCHANGED <<workload, recovery, bucketVars, envVars, credentials,
                   anchorRec>>

(* The PUT that installs the target's identity, credentials and replicas.  *)
ActivateTarget(o) ==
    /\ PassAt(o, "activate")
    /\ PutWorkload(o, [passes[o].sts EXCEPT !.cluster = passes[o].op,
                                            !.up = TRUE], "started")
    /\ UNCHANGED <<recovery, bucketVars, envVars, credentials, anchorRec>>

Started(o) ==
    /\ PassAt(o, "started")
    /\ GoRecord(o, [passes[o].st EXCEPT !.stage = "Restarted"])
    /\ UNCHANGED <<workload, recovery, bucketVars, envVars, credentials,
                   anchorRec>>

(* Restarted: the installed workload is the target's, with all replicas,   *)
(* and a quorum of its Pods reports the recovered tip.                     *)
ObserveQuorum(o) ==
    /\ PassAt(o, "start")
    /\ passes[o].st.stage = "Restarted"
    /\ AnchorCommitted(passes[o].op)
    /\ passes[o].sts.cluster = passes[o].op
    /\ passes[o].sts.up
    /\ passes[o].op \in livePods
    /\ GoRecord(o, [passes[o].st EXCEPT !.stage = "Complete"])
    /\ UNCHANGED <<workload, recovery, bucketVars, envVars, credentials,
                   anchorRec>>

(* releaseCompleted: give the StatefulSet up for the next recovery.        *)
ReleaseCompleted(o) ==
    /\ PassAt(o, "release")
    /\ PutWorkload(o, [passes[o].sts EXCEPT !.owner = None], "end")
    /\ UNCHANGED <<recovery, bucketVars, envVars, credentials, anchorRec>>

-----------------------------------------------------------------------------
(* The world around the reconcilers.                                       *)

(* Somebody confirms the fence in the resource's spec.                     *)
ConfirmFence(op) ==
    /\ op \notin fenced
    /\ fenced' = fenced \cup {op}
    /\ UNCHANGED <<workload, livePods, recovery, bucketVars, credentials,
                   anchorRec, passes, edits>>

(* The StatefulSet controller creates the Pods of the installed template   *)
(* and deletes those of a set scaled to zero.                              *)
PodsStart ==
    /\ workload.up
    /\ workload.cluster \notin livePods
    /\ livePods' = livePods \cup {workload.cluster}
    /\ UNCHANGED <<workload, recovery, fenced, bucketVars, credentials,
                   anchorRec, passes, edits>>

PodsStop ==
    /\ ~workload.up
    /\ livePods # {}
    /\ livePods' = {}
    /\ UNCHANGED <<workload, recovery, fenced, bucketVars, credentials,
                   anchorRec, passes, edits>>

(* Somebody else scales the set up again or edits its template.            *)
EditWorkload(w) ==
    /\ edits < MaxEdits
    /\ edits' = edits + 1
    /\ workload' = w
    /\ passes' = [o \in Operators |-> Outdated(passes[o], "unchanged")]
    /\ UNCHANGED <<livePods, recovery, fenced, bucketVars, credentials,
                   anchorRec>>

Rescale == ~workload.up /\ EditWorkload([workload EXCEPT !.up = TRUE])

EditTemplate == EditWorkload([workload EXCEPT !.contract = ~@])

(* A running generation publishes a write to its archive, which a seal     *)
(* refuses, and acknowledges it once it is published.                      *)
Publish(g) ==
    /\ g \in livePods
    /\ g \notin sealedGens
    /\ archiveTip[g] < MaxTip
    /\ archiveTip' = [archiveTip EXCEPT ![g] = @ + 1]
    /\ UNCHANGED <<workload, livePods, recovery, fenced, successors,
                   sealedGens, ackedTip, forkTip, credentials, anchorRec,
                   passes, edits>>

Acknowledge(g) ==
    /\ g \in livePods
    /\ ackedTip[g] < archiveTip[g]
    /\ ackedTip' = [ackedTip EXCEPT ![g] = archiveTip[g]]
    /\ UNCHANGED <<workload, livePods, recovery, fenced, successors,
                   sealedGens, archiveTip, forkTip, credentials, anchorRec,
                   passes, edits>>

(* UpdateApplication: the bound generation's application marks a write it  *)
(* is about to make and clears the mark; a pending transition refuses it.  *)
UpdateApplication(g) ==
    /\ g \in livePods
    /\ anchorRec.binding = g
    /\ anchorRec.transition = None
    /\ anchorRec' = [anchorRec EXCEPT !.pending = ~@]
    /\ UNCHANGED <<workload, livePods, recovery, fenced, bucketVars,
                   credentials, passes, edits>>

-----------------------------------------------------------------------------
RecoveryNext ==
    \/ \E o \in Operators, op \in Recoveries : ListResource(o, op)
    \/ \E o \in Operators :
         \/ ReadWorkload(o) \/ AbandonPass(o) \/ Record(o)
         \/ Reserve(o) \/ ClaimStatefulSet(o) \/ SealSource(o)
         \/ TargetCredentials(o) \/ ForkArchive(o)
         \/ AnchorReserve(o) \/ AnchorCommit(o) \/ AnchorReceipt(o)
         \/ ScaleDown(o) \/ SourceStopped(o)
         \/ VerifyTarget(o) \/ ActivateTarget(o) \/ Started(o)
         \/ ObserveQuorum(o) \/ ReleaseCompleted(o)
    \/ \E op \in Recoveries : ConfirmFence(op)
    \/ PodsStart \/ PodsStop \/ Rescale \/ EditTemplate
    \/ \E g \in Generations :
         Publish(g) \/ Acknowledge(g) \/ UpdateApplication(g)

RecoverySpec == RecoveryInit /\ [][RecoveryNext]_recoveryVars

-----------------------------------------------------------------------------
(* The generations a generation descends from.                             *)
Lineage[g \in Generations] ==
    IF g = Genesis THEN {Genesis} ELSE {g} \cup Lineage[SourceOf[g]]

(* Pods of two generations never run at the same time (source pods are     *)
(* gone before the target starts, and no stale reconciler brings them      *)
(* back).                                                                  *)
OneGenerationRuns == Cardinality(livePods) <= 1

(* What the source acknowledged is in the fork its successor starts from.  *)
AckedWritesForked ==
    \A op \in Recoveries : forkTip[op] # None => ackedTip[SourceOf[op]] <= forkTip[op]

(* The anchor never falls behind the generation that runs.                 *)
AnchorFollowsRunning ==
    \A g \in livePods : g \in Lineage[anchorRec.binding]

(* Recovery hands the cluster over from one generation to its successor:   *)
(* at most one runs, the successor holds every acknowledged write and the  *)
(* anchor is bound to it before it runs.                                   *)
HandoverSafe == OneGenerationRuns /\ AckedWritesForked /\ AnchorFollowsRunning

(* A reconciler that is late may not stop or replace a generation that is  *)
(* not the source of its own recovery, it stops the source only when the   *)
(* whole target (fork, credentials and anchor binding) is preserved, and   *)
(* it starts the target from a template that keeps the contract.           *)
StopsOnlyPreserved ==
    workload.up /\ ~workload'.up =>
        LET op == workload.owner
        IN /\ op # None
           /\ SourceOf[op] = workload.cluster
           /\ forkTip[op] # None
           /\ op \in credentials
           /\ op \in Lineage[anchorRec.binding]

StartsOnlySuccessor ==
    workload'.cluster # workload.cluster =>
        /\ workload'.cluster = successors[workload.cluster]
        /\ workload.contract
        /\ livePods = {}

LateReconcilersHarmless ==
    [][StopsOnlyPreserved /\ StartsOnlySuccessor]_recoveryVars
=============================================================================
