---------------------------- MODULE AutoRecovery ----------------------------
(***************************************************************************)
(* Automatic recovery by the operator (pkg/operator/automatic*.go and      *)
(* membership.go).  Reconcilers observe the voters of one generation and   *)
(* journal what they decide in a control record that is written with a     *)
(* compare-and-swap: a failed voter is fenced and replaced through a       *)
(* learner while the others keep their quorum, and the loss of that quorum *)
(* supersedes the repair by a fence of the whole generation, whose         *)
(* recovery is the subject of GenerationRecovery.                          *)
(*                                                                         *)
(* A pass over the cluster loads the control record, looks at the world,   *)
(* may have an effect outside and ends with a save that fails if somebody  *)
(* saved since.  A pass over the RhizaRecovery child of an incident lists  *)
(* the child, is authorized by the control record, has one effect on the   *)
(* membership and records its journal in the child's status.  Incidents    *)
(* are numbered by the record's sequence; a learner is named by its        *)
(* incident and attempt.  The fencer is the operator's own (Fencing): a    *)
(* closed scope admits no run, and a proof says that every run in it is    *)
(* over.  Grace periods are nondeterministic choices.                      *)
(***************************************************************************)
EXTENDS Naturals, FiniteSets

CONSTANTS BaseVoters,    \* the generation's first voters
          Reconcilers,   \* operator replicas
          Nothing,       \* no node, intent, child, change or pass
          MaxIncidents,  \* bound on the control record's sequence
          MaxAttempts,   \* learners per incident (3 in the code)
          MaxOutages     \* bound on losses of contact with a node

Incidents == 1 .. MaxIncidents
Learners == Incidents \X (1 .. MaxAttempts)
Nodes == BaseVoters \cup Learners

ASSUME AutoAssumption ==
    /\ Nothing \notin Nodes
    /\ BaseVoters \cap Learners = {}   \* a learner has a name of its own
    /\ MaxIncidents \in Nat \ {0} /\ MaxAttempts \in Nat \ {0}
    /\ MaxOutages \in Nat

(* The records that Nothing stands for.                                    *)
ChangeSpec == [scope : {"Voter", "Generation"}, abort : BOOLEAN,
               learner : Nodes \cup {Nothing}]
IntentRecord ==
    [scope : {"Voter", "Generation"}, failed : Nodes \cup {Nothing},
     targets : SUBSET Nodes, proof : BOOLEAN, bound : BOOLEAN,
     spec : ChangeSpec \cup {Nothing}, previous : ChangeSpec \cup {Nothing},
     attempt : Nat, uid : BOOLEAN, wal : BOOLEAN, missing : BOOLEAN,
     aborting : BOOLEAN, noQuorum : BOOLEAN]
RemoveRecord == [node : Nodes, id : Nat, abort : Nat]
AddRecord == [learner : Nodes, id : Nat, abort : Nat]
ChildRecord ==
    [spec : ChangeSpec, remove : RemoveRecord \cup {Nothing},
     add : AddRecord \cup {Nothing},
     phase : {"", "Removing", "Adding", "Aborting", "Aborted", "Blocked",
              "Complete"}]
PendingChange == [kind : {"remove", "add"}, node : Nodes]

ASSUME NothingAssumption ==
    /\ Nothing \notin ChangeSpec /\ Nothing \notin IntentRecord
    /\ Nothing \notin RemoveRecord /\ Nothing \notin AddRecord
    /\ Nothing \notin ChildRecord /\ Nothing \notin PendingChange

VARIABLES
    control,    \* control.json
    child,      \* RhizaRecovery child of each incident
    proc,       \* what each node's process is doing
    learnerPods,\* learners whose Pod exists
    closed,     \* nodes closed in the fencing ledger
    config,     \* the replicated membership of the generation
    work,       \* the pass of each reconciler
    outages     \* losses of contact so far

autoVars == <<control, child, proc, learnerPods, closed, config, work, outages>>
world == <<proc, outages>>

NoWork == [kind |-> "none"]

AutoInit ==
    /\ control = [voters |-> BaseVoters, known |-> {}, history |-> {},
                  retired |-> {}, suspected |-> FALSE, seq |-> 0,
                  generation |-> 1, intent |-> Nothing]
    /\ child = [k \in Incidents |-> Nothing]
    /\ proc = [n \in Nodes |-> IF n \in BaseVoters THEN "up" ELSE "absent"]
    /\ learnerPods = {}
    /\ closed = {}
    /\ config = [id |-> 1, voters |-> BaseVoters, pending |-> Nothing,
                 abort |-> 0]
    /\ work = [o \in Reconcilers |-> NoWork]
    /\ outages = 0

Up == {n \in Nodes : proc[n] = "up"}

VoterMajority(s) == Cardinality(s \cap Up) * 2 > Cardinality(s)

(* automaticQuorumProbe: a fresh ReadIndex of a live voter, which a frozen *)
(* addition may refuse.                                                    *)
QuorumProbe == {VoterMajority(config.voters)} \cup
               (IF config.pending # Nothing THEN {FALSE} ELSE {})

-----------------------------------------------------------------------------
(* Loading and saving the control record.                                  *)

Working(o, kind) == work[o].kind = kind

(* Everybody else's pass over the cluster is out of date.                  *)
Passed(o) ==
    [q \in Reconcilers |->
        IF q = o THEN NoWork
        ELSE IF work[q].kind \in {"cluster", "provisioned", "created"}
             THEN [work[q] EXCEPT !.fresh = FALSE] ELSE work[q]]

SaveAutoAnyway(o, new) == control' = new /\ work' = Passed(o)

(* saveAuto: replace the version that was loaded.                          *)
SaveAuto(o, new) == work[o].fresh /\ control' = new /\ work' = Passed(o)

LoadAuto(o) ==
    /\ Working(o, "none")
    /\ control.generation = 1
    /\ work' = [work EXCEPT ![o] = [kind |-> "cluster", ctl |-> control,
                                    fresh |-> TRUE]]
    /\ UNCHANGED <<control, child, world, learnerPods, closed, config>>

(* A pass ends early: nothing to do, a refused check, a lost race, an      *)
(* error or a crash.                                                       *)
AbandonWork(o) ==
    /\ ~Working(o, "none")
    /\ work' = [work EXCEPT ![o] = NoWork]
    /\ UNCHANGED <<control, child, world, learnerPods, closed, config>>

Loaded(o) == work[o].ctl

Intent(o) == Loaded(o).intent

-----------------------------------------------------------------------------
(* No intent: observe and decide.                                          *)

(* observeAutomatic fails when a reachable voter reports another           *)
(* membership or a change under way.                                       *)
Observable(s) == config.voters = s.voters /\ config.pending = Nothing

(* DecideAutoRecovery, past the policy's validation and its rate limits.   *)
DecideChange(quorum, all, suspected, elapsed) ==
    CASE quorum /\ all         -> "Healthy"
      [] quorum                -> "Degraded"
      [] ~suspected            -> "Suspect"
      [] suspected /\ ~elapsed -> "Suspect"
      [] OTHER                 -> "Recover"

NewIntent(s, scope, failed, targets) ==
    [scope |-> scope, failed |-> failed, targets |-> targets, proof |-> FALSE,
     bound |-> FALSE, spec |-> Nothing, previous |-> Nothing,
     attempt |-> 1, uid |-> FALSE, wal |-> FALSE, missing |-> FALSE,
     aborting |-> FALSE, noQuorum |-> FALSE]

LearnerOf(s) == <<s.seq, s.intent.attempt>>

(* The part of reconcileCluster after the binding has been checked: a      *)
(* healthy cluster clears the suspicion, an unhealthy one is suspected,    *)
(* and a suspicion that outlives the grace period becomes an intent: of    *)
(* one voter whose incarnation is known while the others keep a quorum,    *)
(* else of the whole generation.                                           *)
ObserveCluster(o, elapsed) ==
    /\ Working(o, "cluster")
    /\ Intent(o) = Nothing
    /\ LET s == Loaded(o)
           seen == s.voters \cap Up
           lost == s.voters \ seen
           quorum == VoterMajority(config.voters)
           known == s.known \cup seen
           whole == DecideChange(quorum, lost = {}, s.suspected, elapsed)
           one == DecideChange(FALSE, FALSE, s.suspected, elapsed)
           single == whole = "Degraded" /\ Cardinality(lost) = 1
           failed == IF single /\ lost \subseteq known
                     THEN CHOOSE n \in lost : TRUE ELSE Nothing
           observed == [s EXCEPT !.known = known,
                                 !.suspected = whole # "Healthy"]
       IN /\ seen # {} => Observable(s)
          /\ IF (single /\ one = "Recover") \/ whole = "Recover"
             THEN /\ s.seq < MaxIncidents
                  /\ SaveAuto(o, [observed EXCEPT
                       !.seq = @ + 1,
                       !.intent = NewIntent(s,
                            IF failed = Nothing THEN "Generation" ELSE "Voter",
                            failed,
                            IF failed = Nothing THEN s.voters \cup s.history
                                                ELSE {failed})])
             ELSE SaveAuto(o, observed)
    /\ UNCHANGED <<child, world, learnerPods, closed, config>>

(* verifyTerminatedCleanup: the ledger holds the learner's run, stopped.   *)
TerminationRecorded(l) == l \in closed /\ proc[l] = "stopped"

(* compactLearnerHistory drops an incarnation whose Pod is gone and whose  *)
(* end is proved, by its retirement or by the ledger, unless a voter or    *)
(* the intent still names it.                                              *)
Compactable(s) ==
    {l \in s.history :
        /\ l \in s.retired \/ TerminationRecorded(l)
        /\ l \notin learnerPods
        /\ l \notin s.voters
        /\ s.intent # Nothing => l \notin s.intent.targets /\ l # LearnerOf(s)}

CompactHistory(o) ==
    /\ Working(o, "cluster")
    /\ Compactable(Loaded(o)) # {}
    /\ SaveAuto(o, [Loaded(o) EXCEPT !.history = @ \ Compactable(Loaded(o))])
    /\ UNCHANGED <<child, world, learnerPods, closed, config>>

-----------------------------------------------------------------------------
(* An intent without proof: fence.                                         *)

(* Fencer.Fence creates the request, whose scope the ledger closes.        *)
RequestFence(o) ==
    /\ Working(o, "cluster")
    /\ Intent(o) # Nothing /\ ~Intent(o).proof
    /\ closed' = closed \cup (IF Intent(o).scope = "Generation"
                              THEN Nodes ELSE Intent(o).targets)
    /\ work' = [work EXCEPT ![o] = NoWork]
    /\ UNCHANGED <<control, child, world, learnerPods, config>>

Over(n) == n \in closed /\ proc[n] \in {"absent", "stopped"}

FencedVoter(i) ==
    IF i.scope = "Generation" THEN \A n \in Nodes : Over(n)
                              ELSE \A n \in i.targets : Over(n)

PersistProof(o) ==
    /\ Working(o, "cluster")
    /\ Intent(o) # Nothing /\ ~Intent(o).proof
    /\ FencedVoter(Intent(o))
    /\ SaveAuto(o, [Loaded(o) EXCEPT !.intent.proof = TRUE])
    /\ UNCHANGED <<child, world, learnerPods, closed, config>>

-----------------------------------------------------------------------------
(* A fenced voter: its replacement learner.                                *)

Repairing(o) ==
    /\ Working(o, "cluster")
    /\ Intent(o) # Nothing
    /\ Intent(o).scope = "Voter"
    /\ Intent(o).proof
    /\ child[Loaded(o).seq] # Nothing => child[Loaded(o).seq].phase # "Complete"

Remembered(s) == LearnerOf(s) \in s.history

(* recoverLearnerInventory: a Pod that was created before a save was lost. *)
RecoverInventory(o) ==
    /\ Repairing(o)
    /\ ~Remembered(Loaded(o))
    /\ LearnerOf(Loaded(o)) \in learnerPods
    /\ SaveAuto(o, [Loaded(o) EXCEPT !.intent.uid = TRUE,
                                     !.history = @ \cup {LearnerOf(Loaded(o))}])
    /\ UNCHANGED <<child, world, learnerPods, closed, config>>

InventoryKnown(o) ==
    Remembered(Loaded(o)) \/ LearnerOf(Loaded(o)) \notin learnerPods

LearnerUp(o) ==
    LearnerOf(Loaded(o)) \in learnerPods /\ LearnerOf(Loaded(o)) \in Up

(* handleAutomaticLearner: what is seen of a learner that was provisioned. *)
WatchLearner(o, elapsed) ==
    /\ Repairing(o) /\ InventoryKnown(o)
    /\ Intent(o).uid /\ ~Intent(o).aborting
    /\ Intent(o).attempt <= MaxAttempts
    /\ \/ /\ LearnerUp(o) /\ ~Intent(o).wal
          /\ SaveAuto(o, [Loaded(o) EXCEPT !.intent.wal = TRUE])
       \/ /\ LearnerUp(o) /\ Intent(o).wal /\ Intent(o).missing
          /\ SaveAuto(o, [Loaded(o) EXCEPT !.intent.missing = FALSE])
       \/ /\ ~LearnerUp(o) /\ ~Intent(o).missing
          /\ SaveAuto(o, [Loaded(o) EXCEPT !.intent.missing = TRUE])
       \/ /\ ~LearnerUp(o) /\ Intent(o).missing /\ elapsed
          /\ SaveAuto(o, [Loaded(o) EXCEPT !.intent.aborting = TRUE])
    /\ UNCHANGED <<child, world, learnerPods, closed, config>>

(* The child has acknowledged that the addition of this learner is over.   *)
Aborted(o) ==
    LET c == child[Loaded(o).seq]
    IN /\ c # Nothing
       /\ c.spec.abort /\ c.spec.learner = LearnerOf(Loaded(o))
       /\ c.spec = Intent(o).spec
       /\ c.phase = "Aborted"

(* A learner whose addition was aborted is fenced and a fresh one takes    *)
(* its place.                                                              *)
FenceLearner(o) ==
    /\ Repairing(o) /\ InventoryKnown(o)
    /\ Intent(o).uid /\ Intent(o).aborting /\ Aborted(o)
    /\ closed' = closed \cup {LearnerOf(Loaded(o))}
    /\ work' = [work EXCEPT ![o] = NoWork]
    /\ UNCHANGED <<control, child, world, learnerPods, config>>

RotateLearner(o) ==
    /\ Repairing(o) /\ InventoryKnown(o)
    /\ Intent(o).uid /\ Intent(o).aborting /\ Aborted(o)
    /\ Over(LearnerOf(Loaded(o)))
    /\ Intent(o).attempt < MaxAttempts
    /\ SaveAuto(o, [Loaded(o) EXCEPT
            !.retired = @ \cup {LearnerOf(Loaded(o))},
            !.history = @ \cup {LearnerOf(Loaded(o))},
            !.intent.attempt = @ + 1, !.intent.aborting = FALSE,
            !.intent.uid = FALSE, !.intent.wal = FALSE,
            !.intent.missing = FALSE])
    /\ UNCHANGED <<child, world, learnerPods, closed, config>>

-----------------------------------------------------------------------------
(* Escalation.                                                             *)

(* What assessAutomaticEscalation is asked after: nothing of the learner   *)
(* was saved.                                                              *)
ChangeSettled(o) ==
    /\ Repairing(o) /\ InventoryKnown(o)
    /\ Intent(o).uid => \/ Intent(o).aborting /\ ~Aborted(o)
                        \/ ~Intent(o).aborting /\ LearnerUp(o)
                           /\ Intent(o).wal /\ ~Intent(o).missing
                        \/ ~Intent(o).aborting /\ ~LearnerUp(o)
                           /\ Intent(o).missing

(* Every voter the survivors report is in the scope a generation fence     *)
(* would have.                                                             *)
ScopeCovers(o) ==
    config.voters \subseteq Loaded(o).voters \cup
        (IF Intent(o).uid /\ Intent(o).wal THEN {LearnerOf(Loaded(o))} ELSE {})

NoteQuorum(o, quorum) ==
    /\ ChangeSettled(o) /\ ScopeCovers(o)
    /\ quorum \in QuorumProbe
    /\ Intent(o).noQuorum = quorum
    /\ SaveAuto(o, [Loaded(o) EXCEPT !.intent.noQuorum = ~quorum])
    /\ UNCHANGED <<child, world, learnerPods, closed, config>>

HistoryTargets(s) == s.history

(* The generation's fence is reserved and the repair's child loses its     *)
(* authority in the same save.                                             *)
Escalate(o) ==
    /\ ChangeSettled(o) /\ ScopeCovers(o)
    /\ FALSE \in QuorumProbe
    /\ Intent(o).noQuorum
    /\ Loaded(o).seq < MaxIncidents
    /\ SaveAuto(o, [Loaded(o) EXCEPT
            !.seq = @ + 1,
            !.intent = NewIntent(Loaded(o), "Generation", Nothing,
                Loaded(o).voters \cup HistoryTargets(Loaded(o)))])
    /\ UNCHANGED <<child, world, learnerPods, closed, config>>

-----------------------------------------------------------------------------
(* The child of the incident.                                              *)

(* The repair goes on: the surviving quorum answers, or a retirement is    *)
(* within its window; a learner that is away holds it up.                  *)
MayContinue(o) ==
    /\ ChangeSettled(o)
    /\ \/ TRUE \in QuorumProbe /\ ~Intent(o).noQuorum
       \/ Intent(o).aborting
    /\ Intent(o).uid /\ ~Intent(o).aborting => LearnerUp(o)

(* ensureAutomaticLearner creates the Secret, Service and Pod; the Pod's   *)
(* identity is saved before anything is dispatched.                        *)
ProvisionLearner(o) ==
    /\ MayContinue(o)
    /\ ~Intent(o).uid /\ ~Intent(o).aborting
    /\ learnerPods' = learnerPods \cup {LearnerOf(Loaded(o))}
    /\ work' = [work EXCEPT ![o].kind = "provisioned"]
    /\ UNCHANGED <<control, child, world, closed, config>>

SaveLearner(o) ==
    /\ Working(o, "provisioned")
    /\ SaveAuto(o, [Loaded(o) EXCEPT !.intent.uid = TRUE,
                                     !.history = @ \cup {LearnerOf(Loaded(o))}])
    /\ UNCHANGED <<child, world, learnerPods, closed, config>>

(* The specification the intent calls for.                                 *)
DesiredSpec(s) ==
    [scope |-> s.intent.scope, abort |-> s.intent.aborting,
     learner |-> IF s.intent.scope = "Voter" THEN LearnerOf(s) ELSE Nothing]

ChildTurn(o) ==
    /\ Working(o, "cluster")
    /\ Intent(o) # Nothing /\ Intent(o).proof
    /\ Intent(o).scope = "Voter" => /\ MayContinue(o)
                                    /\ Intent(o).uid

NewChild(s) == [spec |-> DesiredSpec(s), phase |-> "", remove |-> Nothing,
                add |-> Nothing]

CreateChild(o) ==
    /\ ChildTurn(o)
    /\ ~Intent(o).bound
    /\ child' = [child EXCEPT ![Loaded(o).seq] =
                    IF @ = Nothing THEN NewChild(Loaded(o)) ELSE @]
    /\ work' = [work EXCEPT ![o].kind = "created"]
    /\ UNCHANGED <<control, world, learnerPods, closed, config>>

(* The child may not run before its identity and specification are saved.  *)
BindChild(o) ==
    /\ Working(o, "created")
    /\ SaveAuto(o, [Loaded(o) EXCEPT !.intent.bound = TRUE,
                                     !.intent.spec = DesiredSpec(Loaded(o))])
    /\ UNCHANGED <<child, world, learnerPods, closed, config>>

(* A revision of the specification is reserved in the control record       *)
(* first, which takes the authority of the old one away.                   *)
ReserveRevision(o) ==
    /\ ChildTurn(o)
    /\ Intent(o).bound
    /\ Intent(o).spec # DesiredSpec(Loaded(o))
    /\ child[Loaded(o).seq].spec = Intent(o).spec
    /\ SaveAuto(o, [Loaded(o) EXCEPT !.intent.previous = Intent(o).spec,
                                     !.intent.spec = DesiredSpec(Loaded(o))])
    /\ UNCHANGED <<child, world, learnerPods, closed, config>>

(* A write of the child's specification or status makes a pass over the    *)
(* child out of date.                                                      *)
Outrun(k, o) ==
    [q \in Reconcilers |->
        IF q = o THEN NoWork
        ELSE IF work[q].kind \in {"listed", "authorized"} /\ work[q].seq = k
             THEN [work[q] EXCEPT !.fresh = FALSE] ELSE work[q]]

SubmitRevision(o) ==
    /\ ChildTurn(o)
    /\ Intent(o).bound
    /\ Intent(o).spec = DesiredSpec(Loaded(o))
    /\ child[Loaded(o).seq].spec # Intent(o).spec
    /\ child[Loaded(o).seq].spec = Intent(o).previous
    /\ child' = [child EXCEPT ![Loaded(o).seq].spec = Intent(o).spec]
    /\ work' = Outrun(Loaded(o).seq, o)
    /\ UNCHANGED <<control, world, learnerPods, closed, config>>

(* verifyAutomaticCompletion and what follows: the outcome is installed in *)
(* the record and the intent ends.                                         *)
CompleteIncident(o) ==
    /\ Working(o, "cluster")
    /\ Intent(o) # Nothing /\ Intent(o).proof /\ Intent(o).bound
    /\ LET s == Loaded(o)
           c == child[s.seq]
           done == [s EXCEPT !.intent = Nothing, !.suspected = FALSE,
                             !.retired = @ \cup (s.history \cap s.intent.targets)]
       IN /\ c # Nothing
          /\ c.phase = "Complete"
          /\ c.spec = s.intent.spec
          /\ IF s.intent.scope = "Voter"
             THEN /\ c.add # Nothing /\ c.remove # Nothing
                  /\ c.add.learner = LearnerOf(s)
                  /\ s.intent.uid /\ s.intent.wal
                  /\ SaveAuto(o, [done EXCEPT
                       !.voters = (@ \ {s.intent.failed}) \cup {LearnerOf(s)},
                       !.known = (@ \ {s.intent.failed}) \cup {LearnerOf(s)}])
             ELSE SaveAuto(o, [done EXCEPT !.generation = 2])
    /\ UNCHANGED <<child, world, learnerPods, closed, config>>

-----------------------------------------------------------------------------
(* A pass over the child: reconcileMembership.                             *)

ListChild(o, k) ==
    /\ Working(o, "none")
    /\ child[k] # Nothing
    /\ child[k].phase # "Complete"
    /\ work' = [work EXCEPT ![o] = [kind |-> "listed", seq |-> k,
                                    of |-> child[k], fresh |-> TRUE]]
    /\ UNCHANGED <<control, child, world, learnerPods, closed, config>>

(* authorizeAutomaticChild: the control record's intent is this child's,   *)
(* proved, bound and of the same specification.                            *)
AuthorizeChild(o) ==
    /\ Working(o, "listed")
    /\ control.intent # Nothing
    /\ control.seq = work[o].seq
    /\ control.intent.proof /\ control.intent.bound
    /\ control.intent.spec = work[o].of.spec
    /\ work' = [work EXCEPT ![o].kind = "authorized"]
    /\ UNCHANGED <<control, child, world, learnerPods, closed, config>>

Of(o) == work[o].of

(* The turn of a membership child: the survivors agree and have a quorum.  *)
MembershipTurn(o) ==
    /\ Working(o, "authorized")
    /\ Of(o).spec.scope = "Voter"
    /\ VoterMajority(config.voters)

(* recordMembership: PUT of the status, refused when the child has changed *)
(* since it was listed and never sent when the operator stops before it.   *)
RecordMembership(o, new) ==
    \/ /\ work[o].fresh
       /\ child' = [child EXCEPT ![work[o].seq] = new]
       /\ work' = Outrun(work[o].seq, o)
    \/ /\ work' = [work EXCEPT ![o] = NoWork]
       /\ UNCHANGED child

FailedOf(k) == control.intent.failed

JournalRemove(o) ==
    /\ MembershipTurn(o)
    /\ ~Of(o).spec.abort
    /\ Of(o).phase # "Aborted"
    /\ Of(o).remove = Nothing
    /\ config.pending = Nothing
    /\ control.intent # Nothing /\ FailedOf(work[o].seq) \in config.voters
    /\ RecordMembership(o, [Of(o) EXCEPT
         !.phase = "Removing",
         !.remove = [node |-> FailedOf(work[o].seq), id |-> config.id,
                     abort |-> config.abort]])
    /\ UNCHANGED <<control, world, learnerPods, closed, config>>

(* The journaled request is dispatched and accepted by the configuration   *)
(* it was made for.                                                        *)
DispatchRemove(o) ==
    /\ MembershipTurn(o)
    /\ ~Of(o).spec.abort
    /\ Of(o).remove # Nothing
    /\ Of(o).remove.node \in config.voters
    /\ Of(o).remove.id = config.id /\ Of(o).remove.abort = config.abort
    /\ config' = [config EXCEPT !.pending =
                     [kind |-> "remove", node |-> Of(o).remove.node]]
    /\ RecordMembership(o, [Of(o) EXCEPT !.phase = "Removing"])
    /\ UNCHANGED <<control, world, learnerPods, closed>>

(* reconcileMembershipAdd, once the failed voter is gone.                  *)
AddTurn(o) ==
    /\ MembershipTurn(o)
    /\ ~Of(o).spec.abort
    /\ Of(o).phase # "Aborted"
    /\ Of(o).remove # Nothing
    /\ Of(o).remove.node \notin config.voters
    /\ Of(o).spec.learner \in learnerPods
    /\ Of(o).spec.learner \in Up

JournalAdd(o) ==
    /\ AddTurn(o)
    /\ Of(o).add = Nothing
    /\ config.pending = Nothing
    /\ Of(o).spec.learner \notin config.voters
    /\ RecordMembership(o, [Of(o) EXCEPT
         !.phase = "Adding",
         !.add = [learner |-> Of(o).spec.learner, id |-> config.id,
                  abort |-> config.abort]])
    /\ UNCHANGED <<control, world, learnerPods, closed, config>>

AcceptAdd(add) ==
    /\ add.id = config.id /\ add.abort = config.abort
    /\ config' = [config EXCEPT !.pending =
                     [kind |-> "add", node |-> add.learner]]

DispatchAdd(o) ==
    /\ AddTurn(o)
    /\ Of(o).add # Nothing
    /\ Of(o).add.learner = Of(o).spec.learner
    /\ AcceptAdd(Of(o).add)
    /\ RecordMembership(o, [Of(o) EXCEPT !.phase = "Adding"])
    /\ UNCHANGED <<control, world, learnerPods, closed>>

AddComplete(o) ==
    /\ AddTurn(o)
    /\ Of(o).add # Nothing
    /\ Of(o).add.learner = Of(o).spec.learner
    /\ config.id = Of(o).add.id + 1 /\ config.abort = 0
    /\ Of(o).add.learner \in config.voters
    /\ config.pending = Nothing
    /\ RecordMembership(o, [Of(o) EXCEPT !.phase = "Complete"])
    /\ UNCHANGED <<control, world, learnerPods, closed, config>>

(* The Aborted journal of a child whose specification goes on.             *)
ResetAborted(o) ==
    /\ MembershipTurn(o)
    /\ Of(o).phase = "Aborted" /\ ~Of(o).spec.abort
    /\ Of(o).add # Nothing => /\ config.id = Of(o).add.id
                              /\ config.abort > Of(o).add.abort
    /\ RecordMembership(o, [Of(o) EXCEPT !.phase = "Adding", !.add = Nothing])
    /\ UNCHANGED <<control, world, learnerPods, closed, config>>

AbortTurn(o) ==
    MembershipTurn(o) /\ Of(o).spec.abort /\ Of(o).phase # "Aborted"

AcknowledgeAbort(o) ==
    /\ AbortTurn(o)
    /\ Of(o).add = Nothing
    /\ RecordMembership(o, [Of(o) EXCEPT !.phase = "Aborted"])
    /\ UNCHANGED <<control, world, learnerPods, closed, config>>

(* abortMembership: the addition committed after all, is aborted by the    *)
(* surviving quorum, or was never dispatched and is replayed so that there *)
(* is a round to resolve.                                                  *)
AbortMembership(o) ==
    /\ AbortTurn(o)
    /\ Of(o).add # Nothing
    /\ \/ /\ config.id = Of(o).add.id + 1
          /\ config.pending = Nothing /\ config.abort = 0
          /\ Of(o).add.learner \in config.voters
          /\ RecordMembership(o, [Of(o) EXCEPT !.phase = "Complete"])
          /\ UNCHANGED config
       \/ /\ config.id = Of(o).add.id
          /\ config.pending # Nothing
          /\ config.pending.node = Of(o).add.learner
          /\ config' = [config EXCEPT !.pending = Nothing, !.abort = @ + 1]
          /\ RecordMembership(o, [Of(o) EXCEPT !.phase = "Aborted"])
       \/ /\ config.id = Of(o).add.id
          /\ config.abort > Of(o).add.abort /\ config.pending = Nothing
          /\ RecordMembership(o, [Of(o) EXCEPT !.phase = "Aborted"])
          /\ UNCHANGED config
       \/ /\ config.pending = Nothing
          /\ AcceptAdd(Of(o).add)
          /\ RecordMembership(o, [Of(o) EXCEPT !.phase = "Aborting"])
    /\ UNCHANGED <<control, world, learnerPods, closed>>

(* A Pod or the credentials cannot be looked up, there is no quorum, or    *)
(* the live membership is not the journaled one: the report replaces the   *)
(* phase of the journal, an acknowledged abort included.                   *)
RecordBlocked(o) ==
    /\ Working(o, "authorized")
    /\ Of(o).spec.scope = "Voter"
    /\ Of(o).phase # "Complete"
    /\ RecordMembership(o, [Of(o) EXCEPT !.phase = "Blocked"])
    /\ UNCHANGED <<control, world, learnerPods, closed, config>>

(* A generation child goes through GenerationRecovery, which stops the     *)
(* source's Pods and starts the target.                                    *)
RecoverGeneration(o) ==
    /\ Working(o, "authorized")
    /\ Of(o).spec.scope = "Generation"
    /\ RecordMembership(o, [Of(o) EXCEPT !.phase = "Complete"])
    /\ UNCHANGED <<control, world, learnerPods, closed, config>>

-----------------------------------------------------------------------------
(* The generation and its nodes.                                           *)

(* The replicated configuration takes effect (module Reconfiguration).     *)
CommitChange ==
    /\ config.pending # Nothing
    /\ VoterMajority(config.voters)
    /\ config' = [id |-> config.id + 1, pending |-> Nothing, abort |-> 0,
                  voters |-> IF config.pending.kind = "remove"
                             THEN config.voters \ {config.pending.node}
                             ELSE config.voters \cup {config.pending.node}]
    /\ UNCHANGED <<control, child, world, learnerPods, closed, work>>

(* A learner's process registers its run, which a closed scope refuses.    *)
LearnerStarts(l) ==
    /\ l \in learnerPods
    /\ proc[l] = "absent"
    /\ l \notin closed
    /\ proc' = [proc EXCEPT ![l] = "up"]
    /\ UNCHANGED <<control, child, learnerPods, closed, config, work, outages>>

(* Contact with a node is lost, for good or for a while.                   *)
LoseContact(n) ==
    /\ proc[n] = "up"
    /\ outages < MaxOutages
    /\ outages' = outages + 1
    /\ proc' = [proc EXCEPT ![n] = "dark"]
    /\ UNCHANGED <<control, child, learnerPods, closed, config, work>>

RegainContact(n) ==
    /\ proc[n] = "dark"
    /\ proc' = [proc EXCEPT ![n] = "up"]
    /\ UNCHANGED <<control, child, learnerPods, closed, config, work, outages>>

(* The supervisor of a closed node ends its process.                       *)
ProcessStops(n) ==
    /\ n \in closed
    /\ proc[n] \in {"up", "dark"}
    /\ proc' = [proc EXCEPT ![n] = "stopped"]
    /\ UNCHANGED <<control, child, learnerPods, closed, config, work, outages>>

PodGone(l) ==
    /\ l \in learnerPods
    /\ proc[l] = "stopped"
    /\ learnerPods' = learnerPods \ {l}
    /\ UNCHANGED <<control, child, proc, closed, config, work, outages>>

-----------------------------------------------------------------------------
AutoNext ==
    \/ \E o \in Reconcilers :
         \/ LoadAuto(o) \/ AbandonWork(o)
         \/ \E elapsed \in BOOLEAN : ObserveCluster(o, elapsed)
         \/ CompactHistory(o) \/ RequestFence(o) \/ PersistProof(o)
         \/ RecoverInventory(o)
         \/ WatchLearner(o, TRUE) \/ FenceLearner(o) \/ RotateLearner(o)
         \/ \E quorum \in BOOLEAN : NoteQuorum(o, quorum)
         \/ Escalate(o) \/ ProvisionLearner(o) \/ SaveLearner(o)
         \/ CreateChild(o) \/ BindChild(o)
         \/ ReserveRevision(o) \/ SubmitRevision(o) \/ CompleteIncident(o)
         \/ AuthorizeChild(o)
         \/ JournalRemove(o) \/ DispatchRemove(o)
         \/ JournalAdd(o) \/ DispatchAdd(o) \/ AddComplete(o)
         \/ ResetAborted(o) \/ AcknowledgeAbort(o) \/ AbortMembership(o)
         \/ RecordBlocked(o) \/ RecoverGeneration(o)
         \/ \E k \in Incidents : ListChild(o, k)
    \/ CommitChange
    \/ \E l \in Learners : LearnerStarts(l) \/ PodGone(l)
    \/ \E n \in Nodes : LoseContact(n) \/ RegainContact(n) \/ ProcessStops(n)

AutoSpec == AutoInit /\ [][AutoNext]_autoVars

-----------------------------------------------------------------------------
Alive == {n \in Nodes : proc[n] \in {"up", "dark"}}

(* A voter that left the membership has ended for good: no process that    *)
(* could still vote under its identity is left behind.                     *)
RemovedVotersEnded == (BaseVoters \ config.voters) \cap Alive = {}

(* Repair fences at most one member of the current membership at a time,   *)
(* so fencing never takes the quorum it relies on.                         *)
RepairKeepsQuorum ==
    /\ control.generation = 1
    /\ control.intent # Nothing => control.intent.scope = "Voter"
    => Cardinality(config.voters \cap closed) <= 1

(* Every live learner is named by the control record, which a later fence  *)
(* of the generation takes its targets from.                               *)
LearnersAccounted ==
    \/ control.intent # Nothing /\ control.intent.scope = "Generation"
    \/ Learners \cap Alive \subseteq
             config.voters \cup control.history \cup
             (IF control.intent # Nothing THEN {LearnerOf(control)} ELSE {})

(* With no incident under way the record's voters are the cluster's.       *)
VotersAgree ==
    control.intent = Nothing /\ control.generation = 1
        => control.voters = config.voters

(* The successor generation is only reached when no process of the         *)
(* old one is left.                                                        *)
OldGenerationEnded == control.generation = 2 => Alive = {}

(* Automatic repair keeps the cluster safe and its own records true.       *)
RepairSafe ==
    /\ RemovedVotersEnded /\ RepairKeepsQuorum /\ LearnersAccounted
    /\ VotersAgree /\ OldGenerationEnded
=============================================================================
