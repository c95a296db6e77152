--------------------------- MODULE RecoveryProofs ---------------------------
(***************************************************************************)
(* The operator's two recoveries.                                          *)
(*                                                                         *)
(* The handover of a cluster to a recovered generation, for any number of  *)
(* recoveries, operators, edits and writes: at most one generation runs,   *)
(* the successor holds every acknowledged write, the anchor is bound to it *)
(* before it runs, and a late reconciler neither stops a generation that   *)
(* is not preserved nor starts one that is not its successor.              *)
(*                                                                         *)
(* The automatic repair of a voter, for any number of voters, reconcilers, *)
(* incidents, learners and outages: fencing never takes more than one      *)
(* member, whoever left the membership has ended, every live learner is    *)
(* known, and the record's voters are the cluster's when no repair is      *)
(* under way.                                                              *)
(***************************************************************************)
EXTENDS GenerationRecovery, AutoRecovery, TLAPS, FiniteSetTheorems

-----------------------------------------------------------------------------
(* Generation recovery *)

Steps == Stages \cup {"listed", "reserve", "claim", "fork", "anchor", "start",
                      "activate", "started", "record", "release"}

\* What a status may hold; the tip's bound is the archive's.
Journal == [stage : Stages, tip : Nat, receipt : Recoveries \cup {None}]

Pass == [op : Recoveries, at : Steps, st : Journal, fresh : BOOLEAN,
         sts : Workload \cup {None}, unchanged : BOOLEAN]

Types ==
    /\ workload \in Workload
    /\ livePods \subseteq Generations
    /\ recovery \in [Recoveries -> Journal]
    /\ successors \in [Generations -> Recoveries \cup {None}]
    /\ archiveTip \in [Generations -> Nat]
    /\ ackedTip \in [Generations -> Nat]
    /\ forkTip \in [Recoveries -> Nat \cup {None}]
    /\ anchorRec \in [binding : Generations, transition : Recoveries \cup {None},
                      last : Recoveries \cup {None}, pending : BOOLEAN]

\* A generation that can run has an archive: the first one, or a finished fork.
Grounded(g) == g = Genesis \/ forkTip[g] # None

\* Everything the target of a recovery needs is in place.
Preserved(op) ==
    /\ forkTip[op] # None
    /\ op \in credentials
    /\ op \in Lineage[anchorRec.binding]

\* What a recorded stage promises.
StageTrue(op, stage) ==
    /\ stage \notin {"", "Reserved"} => SourceOf[op] \in sealedGens
    /\ stage \in {"Stopping", "Starting", "Restarted", "Complete"} => Preserved(op)

\* What a pass has made sure of: it holds although the pass may be late, since
\* nothing of it is ever undone, except what it read of the StatefulSet, which
\* is the truth as long as nobody wrote it.
PassTrue(p) ==
    /\ p \in Pass
    /\ p.unchanged => p.sts = workload
    /\ p.at # "listed" => p.sts \in Workload
    /\ StageTrue(p.op, p.st.stage)
    /\ p.at \in {"reserve", "claim", "Reserved", "Sealed", "fork", "anchor", "Stopping"} =>
          Grounded(SourceOf[p.op]) /\ p.sts.cluster = SourceOf[p.op]
    /\ p.at = "claim" => p.st.stage \in {"Reserved", "Sealed", "Stopping"}
    /\ p.at \in {"Reserved", "Sealed", "Stopping"} => p.st.stage = p.at /\ p.sts.owner = p.op
    /\ p.at \in {"fork", "anchor"} => SourceOf[p.op] \in sealedGens /\ p.op \in credentials
    /\ p.at = "anchor" => forkTip[p.op] # None
    /\ p.at \in {"start", "activate"} => p.sts.contract /\ ReservationHeld(p.op)
    /\ p.at \in {"start", "activate", "started"} => p.st.stage \in {"Starting", "Restarted"}
    /\ p.at = "activate" => /\ p.sts.cluster = SourceOf[p.op] /\ ~p.sts.up
                            /\ p.unchanged => livePods = {}

PassesTrue ==
    /\ passes = [o \in Operators |-> passes[o]]
    /\ \A o \in Operators : passes[o] # NoPass => PassTrue(passes[o])

StatusTrue == \A op \in Recoveries : StageTrue(op, recovery[op].stage)

\* Only the installed generation has Pods, it has an archive and the anchor knows it.
InstalledTrue ==
    /\ livePods \subseteq {workload.cluster}
    /\ Grounded(workload.cluster)
    /\ workload.cluster \in Lineage[anchorRec.binding]

\* A fork is the whole of its sealed source.
ForksTrue ==
    \A op \in Recoveries : forkTip[op] # None =>
        /\ SourceOf[op] \in sealedGens
        /\ Grounded(SourceOf[op])
        /\ archiveTip[SourceOf[op]] = forkTip[op]

\* Acknowledged writes are published, and nothing was before the fork.
AcksTrue ==
    \A g \in Generations : /\ ackedTip[g] <= archiveTip[g]
                           /\ ~Grounded(g) => ackedTip[g] = 0

RecoveryInv ==
    /\ Types
    /\ PassesTrue
    /\ StatusTrue
    /\ InstalledTrue
    /\ ForksTrue
    /\ AcksTrue

-----------------------------------------------------------------------------
\* Lineage is what its definition says, also if the recoveries' sources form a
\* cycle: the generations that can be reached satisfy its equation.
LEMMA LineageIs ==
    \A g \in Generations :
        Lineage[g] = IF g = Genesis THEN {Genesis} ELSE {g} \cup Lineage[SourceOf[g]]
<1> DEFINE Closed(T) == \A y \in T : y # Genesis => SourceOf[y] \in T
           Reach(g) == {x \in Generations :
                          \A T \in SUBSET Generations : g \in T /\ Closed(T) => x \in T}
           F == [g \in Generations |-> Reach(g)]
           Eq(f) == f = [g \in Generations |->
                           IF g = Genesis THEN {Genesis} ELSE {g} \cup f[SourceOf[g]]]
<1>1. \A op \in Recoveries : SourceOf[op] \in Generations /\ op # Genesis
  BY RecoveryAssumption
<1>2. \A g \in Generations : g # Genesis => g \in Recoveries
  BY DEF Generations
<1>3. Genesis \in Generations
  BY DEF Generations
<1>4. Reach(Genesis) = {Genesis}
  <2>1. Closed({Genesis})
    OBVIOUS
  <2>2. QED
    BY <1>3, <2>1
<1>5. ASSUME NEW g \in Generations, g # Genesis
      PROVE  Reach(g) = {g} \cup Reach(SourceOf[g])
  <2>1. SourceOf[g] \in Generations
    BY <1>1, <1>2, <1>5
  <2>2. ASSUME NEW x \in Reach(g), x # g PROVE x \in Reach(SourceOf[g])
    <3>1. SUFFICES ASSUME NEW T \in SUBSET Generations, SourceOf[g] \in T, Closed(T)
                   PROVE  x \in T
      OBVIOUS
    <3>2. Closed(T \cup {g})
      BY <3>1
    <3>3. T \cup {g} \in SUBSET Generations
      OBVIOUS
    <3>4. x \in T \cup {g}
      BY <3>2, <3>3
    <3>5. QED
      BY <2>2, <3>4
  <2>3. ASSUME NEW x \in Reach(SourceOf[g]) PROVE x \in Reach(g)
    BY <1>5
  <2>4. g \in Reach(g)
    OBVIOUS
  <2>5. QED
    BY <2>2, <2>3, <2>4
<1>6. Eq(F)
  <2>1. ASSUME NEW g \in Generations
        PROVE  F[g] = IF g = Genesis THEN {Genesis} ELSE {g} \cup F[SourceOf[g]]
    <3>1. CASE g = Genesis
      BY <1>4, <3>1
    <3>2. CASE g # Genesis
      <4>1. SourceOf[g] \in Generations
        BY <1>1, <1>2, <3>2
      <4>2. QED
        BY <1>5, <3>2, <4>1
    <3>3. QED
      BY <3>1, <3>2
  <2>2. QED
    BY <2>1
<1>7. Lineage = CHOOSE f : Eq(f)
  BY DEF Lineage
<1> HIDE DEF F, Eq
<1>8. Eq(Lineage)
  BY <1>6, <1>7
<1>9. QED
  BY <1>8 DEF Eq

\* A generation descends from itself, and a successor from all its source does.
LEMMA LineageGrows ==
    /\ \A g \in Generations : g \in Lineage[g]
    /\ \A op \in Recoveries : Lineage[SourceOf[op]] \subseteq Lineage[op]
<1>1. \A op \in Recoveries : op # Genesis /\ op \in Generations
  BY RecoveryAssumption DEF Generations
<1>2. QED
  BY <1>1, LineageIs

-----------------------------------------------------------------------------
\* Nothing a reconciler relies on is ever undone.
Keeps ==
    /\ \A op \in Recoveries : forkTip[op] # None => forkTip'[op] # None
    /\ sealedGens \subseteq sealedGens'
    /\ credentials \subseteq credentials'
    /\ Lineage[anchorRec.binding] \subseteq Lineage[anchorRec'.binding]
    /\ \A op \in Recoveries : successors[SourceOf[op]] = op => successors'[SourceOf[op]] = op

LEMMA GroundedKept ==
    ASSUME Keeps, NEW g \in Generations, Grounded(g)
    PROVE  Grounded(g)'
BY DEF Keeps, Grounded, Generations

LEMMA StageKept ==
    ASSUME Keeps, NEW op \in Recoveries, NEW stage, StageTrue(op, stage)
    PROVE  StageTrue(op, stage)'
BY DEF Keeps, StageTrue, Preserved

\* A pass keeps what it has made sure of while the StatefulSet and its Pods stay.
LEMMA PassKept ==
    ASSUME Keeps, NEW p, PassTrue(p), UNCHANGED <<workload, livePods>>
    PROVE  PassTrue(p)'
<1>1. p \in Pass /\ p.op \in Recoveries /\ SourceOf[p.op] \in Generations
  BY RecoveryAssumption DEF PassTrue, Pass
<1>2. StageTrue(p.op, p.st.stage)'
  BY <1>1, StageKept DEF PassTrue
<1>3. Grounded(SourceOf[p.op]) => Grounded(SourceOf[p.op])'
  BY <1>1, GroundedKept
<1>4. ReservationHeld(p.op) => ReservationHeld(p.op)'
  BY <1>1 DEF Keeps, ReservationHeld
<1>5. QED
  BY <1>1, <1>2, <1>3, <1>4 DEF PassTrue, Keeps

\* And when somebody writes the StatefulSet, once it knows of that.
LEMMA PassOutdated ==
    ASSUME Keeps, NEW p, PassTrue(p)
    PROVE  PassTrue([p EXCEPT !.unchanged = FALSE])'
<1> DEFINE q == [p EXCEPT !.unchanged = FALSE]
<1>1. p \in Pass /\ p.op \in Recoveries /\ SourceOf[p.op] \in Generations
  BY RecoveryAssumption DEF PassTrue, Pass
<1>2. /\ q \in Pass /\ q.op = p.op /\ q.at = p.at /\ q.st = p.st /\ q.sts = p.sts
      /\ ~q.unchanged
  BY <1>1 DEF Pass
<1> HIDE DEF q
<1>3. StageTrue(p.op, p.st.stage)'
  BY <1>1, StageKept DEF PassTrue
<1>4. Grounded(SourceOf[p.op]) => Grounded(SourceOf[p.op])'
  BY <1>1, GroundedKept
<1>5. ReservationHeld(p.op) => ReservationHeld(p.op)'
  BY <1>1 DEF Keeps, ReservationHeld
<1>6. PassTrue(q)'
  BY <1>1, <1>2, <1>3, <1>4, <1>5 DEF PassTrue, Keeps
<1>7. QED
  BY <1>6 DEF q

LEMMA PassStale ==
    ASSUME NEW p, PassTrue(p)
    PROVE  PassTrue([p EXCEPT !.fresh = FALSE])
<1> DEFINE q == [p EXCEPT !.fresh = FALSE]
<1>1. p \in Pass
  BY DEF PassTrue
<1>2. /\ q \in Pass /\ q.op = p.op /\ q.at = p.at /\ q.st = p.st /\ q.sts = p.sts
      /\ q.unchanged = p.unchanged
  BY <1>1 DEF Pass
<1> HIDE DEF q
<1>3. PassTrue(q)
  BY <1>2 DEF PassTrue
<1>4. QED
  BY <1>3 DEF q

\* The passes after a step: each one as it was, out of date, or one to be shown.
LEMMA PassesKept ==
    ASSUME PassesTrue, Keeps, passes' = [o \in Operators |-> passes'[o]],
           \A q \in Operators :
              \/ passes'[q] = NoPass
              \/ passes'[q] = passes[q] /\ UNCHANGED <<workload, livePods>>
              \/ passes'[q] = Outdated(passes[q], "fresh") /\ UNCHANGED <<workload, livePods>>
              \/ passes'[q] = Outdated(passes[q], "unchanged")
              \/ \A p : p = passes'[q] => PassTrue(p)'
    PROVE  PassesTrue'
<1>1. SUFFICES ASSUME NEW q \in Operators, passes'[q] # NoPass, NEW p, p = passes'[q]
               PROVE  PassTrue(p)'
  BY DEF PassesTrue
<1>2. passes[q] # NoPass => PassTrue(passes[q]) /\ passes[q].op # None
  <2>1. ASSUME passes[q] # NoPass PROVE PassTrue(passes[q]) /\ passes[q].op # None
    <3>1. PassTrue(passes[q])
      BY <2>1 DEF PassesTrue
    <3>2. passes[q].op \in Recoveries
      BY <3>1 DEF PassTrue, Pass
    <3>3. QED
      BY <3>1, <3>2, RecoveryAssumption DEF Generations
  <2>2. QED
    BY <2>1
<1>3. NoPass.op = None
  BY DEF NoPass
<1>4. CASE passes'[q] = passes[q] /\ UNCHANGED <<workload, livePods>>
  <2>1. PassTrue(p)
    BY <1>1, <1>2, <1>4
  <2>2. QED
    BY <1>4, <2>1, PassKept
<1>5. CASE passes'[q] = Outdated(passes[q], "fresh") /\ UNCHANGED <<workload, livePods>>
  <2>1. passes[q] # NoPass
    BY <1>1, <1>3, <1>5 DEF Outdated
  <2>2. p = [passes[q] EXCEPT !.fresh = FALSE]
    BY <1>1, <1>2, <1>5, <2>1 DEF Outdated
  <2>3. PassTrue(p)
    BY <1>2, <2>1, <2>2, PassStale
  <2>4. QED
    BY <1>5, <2>3, PassKept
<1>6. CASE passes'[q] = Outdated(passes[q], "unchanged")
  <2>1. passes[q] # NoPass
    BY <1>1, <1>3, <1>6 DEF Outdated
  <2>2. PICK r : r = passes[q]
    OBVIOUS
  <2>3. PassTrue(r) /\ p = [r EXCEPT !.unchanged = FALSE]
    BY <1>1, <1>2, <1>6, <2>1, <2>2 DEF Outdated
  <2>4. QED
    BY <2>3, PassOutdated
<1>7. QED
  BY <1>1, <1>4, <1>5, <1>6

-----------------------------------------------------------------------------
\* What the invariant says of a pass in progress.
LEMMA PassFacts ==
    ASSUME RecoveryInv, NEW o \in Operators, NEW step, PassAt(o, step)
    PROVE  /\ passes[o] # NoPass /\ PassTrue(passes[o]) /\ passes[o] \in Pass
           /\ passes[o].at = step
           /\ passes[o].op \in Recoveries /\ SourceOf[passes[o].op] \in Generations
           /\ passes[o].st \in Journal
<1>1. passes[o] # NoPass /\ passes[o].at = step
  BY DEF PassAt, NoPass
<1>2. PassTrue(passes[o])
  BY <1>1 DEF RecoveryInv, PassesTrue
<1>3. QED
  BY <1>1, <1>2, RecoveryAssumption DEF PassTrue, Pass

\* The step of one pass: the others are as they were.
LEMMA OwnPass ==
    ASSUME RecoveryInv, Keeps, NEW o \in Operators, NEW p,
           passes' = [passes EXCEPT ![o] = p], p # NoPass => PassTrue(p)',
           UNCHANGED <<workload, livePods>>
    PROVE  PassesTrue'
<1>1. passes = [q \in Operators |-> passes[q]]
  BY DEF RecoveryInv, PassesTrue
<1>2. passes' = [q \in Operators |-> passes'[q]] /\ passes'[o] = p
  BY <1>1
<1>3. \A q \in Operators : q # o => passes'[q] = passes[q]
  BY <1>1
<1>4. \A q \in Operators :
              \/ passes'[q] = NoPass
              \/ passes'[q] = passes[q] /\ UNCHANGED <<workload, livePods>>
              \/ \A r : r = passes'[q] => PassTrue(r)'
  BY <1>2, <1>3
<1>5. QED
  BY <1>2, <1>4, PassesKept DEF RecoveryInv

\* A step that only moves a pass.
LEMMA QuietStep ==
    ASSUME RecoveryInv, PassesTrue',
           UNCHANGED <<workload, livePods, recovery, successors, sealedGens, archiveTip,
                       ackedTip, forkTip, credentials, anchorRec>>
    PROVE  RecoveryInv'
<1>1. Types'
  BY DEF RecoveryInv, Types
<1>2. StatusTrue' /\ InstalledTrue' /\ ForksTrue' /\ AcksTrue'
  BY DEF RecoveryInv, StatusTrue, StageTrue, Preserved, InstalledTrue, ForksTrue, AcksTrue, Grounded
<1>3. QED
  BY <1>1, <1>2 DEF RecoveryInv

LEMMA QuietKeeps ==
    ASSUME UNCHANGED <<successors, sealedGens, forkTip, credentials, anchorRec>>
    PROVE  Keeps
BY DEF Keeps

\* A pass begins with the status as it is.
LEMMA ListResourceInv ==
    ASSUME RecoveryInv, NEW o \in Operators, NEW op \in Recoveries, ListResource(o, op)
    PROVE  RecoveryInv'
<1> DEFINE p == [op |-> op, at |-> "listed", st |-> recovery[op], fresh |-> TRUE,
                 sts |-> None, unchanged |-> FALSE]
<1>1. PICK r : r = recovery[op]
  OBVIOUS
<1>2. PICK q : q = p
  OBVIOUS
<1>3. r \in Journal /\ StageTrue(op, r.stage)
  BY <1>1 DEF RecoveryInv, Types, StatusTrue
<1>4. /\ q \in Pass /\ q.op = op /\ q.at = "listed" /\ q.st = r /\ ~q.unchanged
  BY <1>1, <1>2, <1>3 DEF Pass, Steps
<1>5. /\ passes' = [passes EXCEPT ![o] = q]
      /\ UNCHANGED <<workload, livePods, recovery, successors, sealedGens, archiveTip,
                     ackedTip, forkTip, credentials, anchorRec>>
  BY <1>2 DEF ListResource, bucketVars, envVars
<1>6. Keeps
  BY <1>5, QuietKeeps
<1>7. PassTrue(q)
  BY <1>3, <1>4 DEF PassTrue
<1>8. PassTrue(q)'
  BY <1>5, <1>6, <1>7, PassKept
<1>9. QED
  BY <1>5, <1>6, <1>8, OwnPass, QuietStep

\* It reads the StatefulSet and goes on if its stage allows.
LEMMA ReadWorkloadInv ==
    ASSUME RecoveryInv, NEW o \in Operators, ReadWorkload(o)
    PROVE  RecoveryInv'
<1> DEFINE p == passes[o]
           at == NextStep(p.st, p.op, workload)
<1>1. /\ p \in Pass /\ PassTrue(p) /\ p.op \in Recoveries /\ SourceOf[p.op] \in Generations
      /\ p.st \in Journal
  BY PassFacts DEF ReadWorkload
<1>2. PICK q : q = [p EXCEPT !.at = at, !.sts = workload, !.unchanged = TRUE]
  OBVIOUS
<1>3. /\ passes' = [passes EXCEPT ![o] = q]
      /\ UNCHANGED <<workload, livePods, recovery, successors, sealedGens, archiveTip,
                     ackedTip, forkTip, credentials, anchorRec>>
  BY <1>2 DEF ReadWorkload, bucketVars, envVars, RecoveryInv, PassesTrue
<1>4. workload \in Workload /\ Grounded(workload.cluster)
  BY DEF RecoveryInv, Types, InstalledTrue
<1>5. at \in {"release", "start", "reserve", "claim"}
  BY DEF NextStep
<1>6. /\ q \in Pass /\ q.op = p.op /\ q.st = p.st /\ q.at = at /\ q.sts = workload
  BY <1>1, <1>2, <1>4, <1>5 DEF Pass, Steps
<1>7. p.st.stage \in Stages
  BY <1>1 DEF Journal
<1>8. CASE at \in {"reserve", "claim"}
  <2>1. p.st.stage \notin {"Complete", "Starting", "Restarted"}
    BY <1>8 DEF NextStep
  <2>2. workload.cluster = SourceOf[p.op]
    BY <2>1 DEF ReadWorkload, SourceReady
  <2>3. at = "claim" => p.st.stage \in {"Reserved", "Sealed", "Stopping"}
    BY <1>7, <2>1 DEF NextStep, Stages
  <2>4. PassTrue(q)
    BY <1>1, <1>4, <1>6, <1>8, <2>2, <2>3 DEF PassTrue
  <2>5. QED
    BY <1>3, <2>4, QuietKeeps, PassKept, OwnPass, QuietStep
<1>9. CASE at = "start"
  <2>1. p.st.stage \in {"Starting", "Restarted"}
    BY <1>9 DEF NextStep
  <2>2. workload.contract /\ ReservationHeld(p.op)
    BY <2>1 DEF ReadWorkload, TargetReady, Deployable
  <2>3. PassTrue(q)
    BY <1>1, <1>4, <1>6, <1>9, <2>1, <2>2 DEF PassTrue
  <2>4. QED
    BY <1>3, <2>3, QuietKeeps, PassKept, OwnPass, QuietStep
<1>10. CASE at = "release"
  <2>1. PassTrue(q)
    BY <1>1, <1>4, <1>6, <1>10 DEF PassTrue
  <2>2. QED
    BY <1>3, <2>1, QuietKeeps, PassKept, OwnPass, QuietStep
<1>11. QED
  BY <1>5, <1>8, <1>9, <1>10

LEMMA AbandonPassInv ==
    ASSUME RecoveryInv, NEW o \in Operators, AbandonPass(o)
    PROVE  RecoveryInv'
<1>1. /\ passes' = [passes EXCEPT ![o] = NoPass]
      /\ UNCHANGED <<workload, livePods, recovery, successors, sealedGens, archiveTip,
                     ackedTip, forkTip, credentials, anchorRec>>
  BY DEF AbandonPass, EndPass, bucketVars, envVars
<1>2. QED
  BY <1>1, QuietKeeps, OwnPass, QuietStep

\* A pass about to record a status that is true.
LEMMA RecordTrue ==
    ASSUME NEW p, PassTrue(p), p.at # "listed", NEW st \in Journal, StageTrue(p.op, st.stage),
           NEW q, q = [p EXCEPT !.at = "record", !.st = st]
    PROVE  PassTrue(q)
<1>1. p \in Pass
  BY DEF PassTrue
<1>2. /\ q \in Pass /\ q.op = p.op /\ q.at = "record" /\ q.st = st
      /\ q.sts = p.sts /\ q.unchanged = p.unchanged
  BY <1>1 DEF Pass, Steps
<1>3. QED
  BY <1>2 DEF PassTrue

\* Steps after which a status is recorded that holds already.
LEMMA GoRecordInv ==
    ASSUME RecoveryInv, NEW o \in Operators, NEW step, PassAt(o, step), NEW st \in Journal,
           StageTrue(passes[o].op, st.stage), step # "listed", GoRecord(o, st),
           UNCHANGED <<workload, livePods, recovery, successors, sealedGens, archiveTip,
                       ackedTip, forkTip, credentials, anchorRec>>
    PROVE  RecoveryInv'
<1> DEFINE p == passes[o]
<1>1. PICK q : q = [p EXCEPT !.at = "record", !.st = st]
  OBVIOUS
<1>2. PassTrue(q)
  <2>1. PassTrue(p) /\ p.at # "listed" /\ StageTrue(p.op, st.stage)
    BY PassFacts
  <2>2. QED
    BY ONLY <1>1, <2>1, RecordTrue, st \in Journal
<1>3. passes' = [passes EXCEPT ![o] = q]
  BY <1>1 DEF GoRecord, RecoveryInv, PassesTrue
<1>4. Keeps
  BY QuietKeeps
<1>5. QED
  BY <1>2, <1>3, <1>4, PassKept, OwnPass, QuietStep

LEMMA JournalStage ==
    ASSUME NEW st \in Journal, NEW stage \in Stages
    PROVE  /\ [st EXCEPT !.stage = stage] \in Journal
           /\ [st EXCEPT !.stage = stage].stage = stage
BY DEF Journal

LEMMA AnchorReceiptInv ==
    ASSUME RecoveryInv, NEW o \in Operators, AnchorReceipt(o)
    PROVE  RecoveryInv'
<1> DEFINE p == passes[o]
           st == [p.st EXCEPT !.stage = "Stopping", !.receipt = p.op]
<1>1. /\ PassAt(o, "anchor") /\ p.at = "anchor" /\ PassTrue(p) /\ p.op \in Recoveries
      /\ p.st \in Journal
  BY PassFacts DEF AnchorReceipt
<1>2. st \in Journal /\ st.stage = "Stopping"
  BY <1>1 DEF Journal, Stages
<1>3. p.op \in Lineage[anchorRec.binding]
  BY <1>1, LineageGrows DEF AnchorReceipt, AnchorCommitted, Generations
<1>4. StageTrue(p.op, "Stopping")
  BY <1>1, <1>3 DEF PassTrue, StageTrue, Preserved
<1>5. /\ GoRecord(o, st)
      /\ UNCHANGED <<workload, livePods, recovery, successors, sealedGens, archiveTip,
                     ackedTip, forkTip, credentials, anchorRec>>
  BY DEF AnchorReceipt, bucketVars, envVars
<1>6. QED
  BY <1>1, <1>2, <1>4, <1>5, GoRecordInv

LEMMA ObserveInv ==
    ASSUME RecoveryInv, NEW o \in Operators, SourceStopped(o) \/ Started(o) \/ ObserveQuorum(o)
    PROVE  RecoveryInv'
<1> DEFINE p == passes[o]
<1>1. PICK step \in {"Stopping", "started", "start"}, stage \in {"Starting", "Restarted", "Complete"} :
        /\ PassAt(o, step)
        /\ GoRecord(o, [p.st EXCEPT !.stage = stage])
        /\ UNCHANGED <<workload, livePods, recovery, successors, sealedGens, archiveTip,
                       ackedTip, forkTip, credentials, anchorRec>>
  BY DEF SourceStopped, Started, ObserveQuorum, bucketVars, envVars
<1>2. p.at = step /\ PassTrue(p) /\ p.op \in Recoveries /\ p.st \in Journal
  BY <1>1, PassFacts
<1>3. p.st.stage \in {"Stopping", "Starting", "Restarted"}
  BY <1>1, <1>2 DEF PassTrue
<1>4. StageTrue(p.op, stage)
  BY <1>2, <1>3 DEF PassTrue, StageTrue
<1>5. [p.st EXCEPT !.stage = stage] \in Journal /\ [p.st EXCEPT !.stage = stage].stage = stage
  <2>1. stage \in Stages
    BY <1>1 DEF Stages
  <2>2. QED
    BY <1>2, <2>1, JournalStage
<1>6. QED
  BY <1>1, <1>4, <1>5, GoRecordInv

\* The target is checked while its source is down and has no Pods.
LEMMA VerifyTargetInv ==
    ASSUME RecoveryInv, NEW o \in Operators, VerifyTarget(o)
    PROVE  RecoveryInv'
<1> DEFINE p == passes[o]
<1>1. /\ PassAt(o, "start") /\ p.at = "start" /\ PassTrue(p) /\ p.op \in Recoveries
      /\ p \in Pass /\ p.st \in Journal
  BY PassFacts DEF VerifyTarget
<1>2. UNCHANGED <<workload, livePods, recovery, successors, sealedGens, archiveTip,
                  ackedTip, forkTip, credentials, anchorRec>>
  BY DEF VerifyTarget, bucketVars, envVars
<1>3. CASE p.sts.cluster = Source(o) /\ ~p.sts.up /\ livePods = {} /\ GoTo(o, "activate")
  <2>1. PICK q : q = [p EXCEPT !.at = "activate"]
    OBVIOUS
  <2>2. /\ q \in Pass /\ q.op = p.op /\ q.at = "activate" /\ q.st = p.st /\ q.sts = p.sts
        /\ q.unchanged = p.unchanged
    BY <1>1, <2>1 DEF Pass, Steps
  <2>3. PassTrue(q)
    BY <1>1, <1>3, <2>2 DEF PassTrue, Source
  <2>4. passes' = [passes EXCEPT ![o] = q]
    BY <1>3, <2>1 DEF GoTo, RecoveryInv, PassesTrue
  <2>5. QED
    BY <1>2, <2>3, <2>4, QuietKeeps, PassKept, OwnPass, QuietStep
<1>4. CASE GoRecord(o, [p.st EXCEPT !.stage = "Restarted"])
  <2>1. /\ [p.st EXCEPT !.stage = "Restarted"] \in Journal
        /\ [p.st EXCEPT !.stage = "Restarted"].stage = "Restarted"
    BY <1>1, JournalStage DEF Stages
  <2>2. StageTrue(p.op, "Restarted")
    BY <1>1 DEF PassTrue, StageTrue
  <2>3. QED
    BY <1>1, <1>2, <1>4, <2>1, <2>2, GoRecordInv
<1>5. QED
  BY <1>3, <1>4 DEF VerifyTarget

\* A status that is recorded is true when it is written.
LEMMA RecordInv ==
    ASSUME RecoveryInv, NEW o \in Operators, Record(o)
    PROVE  RecoveryInv'
<1> DEFINE p == passes[o]
<1>1. p \in Pass /\ PassTrue(p) /\ p.op \in Recoveries /\ p.st \in Journal
  BY PassFacts DEF Record
<1>2. UNCHANGED <<workload, livePods, successors, sealedGens, archiveTip, ackedTip, forkTip,
                  credentials, anchorRec>>
  BY DEF Record, bucketVars, envVars
<1>3. Keeps
  BY <1>2, QuietKeeps
<1>4. CASE ~p.fresh
  <2>1. passes' = [passes EXCEPT ![o] = NoPass] /\ recovery' = recovery
    BY <1>4 DEF Record, EndPass
  <2>2. QED
    BY <1>2, <1>3, <2>1, OwnPass, QuietStep
<1>5. CASE p.fresh
  <2>1. recovery' = [recovery EXCEPT ![p.op] = p.st]
    BY <1>5 DEF Record
  <2>2. passes' = [q \in Operators |->
                     IF q = o THEN NoPass
                     ELSE IF passes[q].op = p.op THEN Outdated(passes[q], "fresh")
                          ELSE passes[q]]
    BY <1>5 DEF Record
  <2>3. PassesTrue'
    <3>1. passes' = [q \in Operators |-> passes'[q]]
      BY <2>2
    <3>2. \A q \in Operators :
              \/ passes'[q] = NoPass
              \/ passes'[q] = passes[q] /\ UNCHANGED <<workload, livePods>>
              \/ passes'[q] = Outdated(passes[q], "fresh") /\ UNCHANGED <<workload, livePods>>
      BY <1>2, <2>2
    <3>3. QED
      BY <1>3, <3>1, <3>2, PassesKept DEF RecoveryInv
  <2>4. Types'
    BY <1>1, <1>2, <2>1 DEF RecoveryInv, Types
  <2>5. StatusTrue'
    <3>1. ASSUME NEW op \in Recoveries, NEW stage, stage = recovery'[op].stage
          PROVE  StageTrue(op, stage)'
      <4>1. CASE op = p.op
        <5>1. stage = p.st.stage
          BY <2>1, <3>1, <4>1 DEF RecoveryInv, Types
        <5>2. QED
          BY <1>1, <1>3, <4>1, <5>1, StageKept DEF PassTrue
      <4>2. CASE op # p.op
        <5>1. stage = recovery[op].stage
          BY <2>1, <3>1, <4>2 DEF RecoveryInv, Types
        <5>2. StageTrue(op, stage)
          BY <5>1 DEF RecoveryInv, StatusTrue
        <5>3. QED
          BY <1>3, <5>2, StageKept
      <4>3. QED
        BY <4>1, <4>2
    <3>2. QED
      BY <3>1 DEF StatusTrue
  <2>6. InstalledTrue' /\ ForksTrue' /\ AcksTrue'
    BY <1>2 DEF RecoveryInv, InstalledTrue, ForksTrue, AcksTrue, Grounded
  <2>7. QED
    BY <2>3, <2>4, <2>5, <2>6 DEF RecoveryInv
<1>6. QED
  BY <1>4, <1>5

-----------------------------------------------------------------------------
\* Steps that add a promise in the bucket, a Secret or an anchor binding.
LEMMA GrowStep ==
    ASSUME RecoveryInv, Keeps, PassesTrue', Types',
           UNCHANGED <<workload, livePods, recovery, archiveTip, ackedTip, forkTip>>
    PROVE  RecoveryInv'
<1>1. StatusTrue'
  <2>1. ASSUME NEW op \in Recoveries, NEW stage, stage = recovery'[op].stage
        PROVE  StageTrue(op, stage)'
    <3>1. StageTrue(op, stage)
      BY <2>1 DEF RecoveryInv, StatusTrue
    <3>2. QED
      BY <3>1, StageKept
  <2>2. QED
    BY <2>1 DEF StatusTrue
<1>2. InstalledTrue'
  BY DEF RecoveryInv, InstalledTrue, Keeps, Grounded
<1>3. ForksTrue' /\ AcksTrue'
  BY DEF RecoveryInv, ForksTrue, AcksTrue, Keeps, Grounded
<1>4. QED
  BY <1>1, <1>2, <1>3 DEF RecoveryInv

\* A pass about to record what the same step made true.
LEMMA RecordTrueNext ==
    ASSUME NEW p, PassTrue(p)', p.at # "listed", NEW st \in Journal, StageTrue(p.op, st.stage)',
           NEW q, q = [p EXCEPT !.at = "record", !.st = st]
    PROVE  PassTrue(q)'
<1>1. p \in Pass
  BY DEF PassTrue
<1>2. /\ q \in Pass /\ q.op = p.op /\ q.at = "record" /\ q.st = st
      /\ q.sts = p.sts /\ q.unchanged = p.unchanged
  BY <1>1 DEF Pass, Steps
<1>3. QED
  BY <1>2 DEF PassTrue

LEMMA ReserveInv ==
    ASSUME RecoveryInv, NEW o \in Operators, Reserve(o)
    PROVE  RecoveryInv'
<1>1. PICK p : p = passes[o]
  OBVIOUS
<1>2. /\ PassTrue(p) /\ p.op \in Recoveries /\ p.st \in Journal /\ p.at = "reserve"
      /\ SourceOf[p.op] \in Generations
  BY <1>1, PassFacts DEF Reserve
<1> DEFINE holder == Immutable(successors[SourceOf[p.op]], p.op)
<1>3. /\ successors' = [successors EXCEPT ![SourceOf[p.op]] = holder]
      /\ UNCHANGED <<workload, livePods, recovery, sealedGens, archiveTip, ackedTip,
                     forkTip, credentials, anchorRec>>
      /\ IF holder = p.op THEN GoRecord(o, [p.st EXCEPT !.stage = "Reserved"]) ELSE EndPass(o)
  BY <1>1 DEF Reserve, Source, envVars
<1>4. successors \in [Generations -> Recoveries \cup {None}]
  BY DEF RecoveryInv, Types
<1>5. holder \in Recoveries \cup {None}
  BY <1>2, <1>4 DEF Immutable
<1>6. Keeps
  <2>1. ASSUME NEW op \in Recoveries, successors[SourceOf[op]] = op
        PROVE  successors'[SourceOf[op]] = op
    <3>1. op # None /\ SourceOf[op] \in Generations
      BY RecoveryAssumption DEF Generations
    <3>2. QED
      BY <1>2, <1>3, <1>4, <2>1, <3>1 DEF Immutable
  <2>2. QED
    BY <1>3, <2>1 DEF Keeps
<1>7. Types'
  BY <1>2, <1>3, <1>4, <1>5 DEF RecoveryInv, Types
<1>8. PassTrue(p)'
  BY <1>2, <1>3, <1>6, PassKept
<1>9. CASE holder = p.op
  <2>1. PICK st \in Journal : st = [p.st EXCEPT !.stage = "Reserved"] /\ st.stage = "Reserved"
    BY <1>2, JournalStage DEF Stages
  <2>2. PICK q : q = [p EXCEPT !.at = "record", !.st = st]
    OBVIOUS
  <2>3. passes' = [passes EXCEPT ![o] = q]
    BY <1>1, <1>3, <1>9, <2>1, <2>2 DEF GoRecord, RecoveryInv, PassesTrue
  <2>4. StageTrue(p.op, st.stage)'
    BY <2>1 DEF StageTrue
  <2>5. PassTrue(q)'
    BY ONLY <1>2, <1>8, <2>2, <2>4, RecordTrueNext, st \in Journal
  <2>6. QED
    BY <1>3, <1>6, <1>7, <2>3, <2>5, OwnPass, GrowStep
<1>10. CASE holder # p.op
  BY <1>3, <1>6, <1>7, <1>10, OwnPass, GrowStep DEF EndPass
<1>11. QED
  BY <1>9, <1>10

LEMMA SealSourceInv ==
    ASSUME RecoveryInv, NEW o \in Operators, SealSource(o)
    PROVE  RecoveryInv'
<1>1. PICK p : p = passes[o]
  OBVIOUS
<1>2. /\ PassTrue(p) /\ p.op \in Recoveries /\ p.st \in Journal /\ p.at = "Reserved"
  BY <1>1, PassFacts DEF SealSource
<1>3. /\ sealedGens' = sealedGens \cup {SourceOf[p.op]}
      /\ UNCHANGED <<workload, livePods, recovery, successors, archiveTip, ackedTip,
                     forkTip, credentials, anchorRec>>
      /\ GoRecord(o, [p.st EXCEPT !.stage = "Sealed"])
  BY <1>1 DEF SealSource, Source, envVars
<1>4. Keeps /\ Types'
  BY <1>3 DEF Keeps, RecoveryInv, Types
<1>5. PassTrue(p)'
  BY <1>2, <1>3, <1>4, PassKept
<1>6. PICK st \in Journal : st = [p.st EXCEPT !.stage = "Sealed"] /\ st.stage = "Sealed"
  BY <1>2, JournalStage DEF Stages
<1>7. PICK q : q = [p EXCEPT !.at = "record", !.st = st]
  OBVIOUS
<1>8. passes' = [passes EXCEPT ![o] = q]
  BY <1>1, <1>3, <1>6, <1>7 DEF GoRecord, RecoveryInv, PassesTrue
<1>9. StageTrue(p.op, st.stage)'
  BY <1>3, <1>6 DEF StageTrue
<1>10. PassTrue(q)'
  BY ONLY <1>2, <1>5, <1>7, <1>9, RecordTrueNext, st \in Journal
<1>11. QED
  BY <1>3, <1>4, <1>8, <1>10, OwnPass, GrowStep

LEMMA TargetCredentialsInv ==
    ASSUME RecoveryInv, NEW o \in Operators, TargetCredentials(o)
    PROVE  RecoveryInv'
<1>1. PICK p : p = passes[o]
  OBVIOUS
<1>2. /\ PassTrue(p) /\ p.op \in Recoveries /\ p.at = "Sealed"
  BY <1>1, PassFacts DEF TargetCredentials
<1>3. /\ credentials' = credentials \cup {p.op}
      /\ UNCHANGED <<workload, livePods, recovery, successors, sealedGens, archiveTip,
                     ackedTip, forkTip, anchorRec>>
      /\ GoTo(o, "fork")
  BY <1>1 DEF TargetCredentials, bucketVars, envVars
<1>4. Keeps /\ Types'
  BY <1>3 DEF Keeps, RecoveryInv, Types
<1>5. PassTrue(p)'
  BY <1>2, <1>3, <1>4, PassKept
<1>6. PICK q : q = [p EXCEPT !.at = "fork"]
  OBVIOUS
<1>7. passes' = [passes EXCEPT ![o] = q]
  BY <1>1, <1>3, <1>6 DEF GoTo, RecoveryInv, PassesTrue
<1>8. /\ q \in Pass /\ q.op = p.op /\ q.at = "fork" /\ q.st = p.st
      /\ q.sts = p.sts /\ q.unchanged = p.unchanged
  BY <1>2, <1>6 DEF PassTrue, Pass, Steps
<1>9. SourceOf[p.op] \in sealedGens
  BY <1>2 DEF PassTrue, StageTrue
<1>10. PassTrue(q)'
  BY <1>2, <1>3, <1>5, <1>8, <1>9 DEF PassTrue
<1>11. QED
  BY <1>3, <1>4, <1>7, <1>10, OwnPass, GrowStep

\* The anchor only moves on to a successor of what it is bound to.
LEMMA AnchorInv ==
    ASSUME RecoveryInv, NEW o \in Operators, AnchorReserve(o) \/ AnchorCommit(o)
    PROVE  RecoveryInv'
<1>1. /\ PassTrue(passes[o]) /\ passes[o].op \in Recoveries
  BY PassFacts DEF AnchorReserve, AnchorCommit
<1>2. UNCHANGED <<workload, livePods, recovery, successors, sealedGens, archiveTip, ackedTip,
                  forkTip, credentials, passes>>
  BY DEF AnchorReserve, AnchorCommit, bucketVars, envVars
<1>3. /\ anchorRec \in [binding : Generations, transition : Recoveries \cup {None},
                        last : Recoveries \cup {None}, pending : BOOLEAN]
      /\ passes[o].op \in Generations
  BY <1>1 DEF RecoveryInv, Types, Generations
<1>4. CASE AnchorReserve(o)
  <2>1. anchorRec' = [anchorRec EXCEPT !.transition = passes[o].op]
    BY <1>4 DEF AnchorReserve
  <2>2. Types' /\ anchorRec'.binding = anchorRec.binding
    BY <1>1, <1>2, <1>3, <2>1 DEF RecoveryInv, Types
  <2>3. Keeps
    BY <1>2, <2>2 DEF Keeps
  <2>4. PassesTrue'
    BY <1>2, <2>3, PassesKept DEF RecoveryInv, PassesTrue
  <2>5. QED
    BY <1>2, <2>2, <2>3, <2>4, GrowStep
<1>5. CASE AnchorCommit(o)
  <2>1. /\ anchorRec' = [anchorRec EXCEPT !.transition = None, !.binding = passes[o].op,
                                          !.last = passes[o].op]
        /\ anchorRec.binding = SourceOf[passes[o].op]
    BY <1>5 DEF AnchorCommit, Source
  <2>2. Types' /\ anchorRec'.binding = passes[o].op
    BY <1>1, <1>2, <1>3, <2>1 DEF RecoveryInv, Types
  <2>3. Keeps
    BY <1>1, <1>2, <2>1, <2>2, LineageGrows DEF Keeps
  <2>4. PassesTrue'
    BY <1>2, <2>3, PassesKept DEF RecoveryInv, PassesTrue
  <2>5. QED
    BY <1>2, <2>2, <2>3, <2>4, GrowStep
<1>6. QED
  BY <1>4, <1>5

\* The fork of a sealed source holds all of it and is made once.
LEMMA ForkArchiveInv ==
    ASSUME RecoveryInv, NEW o \in Operators, ForkArchive(o)
    PROVE  RecoveryInv'
<1>1. PICK p : p = passes[o]
  OBVIOUS
<1>2. PICK op : op = p.op
  OBVIOUS
<1>3. /\ PassTrue(p) /\ p \in Pass /\ op \in Recoveries /\ op \in Generations /\ p.at = "fork"
      /\ SourceOf[op] \in Generations /\ p.st \in Journal /\ op # Genesis
  BY <1>1, <1>2, PassFacts, RecoveryAssumption DEF ForkArchive, Generations
<1>4. PICK tip : tip = Immutable(forkTip[op], archiveTip[SourceOf[op]])
  OBVIOUS
<1>5. /\ forkTip' = [forkTip EXCEPT ![op] = tip]
      /\ archiveTip' = IF forkTip[op] = None THEN [archiveTip EXCEPT ![op] = tip] ELSE archiveTip
      /\ passes' = [passes EXCEPT ![o].at = "anchor", ![o].st.tip = tip]
      /\ UNCHANGED <<workload, livePods, recovery, successors, sealedGens, ackedTip,
                     credentials, anchorRec>>
  BY <1>1, <1>2, <1>4 DEF ForkArchive, Source, envVars
<1>6. /\ archiveTip \in [Generations -> Nat] /\ forkTip \in [Recoveries -> Nat \cup {None}]
      /\ ackedTip \in [Generations -> Nat] /\ None \notin Nat
  BY RecoveryAssumption DEF RecoveryInv, Types
<1>7. tip \in Nat /\ tip # None
  BY <1>3, <1>4, <1>6 DEF Immutable
<1>8. Types'
  <2>1. forkTip' \in [Recoveries -> Nat \cup {None}] /\ archiveTip' \in [Generations -> Nat]
    BY <1>3, <1>5, <1>6, <1>7
  <2>2. QED
    BY <1>5, <2>1 DEF RecoveryInv, Types
<1>9. Keeps
  BY <1>3, <1>5, <1>6, <1>7 DEF Keeps
<1>10. PassTrue(p)'
  BY <1>3, <1>5, <1>9, PassKept
<1>11. PICK q : q = [p EXCEPT !.at = "anchor", !.st.tip = tip]
  OBVIOUS
<1>12. passes' = [passes EXCEPT ![o] = q]
  BY <1>1, <1>5, <1>11 DEF RecoveryInv, PassesTrue
<1>13. /\ q \in Pass /\ q.op = op /\ q.at = "anchor" /\ q.st.stage = p.st.stage
       /\ q.sts = p.sts /\ q.unchanged = p.unchanged
  BY <1>2, <1>3, <1>7, <1>11 DEF Pass, Steps, Journal
<1>14. forkTip'[op] = tip
  BY <1>3, <1>5, <1>6
<1>15. PassTrue(q)'
  BY <1>2, <1>3, <1>7, <1>10, <1>13, <1>14 DEF PassTrue
<1>16. PassesTrue'
  BY <1>5, <1>9, <1>12, <1>15, OwnPass
<1>17. ASSUME NEW g \in Generations, Grounded(g) PROVE Grounded(g)'
  BY <1>9, <1>17, GroundedKept
<1>18. StatusTrue'
  <2>1. ASSUME NEW x \in Recoveries, NEW stage, stage = recovery'[x].stage
        PROVE  StageTrue(x, stage)'
    <3>1. StageTrue(x, stage)
      BY <1>5, <2>1 DEF RecoveryInv, StatusTrue
    <3>2. QED
      BY <1>9, <3>1, StageKept
  <2>2. QED
    BY <2>1 DEF StatusTrue
<1>19. InstalledTrue'
  <2>1. PICK c \in Generations : c = workload.cluster
    BY DEF RecoveryInv, Types, Workload
  <2>2. Grounded(c)'
    BY <1>17, <2>1 DEF RecoveryInv, InstalledTrue
  <2>3. QED
    BY <1>5, <2>1, <2>2 DEF RecoveryInv, InstalledTrue, Grounded
<1>20. ForksTrue'
  <2>1. SUFFICES ASSUME NEW x \in Recoveries, forkTip'[x] # None
                 PROVE  /\ SourceOf[x] \in sealedGens' /\ Grounded(SourceOf[x])'
                        /\ archiveTip'[SourceOf[x]] = forkTip'[x]
    BY DEF ForksTrue
  <2>2. SourceOf[x] \in Generations
    BY RecoveryAssumption
  <2>3. CASE forkTip[x] # None
    <3>1. /\ SourceOf[x] \in sealedGens /\ Grounded(SourceOf[x])
          /\ archiveTip[SourceOf[x]] = forkTip[x]
      BY <2>3 DEF RecoveryInv, ForksTrue
    <3>2. forkTip'[x] = forkTip[x]
      BY <1>3, <1>4, <1>5, <1>6, <2>3 DEF Immutable
    <3>3. archiveTip'[SourceOf[x]] = archiveTip[SourceOf[x]]
      <4>1. CASE forkTip[op] = None
        <5>1. SourceOf[x] # op
          BY <1>3, <3>1, <4>1 DEF Grounded
        <5>2. QED
          BY <1>5, <1>6, <2>2, <4>1, <5>1
      <4>2. CASE forkTip[op] # None
        BY <1>5, <4>2
      <4>3. QED
        BY <4>1, <4>2
    <3>4. QED
      BY <1>5, <1>17, <2>2, <3>1, <3>2, <3>3
  <2>4. CASE forkTip[x] = None
    <3>1. x = op
      BY <1>3, <1>5, <1>6, <2>1, <2>4
    <3>2. SourceOf[op] \in sealedGens /\ Grounded(SourceOf[op])
      BY <1>2, <1>3 DEF PassTrue
    <3>3. tip = archiveTip[SourceOf[op]] /\ forkTip'[x] = tip
      BY <1>4, <1>14, <2>4, <3>1 DEF Immutable
    <3>4. archiveTip'[SourceOf[op]] = tip
      BY <1>3, <1>5, <1>6, <2>4, <3>1, <3>3
    <3>5. QED
      BY <1>3, <1>5, <1>17, <3>1, <3>2, <3>3, <3>4
  <2>5. QED
    BY <2>3, <2>4
<1>21. AcksTrue'
  <2>1. SUFFICES ASSUME NEW g \in Generations
                 PROVE  /\ ackedTip'[g] <= archiveTip'[g]
                        /\ ~Grounded(g)' => ackedTip'[g] = 0
    BY DEF AcksTrue
  <2>2. ackedTip[g] <= archiveTip[g] /\ (~Grounded(g) => ackedTip[g] = 0)
    BY DEF RecoveryInv, AcksTrue
  <2>3. CASE g = op /\ forkTip[op] = None
    <3>1. ~Grounded(op)
      BY <1>3, <2>3 DEF Grounded
    <3>2. ackedTip'[g] = 0 /\ archiveTip'[g] = tip
      BY <1>3, <1>5, <1>6, <2>2, <2>3, <3>1
    <3>3. QED
      BY <1>7, <3>2
  <2>4. CASE ~(g = op /\ forkTip[op] = None)
    BY <1>5, <1>6, <1>17, <2>2, <2>4
  <2>5. QED
    BY <2>3, <2>4
<1>22. QED
  BY <1>8, <1>16, <1>18, <1>19, <1>20, <1>21 DEF RecoveryInv

-----------------------------------------------------------------------------
\* A write of the StatefulSet: everybody else's reading of it is out of date, and
\* the generation it installs must have an archive and be known to the anchor.
Installable(w) ==
    /\ livePods \subseteq {w.cluster}
    /\ Grounded(w.cluster)
    /\ w.cluster \in Lineage[anchorRec.binding]

LEMMA WorkloadStep ==
    ASSUME RecoveryInv, PassesTrue', workload' \in Workload, Installable(workload'),
           UNCHANGED <<livePods, recovery, successors, sealedGens, archiveTip, ackedTip,
                       forkTip, credentials, anchorRec>>
    PROVE  RecoveryInv'
<1>1. Types'
  BY DEF RecoveryInv, Types
<1>2. StatusTrue' /\ ForksTrue' /\ AcksTrue'
  BY DEF RecoveryInv, StatusTrue, StageTrue, Preserved, ForksTrue, AcksTrue, Grounded
<1>3. InstalledTrue'
  BY DEF Installable, InstalledTrue, Grounded
<1>4. QED
  BY <1>1, <1>2, <1>3 DEF RecoveryInv

\* The write of a pass, refused if somebody wrote the StatefulSet since it was read.
LEMMA PutWorkloadInv ==
    ASSUME RecoveryInv, NEW o \in Operators, NEW w, NEW next, PutWorkload(o, w, next),
           passes[o].unchanged => w \in Workload /\ Installable(w),
           NEW q, q = [passes[o] EXCEPT !.at = next, !.sts = w],
           next = "end" \/ (workload' = w => PassTrue(q)'),
           UNCHANGED <<livePods, recovery, successors, sealedGens, archiveTip, ackedTip,
                       forkTip, credentials, anchorRec>>
    PROVE  RecoveryInv'
<1>1. Keeps
  BY QuietKeeps
<1>2. CASE ~passes[o].unchanged
  <2>1. passes' = [passes EXCEPT ![o] = NoPass] /\ workload' = workload
    BY <1>2 DEF PutWorkload, EndPass
  <2>2. QED
    BY <1>1, <2>1, OwnPass, QuietStep
<1>3. CASE passes[o].unchanged
  <2>1. workload' = w
    BY <1>3 DEF PutWorkload
  <2>2. passes' = [r \in Operators |->
                     IF r = o THEN IF next = "end" THEN NoPass ELSE q
                     ELSE Outdated(passes[r], "unchanged")]
    BY <1>3 DEF PutWorkload
  <2>3. passes' = [r \in Operators |-> passes'[r]]
    BY <2>2
  <2>4. \A r \in Operators :
              \/ passes'[r] = NoPass
              \/ passes'[r] = Outdated(passes[r], "unchanged")
              \/ \A p : p = passes'[r] => PassTrue(p)'
    BY <2>1, <2>2
  <2>5. PassesTrue'
    BY <1>1, <2>3, <2>4, PassesKept DEF RecoveryInv
  <2>6. QED
    BY <1>3, <2>1, <2>5, WorkloadStep
<1>4. QED
  BY <1>2, <1>3

\* The workload a pass read, with one field changed, stays installable.
LEMMA ReadIsInstallable ==
    ASSUME RecoveryInv, NEW p, PassTrue(p), p.unchanged, NEW w, w.cluster = p.sts.cluster
    PROVE  Installable(w)
BY DEF RecoveryInv, InstalledTrue, PassTrue, Installable, Grounded

LEMMA ClaimStatefulSetInv ==
    ASSUME RecoveryInv, NEW o \in Operators, ClaimStatefulSet(o)
    PROVE  RecoveryInv'
<1>1. PICK p : p = passes[o]
  OBVIOUS
<1>2. PICK step : step = p.st.stage
  OBVIOUS
<1>3. /\ PassTrue(p) /\ p \in Pass /\ p.at = "claim" /\ p.op \in Recoveries
      /\ SourceOf[p.op] \in Generations
  BY <1>1, PassFacts DEF ClaimStatefulSet
<1>4. /\ p.sts \in Workload /\ p.sts.cluster = SourceOf[p.op] /\ Grounded(SourceOf[p.op])
      /\ step \in {"Reserved", "Sealed", "Stopping"}
  BY <1>2, <1>3 DEF PassTrue
<1>5. UNCHANGED <<livePods, recovery, successors, sealedGens, archiveTip, ackedTip,
                  forkTip, credentials, anchorRec>>
  BY DEF ClaimStatefulSet, bucketVars, envVars
<1>6. Keeps
  BY <1>5, QuietKeeps
<1>7. CASE p.sts.owner = p.op
  <2>1. workload' = workload /\ passes' = [passes EXCEPT ![o].at = step]
    <3>1. p.op # None
      BY <1>3, RecoveryAssumption DEF Generations
    <3>2. QED
      BY <1>1, <1>2, <1>7, <3>1 DEF ClaimStatefulSet, GoTo
  <2>2. PICK q : q = [p EXCEPT !.at = step]
    OBVIOUS
  <2>3. passes' = [passes EXCEPT ![o] = q]
    BY <1>1, <2>1, <2>2 DEF RecoveryInv, PassesTrue
  <2>4. /\ q \in Pass /\ q.op = p.op /\ q.at = step /\ q.st = p.st
        /\ q.sts = p.sts /\ q.unchanged = p.unchanged
    BY <1>3, <1>4, <2>2 DEF Pass, Steps, Stages
  <2>5. PassTrue(q)
    BY <1>2, <1>3, <1>4, <1>7, <2>4 DEF PassTrue
  <2>6. PassTrue(q)'
    BY <1>5, <1>6, <2>1, <2>5, PassKept
  <2>7. QED
    BY <1>5, <1>6, <2>1, <2>3, <2>6, OwnPass, QuietStep
<1>8. CASE p.sts.owner # p.op /\ p.sts.owner = None
  <2>1. PICK w : w = [p.sts EXCEPT !.owner = p.op]
    OBVIOUS
  <2>2. PutWorkload(o, w, step)
    BY <1>1, <1>2, <1>8, <2>1 DEF ClaimStatefulSet
  <2>3. w \in Workload /\ w.cluster = p.sts.cluster /\ w.owner = p.op
    BY <1>3, <1>4, <2>1 DEF Workload
  <2>4. PICK q : q = [p EXCEPT !.at = step, !.sts = w]
    OBVIOUS
  <2>5. /\ q \in Pass /\ q.op = p.op /\ q.at = step /\ q.st = p.st
        /\ q.sts = w /\ q.unchanged = p.unchanged
    BY <1>3, <1>4, <2>3, <2>4 DEF Pass, Steps, Stages
  <2>6. StageTrue(p.op, p.st.stage)'
    BY <1>3, <1>6, StageKept DEF PassTrue
  <2>7. Grounded(SourceOf[p.op])'
    BY <1>3, <1>4, <1>6, GroundedKept
  <2>8. ASSUME workload' = w PROVE PassTrue(q)'
    BY <1>2, <1>4, <2>3, <2>5, <2>6, <2>7, <2>8 DEF PassTrue
  <2>9. p.unchanged => Installable(w)
    BY <1>3, <2>3, ReadIsInstallable
  <2>10. QED
    BY <1>1, <1>5, <2>2, <2>3, <2>4, <2>8, <2>9, PutWorkloadInv
<1>9. CASE p.sts.owner # p.op /\ p.sts.owner # None
  <2>1. workload' = workload /\ passes' = [passes EXCEPT ![o] = NoPass]
    BY <1>1, <1>9 DEF ClaimStatefulSet, EndPass
  <2>2. QED
    BY <1>5, <1>6, <2>1, OwnPass, QuietStep
<1>10. QED
  BY <1>7, <1>8, <1>9

\* Scaling down and giving the StatefulSet up end the pass.
LEMMA ScaleReleaseInv ==
    ASSUME RecoveryInv, NEW o \in Operators, ScaleDown(o) \/ ReleaseCompleted(o)
    PROVE  RecoveryInv'
<1>1. PICK p : p = passes[o]
  OBVIOUS
<1>2. /\ PassTrue(p) /\ p.at # "listed"
  BY <1>1, PassFacts DEF ScaleDown, ReleaseCompleted
<1>3. UNCHANGED <<livePods, recovery, successors, sealedGens, archiveTip, ackedTip,
                  forkTip, credentials, anchorRec>>
  BY DEF ScaleDown, ReleaseCompleted, bucketVars, envVars
<1>4. p.sts \in Workload
  BY <1>2 DEF PassTrue
<1>5. PICK w : /\ PutWorkload(o, w, "end")
               /\ w = [p.sts EXCEPT !.up = FALSE] \/ w = [p.sts EXCEPT !.owner = None]
  BY <1>1 DEF ScaleDown, ReleaseCompleted
<1>6. w \in Workload /\ w.cluster = p.sts.cluster
  BY <1>4, <1>5 DEF Workload
<1>7. p.unchanged => Installable(w)
  BY <1>2, <1>6, ReadIsInstallable
<1>8. PICK q : q = [passes[o] EXCEPT !.at = "end", !.sts = w]
  OBVIOUS
<1>9. QED
  BY <1>1, <1>3, <1>5, <1>6, <1>7, <1>8, PutWorkloadInv

\* The target is installed while no Pod runs, from a preserved source.
LEMMA ActivateTargetInv ==
    ASSUME RecoveryInv, NEW o \in Operators, ActivateTarget(o)
    PROVE  RecoveryInv'
<1>1. PICK p : p = passes[o]
  OBVIOUS
<1>2. /\ PassTrue(p) /\ p \in Pass /\ p.at = "activate" /\ p.op \in Recoveries
  BY <1>1, PassFacts DEF ActivateTarget
<1>3. UNCHANGED <<livePods, recovery, successors, sealedGens, archiveTip, ackedTip,
                  forkTip, credentials, anchorRec>>
  BY DEF ActivateTarget, bucketVars, envVars
<1>4. Keeps
  BY <1>3, QuietKeeps
<1>5. /\ p.sts \in Workload /\ p.op \in Generations /\ p.st.stage \in {"Starting", "Restarted"}
      /\ Preserved(p.op) /\ (p.unchanged => livePods = {})
  BY <1>2 DEF PassTrue, StageTrue, Generations
<1>6. PICK w : w = [p.sts EXCEPT !.cluster = p.op, !.up = TRUE]
  OBVIOUS
<1>7. PutWorkload(o, w, "started")
  BY <1>1, <1>6 DEF ActivateTarget
<1>8. w \in Workload /\ w.cluster = p.op
  BY <1>5, <1>6 DEF Workload
<1>9. p.unchanged => Installable(w)
  BY <1>5, <1>8 DEF Installable, Preserved, Grounded
<1>10. PICK q : q = [p EXCEPT !.at = "started", !.sts = w]
  OBVIOUS
<1>11. /\ q \in Pass /\ q.op = p.op /\ q.at = "started" /\ q.st = p.st
       /\ q.sts = w /\ q.unchanged = p.unchanged
  BY <1>2, <1>8, <1>10 DEF Pass, Steps
<1>12. StageTrue(p.op, p.st.stage)'
  BY <1>2, <1>4, StageKept DEF PassTrue
<1>13. ASSUME workload' = w PROVE PassTrue(q)'
  BY <1>5, <1>8, <1>11, <1>12, <1>13 DEF PassTrue
<1>14. QED
  BY <1>1, <1>3, <1>7, <1>8, <1>9, <1>10, <1>13, PutWorkloadInv

-----------------------------------------------------------------------------
\* The steps of everybody else.
LEMMA EditWorkloadInv ==
    ASSUME RecoveryInv, Rescale \/ EditTemplate
    PROVE  RecoveryInv'
<1>1. /\ passes' = [o \in Operators |-> Outdated(passes[o], "unchanged")]
      /\ UNCHANGED <<livePods, recovery, successors, sealedGens, archiveTip, ackedTip,
                     forkTip, credentials, anchorRec>>
  BY DEF Rescale, EditTemplate, EditWorkload, bucketVars
<1>2. Keeps
  BY <1>1, QuietKeeps
<1>3. workload \in Workload
  BY DEF RecoveryInv, Types
<1>4. \/ workload' = [workload EXCEPT !.up = TRUE]
      \/ workload' = [workload EXCEPT !.contract = ~@]
  BY DEF Rescale, EditTemplate, EditWorkload
<1>5. workload' \in Workload /\ workload'.cluster = workload.cluster
  BY <1>3, <1>4 DEF Workload
<1>6. Installable(workload')
  BY <1>5 DEF RecoveryInv, InstalledTrue, Installable, Grounded
<1>7. PassesTrue'
  BY <1>1, <1>2, PassesKept DEF RecoveryInv
<1>8. QED
  BY <1>1, <1>5, <1>6, <1>7, WorkloadStep

\* Pods appear only of the installed generation; a pass that is about to install
\* the target has read a StatefulSet that is scaled down.
LEMMA PodsInv ==
    ASSUME RecoveryInv, PodsStart \/ PodsStop
    PROVE  RecoveryInv'
<1>1. UNCHANGED <<workload, recovery, successors, sealedGens, archiveTip, ackedTip,
                  forkTip, credentials, anchorRec, passes>>
  BY DEF PodsStart, PodsStop, bucketVars
<1>2. workload.cluster \in Generations /\ livePods \subseteq Generations
  BY DEF RecoveryInv, Types, Workload
<1>3. livePods' \subseteq {workload.cluster}
  BY DEF RecoveryInv, InstalledTrue, PodsStart, PodsStop
<1>4. Types'
  BY <1>1, <1>2, <1>3 DEF RecoveryInv, Types
<1>5. PassesTrue'
  <2>1. SUFFICES ASSUME NEW o \in Operators, passes[o] # NoPass, NEW p, p = passes[o]
                 PROVE  PassTrue(p)'
    BY <1>1 DEF RecoveryInv, PassesTrue
  <2>2. PassTrue(p)
    BY <2>1 DEF RecoveryInv, PassesTrue
  <2>3. p.at = "activate" /\ p.unchanged => livePods' = {}
    BY <2>2 DEF PassTrue, PodsStart, PodsStop
  <2>4. QED
    BY <1>1, <2>2, <2>3 DEF PassTrue, StageTrue, Preserved, Grounded, ReservationHeld
<1>6. InstalledTrue'
  BY <1>1, <1>3 DEF RecoveryInv, InstalledTrue, Grounded
<1>7. StatusTrue' /\ ForksTrue' /\ AcksTrue'
  BY <1>1 DEF RecoveryInv, StatusTrue, StageTrue, Preserved, ForksTrue, AcksTrue, Grounded
<1>8. QED
  BY <1>4, <1>5, <1>6, <1>7 DEF RecoveryInv

\* The archive of a source that was forked is sealed, so only others grow.
LEMMA PublishInv ==
    ASSUME RecoveryInv, NEW g \in Generations, Publish(g) \/ Acknowledge(g)
    PROVE  RecoveryInv'
<1>1. UNCHANGED <<workload, livePods, recovery, successors, sealedGens, forkTip,
                  credentials, anchorRec, passes>>
  BY DEF Publish, Acknowledge
<1>2. archiveTip \in [Generations -> Nat] /\ ackedTip \in [Generations -> Nat]
  BY DEF RecoveryInv, Types
<1>3. archiveTip' \in [Generations -> Nat] /\ ackedTip' \in [Generations -> Nat]
  BY <1>2 DEF Publish, Acknowledge
<1>4. Types'
  BY <1>1, <1>3 DEF RecoveryInv, Types
<1>5. PassesTrue'
  BY <1>1, QuietKeeps, PassesKept DEF RecoveryInv, PassesTrue
<1>6. StatusTrue' /\ InstalledTrue'
  BY <1>1 DEF RecoveryInv, StatusTrue, StageTrue, Preserved, InstalledTrue, Grounded
<1>7. g \in livePods /\ Grounded(g)
  BY DEF RecoveryInv, InstalledTrue, Publish, Acknowledge
<1>8. ForksTrue'
  <2>1. SUFFICES ASSUME NEW x \in Recoveries, forkTip[x] # None
                 PROVE  archiveTip'[SourceOf[x]] = archiveTip[SourceOf[x]]
    BY <1>1 DEF RecoveryInv, ForksTrue, Grounded
  <2>2. SourceOf[x] \in Generations /\ SourceOf[x] \in sealedGens
    BY <2>1, RecoveryAssumption DEF RecoveryInv, ForksTrue
  <2>3. QED
    BY <1>2, <2>2 DEF Publish, Acknowledge
<1>9. AcksTrue'
  <2>1. SUFFICES ASSUME NEW h \in Generations
                 PROVE  /\ ackedTip'[h] <= archiveTip'[h]
                        /\ ~Grounded(h) => ackedTip'[h] = 0
    BY <1>1 DEF AcksTrue, Grounded
  <2>2. ackedTip[h] <= archiveTip[h] /\ (~Grounded(h) => ackedTip[h] = 0)
    BY DEF RecoveryInv, AcksTrue
  <2>3. CASE Publish(g)
    BY <1>2, <2>2, <2>3 DEF Publish
  <2>4. CASE Acknowledge(g)
    BY <1>2, <1>7, <2>2, <2>4 DEF Acknowledge
  <2>5. QED
    BY <2>3, <2>4
<1>10. QED
  BY <1>4, <1>5, <1>6, <1>8, <1>9 DEF RecoveryInv

\* A fence or a mark in the anchor touches nothing the invariant is about.
LEMMA OutsideInv ==
    ASSUME RecoveryInv,
           \/ \E op \in Recoveries : ConfirmFence(op)
           \/ \E g \in Generations : UpdateApplication(g)
    PROVE  RecoveryInv'
<1>1. UNCHANGED <<workload, livePods, recovery, successors, sealedGens, archiveTip, ackedTip,
                  forkTip, credentials, passes>>
  BY DEF ConfirmFence, UpdateApplication, bucketVars
<1>2. anchorRec \in [binding : Generations, transition : Recoveries \cup {None},
                     last : Recoveries \cup {None}, pending : BOOLEAN]
  BY DEF RecoveryInv, Types
<1>3. anchorRec' = anchorRec \/ anchorRec' = [anchorRec EXCEPT !.pending = ~@]
  BY DEF ConfirmFence, UpdateApplication
<1>4. /\ anchorRec' \in [binding : Generations, transition : Recoveries \cup {None},
                         last : Recoveries \cup {None}, pending : BOOLEAN]
      /\ anchorRec'.binding = anchorRec.binding
  BY <1>2, <1>3
<1>5. Types' /\ Keeps
  BY <1>1, <1>4 DEF RecoveryInv, Types, Keeps
<1>6. PassesTrue'
  BY <1>1, <1>5, PassesKept DEF RecoveryInv, PassesTrue
<1>7. QED
  BY <1>1, <1>5, <1>6, GrowStep

-----------------------------------------------------------------------------
LEMMA RecoveryInitInv ==
    ASSUME RecoveryInit PROVE RecoveryInv
<1>1. Genesis \in Generations /\ None \notin Recoveries
  BY RecoveryAssumption DEF Generations
<1>2. Types
  BY <1>1 DEF RecoveryInit, Types, Workload, Journal, Stages
<1>3. PassesTrue
  BY DEF RecoveryInit, PassesTrue
<1>4. StatusTrue
  BY DEF RecoveryInit, StatusTrue, StageTrue
<1>5. InstalledTrue
  BY <1>1, LineageGrows DEF RecoveryInit, InstalledTrue, Grounded
<1>6. ForksTrue /\ AcksTrue
  <2>1. ForksTrue
    BY DEF RecoveryInit, ForksTrue
  <2>2. \A g \in Generations : ackedTip[g] = 0 /\ archiveTip[g] \in {0, 1}
    BY DEF RecoveryInit
  <2>3. AcksTrue
    BY <2>2 DEF AcksTrue
  <2>4. QED
    BY <2>1, <2>3
<1>7. QED
  BY <1>2, <1>3, <1>4, <1>5, <1>6 DEF RecoveryInv

LEMMA RecoveryStutter ==
    ASSUME RecoveryInv, UNCHANGED recoveryVars PROVE RecoveryInv'
BY QuietKeeps, PassesKept, QuietStep DEF recoveryVars, RecoveryInv, PassesTrue

LEMMA RecoveryStepInv ==
    ASSUME RecoveryInv, [RecoveryNext]_recoveryVars PROVE RecoveryInv'
<1>1. CASE UNCHANGED recoveryVars
  BY <1>1, RecoveryStutter
<1>2. ASSUME NEW o \in Operators, NEW op \in Recoveries, ListResource(o, op)
      PROVE  RecoveryInv'
  BY <1>2, ListResourceInv
<1>3. ASSUME NEW o \in Operators,
             \/ ReadWorkload(o) \/ AbandonPass(o) \/ Record(o)
             \/ Reserve(o) \/ ClaimStatefulSet(o) \/ SealSource(o)
             \/ TargetCredentials(o) \/ ForkArchive(o)
             \/ AnchorReserve(o) \/ AnchorCommit(o) \/ AnchorReceipt(o)
             \/ ScaleDown(o) \/ SourceStopped(o)
             \/ VerifyTarget(o) \/ ActivateTarget(o) \/ Started(o)
             \/ ObserveQuorum(o) \/ ReleaseCompleted(o)
      PROVE  RecoveryInv'
  BY <1>3, ReadWorkloadInv, AbandonPassInv, RecordInv, ReserveInv, ClaimStatefulSetInv,
     SealSourceInv, TargetCredentialsInv, ForkArchiveInv, AnchorInv, AnchorReceiptInv,
     ScaleReleaseInv, ObserveInv, VerifyTargetInv, ActivateTargetInv
<1>4. CASE PodsStart \/ PodsStop \/ Rescale \/ EditTemplate
  BY <1>4, PodsInv, EditWorkloadInv
<1>5. ASSUME NEW g \in Generations, Publish(g) \/ Acknowledge(g)
      PROVE  RecoveryInv'
  BY <1>5, PublishInv
<1>6. QED
  BY <1>1, <1>2, <1>3, <1>4, <1>5, OutsideInv DEF RecoveryNext

-----------------------------------------------------------------------------
\* The invariant holds in every reachable state.
THEOREM RecoveryInvariant == RecoverySpec => []RecoveryInv
BY RecoveryInitInv, RecoveryStepInv, PTL DEF RecoverySpec

\* Recovery hands the cluster over safely, for every number of recoveries, operators,
\* writes and edits: one generation runs at a time, a fork holds every write its source
\* acknowledged, and the anchor is bound to a generation before its Pods run.
THEOREM HandoverIsSafe == RecoverySpec => []HandoverSafe
<1>1. ASSUME RecoveryInv PROVE HandoverSafe
  <2>1. OneGenerationRuns
    <3>1. livePods = {} \/ livePods = {workload.cluster}
      BY <1>1 DEF RecoveryInv, InstalledTrue
    <3>2. Cardinality({}) = 0 /\ Cardinality({workload.cluster}) = 1
      BY FS_EmptySet, FS_Singleton
    <3>3. QED
      BY <3>1, <3>2 DEF OneGenerationRuns
  <2>2. AckedWritesForked
    <3>1. \A op \in Recoveries : SourceOf[op] \in Generations
      BY RecoveryAssumption
    <3>2. QED
      BY <1>1, <3>1 DEF RecoveryInv, ForksTrue, AcksTrue, AckedWritesForked
  <2>3. AnchorFollowsRunning
    BY <1>1 DEF RecoveryInv, InstalledTrue, AnchorFollowsRunning
  <2>4. QED
    BY <2>1, <2>2, <2>3 DEF HandoverSafe
<1>2. QED
  BY <1>1, RecoveryInvariant, PTL

-----------------------------------------------------------------------------
\* Only a pass's scaling down clears the replicas, and only its activation changes
\* the generation; both are taken on an unchanged StatefulSet.
LEMMA WorkloadWrites ==
    ASSUME RecoveryInv, RecoveryNext, workload' # workload
    PROVE  \/ /\ workload'.up = workload.up \/ workload'.up
              /\ workload'.cluster = workload.cluster
           \/ \E o \in Operators :
                 /\ passes[o] # NoPass /\ passes[o].unchanged
                 /\ \/ /\ PassAt(o, "Stopping") /\ workload'.cluster = workload.cluster
                    \/ /\ PassAt(o, "activate") /\ workload'.cluster = passes[o].op
                       /\ workload'.up
<1>1. workload \in Workload
  BY DEF RecoveryInv, Types
<1>2. ASSUME NEW o \in Operators, ClaimStatefulSet(o) \/ ReleaseCompleted(o)
      PROVE  workload'.up = workload.up /\ workload'.cluster = workload.cluster
  <2>1. PassTrue(passes[o])
    BY <1>2, PassFacts DEF ClaimStatefulSet, ReleaseCompleted
  <2>2. /\ passes[o].unchanged
        /\ \/ workload' = [passes[o].sts EXCEPT !.owner = passes[o].op]
           \/ workload' = [passes[o].sts EXCEPT !.owner = None]
    <3>1. CASE ReleaseCompleted(o)
      BY <3>1 DEF ReleaseCompleted, PutWorkload
    <3>2. CASE ClaimStatefulSet(o)
      <4>1. \/ UNCHANGED workload
            \/ PutWorkload(o, [passes[o].sts EXCEPT !.owner = passes[o].op], passes[o].st.stage)
        BY <3>2 DEF ClaimStatefulSet
      <4>2. QED
        BY <4>1 DEF PutWorkload
    <3>3. QED
      BY <1>2, <3>1, <3>2
  <2>3. passes[o].sts = workload
    BY <2>1, <2>2 DEF PassTrue
  <2>4. QED
    BY <1>1, <2>2, <2>3 DEF Workload
<1>3. ASSUME NEW o \in Operators, ScaleDown(o)
      PROVE  /\ passes[o] # NoPass /\ passes[o].unchanged
             /\ PassAt(o, "Stopping") /\ workload'.cluster = workload.cluster
  <2>1. PassTrue(passes[o]) /\ passes[o] # NoPass
    BY <1>3, PassFacts DEF ScaleDown
  <2>2. passes[o].unchanged /\ workload' = [passes[o].sts EXCEPT !.up = FALSE]
    BY <1>3 DEF ScaleDown, PutWorkload
  <2>3. passes[o].sts = workload
    BY <2>1, <2>2 DEF PassTrue
  <2>4. QED
    BY <1>1, <1>3, <2>1, <2>2, <2>3 DEF Workload, ScaleDown
<1>4. ASSUME NEW o \in Operators, ActivateTarget(o)
      PROVE  /\ passes[o] # NoPass /\ passes[o].unchanged
             /\ PassAt(o, "activate") /\ workload'.cluster = passes[o].op /\ workload'.up
  <2>1. PassTrue(passes[o]) /\ passes[o] # NoPass
    BY <1>4, PassFacts DEF ActivateTarget
  <2>2. /\ passes[o].unchanged
        /\ workload' = [passes[o].sts EXCEPT !.cluster = passes[o].op, !.up = TRUE]
    BY <1>4 DEF ActivateTarget, PutWorkload
  <2>3. passes[o].sts = workload
    BY <2>1, <2>2 DEF PassTrue
  <2>4. QED
    BY <1>1, <1>4, <2>1, <2>2, <2>3 DEF Workload, ActivateTarget
<1>5. ASSUME Rescale \/ EditTemplate
      PROVE  /\ workload'.up = workload.up \/ workload'.up
             /\ workload'.cluster = workload.cluster
  BY <1>1, <1>5 DEF Rescale, EditTemplate, EditWorkload, Workload
<1>6. ASSUME NEW o \in Operators,
             \/ ReadWorkload(o) \/ AbandonPass(o) \/ Record(o) \/ Reserve(o)
             \/ SealSource(o) \/ TargetCredentials(o) \/ ForkArchive(o)
             \/ AnchorReserve(o) \/ AnchorCommit(o) \/ AnchorReceipt(o)
             \/ SourceStopped(o) \/ VerifyTarget(o) \/ Started(o) \/ ObserveQuorum(o)
      PROVE  FALSE
  BY <1>6 DEF ReadWorkload, AbandonPass, Record, Reserve, SealSource, TargetCredentials,
       ForkArchive, AnchorReserve, AnchorCommit, AnchorReceipt, SourceStopped, VerifyTarget,
       Started, ObserveQuorum
<1>7. ASSUME \/ \E o \in Operators, op \in Recoveries : ListResource(o, op)
             \/ \E op \in Recoveries : ConfirmFence(op)
             \/ PodsStart \/ PodsStop
             \/ \E g \in Generations : Publish(g) \/ Acknowledge(g) \/ UpdateApplication(g)
      PROVE  FALSE
  BY <1>7 DEF ListResource, ConfirmFence, PodsStart, PodsStop, Publish, Acknowledge,
       UpdateApplication
<1>8. QED
  BY <1>2, <1>3, <1>4, <1>5, <1>6, <1>7 DEF RecoveryNext

\* A late reconciler is harmless: a generation that runs is stopped only by the
\* recovery that owns the StatefulSet, whose source it is and whose fork, credentials
\* and anchor binding are in place, and it is replaced only by its one reserved
\* successor, from a template that keeps the contract, with no Pod running.
THEOREM LateReconcilersAreHarmless == RecoverySpec => LateReconcilersHarmless
<1>1. ASSUME RecoveryInv, [RecoveryNext]_recoveryVars
      PROVE  [StopsOnlyPreserved /\ StartsOnlySuccessor]_recoveryVars
  <2>1. CASE UNCHANGED recoveryVars
    BY <2>1
  <2>2. CASE workload' = workload
    BY <2>2 DEF StopsOnlyPreserved, StartsOnlySuccessor
  <2>3. CASE RecoveryNext /\ workload' # workload
    <3>1. CASE /\ workload'.up = workload.up \/ workload'.up
               /\ workload'.cluster = workload.cluster
      BY <3>1 DEF StopsOnlyPreserved, StartsOnlySuccessor
    <3>2. ASSUME NEW o \in Operators, passes[o] # NoPass, passes[o].unchanged
          PROVE  PassTrue(passes[o]) /\ passes[o].sts = workload /\ passes[o].op \in Recoveries
      BY <1>1, <3>2 DEF RecoveryInv, PassesTrue, PassTrue, Pass
    <3>3. ASSUME NEW o \in Operators, passes[o] # NoPass, passes[o].unchanged,
                 PassAt(o, "Stopping"), workload'.cluster = workload.cluster
          PROVE  StopsOnlyPreserved /\ StartsOnlySuccessor
      <4>1. /\ workload.owner = passes[o].op /\ workload.cluster = SourceOf[passes[o].op]
            /\ passes[o].st.stage = "Stopping"
        BY <3>2, <3>3 DEF PassTrue, PassAt
      <4>2. Preserved(passes[o].op)
        BY <3>2, <3>3, <4>1 DEF PassTrue, StageTrue
      <4>3. passes[o].op # None
        BY <3>3 DEF PassAt
      <4>4. QED
        BY <3>3, <4>1, <4>2, <4>3 DEF StopsOnlyPreserved, StartsOnlySuccessor, Preserved
    <3>4. ASSUME NEW o \in Operators, passes[o] # NoPass, passes[o].unchanged,
                 PassAt(o, "activate"), workload'.cluster = passes[o].op, workload'.up
          PROVE  StopsOnlyPreserved /\ StartsOnlySuccessor
      <4>1. /\ workload.cluster = SourceOf[passes[o].op] /\ workload.contract
            /\ ReservationHeld(passes[o].op) /\ livePods = {}
        BY <3>2, <3>4 DEF PassTrue, PassAt
      <4>2. QED
        BY <3>4, <4>1 DEF StopsOnlyPreserved, StartsOnlySuccessor, ReservationHeld
    <3>5. QED
      BY <1>1, <2>3, <3>1, <3>3, <3>4, WorkloadWrites
  <2>4. QED
    BY <1>1, <2>1, <2>2, <2>3
<1>2. QED
  BY <1>1, RecoveryInvariant, PTL DEF RecoverySpec, LateReconcilersHarmless

-----------------------------------------------------------------------------
(* Automatic recovery: what a control record, a pass and a child may hold. *)

\* control.json.
ControlRecord ==
    [voters : SUBSET Nodes, known : SUBSET Nodes, history : SUBSET Nodes,
     retired : SUBSET Nodes, suspected : BOOLEAN, seq : 0..MaxIncidents, generation : {1, 2},
     intent : IntentRecord \cup {Nothing}]

\* A pass over the cluster, and one over a child.
ClusterPass == [kind : {"cluster", "provisioned", "created"}, ctl : ControlRecord, fresh : BOOLEAN]
ChildPass == [kind : {"listed", "authorized"}, seq : Incidents, of : ChildRecord, fresh : BOOLEAN]

\* The type invariant.
AutoTypes ==
    /\ control \in ControlRecord
    /\ child \in [Incidents -> ChildRecord \cup {Nothing}]
    /\ proc \in [Nodes -> {"up", "dark", "absent", "stopped"}]
    /\ learnerPods \subseteq Learners /\ closed \subseteq Nodes
    /\ config \in [id : Nat, voters : SUBSET Nodes, pending : PendingChange \cup {Nothing},
                   abort : Nat]
    /\ work \in [Reconcilers -> {NoWork} \cup ClusterPass \cup ChildPass]

\* What reconciler o is passing over.
OnCluster(o) == work[o].kind \in {"cluster", "provisioned", "created"}
OnChild(o) == work[o].kind \in {"listed", "authorized"}

\* The whole generation is being given up, or was: nothing is repaired any more.
Gone == \/ control.generation = 2
        \/ control.intent # Nothing /\ control.intent.scope = "Generation"

\* An incident that ended.
Finished(k) == k < control.seq \/ (k = control.seq /\ control.intent = Nothing)

\* A learner that the record still answers for.
Accounted(l) ==
    \/ Gone \/ Over(l) \/ l \in config.voters \/ l \in control.history
    \/ control.intent # Nothing /\ l = LearnerOf(control)

\* A request that the membership refuses, and one that is not ahead of it.
Dead(add) == add.id < config.id \/ (add.id = config.id /\ add.abort < config.abort)
Past(add) == add.id < config.id \/ (add.id = config.id /\ add.abort <= config.abort)

\* Specifications of one incident follow each other.
Later(p, q) == \/ p.learner[2] < q.learner[2]
               \/ p.learner[2] = q.learner[2] /\ ~ p.abort /\ q.abort

\* A specification that intent s.intent has called for.
SpecOK(s, spec) ==
    /\ spec.scope = s.intent.scope
    /\ spec.scope = "Voter" =>
          /\ spec.learner \in Learners /\ spec.learner[1] = s.seq
          /\ \/ spec.learner[2] < s.intent.attempt
             \/ spec.learner[2] = s.intent.attempt /\ (spec.abort => s.intent.aborting)

\* The control record, or what a pass has loaded of it.
ViewOK(s) ==
    /\ s.seq <= control.seq
    /\ s.intent # Nothing =>
          /\ s.seq \in Incidents /\ s.intent.attempt \in 1..MaxAttempts
          /\ s.intent.scope = "Generation" => Gone /\ s.intent.failed = Nothing
          /\ s.intent.scope = "Voter" =>
                /\ s.intent.failed \in Nodes /\ s.intent.targets = {s.intent.failed}
                /\ \/ Gone \/ Over(s.intent.failed)
                   \/ control.intent # Nothing /\ control.intent.failed = s.intent.failed
          /\ s.intent.proof => FencedVoter(s.intent)
          /\ Accounted(LearnerOf(s))
          /\ s.intent.spec # Nothing => SpecOK(s, s.intent.spec)
          /\ s.intent.bound => s.intent.spec # Nothing /\ child[s.seq] # Nothing
          /\ s.intent.previous # Nothing => s.intent.bound
          /\ s.intent.previous # Nothing /\ s.intent.scope = "Voter" =>
                Later(s.intent.previous, s.intent.spec)

\* A pass over the cluster: what it loaded was true, and is the record while fresh.
ClusterOK(o) ==
    /\ ViewOK(work[o].ctl) /\ work[o].ctl.generation = 1
    /\ work[o].fresh => work[o].ctl = control
    /\ work[o].kind \in {"provisioned", "created"} => work[o].ctl.intent # Nothing
    /\ work[o].kind = "created" =>
          ~ work[o].ctl.intent.bound /\ child[work[o].ctl.seq] # Nothing

\* The child of incident k: its journal is not ahead of the membership, and is
\* left behind by it once the incident ended.
ChildOK(k) ==
    LET c == child[k] IN
    /\ k <= control.seq
    /\ c.remove # Nothing => Over(c.remove.node) /\ c.remove.id <= config.id
    /\ c.add # Nothing => Past(c.add) /\ c.add.learner \in Learners /\ c.add.learner[1] = k
    /\ c.spec.scope = "Generation" => Gone
    /\ c.spec.scope = "Voter" => c.spec.learner \in Learners /\ c.spec.learner[1] = k
    /\ ~ Gone /\ Finished(k) =>
          /\ c.phase = "Complete"
          /\ c.remove # Nothing => c.remove.id < config.id
          /\ c.add # Nothing => c.add.id < config.id

\* The children, of which an incident that ended has one.
ChildrenOK ==
    /\ \A k \in Incidents : child[k] # Nothing => ChildOK(k)
    /\ \A k \in Incidents : ~ Gone /\ Finished(k) => child[k] # Nothing

\* A pass over a child: what it read is the child's journal, or is refused.
PassOK(o) ==
    LET k == work[o].seq
        of == work[o].of
    IN  /\ child[k] # Nothing /\ k <= control.seq /\ of.phase # "Complete"
        /\ work[o].fresh => of = child[k]
        /\ of.remove # Nothing => of.remove = child[k].remove
        /\ of.add # Nothing =>
              /\ Past(of.add)
              /\ ~ Gone => Dead(of.add) \/ of.add = child[k].add
              /\ ~ Gone /\ Finished(k) => of.add.id < config.id
        /\ of.spec.scope = "Generation" => Gone
        /\ work[o].kind = "authorized" =>
              \/ Finished(k)
              \/ k = control.seq /\ control.intent # Nothing /\ control.intent.proof

\* The nodes: who left the membership is over, who has a Pod is answered for.
World ==
    /\ \A n \in BaseVoters \ config.voters : Over(n)
    /\ \A l \in control.retired : Over(l)
    /\ \A l \in Learners : proc[l] \in {"up", "dark"} => l \in learnerPods
    /\ \A l \in learnerPods : Accounted(l)
    /\ control.generation = 2 => control.intent = Nothing /\ \A n \in Nodes : Over(n)
    /\ config.pending # Nothing /\ config.pending.kind = "remove" => Over(config.pending.node)

\* The repair under way: its child and the voter it replaces.
Child == child[control.seq]
Failed == control.intent.failed

\* The failed voter is still a member.
Before ==
    /\ config.voters = control.voters
    /\ \/ config.pending = Nothing
       \/ /\ config.pending = [kind |-> "remove", node |-> Failed]
          /\ Child # Nothing /\ Child.remove # Nothing
    /\ Child # Nothing => Child.add = Nothing
    /\ \A o \in Reconcilers : OnChild(o) /\ work[o].seq = control.seq => work[o].of.add = Nothing

\* The removal took effect.
Removed == Child # Nothing /\ Child.remove # Nothing /\ Child.remove.id < config.id

\* The failed voter is gone, its successor is not a member yet.
Between ==
    /\ Removed
    /\ config.voters = control.voters \ {Failed}
    /\ \/ config.pending = Nothing
       \/ /\ Child.add # Nothing
          /\ config.pending = [kind |-> "add", node |-> Child.add.learner]
          /\ Child.add.id = config.id /\ Child.add.abort = config.abort

\* The successor is a member.
After ==
    /\ Removed
    /\ Child.add # Nothing /\ Child.add.id < config.id
    /\ config.abort = 0 /\ config.pending = Nothing
    /\ config.voters = (control.voters \ {Failed}) \cup {Child.add.learner}

\* What the child's journal says.
RepairJournal ==
    Child # Nothing =>
       /\ Child.remove # Nothing => Child.remove.node = Failed
       /\ Child.phase = "Complete" => After
       /\ Child.phase = "Aborted" /\ Child.add # Nothing =>
             Child.add.id = config.id /\ Child.add.abort < config.abort
       /\ Child.add # Nothing /\ Child.add.id = config.id /\ Child.add.abort = config.abort =>
             Child.add.learner \notin closed

\* A learner is fenced only when the child has given it up.
LearnersClosed ==
    \A l \in Learners : l \in closed =>
       /\ l[1] <= control.seq
       /\ l[1] = control.seq /\ control.intent # Nothing =>
             /\ Child # Nothing
             /\ \/ l[2] < Child.spec.learner[2]
                \/ l[2] = Child.spec.learner[2] /\ Child.spec.abort

\* A cluster whose generation is not given up is at one of these stages.
Staged ==
    /\ \A l \in Learners : l \in control.voters =>
          l[1] < control.seq \/ (l[1] = control.seq /\ control.intent = Nothing)
    /\ LearnersClosed
    /\ control.intent = Nothing =>
          /\ config.voters = control.voters /\ config.pending = Nothing
          /\ config.voters \cap closed = {}
    /\ control.intent # Nothing =>
          /\ Failed \in control.voters
          /\ config.voters \cap closed \subseteq {Failed}
          /\ Before \/ Between \/ After
          /\ RepairJournal

\* The inductive invariant of automatic recovery.
RepairInv ==
    /\ AutoTypes /\ World
    /\ ViewOK(control)
    /\ \A o \in Reconcilers : OnCluster(o) => ClusterOK(o)
    /\ ChildrenOK
    /\ \A o \in Reconcilers : OnChild(o) => PassOK(o)
    /\ ~ Gone => Staged

-----------------------------------------------------------------------------
(* Passes *)

\* What kind of pass is under way.
LEMMA PassTypes ==
    ASSUME AutoTypes, NEW o \in Reconcilers
    PROVE  /\ OnCluster(o) => work[o] \in ClusterPass
           /\ OnChild(o) => work[o] \in ChildPass
           /\ ~ (OnCluster(o) /\ OnChild(o))
<1>1. work[o] \in {NoWork} \cup ClusterPass \cup ChildPass
  BY DEF AutoTypes
<1>2. NoWork.kind = "none"
  BY DEF NoWork
<1>3. /\ \A w \in ClusterPass : w.kind \in {"cluster", "provisioned", "created"}
      /\ \A w \in ChildPass : w.kind \in {"listed", "authorized"}
  BY DEF ClusterPass, ChildPass
<1>4. QED
  BY <1>1, <1>2, <1>3 DEF OnCluster, OnChild

\* The passes of the others go on with what they have read.
Onward(q) ==
    /\ OnCluster(q)' => OnCluster(q)
    /\ OnChild(q)' => OnChild(q)
    /\ OnCluster(q) => /\ work'[q].kind = work[q].kind /\ work'[q].ctl = work[q].ctl
                       /\ work'[q].fresh => work[q].fresh
    /\ OnChild(q) => /\ work'[q].kind = work[q].kind /\ work'[q].seq = work[q].seq
                     /\ work'[q].of = work[q].of /\ (work'[q].fresh => work[q].fresh)

\* A save makes every other pass over the cluster late.
LEMMA PassedIs ==
    ASSUME AutoTypes, NEW o \in Reconcilers, work' = Passed(o)
    PROVE  /\ work' \in [Reconcilers -> {NoWork} \cup ClusterPass \cup ChildPass]
           /\ ~ OnCluster(o)' /\ ~ OnChild(o)'
           /\ \A q \in Reconcilers : q # o => Onward(q) /\ (OnCluster(q) => ~ work'[q].fresh)
<1>1. NoWork.kind = "none"
  BY DEF NoWork
<1>2. work'[o] = NoWork
  BY DEF Passed
<1>3. ASSUME NEW q \in Reconcilers, q # o
      PROVE  /\ work'[q] \in {NoWork} \cup ClusterPass \cup ChildPass
             /\ Onward(q) /\ (OnCluster(q) => ~ work'[q].fresh)
  <2>1. CASE OnCluster(q)
    <3>1. work[q] \in ClusterPass /\ ~ OnChild(q)
      BY <2>1, PassTypes
    <3>2. work'[q] = [work[q] EXCEPT !.fresh = FALSE]
      BY <1>3, <2>1 DEF Passed, OnCluster
    <3>3. /\ work'[q] \in ClusterPass /\ work'[q].kind = work[q].kind
          /\ work'[q].ctl = work[q].ctl /\ ~ work'[q].fresh
      BY <3>1, <3>2 DEF ClusterPass
    <3>4. QED
      BY <2>1, <3>1, <3>3 DEF Onward, OnCluster, OnChild
  <2>2. CASE ~ OnCluster(q)
    <3>1. work'[q] = work[q]
      BY <1>3, <2>2 DEF Passed, OnCluster
    <3>2. QED
      BY <2>2, <3>1 DEF AutoTypes, Onward, OnCluster, OnChild
  <2>3. QED
    BY <2>1, <2>2
<1>4. \A q \in Reconcilers : work'[q] \in {NoWork} \cup ClusterPass \cup ChildPass
  BY <1>2, <1>3
<1>5. work' \in [Reconcilers -> {NoWork} \cup ClusterPass \cup ChildPass]
  BY <1>4 DEF Passed
<1>6. QED
  BY <1>1, <1>2, <1>3, <1>5 DEF OnCluster, OnChild

\* A write of a child makes every other pass over it late.
LEMMA OutrunIs ==
    ASSUME AutoTypes, NEW o \in Reconcilers, NEW k, work' = Outrun(k, o)
    PROVE  /\ work' \in [Reconcilers -> {NoWork} \cup ClusterPass \cup ChildPass]
           /\ ~ OnCluster(o)' /\ ~ OnChild(o)'
           /\ \A q \in Reconcilers : q # o =>
                /\ Onward(q)
                /\ OnChild(q) /\ work[q].seq = k => ~ work'[q].fresh
<1>1. NoWork.kind = "none"
  BY DEF NoWork
<1>2. work'[o] = NoWork
  BY DEF Outrun
<1>3. ASSUME NEW q \in Reconcilers, q # o
      PROVE  /\ work'[q] \in {NoWork} \cup ClusterPass \cup ChildPass
             /\ Onward(q) /\ (OnChild(q) /\ work[q].seq = k => ~ work'[q].fresh)
  <2>1. CASE OnChild(q) /\ work[q].seq = k
    <3>1. work[q] \in ChildPass /\ ~ OnCluster(q)
      BY <2>1, PassTypes
    <3>2. work'[q] = [work[q] EXCEPT !.fresh = FALSE]
      BY <1>3, <2>1 DEF Outrun, OnChild
    <3>3. /\ work'[q] \in ChildPass /\ work'[q].kind = work[q].kind
          /\ work'[q].seq = work[q].seq /\ work'[q].of = work[q].of /\ ~ work'[q].fresh
      BY <3>1, <3>2 DEF ChildPass
    <3>4. QED
      BY <2>1, <3>1, <3>3 DEF Onward, OnCluster, OnChild
  <2>2. CASE ~ (OnChild(q) /\ work[q].seq = k)
    <3>1. work'[q] = work[q]
      BY <1>3, <2>2 DEF Outrun, OnChild
    <3>2. QED
      BY <2>2, <3>1 DEF AutoTypes, Onward, OnCluster, OnChild
  <2>3. QED
    BY <2>1, <2>2
<1>4. \A q \in Reconcilers : work'[q] \in {NoWork} \cup ClusterPass \cup ChildPass
  BY <1>2, <1>3
<1>5. work' \in [Reconcilers -> {NoWork} \cup ClusterPass \cup ChildPass]
  BY <1>4 DEF Outrun
<1>6. QED
  BY <1>1, <1>2, <1>3, <1>5 DEF OnCluster, OnChild

\* A pass changes, the others do not.
LEMMA WorkIs ==
    ASSUME AutoTypes, NEW o \in Reconcilers, NEW w \in {NoWork} \cup ClusterPass \cup ChildPass,
           work' = [work EXCEPT ![o] = w]
    PROVE  /\ work' \in [Reconcilers -> {NoWork} \cup ClusterPass \cup ChildPass]
           /\ work'[o] = w
           /\ \A q \in Reconcilers : q # o => work'[q] = work[q] /\ Onward(q)
BY DEF AutoTypes, Onward, OnCluster, OnChild

LEMMA IdleIs ==
    ASSUME AutoTypes, NEW o \in Reconcilers, work' = [work EXCEPT ![o] = NoWork]
    PROVE  /\ work' \in [Reconcilers -> {NoWork} \cup ClusterPass \cup ChildPass]
           /\ ~ OnCluster(o)' /\ ~ OnChild(o)'
           /\ \A q \in Reconcilers : q # o => work'[q] = work[q] /\ Onward(q)
<1>1. /\ work' \in [Reconcilers -> {NoWork} \cup ClusterPass \cup ChildPass]
      /\ work'[o] = NoWork
      /\ \A q \in Reconcilers : q # o => work'[q] = work[q] /\ Onward(q)
  BY WorkIs
<1>2. QED
  BY <1>1 DEF OnCluster, OnChild, NoWork

-----------------------------------------------------------------------------
(* What stays true *)

\* A fence holds for good.
Lasting ==
    /\ \A n \in Nodes : Over(n) => Over(n)'
    /\ Gone => Gone'
    /\ \A l \in Learners : Accounted(l) => Accounted(l)'
    /\ control.seq <= control'.seq
    /\ control.intent # Nothing /\ control.intent.scope = "Voter" =>
          \/ Gone' \/ \A n \in Nodes : n = Failed => Over(n)'
          \/ control'.intent # Nothing /\ control'.intent.failed = Failed
    /\ \A k \in Incidents : child[k] # Nothing => child'[k] # Nothing

\* What a pass has read stays true, however old it is.
LEMMA ViewStays ==
    ASSUME AutoTypes, ViewOK(control), NEW s \in ControlRecord, ViewOK(s), Lasting,
           control'.seq \in Nat
    PROVE  ViewOK(s)'
<1>1. s.seq <= control'.seq
  BY DEF ViewOK, Lasting, ControlRecord, AutoTypes
<1>2. CASE s.intent = Nothing
  BY <1>1, <1>2 DEF ViewOK
<1>3. CASE s.intent # Nothing
  <2>1. LearnerOf(s) \in Learners
    BY <1>3 DEF ViewOK, LearnerOf, Learners
  <2>2. s.intent.scope = "Generation" => Gone' /\ s.intent.failed = Nothing
    BY <1>3 DEF ViewOK, Lasting
  <2>3. ASSUME s.intent.scope = "Voter"
        PROVE  /\ s.intent.failed \in Nodes /\ s.intent.targets = {s.intent.failed}
               /\ \/ Gone' \/ Over(s.intent.failed)'
                  \/ control'.intent # Nothing /\ control'.intent.failed = s.intent.failed
    <3>1. /\ s.intent.failed \in Nodes /\ s.intent.targets = {s.intent.failed}
          /\ \/ Gone \/ Over(s.intent.failed)
             \/ control.intent # Nothing /\ control.intent.failed = s.intent.failed
      BY <1>3, <2>3 DEF ViewOK
    <3>2. ASSUME control.intent # Nothing, control.intent.failed = s.intent.failed
          PROVE  control.intent.scope = "Voter"
      <4>1. control.intent.scope = "Generation" => control.intent.failed = Nothing
        BY <3>2 DEF ViewOK
      <4>2. QED
        BY <3>1, <3>2, <4>1, AutoAssumption DEF AutoTypes, ControlRecord, IntentRecord
    <3>3. QED
      BY <3>1, <3>2 DEF Lasting, Failed
  <2>4. s.intent.proof => FencedVoter(s.intent)'
    <3>1. s.intent.proof => FencedVoter(s.intent)
      BY <1>3 DEF ViewOK
    <3>2. s.intent.targets \subseteq Nodes
      BY <1>3 DEF ControlRecord, IntentRecord
    <3>3. QED
      BY <3>1, <3>2 DEF FencedVoter, Lasting
  <2>5. Accounted(LearnerOf(s)) /\ LearnerOf(s)' = LearnerOf(s)
    BY <1>3 DEF ViewOK, LearnerOf
  <2>6. Accounted(LearnerOf(s))'
    BY <2>1, <2>5 DEF Lasting
  <2>7. s.intent.bound => s.intent.spec # Nothing /\ child'[s.seq] # Nothing
    BY <1>3 DEF ViewOK, Lasting
  <2>8. QED
    BY <1>1, <1>3, <2>2, <2>3, <2>4, <2>6, <2>7 DEF ViewOK, SpecOK, Later
<1>4. QED
  BY <1>2, <1>3

\* The views of the passes that go on.
LEMMA ViewsStay ==
    ASSUME RepairInv, Lasting, control'.seq \in Nat, NEW q \in Reconcilers, Onward(q), OnCluster(q)',
           work'[q].fresh => work'[q].ctl = control'
    PROVE  ClusterOK(q)'
<1>1. OnCluster(q) /\ ClusterOK(q) /\ AutoTypes /\ ViewOK(control)
  BY DEF RepairInv, Onward
<1>2. /\ work'[q].kind = work[q].kind /\ work'[q].ctl = work[q].ctl
      /\ work[q].ctl \in ControlRecord
  BY <1>1, PassTypes DEF Onward, ClusterPass
<1>3. PICK s \in ControlRecord : s = work[q].ctl
  BY <1>2
<1>4. ViewOK(s)
  BY <1>1, <1>3 DEF ClusterOK
<1>5. ViewOK(s)'
  BY <1>1, <1>4, ViewStays
<1>6. ViewOK(work[q].ctl)'
  BY <1>2, <1>3, <1>5
<1>7. work[q].kind = "created" => child'[work[q].ctl.seq] # Nothing
  <2>1. work[q].kind = "created" => s.intent # Nothing /\ child[s.seq] # Nothing
    BY <1>1, <1>3 DEF ClusterOK
  <2>2. s.intent # Nothing => s.seq \in Incidents
    BY <1>4 DEF ViewOK
  <2>3. QED
    BY <1>3, <2>1, <2>2 DEF Lasting
<1>8. QED
  BY <1>1, <1>2, <1>6, <1>7 DEF ClusterOK

-----------------------------------------------------------------------------
(* Steps of the nodes and of the passes alone *)

\* The records, the ledger and the membership stay as they are.
Quiet ==
    /\ UNCHANGED <<control, child, closed, config>>
    /\ \A n \in Nodes : Over(n) => Over(n)'

\* A quiet step keeps what lasts.
LEMMA QuietLasts ==
    ASSUME RepairInv, Quiet
    PROVE  Lasting /\ control'.seq \in Nat
<1>1. control.seq \in Nat /\ control' = control
  BY DEF RepairInv, AutoTypes, ControlRecord, Quiet
<1>2. \A l \in Learners : Accounted(l) => Accounted(l)'
  BY DEF Quiet, Accounted, Gone, LearnerOf, Nodes
<1>3. Gone => Gone'
  BY DEF Quiet, Gone
<1>4. QED
  BY <1>1, <1>2, <1>3 DEF Lasting, Quiet, Failed

\* What a pass over a child has read of it, or reads now.
ReadOf(q) ==
    \/ work'[q].of = child[work'[q].seq]
    \/ OnChild(q) /\ work'[q].of = work[q].of /\ work'[q].seq = work[q].seq

\* The passes that go on after a quiet step.
LEMMA QuietPasses ==
    ASSUME RepairInv, Quiet, NEW q \in Reconcilers, Onward(q)
    PROVE  /\ OnCluster(q)' => ClusterOK(q)'
           /\ OnChild(q)' => PassOK(q)' /\ ReadOf(q)
<1>1. ASSUME OnCluster(q)'
      PROVE  ClusterOK(q)'
  <2>1. OnCluster(q) /\ ClusterOK(q)
    BY <1>1 DEF Onward, RepairInv
  <2>2. work'[q].fresh => work'[q].ctl = control'
    BY <2>1 DEF ClusterOK, Onward, Quiet
  <2>3. QED
    BY <1>1, <2>2, QuietLasts, ViewsStay
<1>2. ASSUME OnChild(q)'
      PROVE  PassOK(q)' /\ ReadOf(q)
  <2>1. OnChild(q) /\ PassOK(q)
    BY <1>2 DEF Onward, RepairInv
  <2>2. QED
    BY <2>1 DEF PassOK, Onward, Quiet, ReadOf, Past, Dead, Gone, Finished
<1>3. QED
  BY <1>1, <1>2

\* A quiet step keeps the invariant when its passes and its Pods are in order.
LEMMA QuietStepKeeps ==
    ASSUME RepairInv, Quiet,
           proc' \in [Nodes -> {"up", "dark", "absent", "stopped"}],
           learnerPods' \subseteq Learners,
           work' \in [Reconcilers -> {NoWork} \cup ClusterPass \cup ChildPass],
           \A l \in Learners : proc'[l] \in {"up", "dark"} => l \in learnerPods',
           \A l \in learnerPods' : Accounted(l),
           \A q \in Reconcilers :
              \/ Onward(q)
              \/ /\ OnCluster(q)' => ClusterOK(q)'
                 /\ OnChild(q)' => PassOK(q)' /\ ReadOf(q)
    PROVE  RepairInv'
<1> USE DEF Quiet
<1>1. AutoTypes'
  BY DEF RepairInv, AutoTypes
<1>2. Lasting
  BY QuietLasts
<1>3. \A q \in Reconcilers : /\ OnCluster(q)' => ClusterOK(q)'
                             /\ OnChild(q)' => PassOK(q)' /\ ReadOf(q)
  BY QuietPasses
<1>4. World'
  <2>1. World /\ control.retired \subseteq Nodes
    BY DEF RepairInv, AutoTypes, ControlRecord
  <2>2. \A l \in learnerPods' : Accounted(l)'
    BY <1>2 DEF Lasting
  <2>3. /\ \A n \in BaseVoters \ config'.voters : Over(n)'
        /\ \A l \in control'.retired : Over(l)'
        /\ control'.generation = 2 => control'.intent = Nothing /\ \A n \in Nodes : Over(n)'
    BY <2>1 DEF World, Nodes
  <2>4. (config.pending # Nothing /\ config.pending.kind = "remove" => Over(config.pending.node))'
    <3>1. config.pending # Nothing => config.pending.node \in Nodes
      BY DEF RepairInv, AutoTypes, PendingChange
    <3>2. QED
      BY <2>1, <3>1 DEF World, Over
  <2>5. QED
    BY <2>2, <2>3, <2>4 DEF World
<1>5. ViewOK(control)'
  <2>1. PICK s \in ControlRecord : s = control
    BY DEF RepairInv, AutoTypes
  <2>2. ViewOK(s)'
    BY <2>1, <1>2, QuietLasts, ViewStays DEF RepairInv
  <2>3. QED
    BY <2>1, <2>2
<1>6. ChildrenOK'
  <2>1. ASSUME NEW k \in Incidents, child[k] # Nothing
        PROVE  ChildOK(k)'
    <3>1. child[k].remove # Nothing => child[k].remove.node \in Nodes
      BY <2>1 DEF RepairInv, AutoTypes, ChildRecord, RemoveRecord
    <3>2. ChildOK(k)
      BY <2>1 DEF RepairInv, ChildrenOK
    <3>3. QED
      BY <3>1, <3>2 DEF ChildOK, Past, Gone, Finished
  <2>2. QED
    BY <2>1 DEF RepairInv, ChildrenOK, Gone, Finished
<1>7. ~ Gone' => Staged'
  <2>1. SUFFICES ASSUME ~ Gone'
                 PROVE  Staged'
    OBVIOUS
  <2>2. Staged
    BY <2>1 DEF RepairInv, Gone
  <2>3. Before => Before'
    <3>1. ASSUME Before, NEW q \in Reconcilers, OnChild(q)', work'[q].seq = control'.seq
          PROVE  work'[q].of.add = Nothing
      <4>1. ReadOf(q) /\ PassOK(q)'
        BY <1>3, <3>1
      <4>2. QED
        BY <3>1, <4>1 DEF ReadOf, Before, Child, PassOK
    <3>2. QED
      BY <3>1 DEF Before, Child, Failed
  <2>4. Between => Between'
    BY DEF Between, Removed, Child, Failed
  <2>5. After => After'
    BY DEF After, Removed, Child, Failed
  <2>6. RepairJournal => RepairJournal'
    BY <2>5 DEF RepairJournal, Child, Failed
  <2>7. LearnersClosed => LearnersClosed'
    BY DEF LearnersClosed, Child
  <2>8. QED
    BY <2>2, <2>3, <2>4, <2>5, <2>6, <2>7 DEF Staged, Failed
<1>8. QED
  BY <1>1, <1>3, <1>4, <1>5, <1>6, <1>7 DEF RepairInv

\* A step of a pass that leaves everything else alone.
LEMMA PassKeeps ==
    ASSUME RepairInv, NEW o \in Reconcilers,
           NEW w \in {NoWork} \cup ClusterPass \cup ChildPass, work' = [work EXCEPT ![o] = w],
           UNCHANGED <<control, child, world, learnerPods, closed, config>>,
           /\ OnCluster(o)' => ClusterOK(o)'
           /\ OnChild(o)' => PassOK(o)' /\ ReadOf(o)
    PROVE  RepairInv'
<1>1. Quiet
  BY DEF Quiet, Over, world
<1>2. AutoTypes /\ World
  BY DEF RepairInv
<1>3. /\ work' \in [Reconcilers -> {NoWork} \cup ClusterPass \cup ChildPass]
      /\ \A q \in Reconcilers : q # o => Onward(q)
  BY <1>2, WorkIs
<1>4. /\ proc' \in [Nodes -> {"up", "dark", "absent", "stopped"}]
      /\ learnerPods' \subseteq Learners
      /\ \A l \in Learners : proc'[l] \in {"up", "dark"} => l \in learnerPods'
      /\ \A l \in learnerPods' : Accounted(l)
  BY <1>2 DEF AutoTypes, World, world
<1>5. QED
  BY <1>1, <1>3, <1>4, QuietStepKeeps

\* A pass that ends.
LEMMA IdleKeeps ==
    ASSUME RepairInv, NEW o \in Reconcilers, work' = [work EXCEPT ![o] = NoWork],
           UNCHANGED <<control, child, world, learnerPods, closed, config>>
    PROVE  RepairInv'
<1>1. ~ OnCluster(o)' /\ ~ OnChild(o)'
  BY IdleIs DEF RepairInv
<1>2. QED
  BY <1>1, PassKeeps

\* A pass over the cluster that loads the record.
LEMMA LoadKeeps ==
    ASSUME RepairInv, NEW o \in Reconcilers, LoadAuto(o)
    PROVE  RepairInv'
<1> DEFINE w == [kind |-> "cluster", ctl |-> control, fresh |-> TRUE]
<1>1. w \in ClusterPass
  BY DEF ClusterPass, RepairInv, AutoTypes
<1>2. work' = [work EXCEPT ![o] = w] /\ control' = control
  BY DEF LoadAuto
<1>3. work'[o] = w
  BY <1>2 DEF RepairInv, AutoTypes
<1>4. ~ OnChild(o)'
  BY <1>3 DEF OnChild
<1>5. ViewOK(control)'
  BY DEF RepairInv, LoadAuto, ViewOK, Gone, Over, FencedVoter, Accounted, LearnerOf, SpecOK, Later, world
<1>6. ClusterOK(o)'
  BY <1>3, <1>5 DEF ClusterOK, LoadAuto
<1>7. QED
  BY <1>1, <1>2, <1>4, <1>6, PassKeeps DEF LoadAuto

\* A pass over a child that lists it.
LEMMA ListKeeps ==
    ASSUME RepairInv, NEW o \in Reconcilers, NEW k \in Incidents, ListChild(o, k)
    PROVE  RepairInv'
<1> DEFINE w == [kind |-> "listed", seq |-> k, of |-> child[k], fresh |-> TRUE]
<1>1. w \in ChildPass
  BY DEF ChildPass, RepairInv, AutoTypes, ListChild
<1>2. /\ work' = [work EXCEPT ![o] = w] /\ child[k] # Nothing /\ child[k].phase # "Complete"
      /\ UNCHANGED <<control, child, world, learnerPods, closed, config>>
  BY DEF ListChild
<1>3. work'[o] = w
  BY <1>2 DEF RepairInv, AutoTypes
<1>4. ~ OnCluster(o)'
  BY <1>3 DEF OnCluster
<1>5. ChildOK(k) /\ k <= control.seq
  BY <1>2 DEF RepairInv, ChildrenOK, ChildOK
<1>6. PassOK(o)'
  BY <1>2, <1>3, <1>5 DEF PassOK, ChildOK, Past, Dead, Gone, Finished
<1>7. ReadOf(o)
  BY <1>3 DEF ReadOf
<1>8. QED
  BY <1>1, <1>2, <1>4, <1>6, <1>7, PassKeeps

\* A pass over a child that the record authorizes.
LEMMA AuthorizeKeeps ==
    ASSUME RepairInv, NEW o \in Reconcilers, AuthorizeChild(o)
    PROVE  RepairInv'
<1> DEFINE w == [work[o] EXCEPT !.kind = "authorized"]
<1>1. OnChild(o) /\ PassOK(o) /\ work[o] \in ChildPass
  BY PassTypes DEF RepairInv, OnChild, AuthorizeChild, Working
<1>2. /\ w \in ChildPass /\ w.kind = "authorized" /\ w.seq = work[o].seq
      /\ w.of = work[o].of /\ w.fresh = work[o].fresh
  BY <1>1 DEF ChildPass
<1>3. /\ work' = [work EXCEPT ![o] = w]
      /\ UNCHANGED <<control, child, world, learnerPods, closed, config>>
      /\ control.intent # Nothing /\ control.intent.proof /\ control.seq = work[o].seq
  BY DEF AuthorizeChild
<1>4. work'[o] = w
  BY <1>3 DEF RepairInv, AutoTypes
<1>5. ~ OnCluster(o)'
  BY <1>2, <1>4 DEF OnCluster
<1>6. PassOK(o)'
  BY <1>1, <1>2, <1>3, <1>4 DEF PassOK, Past, Dead, Gone, Finished
<1>7. ReadOf(o)
  BY <1>1, <1>2, <1>4 DEF ReadOf
<1>8. QED
  BY <1>2, <1>3, <1>5, <1>6, <1>7, PassKeeps

\* A learner that is provisioned is the one the record answers for.
LEMMA ProvisionKeeps ==
    ASSUME RepairInv, NEW o \in Reconcilers, ProvisionLearner(o)
    PROVE  RepairInv'
<1> DEFINE w == [work[o] EXCEPT !.kind = "provisioned"]
<1>1. /\ Working(o, "cluster") /\ Loaded(o).intent # Nothing
  BY DEF ProvisionLearner, MayContinue, ChangeSettled, Repairing, Intent
<1>2. OnCluster(o) /\ ClusterOK(o) /\ work[o] \in ClusterPass /\ AutoTypes /\ World
  BY <1>1, PassTypes DEF RepairInv, OnCluster, Working
<1>3. /\ w \in ClusterPass /\ w.kind = "provisioned" /\ w.ctl = work[o].ctl
      /\ w.fresh = work[o].fresh
  BY <1>2 DEF ClusterPass
<1>4. /\ work' = [work EXCEPT ![o] = w]
      /\ UNCHANGED <<control, child, world, closed, config>>
      /\ learnerPods' = learnerPods \cup {LearnerOf(Loaded(o))}
  BY DEF ProvisionLearner
<1>5. Quiet
  BY <1>4 DEF Quiet, Over, world
<1>6. /\ work' \in [Reconcilers -> {NoWork} \cup ClusterPass \cup ChildPass] /\ work'[o] = w
      /\ \A q \in Reconcilers : q # o => Onward(q)
  BY <1>2, <1>3, <1>4, WorkIs
<1>7. LearnerOf(Loaded(o)) \in Learners /\ Accounted(LearnerOf(Loaded(o)))
  BY <1>1, <1>2 DEF ClusterOK, Loaded, ViewOK, LearnerOf, Learners
<1>8. /\ proc' \in [Nodes -> {"up", "dark", "absent", "stopped"}]
      /\ learnerPods' \subseteq Learners
      /\ \A l \in Learners : proc'[l] \in {"up", "dark"} => l \in learnerPods'
      /\ \A l \in learnerPods' : Accounted(l)
  BY <1>2, <1>4, <1>7 DEF AutoTypes, World, world
<1>9. ~ OnChild(o)'
  BY <1>3, <1>6 DEF OnChild
<1>10. ClusterOK(o)'
  <2>1. PICK s \in ControlRecord : s = work[o].ctl
    BY <1>2 DEF ClusterPass
  <2>2. ViewOK(s)'
    BY <1>2, <1>5, <2>1, QuietLasts, ViewStays DEF RepairInv, ClusterOK
  <2>3. ViewOK(work[o].ctl)' /\ work'[o].ctl = s
    BY <1>3, <1>6, <2>1, <2>2
  <2>4. QED
    BY <1>1, <1>2, <1>3, <1>4, <1>6, <2>1, <2>3 DEF ClusterOK, Loaded
<1>11. QED
  BY <1>5, <1>6, <1>8, <1>9, <1>10, QuietStepKeeps

\* A process that starts, disappears, comes back or ends, and a Pod that goes.
LEMMA NodesKeep ==
    ASSUME RepairInv,
           \/ \E l \in Learners : LearnerStarts(l) \/ PodGone(l)
           \/ \E n \in Nodes : LoseContact(n) \/ RegainContact(n) \/ ProcessStops(n)
    PROVE  RepairInv'
<1>1. /\ UNCHANGED <<control, child, closed, config, work>>
  BY DEF LearnerStarts, PodGone, LoseContact, RegainContact, ProcessStops
<1>2. AutoTypes /\ World /\ Learners \subseteq Nodes
  BY DEF RepairInv, Nodes
<1>3. /\ proc' \in [Nodes -> {"up", "dark", "absent", "stopped"}]
      /\ learnerPods' \subseteq learnerPods
      /\ \A n \in Nodes : Over(n) => Over(n)'
      /\ \A l \in Learners : proc'[l] \in {"up", "dark"} => l \in learnerPods'
  <2>1. CASE \E l \in Learners : LearnerStarts(l)
    BY <1>2, <2>1 DEF LearnerStarts, AutoTypes, World, Over
  <2>2. CASE \E l \in Learners : PodGone(l)
    BY <1>2, <2>2 DEF PodGone, AutoTypes, World, Over
  <2>3. CASE \E n \in Nodes : LoseContact(n)
    BY <1>2, <2>3 DEF LoseContact, AutoTypes, World, Over
  <2>4. CASE \E n \in Nodes : RegainContact(n)
    BY <1>2, <2>4 DEF RegainContact, AutoTypes, World, Over
  <2>5. CASE \E n \in Nodes : ProcessStops(n)
    BY <1>2, <2>5 DEF ProcessStops, AutoTypes, World, Over
  <2>6. QED
    BY <2>1, <2>2, <2>3, <2>4, <2>5
<1>4. Quiet
  BY <1>1, <1>3 DEF Quiet
<1>5. \A q \in Reconcilers : Onward(q)
  BY <1>1 DEF Onward, OnCluster, OnChild
<1>6. /\ work' \in [Reconcilers -> {NoWork} \cup ClusterPass \cup ChildPass]
      /\ learnerPods' \subseteq Learners /\ \A l \in learnerPods' : Accounted(l)
  BY <1>1, <1>2, <1>3 DEF AutoTypes, World
<1>7. QED
  BY <1>3, <1>4, <1>5, <1>6, QuietStepKeeps

-----------------------------------------------------------------------------
(* Saves of the control record *)

\* A save replaces the version that was loaded.
LEMMA SaveIs ==
    ASSUME RepairInv, NEW o \in Reconcilers, OnCluster(o), NEW new, SaveAuto(o, new)
    PROVE  /\ Loaded(o) = control /\ control' = new /\ work' = Passed(o)
           /\ control.generation = 1
BY DEF RepairInv, SaveAuto, ClusterOK, Loaded

\* What a pass over child k needs of a save.
GoesOn(q, k) ==
    /\ work[q].of.add # Nothing /\ ~ Gone' /\ Finished(k)' => work[q].of.add.id < config.id
    /\ work[q].kind = "authorized" =>
          \/ Finished(k)'
          \/ k = control'.seq /\ control'.intent # Nothing /\ control'.intent.proof

\* A save keeps the invariant when the new record does.
LEMMA SaveKeeps ==
    ASSUME RepairInv, NEW o \in Reconcilers, work' = Passed(o),
           UNCHANGED <<child, world, learnerPods, closed, config>>,
           control' \in ControlRecord, Lasting, ViewOK(control)', World', ChildrenOK',
           \A q \in Reconcilers, k \in Incidents : OnChild(q) /\ work[q].seq = k => GoesOn(q, k),
           ~ Gone' => Staged'
    PROVE  RepairInv'
<1>1. /\ work' \in [Reconcilers -> {NoWork} \cup ClusterPass \cup ChildPass]
      /\ ~ OnCluster(o)' /\ ~ OnChild(o)'
      /\ \A q \in Reconcilers : q # o => Onward(q) /\ (OnCluster(q) => ~ work'[q].fresh)
  BY PassedIs DEF RepairInv
<1>2. AutoTypes'
  BY <1>1 DEF RepairInv, AutoTypes, world
<1>3. control'.seq \in Nat
  BY DEF ControlRecord
<1>4. ASSUME NEW q \in Reconcilers, OnCluster(q)'
      PROVE  ClusterOK(q)'
  <2>1. q # o /\ Onward(q) /\ ~ work'[q].fresh
    BY <1>1, <1>4 DEF Onward
  <2>2. QED
    BY <1>3, <1>4, <2>1, ViewsStay
<1>5. ASSUME NEW q \in Reconcilers, OnChild(q)'
      PROVE  PassOK(q)'
  <2>1. q # o /\ Onward(q) /\ OnChild(q) /\ PassOK(q)
    BY <1>1, <1>5 DEF Onward, RepairInv
  <2>2. PICK k \in Incidents : k = work[q].seq
    BY <2>1, PassTypes DEF RepairInv, ChildPass
  <2>3. GoesOn(q, k) /\ k <= control'.seq
    BY <1>3, <2>1, <2>2 DEF PassOK, Lasting, RepairInv, AutoTypes, ControlRecord, Incidents
  <2>4. /\ work'[q].kind = work[q].kind /\ work'[q].seq = k
        /\ work'[q].of = work[q].of /\ (work'[q].fresh => work[q].fresh)
    BY <2>1, <2>2 DEF Onward
  <2>5. Gone => Gone'
    BY DEF Lasting
  <2>6. Finished(work[q].seq)' <=> Finished(k)'
    BY <2>4 DEF Finished
  <2>7. QED
    BY <2>1, <2>2, <2>3, <2>4, <2>5, <2>6 DEF PassOK, GoesOn, Past, Dead
<1>6. QED
  BY <1>2, <1>4, <1>5 DEF RepairInv

\* A record whose incident, repair and voters are the same.
SameRepair ==
    /\ control'.voters = control.voters /\ control'.seq = control.seq
    /\ control'.generation = control.generation
    /\ (control'.intent = Nothing) <=> (control.intent = Nothing)
    /\ control.intent # Nothing =>
          /\ control'.intent.scope = control.intent.scope
          /\ control'.intent.failed = control.intent.failed
          /\ control.intent.proof => control'.intent.proof
          /\ \/ control'.intent.attempt = control.intent.attempt
             \/ LearnerOf(control) \in control'.history
    /\ \A l \in control.history : l \in control'.history \/ Over(l)
    /\ \A l \in control'.retired : Over(l)

\* A save of the same repair keeps the invariant when its own fields are right.
LEMMA SameRepairKeeps ==
    ASSUME RepairInv, NEW o \in Reconcilers, work' = Passed(o),
           UNCHANGED <<child, world, learnerPods, closed, config>>,
           control' \in ControlRecord, SameRepair, ViewOK(control)'
    PROVE  RepairInv'
<1>1. (Gone' <=> Gone) /\ \A k \in Incidents : Finished(k)' <=> Finished(k)
  BY DEF SameRepair, Gone, Finished
<1>2. \A n : Over(n)' <=> Over(n)
  BY DEF Over, world
<1>3. Lasting
  <2>1. \A l \in Learners : Accounted(l) => Accounted(l)'
    BY <1>1, <1>2 DEF SameRepair, Accounted, LearnerOf
  <2>2. control'.seq = control.seq /\ control.seq \in Nat
    BY DEF SameRepair, RepairInv, AutoTypes, ControlRecord
  <2>3. QED
    BY <1>1, <1>2, <2>1, <2>2 DEF Lasting, SameRepair, Failed
<1>4. World'
  <2>1. World /\ learnerPods \subseteq Learners
    BY DEF RepairInv, AutoTypes
  <2>2. \A l \in learnerPods' : Accounted(l)'
    BY <1>3, <2>1 DEF Lasting, World
  <2>3. QED
    BY <1>2, <2>1, <2>2 DEF World, SameRepair, world, Over
<1>5. ChildrenOK'
  <2>1. ASSUME NEW k \in Incidents, child[k] # Nothing
        PROVE  ChildOK(k)'
    <3>1. ChildOK(k) /\ child' = child /\ config' = config /\ control'.seq = control.seq
      BY <2>1 DEF RepairInv, ChildrenOK, SameRepair
    <3>2. QED
      BY <1>1, <1>2, <3>1 DEF ChildOK, Past, Over
  <2>2. QED
    BY <1>1, <2>1 DEF RepairInv, ChildrenOK
<1>6. \A q \in Reconcilers, k \in Incidents : OnChild(q) /\ work[q].seq = k => GoesOn(q, k)
  <2>1. ASSUME NEW q \in Reconcilers, NEW k \in Incidents, OnChild(q), work[q].seq = k
        PROVE  GoesOn(q, k)
    <3>1. PassOK(q)
      BY <2>1 DEF RepairInv
    <3>2. QED
      BY <1>1, <2>1, <3>1 DEF PassOK, GoesOn, SameRepair
  <2>2. QED
    BY <2>1
<1>7. ~ Gone' => Staged'
  <2>1. SUFFICES ASSUME ~ Gone'
                 PROVE  Staged'
    OBVIOUS
  <2>2. /\ Staged /\ Child' = Child /\ config' = config /\ closed' = closed
        /\ control'.voters = control.voters /\ control'.seq = control.seq
        /\ (control'.intent = Nothing) <=> (control.intent = Nothing)
        /\ control.intent # Nothing => Failed' = Failed
    BY <1>1, <2>1 DEF RepairInv, Child, SameRepair, Failed
  <2>3. control.intent # Nothing /\ Before => Before'
    <3>1. ASSUME Before, NEW q \in Reconcilers, OnChild(q)', work'[q].seq = control'.seq
          PROVE  work'[q].of.add = Nothing
      <4>1. q # o /\ Onward(q)
        BY <3>1, PassedIs DEF RepairInv
      <4>2. QED
        BY <2>2, <3>1, <4>1 DEF Onward, Before
    <3>2. QED
      BY <2>2, <3>1 DEF Before
  <2>4. control.intent # Nothing /\ Between => Between'
    BY <2>2 DEF Between, Removed
  <2>5. control.intent # Nothing /\ After => After'
    BY <2>2 DEF After, Removed
  <2>6. control.intent # Nothing /\ RepairJournal => RepairJournal'
    BY <2>2, <2>5 DEF RepairJournal
  <2>7. LearnersClosed => LearnersClosed'
    BY <2>2 DEF LearnersClosed
  <2>8. QED
    BY <2>2, <2>3, <2>4, <2>5, <2>6, <2>7 DEF Staged
<1>8. QED
  BY <1>3, <1>4, <1>5, <1>6, <1>7, SaveKeeps

\* A save that changes no more than the flags of the intent and what is known.
FlagsOnly(new) ==
    /\ new \in ControlRecord
    /\ new.voters = control.voters /\ new.seq = control.seq
    /\ new.generation = control.generation
    /\ \A l \in control.history : l \in new.history \/ Over(l)
    /\ new.retired = control.retired
    /\ (new.intent = Nothing) <=> (control.intent = Nothing)
    /\ control.intent # Nothing =>
          /\ new.intent.scope = control.intent.scope /\ new.intent.failed = control.intent.failed
          /\ new.intent.targets = control.intent.targets
          /\ new.intent.proof = control.intent.proof /\ new.intent.bound = control.intent.bound
          /\ new.intent.spec = control.intent.spec
          /\ new.intent.previous = control.intent.previous
          /\ new.intent.attempt = control.intent.attempt
          /\ control.intent.aborting => new.intent.aborting

\* Such a save keeps the invariant.
LEMMA FlagsKeep ==
    ASSUME RepairInv, NEW o \in Reconcilers, OnCluster(o), NEW new, SaveAuto(o, new),
           FlagsOnly(new), UNCHANGED <<child, world, learnerPods, closed, config>>
    PROVE  RepairInv'
<1>1. control' = new /\ work' = Passed(o)
  BY SaveIs
<1>2. SameRepair
  BY <1>1 DEF SameRepair, FlagsOnly, RepairInv, World
<1>3. ViewOK(control)'
  <2>1. ViewOK(control) /\ control.seq \in Nat
    BY DEF RepairInv, AutoTypes, ControlRecord
  <2>2. CASE control.intent = Nothing
    BY <1>1, <2>1, <2>2 DEF FlagsOnly, ViewOK
  <2>3. CASE control.intent # Nothing
    <3>1. /\ control'.seq = control.seq /\ control'.intent # Nothing
          /\ control'.intent.scope = control.intent.scope
          /\ control'.intent.failed = control.intent.failed
          /\ control'.intent.targets = control.intent.targets
          /\ control'.intent.proof = control.intent.proof
          /\ control'.intent.bound = control.intent.bound
          /\ control'.intent.spec = control.intent.spec
          /\ control'.intent.previous = control.intent.previous
          /\ control'.intent.attempt = control.intent.attempt
          /\ control.intent.aborting => control'.intent.aborting
          /\ child' = child
      BY <1>1, <2>3 DEF FlagsOnly
    <3>2. (Gone => Gone') /\ \A n : Over(n) => Over(n)'
      BY <1>1 DEF FlagsOnly, Gone, Over, world
    <3>3. FencedVoter(control.intent) => FencedVoter(control.intent)'
      BY <3>1, <3>2 DEF FencedVoter
    <3>4. Accounted(LearnerOf(control))'
      BY <3>1 DEF Accounted
    <3>5. control.intent.spec # Nothing => SpecOK(control, control.intent.spec)'
      BY <2>1, <2>3, <3>1 DEF ViewOK, SpecOK
    <3>6. /\ control'.intent.scope = "Generation" => Gone' /\ control'.intent.failed = Nothing
          /\ control'.intent.scope = "Voter" =>
                control'.intent.failed \in Nodes
                /\ control'.intent.targets = {control'.intent.failed}
          /\ control'.seq \in Incidents /\ control'.intent.attempt \in 1..MaxAttempts
          /\ control'.intent.bound => control'.intent.spec # Nothing /\ child'[control'.seq] # Nothing
          /\ control'.intent.previous # Nothing => control'.intent.bound
          /\ control'.intent.previous # Nothing /\ control'.intent.scope = "Voter" =>
                Later(control.intent.previous, control.intent.spec)'
      BY <2>1, <2>3, <3>1, <3>2 DEF ViewOK, Later
    <3>7. control'.intent.proof => FencedVoter(control.intent)'
      BY <2>1, <2>3, <3>1, <3>3 DEF ViewOK
    <3>8. QED
      BY <2>1, <3>1, <3>4, <3>5, <3>6, <3>7 DEF ViewOK
  <2>4. QED
    BY <2>2, <2>3
<1>4. QED
  BY <1>1, <1>2, <1>3, SameRepairKeeps DEF FlagsOnly

\* The record that a pass has loaded and saves.
LEMMA RecordIs ==
    ASSUME RepairInv
    PROVE  /\ control \in ControlRecord
           /\ control.intent # Nothing => control.intent \in IntentRecord /\ LearnerOf(control) \in Nodes
<1>1. control.intent # Nothing => LearnerOf(control) \in Learners
  BY DEF RepairInv, ViewOK, LearnerOf, Learners
<1>2. QED
  BY <1>1 DEF RepairInv, AutoTypes, ControlRecord, Nodes

\* An observation without consequences.
LEMMA ObserveOnly ==
    ASSUME RepairInv, NEW o \in Reconcilers, OnCluster(o), NEW new, SaveAuto(o, new),
           NEW known \in SUBSET Nodes, NEW suspected \in BOOLEAN,
           new = [control EXCEPT !.known = known, !.suspected = suspected],
           UNCHANGED <<child, world, learnerPods, closed, config>>
    PROVE  RepairInv'
<1>1. FlagsOnly(new)
  BY RecordIs DEF FlagsOnly, ControlRecord
<1>2. QED
  BY <1>1, FlagsKeep

\* History forgets only what is over.
LEMMA CompactKeeps ==
    ASSUME RepairInv, NEW o \in Reconcilers, CompactHistory(o)
    PROVE  RepairInv'
<1>1. /\ OnCluster(o)
      /\ SaveAuto(o, [Loaded(o) EXCEPT !.history = @ \ Compactable(Loaded(o))])
      /\ UNCHANGED <<child, world, learnerPods, closed, config>>
  BY DEF CompactHistory, Working, OnCluster
<1>2. Loaded(o) = control
  BY <1>1, SaveIs
<1>3. \A l \in Compactable(control) : Over(l)
  BY DEF Compactable, TerminationRecorded, Over, RepairInv, World
<1> DEFINE new == [control EXCEPT !.history = @ \ Compactable(control)]
<1>4. FlagsOnly(new)
  BY <1>3, RecordIs DEF FlagsOnly, ControlRecord
<1>5. SaveAuto(o, new)
  BY <1>1, <1>2
<1>6. QED
  BY <1>1, <1>4, <1>5, FlagsKeep

\* The learner's identity is saved.
LEMMA InventoryKeeps ==
    ASSUME RepairInv, NEW o \in Reconcilers, OnCluster(o), Intent(o) # Nothing,
           SaveAuto(o, [Loaded(o) EXCEPT !.intent.uid = TRUE,
                                         !.history = @ \cup {LearnerOf(Loaded(o))}]),
           UNCHANGED <<child, world, learnerPods, closed, config>>
    PROVE  RepairInv'
<1>1. Loaded(o) = control
  BY SaveIs
<1>2. control \in ControlRecord /\ control.intent \in IntentRecord /\ LearnerOf(control) \in Nodes
  BY <1>1, RecordIs DEF Intent
<1> DEFINE new == [control EXCEPT !.intent.uid = TRUE, !.history = @ \cup {LearnerOf(control)}]
           int == [control.intent EXCEPT !.uid = TRUE]
<1>3. /\ int \in IntentRecord
      /\ int.scope = control.intent.scope /\ int.failed = control.intent.failed
      /\ int.targets = control.intent.targets /\ int.proof = control.intent.proof
      /\ int.bound = control.intent.bound /\ int.spec = control.intent.spec
      /\ int.previous = control.intent.previous /\ int.attempt = control.intent.attempt
      /\ int.aborting = control.intent.aborting
  BY <1>2 DEF IntentRecord
<1> HIDE DEF int
<1>4. new = [control EXCEPT !.intent = int, !.history = @ \cup {LearnerOf(control)}]
  BY <1>2 DEF ControlRecord, int
<1>5. new \in ControlRecord /\ new.intent = int
  BY <1>2, <1>3, <1>4 DEF ControlRecord
<1>6. FlagsOnly(new)
  BY <1>2, <1>3, <1>4, <1>5, NothingAssumption DEF FlagsOnly, ControlRecord
<1>7. QED
  BY <1>1, <1>6, FlagsKeep

\* A save of the intent's flags alone.
LEMMA IntentKeeps ==
    ASSUME RepairInv, NEW o \in Reconcilers, OnCluster(o), Intent(o) # Nothing,
           NEW int \in IntentRecord, SaveAuto(o, [Loaded(o) EXCEPT !.intent = int]),
           int.scope = control.intent.scope, int.failed = control.intent.failed,
           int.targets = control.intent.targets, int.proof = control.intent.proof,
           int.bound = control.intent.bound, int.spec = control.intent.spec,
           int.previous = control.intent.previous, int.attempt = control.intent.attempt,
           control.intent.aborting => int.aborting,
           UNCHANGED <<child, world, learnerPods, closed, config>>
    PROVE  RepairInv'
<1>1. Loaded(o) = control /\ control \in ControlRecord /\ control.intent # Nothing
  BY SaveIs, RecordIs DEF Intent
<1> DEFINE new == [control EXCEPT !.intent = int]
<1>2. new \in ControlRecord /\ new.intent = int
  BY <1>1 DEF ControlRecord
<1>3. FlagsOnly(new)
  BY <1>1, <1>2, NothingAssumption DEF FlagsOnly, ControlRecord
<1>4. QED
  BY <1>1, <1>3, FlagsKeep

\* What is seen of a learner.
LEMMA WatchKeeps ==
    ASSUME RepairInv, NEW o \in Reconcilers, NEW elapsed, WatchLearner(o, elapsed)
    PROVE  RepairInv'
<1>1. /\ OnCluster(o) /\ Intent(o) # Nothing
      /\ UNCHANGED <<child, world, learnerPods, closed, config>>
  BY DEF WatchLearner, Repairing, Working, OnCluster
<1>2. /\ Loaded(o) = control /\ control \in ControlRecord /\ control.intent \in IntentRecord
      /\ control.intent # Nothing
  BY <1>1, SaveIs, RecordIs DEF Intent, WatchLearner
<1>3. CASE SaveAuto(o, [Loaded(o) EXCEPT !.intent.wal = TRUE])
  <2> DEFINE int == [control.intent EXCEPT !.wal = TRUE]
  <2>1. int \in IntentRecord /\ SaveAuto(o, [Loaded(o) EXCEPT !.intent = int])
    BY <1>2, <1>3 DEF IntentRecord
  <2>2. /\ int.scope = control.intent.scope /\ int.failed = control.intent.failed
        /\ int.targets = control.intent.targets /\ int.proof = control.intent.proof
        /\ int.bound = control.intent.bound /\ int.spec = control.intent.spec
        /\ int.previous = control.intent.previous /\ int.attempt = control.intent.attempt
        /\ control.intent.aborting => int.aborting
    BY <1>2 DEF IntentRecord
  <2> HIDE DEF int
  <2>3. QED
    BY <1>1, <2>1, <2>2, IntentKeeps
<1>4. CASE SaveAuto(o, [Loaded(o) EXCEPT !.intent.missing = FALSE])
  <2> DEFINE int == [control.intent EXCEPT !.missing = FALSE]
  <2>1. int \in IntentRecord /\ SaveAuto(o, [Loaded(o) EXCEPT !.intent = int])
    BY <1>2, <1>4 DEF IntentRecord
  <2>2. /\ int.scope = control.intent.scope /\ int.failed = control.intent.failed
        /\ int.targets = control.intent.targets /\ int.proof = control.intent.proof
        /\ int.bound = control.intent.bound /\ int.spec = control.intent.spec
        /\ int.previous = control.intent.previous /\ int.attempt = control.intent.attempt
        /\ control.intent.aborting => int.aborting
    BY <1>2 DEF IntentRecord
  <2> HIDE DEF int
  <2>3. QED
    BY <1>1, <2>1, <2>2, IntentKeeps
<1>5. CASE SaveAuto(o, [Loaded(o) EXCEPT !.intent.missing = TRUE])
  <2> DEFINE int == [control.intent EXCEPT !.missing = TRUE]
  <2>1. int \in IntentRecord /\ SaveAuto(o, [Loaded(o) EXCEPT !.intent = int])
    BY <1>2, <1>5 DEF IntentRecord
  <2>2. /\ int.scope = control.intent.scope /\ int.failed = control.intent.failed
        /\ int.targets = control.intent.targets /\ int.proof = control.intent.proof
        /\ int.bound = control.intent.bound /\ int.spec = control.intent.spec
        /\ int.previous = control.intent.previous /\ int.attempt = control.intent.attempt
        /\ control.intent.aborting => int.aborting
    BY <1>2 DEF IntentRecord
  <2> HIDE DEF int
  <2>3. QED
    BY <1>1, <2>1, <2>2, IntentKeeps
<1>6. CASE SaveAuto(o, [Loaded(o) EXCEPT !.intent.aborting = TRUE])
  <2> DEFINE int == [control.intent EXCEPT !.aborting = TRUE]
  <2>1. int \in IntentRecord /\ SaveAuto(o, [Loaded(o) EXCEPT !.intent = int])
    BY <1>2, <1>6 DEF IntentRecord
  <2>2. /\ int.scope = control.intent.scope /\ int.failed = control.intent.failed
        /\ int.targets = control.intent.targets /\ int.proof = control.intent.proof
        /\ int.bound = control.intent.bound /\ int.spec = control.intent.spec
        /\ int.previous = control.intent.previous /\ int.attempt = control.intent.attempt
        /\ control.intent.aborting => int.aborting
    BY <1>2 DEF IntentRecord
  <2> HIDE DEF int
  <2>3. QED
    BY <1>1, <2>1, <2>2, IntentKeeps
<1>7. QED
  BY <1>3, <1>4, <1>5, <1>6 DEF WatchLearner

\* The quorum that is lost or found.
LEMMA NoteKeeps ==
    ASSUME RepairInv, NEW o \in Reconcilers, NEW quorum \in BOOLEAN, NoteQuorum(o, quorum)
    PROVE  RepairInv'
<1>1. /\ OnCluster(o) /\ Intent(o) # Nothing
      /\ SaveAuto(o, [Loaded(o) EXCEPT !.intent.noQuorum = ~quorum])
      /\ UNCHANGED <<child, world, learnerPods, closed, config>>
  BY DEF NoteQuorum, ChangeSettled, Repairing, Working, OnCluster
<1>2. /\ Loaded(o) = control /\ control \in ControlRecord /\ control.intent \in IntentRecord
      /\ control.intent # Nothing
  BY <1>1, SaveIs, RecordIs DEF Intent
<1> DEFINE int == [control.intent EXCEPT !.noQuorum = ~quorum]
<1>3. int \in IntentRecord /\ SaveAuto(o, [Loaded(o) EXCEPT !.intent = int])
  BY <1>1, <1>2 DEF IntentRecord
<1>4. QED
  BY <1>1, <1>2, <1>3, IntentKeeps DEF IntentRecord

\* A save of the intent that moves the repair on.
LEMMA RepairMoves ==
    ASSUME RepairInv, NEW o \in Reconcilers, OnCluster(o), control.intent # Nothing,
           NEW int \in IntentRecord, NEW new, SaveAuto(o, new), new \in ControlRecord,
           new.intent = int, new.voters = control.voters, new.seq = control.seq,
           new.generation = control.generation, control.history \subseteq new.history,
           \A l \in new.retired : Over(l),
           int.scope = control.intent.scope, int.failed = control.intent.failed,
           int.targets = control.intent.targets, control.intent.proof => int.proof,
           int.proof => FencedVoter(int), int.attempt \in 1..MaxAttempts,
           int.attempt = control.intent.attempt \/ LearnerOf(control) \in new.history,
           int.spec # Nothing => SpecOK(new, int.spec),
           int.bound => int.spec # Nothing /\ child[control.seq] # Nothing,
           int.previous # Nothing => int.bound,
           int.previous # Nothing /\ int.scope = "Voter" => Later(int.previous, int.spec),
           UNCHANGED <<child, world, learnerPods, closed, config>>
    PROVE  RepairInv'
<1>1. control' = new /\ work' = Passed(o)
  BY SaveIs
<1>2. SameRepair
  BY <1>1, NothingAssumption DEF SameRepair
<1>3. ViewOK(control)'
  <2>1. ViewOK(control) /\ control.seq \in Nat
    BY DEF RepairInv, AutoTypes, ControlRecord
  <2>2. control' = new /\ control'.intent = int /\ int # Nothing
    BY <1>1, NothingAssumption
  <2>3. (Gone => Gone') /\ \A n : Over(n) => Over(n)'
    BY <2>2 DEF Gone, Over, world
  <2>4. FencedVoter(int) => FencedVoter(control.intent)'
    BY <2>2, <2>3 DEF FencedVoter
  <2>5. Accounted(LearnerOf(control))'
    BY <2>2 DEF Accounted
  <2>6. int.spec # Nothing => SpecOK(control, control.intent.spec)'
    BY <2>2 DEF SpecOK
  <2>7. /\ int.scope = "Generation" => Gone' /\ int.failed = Nothing
        /\ int.scope = "Voter" => int.failed \in Nodes /\ int.targets = {int.failed}
        /\ control'.seq \in Incidents
    BY <2>1, <2>2, <2>3 DEF ViewOK
  <2>8. int.previous # Nothing /\ int.scope = "Voter" =>
           Later(control.intent.previous, control.intent.spec)'
    BY <2>2 DEF Later
  <2>9. QED
    BY <2>1, <2>2, <2>4, <2>5, <2>6, <2>7, <2>8 DEF ViewOK
<1>4. QED
  BY <1>1, <1>2, <1>3, SameRepairKeeps

\* The fence is proved.
LEMMA ProofKeeps ==
    ASSUME RepairInv, NEW o \in Reconcilers, PersistProof(o)
    PROVE  RepairInv'
<1>1. /\ OnCluster(o) /\ Intent(o) # Nothing /\ FencedVoter(Intent(o))
      /\ SaveAuto(o, [Loaded(o) EXCEPT !.intent.proof = TRUE])
      /\ UNCHANGED <<child, world, learnerPods, closed, config>>
  BY DEF PersistProof, Working, OnCluster
<1>2. /\ Loaded(o) = control /\ control \in ControlRecord /\ control.intent \in IntentRecord
      /\ control.intent # Nothing /\ Intent(o) = control.intent
  BY <1>1, SaveIs, RecordIs DEF Intent
<1> DEFINE int == [control.intent EXCEPT !.proof = TRUE]
           new == [control EXCEPT !.intent = int]
<1>3. /\ int \in IntentRecord /\ int.proof
      /\ int.scope = control.intent.scope /\ int.failed = control.intent.failed
      /\ int.targets = control.intent.targets
      /\ int.bound = control.intent.bound /\ int.spec = control.intent.spec
      /\ int.previous = control.intent.previous /\ int.attempt = control.intent.attempt
      /\ int.aborting = control.intent.aborting
  BY <1>2 DEF IntentRecord
<1>4. SaveAuto(o, new)
  BY <1>1, <1>2
<1> HIDE DEF int
<1>5. /\ new \in ControlRecord /\ new.intent = int /\ new.voters = control.voters
      /\ new.seq = control.seq /\ new.generation = control.generation
      /\ new.history = control.history /\ new.retired = control.retired
  BY <1>2, <1>3 DEF ControlRecord
<1> HIDE DEF new
<1>6. /\ ViewOK(control) /\ \A l \in control.retired : Over(l)
  BY DEF RepairInv, World
<1>7. FencedVoter(int)
  BY <1>1, <1>2, <1>3 DEF FencedVoter
<1>8. /\ int.attempt \in 1..MaxAttempts
      /\ int.spec # Nothing => SpecOK(new, int.spec)
      /\ int.bound => int.spec # Nothing /\ child[control.seq] # Nothing
      /\ int.previous # Nothing => int.bound
      /\ int.previous # Nothing /\ int.scope = "Voter" => Later(int.previous, int.spec)
  BY <1>2, <1>3, <1>5, <1>6 DEF ViewOK, SpecOK
<1>9. QED
  BY <1>1, <1>2, <1>3, <1>4, <1>5, <1>6, <1>7, <1>8, RepairMoves

\* A learner that was given up is over and the next one takes its place.
LEMMA RotateKeeps ==
    ASSUME RepairInv, NEW o \in Reconcilers, RotateLearner(o)
    PROVE  RepairInv'
<1> DEFINE save(c) == [c EXCEPT
              !.retired = @ \cup {LearnerOf(c)}, !.history = @ \cup {LearnerOf(c)},
              !.intent.attempt = @ + 1, !.intent.aborting = FALSE,
              !.intent.uid = FALSE, !.intent.wal = FALSE, !.intent.missing = FALSE]
<1>1. /\ OnCluster(o) /\ Intent(o) # Nothing /\ Over(LearnerOf(Loaded(o)))
      /\ Intent(o).attempt < MaxAttempts
      /\ SaveAuto(o, save(Loaded(o)))
      /\ UNCHANGED <<child, world, learnerPods, closed, config>>
  BY DEF RotateLearner, Repairing, Working, OnCluster
<1>2. /\ Loaded(o) = control /\ control \in ControlRecord /\ control.intent \in IntentRecord
      /\ control.intent # Nothing /\ Intent(o) = control.intent /\ LearnerOf(control) \in Nodes
  BY <1>1, SaveIs, RecordIs DEF Intent
<1> DEFINE int == [control.intent EXCEPT !.attempt = @ + 1, !.aborting = FALSE,
                             !.uid = FALSE, !.wal = FALSE, !.missing = FALSE]
           new == [control EXCEPT !.retired = @ \cup {LearnerOf(control)},
                             !.history = @ \cup {LearnerOf(control)}, !.intent = int]
<1>3. /\ int \in IntentRecord /\ int.proof = control.intent.proof
      /\ int.scope = control.intent.scope /\ int.failed = control.intent.failed
      /\ int.targets = control.intent.targets
      /\ int.bound = control.intent.bound /\ int.spec = control.intent.spec
      /\ int.previous = control.intent.previous /\ int.attempt = control.intent.attempt + 1
  <2>1. control.intent.attempt + 1 \in Nat
    BY <1>2 DEF IntentRecord
  <2>2. PICK a \in Nat : a = control.intent.attempt + 1
    BY <2>1
  <2>3. int = [control.intent EXCEPT !.attempt = a, !.aborting = FALSE,
                             !.uid = FALSE, !.wal = FALSE, !.missing = FALSE]
    BY <2>2
  <2> HIDE DEF int
  <2>4. QED
    BY <1>2, <2>2, <2>3 DEF IntentRecord
<1>4. SaveAuto(o, new)
  <2>1. save(control) = new
    BY <1>2 DEF ControlRecord, IntentRecord
  <2>2. QED
    BY <1>1, <1>2, <2>1
<1> HIDE DEF int, save
<1>5. /\ new \in ControlRecord /\ new.intent = int /\ new.voters = control.voters
      /\ new.seq = control.seq /\ new.generation = control.generation
      /\ new.history = control.history \cup {LearnerOf(control)}
      /\ new.retired = control.retired \cup {LearnerOf(control)}
  BY <1>2, <1>3 DEF ControlRecord
<1> HIDE DEF new
<1>6. /\ ViewOK(control) /\ \A l \in new.retired : Over(l)
  BY <1>1, <1>2, <1>5 DEF RepairInv, World
<1>7. int.proof => FencedVoter(int)
  BY <1>2, <1>3, <1>6 DEF FencedVoter, ViewOK
<1>8. int.attempt \in 1..MaxAttempts
  BY <1>1, <1>2, <1>3, <1>6, AutoAssumption DEF ViewOK
<1>9. int.spec # Nothing => SpecOK(new, int.spec)
  <2>1. control.intent.spec # Nothing => SpecOK(control, control.intent.spec)
    BY <1>2, <1>6 DEF ViewOK
  <2>2. \A l \in Learners : l[2] \in Nat
    BY AutoAssumption DEF Learners
  <2>3. QED
    BY <1>2, <1>3, <1>5, <2>1, <2>2 DEF SpecOK, IntentRecord
<1>10. /\ int.bound => int.spec # Nothing /\ child[control.seq] # Nothing
       /\ int.previous # Nothing => int.bound
       /\ int.previous # Nothing /\ int.scope = "Voter" => Later(int.previous, int.spec)
  BY <1>2, <1>3, <1>6 DEF ViewOK
<1>11. LearnerOf(control) \in new.history /\ control.history \subseteq new.history
  BY <1>5
<1>12. QED
  BY <1>1, <1>2, <1>3, <1>4, <1>5, <1>6, <1>7, <1>8, <1>9, <1>10, <1>11, RepairMoves

\* The specification that the intent calls for is one of its own.
LEMMA DesiredOK ==
    ASSUME RepairInv, NEW s \in ControlRecord, ViewOK(s), s.intent # Nothing
    PROVE  /\ DesiredSpec(s) \in ChangeSpec /\ SpecOK(s, DesiredSpec(s))
           /\ DesiredSpec(s).scope = s.intent.scope
           /\ DesiredSpec(s).abort = s.intent.aborting
           /\ s.intent.scope = "Voter" =>
                /\ DesiredSpec(s).learner = LearnerOf(s) /\ LearnerOf(s) \in Learners
                /\ LearnerOf(s)[1] = s.seq /\ LearnerOf(s)[2] = s.intent.attempt
<1>1. LearnerOf(s) \in Learners /\ LearnerOf(s)[1] = s.seq /\ LearnerOf(s)[2] = s.intent.attempt
  BY DEF ViewOK, LearnerOf, Learners
<1>2. s.intent \in IntentRecord
  BY DEF ControlRecord
<1>3. DesiredSpec(s) \in ChangeSpec
  BY <1>1, <1>2 DEF DesiredSpec, ChangeSpec, Nodes, IntentRecord
<1>4. QED
  BY <1>1, <1>2, <1>3 DEF DesiredSpec, SpecOK, IntentRecord

\* The child is bound, or a revision of its specification is reserved.
LEMMA BindKeeps ==
    ASSUME RepairInv, NEW o \in Reconcilers, BindChild(o)
    PROVE  RepairInv'
<1>1. /\ OnCluster(o) /\ work[o].kind = "created"
      /\ SaveAuto(o, [Loaded(o) EXCEPT !.intent.bound = TRUE,
                                       !.intent.spec = DesiredSpec(Loaded(o))])
      /\ UNCHANGED <<child, world, learnerPods, closed, config>>
  BY DEF BindChild, Working, OnCluster
<1>2. /\ Loaded(o) = control /\ control \in ControlRecord /\ control.intent # Nothing
      /\ ~ control.intent.bound /\ child[control.seq] # Nothing
  BY <1>1, SaveIs, RecordIs DEF Intent, RepairInv, ClusterOK, Loaded
<1>3. /\ control.intent \in IntentRecord /\ ViewOK(control)
      /\ \A l \in control.retired : Over(l)
  BY <1>2, RecordIs DEF RepairInv, World
<1>4. DesiredSpec(control) \in ChangeSpec /\ SpecOK(control, DesiredSpec(control))
  BY <1>2, <1>3, DesiredOK
<1>5. PICK d \in ChangeSpec : d = DesiredSpec(control)
  BY <1>4
<1> DEFINE int == [control.intent EXCEPT !.bound = TRUE, !.spec = d]
           new == [control EXCEPT !.intent = int]
<1>6. /\ int \in IntentRecord /\ int.proof = control.intent.proof
      /\ int.scope = control.intent.scope /\ int.failed = control.intent.failed
      /\ int.targets = control.intent.targets /\ int.bound /\ int.spec = d
      /\ int.previous = control.intent.previous /\ int.attempt = control.intent.attempt
      /\ int.aborting = control.intent.aborting
  BY <1>3 DEF IntentRecord
<1>7. SaveAuto(o, new)
  <2>1. [control EXCEPT !.intent.bound = TRUE, !.intent.spec = d] = new
    BY <1>2, <1>3 DEF ControlRecord, IntentRecord
  <2>2. QED
    BY <1>1, <1>2, <1>5, <2>1
<1> HIDE DEF int
<1>8. /\ new \in ControlRecord /\ new.intent = int /\ new.voters = control.voters
      /\ new.seq = control.seq /\ new.generation = control.generation
      /\ new.history = control.history /\ new.retired = control.retired
  BY <1>2, <1>6 DEF ControlRecord
<1> HIDE DEF new
<1>9. int.proof => FencedVoter(int)
  BY <1>2, <1>3, <1>6 DEF FencedVoter, ViewOK
<1>10. SpecOK(new, int.spec) /\ int.spec # Nothing
  BY <1>4, <1>5, <1>6, <1>8, NothingAssumption DEF SpecOK
<1>11. int.attempt \in 1..MaxAttempts /\ int.previous = Nothing
  BY <1>2, <1>3, <1>6 DEF ViewOK
<1>12. QED
  BY <1>1, <1>2, <1>3, <1>6, <1>7, <1>8, <1>9, <1>10, <1>11, RepairMoves

\* The revision follows the specification it replaces.
LEMMA ReserveKeeps ==
    ASSUME RepairInv, NEW o \in Reconcilers, ReserveRevision(o)
    PROVE  RepairInv'
<1>1. /\ OnCluster(o) /\ Intent(o) # Nothing /\ Intent(o).bound
      /\ Intent(o).spec # DesiredSpec(Loaded(o))
      /\ SaveAuto(o, [Loaded(o) EXCEPT !.intent.previous = Intent(o).spec,
                                       !.intent.spec = DesiredSpec(Loaded(o))])
      /\ UNCHANGED <<child, world, learnerPods, closed, config>>
  BY DEF ReserveRevision, ChildTurn, Working, OnCluster
<1>2. /\ Loaded(o) = control /\ control \in ControlRecord /\ control.intent # Nothing
      /\ Intent(o) = control.intent
  BY <1>1, SaveIs, RecordIs DEF Intent
<1>3. /\ control.intent \in IntentRecord /\ ViewOK(control)
      /\ \A l \in control.retired : Over(l)
  BY <1>2, RecordIs DEF RepairInv, World
<1>4. /\ DesiredSpec(control) \in ChangeSpec /\ SpecOK(control, DesiredSpec(control))
      /\ DesiredSpec(control).scope = control.intent.scope
      /\ DesiredSpec(control).abort = control.intent.aborting
      /\ control.intent.scope = "Voter" =>
           /\ DesiredSpec(control).learner = LearnerOf(control) /\ LearnerOf(control) \in Learners
           /\ LearnerOf(control)[1] = control.seq /\ LearnerOf(control)[2] = control.intent.attempt
  BY <1>2, <1>3, DesiredOK
<1>5. PICK d \in ChangeSpec : d = DesiredSpec(control)
  BY <1>4
<1>6. PICK p \in ChangeSpec : p = control.intent.spec
  BY <1>1, <1>2, <1>3 DEF ViewOK, IntentRecord
<1> DEFINE int == [control.intent EXCEPT !.previous = p, !.spec = d]
           new == [control EXCEPT !.intent = int]
<1>7. /\ int \in IntentRecord /\ int.proof = control.intent.proof
      /\ int.scope = control.intent.scope /\ int.failed = control.intent.failed
      /\ int.targets = control.intent.targets /\ int.bound = control.intent.bound /\ int.spec = d
      /\ int.previous = p /\ int.attempt = control.intent.attempt
      /\ int.aborting = control.intent.aborting
  BY <1>3 DEF IntentRecord
<1>8. SaveAuto(o, new)
  <2>1. [control EXCEPT !.intent.previous = p, !.intent.spec = d] = new
    BY <1>2, <1>3 DEF ControlRecord, IntentRecord
  <2>2. QED
    BY <1>1, <1>2, <1>5, <1>6, <2>1
<1> HIDE DEF int
<1>9. /\ new \in ControlRecord /\ new.intent = int /\ new.voters = control.voters
      /\ new.seq = control.seq /\ new.generation = control.generation
      /\ new.history = control.history /\ new.retired = control.retired
  BY <1>2, <1>7 DEF ControlRecord
<1> HIDE DEF new
<1>10. int.proof => FencedVoter(int)
  BY <1>2, <1>3, <1>7 DEF FencedVoter, ViewOK
<1>11. SpecOK(new, int.spec) /\ int.spec # Nothing
  BY <1>4, <1>5, <1>7, <1>9, NothingAssumption DEF SpecOK
<1>12. int.attempt \in 1..MaxAttempts /\ int.bound /\ child[control.seq] # Nothing
  BY <1>1, <1>2, <1>3, <1>7 DEF ViewOK
<1>13. int.scope = "Voter" => Later(p, d)
  <2>1. SUFFICES ASSUME control.intent.scope = "Voter"
                 PROVE  Later(p, d)
    BY <1>7
  <2>2. SpecOK(control, p)
    BY <1>2, <1>3, <1>6, NothingAssumption DEF ViewOK
  <2>3. /\ p.scope = "Voter" /\ p.learner \in Learners /\ p.learner[1] = control.seq
        /\ \/ p.learner[2] < control.intent.attempt
           \/ p.learner[2] = control.intent.attempt /\ (p.abort => control.intent.aborting)
    BY <2>1, <2>2 DEF SpecOK
  <2>4. p.learner[2] = control.intent.attempt => p.learner = d.learner
    BY <1>4, <1>5, <2>1, <2>3 DEF Learners
  <2>5. p.learner = d.learner => p.abort # d.abort
    <3>1. p.scope = d.scope /\ p # d
      BY <1>1, <1>2, <1>4, <1>5, <1>6, <2>1, <2>3
    <3>2. \A x, y \in ChangeSpec : x.scope = y.scope /\ x.learner = y.learner /\ x.abort = y.abort => x = y
      BY DEF ChangeSpec
    <3>3. QED
      BY <3>1, <3>2
  <2>6. d.abort = control.intent.aborting /\ d.learner[2] = control.intent.attempt
    BY <1>4, <1>5, <2>1
  <2>7. p.abort \in BOOLEAN /\ d.abort \in BOOLEAN
    BY DEF ChangeSpec
  <2>8. QED
    BY <2>3, <2>4, <2>5, <2>6, <2>7 DEF Later
<1>14. QED
  BY <1>1, <1>2, <1>3, <1>7, <1>8, <1>9, <1>10, <1>11, <1>12, <1>13, RepairMoves

-----------------------------------------------------------------------------
(* The saves that begin, escalate and end an incident *)

\* A new intent has proved, bound and revised nothing.
LEMMA NewIntentIs ==
    ASSUME NEW s, NEW scope \in {"Voter", "Generation"}, NEW failed \in Nodes \cup {Nothing},
           NEW targets \in SUBSET Nodes
    PROVE  LET i == NewIntent(s, scope, failed, targets)
           IN  /\ i \in IntentRecord /\ i # Nothing
               /\ i.scope = scope /\ i.failed = failed /\ i.targets = targets
               /\ ~ i.proof /\ ~ i.bound /\ i.spec = Nothing /\ i.previous = Nothing
               /\ i.attempt = 1
<1> DEFINE i == NewIntent(s, scope, failed, targets)
<1>1. i \in IntentRecord
  BY DEF NewIntent, IntentRecord
<1>2. /\ i.scope = scope /\ i.failed = failed /\ i.targets = targets
      /\ i.proof = FALSE /\ i.bound = FALSE /\ i.spec = Nothing /\ i.previous = Nothing
      /\ i.attempt = 1
  BY DEF NewIntent
<1>3. QED
  BY <1>1, <1>2, NothingAssumption

\* The whole generation is given up.
LEMMA GiveUpKeeps ==
    ASSUME RepairInv, NEW o \in Reconcilers, OnCluster(o), NEW new \in ControlRecord,
           SaveAuto(o, new), new.seq = control.seq + 1, new.seq \in Incidents,
           new.generation = 1, new.retired = control.retired,
           NEW targets \in SUBSET Nodes,
           new.intent = NewIntent(control, "Generation", Nothing, targets),
           UNCHANGED <<child, world, learnerPods, closed, config>>
    PROVE  RepairInv'
<1>1. control' = new /\ work' = Passed(o) /\ AutoTypes /\ World /\ control.seq \in Nat
  BY SaveIs DEF RepairInv, AutoTypes, ControlRecord
<1>2. /\ new.intent # Nothing /\ new.intent.scope = "Generation" /\ new.intent.failed = Nothing
      /\ ~ new.intent.proof /\ ~ new.intent.bound /\ new.intent.spec = Nothing
      /\ new.intent.previous = Nothing /\ new.intent.attempt = 1
  BY NewIntentIs
<1>3. Gone' /\ control'.seq \in Nat /\ control.seq < control'.seq
  BY <1>1, <1>2 DEF Gone, ControlRecord
<1>4. \A n : Over(n)' <=> Over(n)
  BY DEF Over, world
<1>5. Lasting
  BY <1>1, <1>3, <1>4 DEF Lasting, Accounted
<1>6. ViewOK(control)'
  <2>1. 1 \in 1..MaxAttempts
    BY AutoAssumption
  <2>2. Accounted(LearnerOf(control))'
    BY <1>3 DEF Accounted
  <2>3. control' = new
    BY <1>1
  <2>4. QED
    BY <1>2, <1>3, <2>1, <2>2, <2>3 DEF ViewOK
<1>7. World'
  <2>1. \A l \in learnerPods' : Accounted(l)'
    BY <1>3 DEF Accounted
  <2>2. control'.generation # 2
    BY <1>1
  <2>3. QED
    BY <1>1, <1>4, <2>1, <2>2 DEF World, world, Over
<1>8. ChildrenOK'
  <2>1. ASSUME NEW k \in Incidents, child[k] # Nothing
        PROVE  ChildOK(k)'
    <3>1. ChildOK(k) /\ child' = child /\ config' = config /\ k \in Nat
      BY <2>1 DEF RepairInv, ChildrenOK, Incidents
    <3>2. QED
      BY <1>1, <1>3, <1>4, <3>1 DEF ChildOK, Past, Over
  <2>2. QED
    BY <1>3, <2>1 DEF ChildrenOK
<1>9. \A q \in Reconcilers, k \in Incidents : OnChild(q) /\ work[q].seq = k => GoesOn(q, k)
  <2>1. ASSUME NEW q \in Reconcilers, NEW k \in Incidents, OnChild(q), work[q].seq = k
        PROVE  GoesOn(q, k)
    <3>1. k <= control.seq /\ k \in Nat
      BY <2>1 DEF RepairInv, PassOK, Incidents
    <3>2. QED
      BY <1>1, <1>3, <3>1 DEF GoesOn, Finished
  <2>2. QED
    BY <2>1
<1>10. QED
  BY <1>1, <1>3, <1>5, <1>6, <1>7, <1>8, <1>9, SaveKeeps

\* The repair of a voter begins: nothing of it exists yet.
LEMMA BeginKeeps ==
    ASSUME RepairInv, NEW o \in Reconcilers, OnCluster(o), control.intent = Nothing,
           NEW failed \in control.voters, NEW new \in ControlRecord,
           SaveAuto(o, new), new.seq = control.seq + 1, new.seq \in Incidents,
           new.voters = control.voters, new.history = control.history,
           new.generation = control.generation, new.retired = control.retired,
           new.intent = NewIntent(control, "Voter", failed, {failed}),
           UNCHANGED <<child, world, learnerPods, closed, config>>
    PROVE  RepairInv'
<1>1. /\ control' = new /\ work' = Passed(o) /\ control.generation = 1
      /\ AutoTypes /\ World /\ control.seq \in Nat /\ failed \in Nodes
  BY SaveIs DEF RepairInv, AutoTypes, ControlRecord
<1>2. /\ new.intent # Nothing /\ new.intent.scope = "Voter" /\ new.intent.failed = failed
      /\ new.intent.targets = {failed}
      /\ ~ new.intent.proof /\ ~ new.intent.bound /\ new.intent.spec = Nothing
      /\ new.intent.previous = Nothing /\ new.intent.attempt = 1
  BY <1>1, NewIntentIs
<1>3. ~ Gone /\ ~ Gone' /\ Staged
  BY <1>1, <1>2 DEF Gone, RepairInv
<1>4. \A k \in Incidents : Finished(k)' <=> Finished(k)
  BY <1>1, <1>2 DEF Finished, Incidents
<1>5. \A n : Over(n)' <=> Over(n)
  BY DEF Over, world
<1>6. \A k \in Incidents : child[k] # Nothing => k < control'.seq
  BY <1>1 DEF RepairInv, ChildrenOK, ChildOK, Incidents
<1>7. Lasting
  <2>1. \A l \in Learners : Accounted(l) => Accounted(l)'
    BY <1>1, <1>3, <1>5 DEF Accounted
  <2>2. QED
    BY <1>1, <1>3, <1>5, <2>1 DEF Lasting
<1>8. ViewOK(control)'
  <2>1. 1 \in 1..MaxAttempts
    BY AutoAssumption
  <2>2. control' = new /\ control'.intent # Nothing /\ control'.seq <= control'.seq
    BY <1>1, <1>2
  <2>3. Accounted(LearnerOf(control))'
    BY <2>2 DEF Accounted
  <2>4. QED
    BY <1>1, <1>2, <2>1, <2>2, <2>3 DEF ViewOK
<1>9. World'
  <2>1. \A l \in learnerPods' : Accounted(l)'
    BY <1>1, <1>7 DEF Lasting, World, AutoTypes
  <2>2. control'.generation # 2
    BY <1>1
  <2>3. QED
    BY <1>1, <1>5, <2>1, <2>2 DEF World, world, Over
<1>10. ChildrenOK'
  <2>1. ASSUME NEW k \in Incidents, child[k] # Nothing
        PROVE  ChildOK(k)'
    <3>1. ChildOK(k) /\ child' = child /\ config' = config /\ k \in Nat
      BY <2>1 DEF RepairInv, ChildrenOK, Incidents
    <3>2. QED
      BY <1>1, <1>3, <1>4, <1>5, <3>1 DEF ChildOK, Past, Over
  <2>2. QED
    BY <1>3, <1>4, <2>1 DEF RepairInv, ChildrenOK
<1>11. \A q \in Reconcilers, k \in Incidents : OnChild(q) /\ work[q].seq = k => GoesOn(q, k)
  <2>1. ASSUME NEW q \in Reconcilers, NEW k \in Incidents, OnChild(q), work[q].seq = k
        PROVE  GoesOn(q, k)
    <3>1. PassOK(q)
      BY <2>1 DEF RepairInv
    <3>2. Finished(k)
      BY <1>1, <2>1, <3>1 DEF PassOK, Finished, Incidents
    <3>3. QED
      BY <1>3, <1>4, <2>1, <3>1, <3>2 DEF GoesOn, PassOK
  <2>2. QED
    BY <2>1
<1>12. Staged'
  <2>1. Child' = Nothing
    BY <1>1, <1>6 DEF Child, ControlRecord
  <2>2. /\ config' = config /\ closed' = closed /\ control'.voters = control.voters
        /\ control'.intent # Nothing /\ Failed' = failed
        /\ config.voters = control.voters /\ config.pending = Nothing
        /\ config.voters \cap closed = {}
    BY <1>1, <1>2, <1>3 DEF Staged, Failed
  <2>3. \A l \in Learners : l[1] \in Nat
    BY DEF Learners, Incidents
  <2>4. \A l \in Learners : l \in control'.voters =>
           l[1] < control'.seq \/ (l[1] = control'.seq /\ control'.intent = Nothing)
    BY <1>1, <1>3, <2>2, <2>3 DEF Staged
  <2>5. LearnersClosed'
    BY <1>1, <1>3, <2>2, <2>3 DEF Staged, LearnersClosed
  <2>6. ASSUME NEW q \in Reconcilers, OnChild(q)', work'[q].seq = control'.seq
        PROVE  work'[q].of.add = Nothing
    <3>1. q # o /\ Onward(q)
      BY <1>1, <2>6, PassedIs
    <3>2. work[q].seq = control'.seq /\ child[work[q].seq] # Nothing
      BY <2>6, <3>1 DEF Onward, RepairInv, PassOK
    <3>3. QED
      BY <2>1, <3>2 DEF Child
  <2>7. Before'
    BY <2>1, <2>2, <2>6 DEF Before
  <2>8. RepairJournal'
    BY <2>1 DEF RepairJournal
  <2>9. QED
    BY <2>2, <2>4, <2>5, <2>7, <2>8 DEF Staged
<1>13. QED
  BY <1>1, <1>3, <1>7, <1>8, <1>9, <1>10, <1>11, <1>12, SaveKeeps

\* A record with a new intent.
Begun(c, known, suspected, k, int) ==
    [c EXCEPT !.known = known, !.suspected = suspected, !.seq = k, !.intent = int]

\* Its fields.
LEMMA BegunIs ==
    ASSUME NEW c \in ControlRecord, NEW known \in SUBSET Nodes, NEW suspected \in BOOLEAN,
           NEW k \in Incidents, NEW int \in IntentRecord
    PROVE  LET new == Begun(c, known, suspected, k, int)
           IN  /\ new \in ControlRecord /\ new.seq = k /\ new.intent = int
               /\ new.generation = c.generation /\ new.history = c.history
               /\ new.retired = c.retired /\ new.voters = c.voters
<1>1. k \in 0..MaxIncidents
  BY DEF Incidents
<1>2. QED
  BY <1>1 DEF ControlRecord, Begun

\* An observation, and the incident it may begin.
LEMMA ObserveKeeps ==
    ASSUME RepairInv, NEW o \in Reconcilers, NEW elapsed \in BOOLEAN, ObserveCluster(o, elapsed)
    PROVE  RepairInv'
<1> DEFINE s == Loaded(o)
           seen == s.voters \cap Up
           lost == s.voters \ seen
           quorum == VoterMajority(config.voters)
           known == s.known \cup seen
           whole == DecideChange(quorum, lost = {}, s.suspected, elapsed)
           one == DecideChange(FALSE, FALSE, s.suspected, elapsed)
           single == whole = "Degraded" /\ Cardinality(lost) = 1
           failed == IF single /\ lost \subseteq known THEN CHOOSE n \in lost : TRUE ELSE Nothing
           suspected == whole # "Healthy"
           observed == [s EXCEPT !.known = known, !.suspected = suspected]
           begun == [observed EXCEPT
                       !.seq = @ + 1,
                       !.intent = NewIntent(s,
                            IF failed = Nothing THEN "Generation" ELSE "Voter",
                            failed,
                            IF failed = Nothing THEN s.voters \cup s.history ELSE {failed})]
<1>1. /\ OnCluster(o) /\ s.intent = Nothing
      /\ UNCHANGED <<child, world, learnerPods, closed, config>>
      /\ \/ s.seq < MaxIncidents /\ SaveAuto(o, begun)
         \/ SaveAuto(o, observed)
  BY DEF ObserveCluster, Working, OnCluster, Intent
<1>2. s = control /\ control \in ControlRecord /\ control.generation = 1
  <2>1. PICK new : SaveAuto(o, new)
    BY <1>1
  <2>2. QED
    BY <1>1, <2>1, SaveIs, RecordIs
<1>3. lost \in SUBSET control.voters /\ known \in SUBSET Nodes
  BY <1>2 DEF ControlRecord, Up
<1>4. failed = Nothing \/ failed \in control.voters
  <2>1. single => lost # {}
    BY FS_EmptySet
  <2>2. QED
    BY <1>3, <2>1
<1>5. suspected \in BOOLEAN
  OBVIOUS
<1> HIDE DEF s, known, suspected, failed
<1>6. CASE SaveAuto(o, observed)
  BY <1>1, <1>2, <1>3, <1>5, <1>6, ObserveOnly
<1>7. CASE s.seq < MaxIncidents /\ SaveAuto(o, begun)
  <2>1. control.seq + 1 \in Incidents
    BY <1>2, <1>7, AutoAssumption DEF ControlRecord, Incidents
  <2>2. CASE failed = Nothing
    <3> DEFINE int == NewIntent(control, "Generation", Nothing, control.voters \cup control.history)
               new == Begun(control, known, suspected, control.seq + 1, int)
    <3>1. control.voters \cup control.history \in SUBSET Nodes
      BY <1>2 DEF ControlRecord
    <3>2. int \in IntentRecord
      BY <3>1, NewIntentIs
    <3>3. begun = new
      BY <1>2, <2>2 DEF ControlRecord, Begun
    <3>4. SaveAuto(o, new)
      BY <1>7, <3>3
    <3> HIDE DEF int
    <3>5. /\ new \in ControlRecord /\ new.seq = control.seq + 1 /\ new.generation = 1
          /\ new.retired = control.retired /\ new.intent = int
      BY <1>2, <1>3, <1>5, <2>1, <3>2, BegunIs
    <3> HIDE DEF new
    <3>6. QED
      BY <1>1, <2>1, <3>1, <3>4, <3>5, GiveUpKeeps DEF int
  <2>3. CASE failed \in control.voters /\ failed # Nothing
    <3> DEFINE int == NewIntent(control, "Voter", failed, {failed})
               new == Begun(control, known, suspected, control.seq + 1, int)
    <3>1. failed \in Nodes
      BY <1>2, <2>3 DEF ControlRecord
    <3>2. int \in IntentRecord
      BY <3>1, NewIntentIs
    <3>3. begun = new
      BY <1>2, <2>3 DEF ControlRecord, Begun
    <3>4. SaveAuto(o, new)
      BY <1>7, <3>3
    <3> HIDE DEF int
    <3>5. /\ new \in ControlRecord /\ new.seq = control.seq + 1
          /\ new.generation = control.generation /\ new.history = control.history
          /\ new.retired = control.retired /\ new.voters = control.voters /\ new.intent = int
      BY <1>2, <1>3, <1>5, <2>1, <3>2, BegunIs
    <3> HIDE DEF new
    <3>6. control.intent = Nothing
      BY <1>1, <1>2
    <3>7. QED
      BY <1>1, <2>1, <2>3, <3>4, <3>5, <3>6, BeginKeeps DEF int
  <2>4. QED
    BY <1>4, <2>2, <2>3
<1>8. QED
  BY <1>1, <1>6, <1>7

\* The repair is superseded by the fence of the generation.
LEMMA EscalateKeeps ==
    ASSUME RepairInv, NEW o \in Reconcilers, Escalate(o)
    PROVE  RepairInv'
<1> DEFINE save(c) == [c EXCEPT !.seq = @ + 1,
                !.intent = NewIntent(c, "Generation", Nothing, c.voters \cup HistoryTargets(c))]
<1>1. /\ OnCluster(o) /\ Loaded(o).seq < MaxIncidents /\ SaveAuto(o, save(Loaded(o)))
      /\ UNCHANGED <<child, world, learnerPods, closed, config>>
  BY DEF Escalate, ChangeSettled, Repairing, Working, OnCluster
<1>2. Loaded(o) = control /\ control \in ControlRecord /\ control.generation = 1
  BY <1>1, SaveIs, RecordIs
<1>3. control.seq + 1 \in Incidents
  BY <1>1, <1>2, AutoAssumption DEF ControlRecord, Incidents
<1> DEFINE targets == control.voters \cup HistoryTargets(control)
           int == NewIntent(control, "Generation", Nothing, targets)
           new == Begun(control, control.known, control.suspected, control.seq + 1, int)
<1>4. targets \in SUBSET Nodes
  BY <1>2 DEF ControlRecord, HistoryTargets
<1>5. int \in IntentRecord
  BY <1>4, NewIntentIs
<1>6. SaveAuto(o, new)
  <2>1. save(control) = new
    BY <1>2 DEF ControlRecord, Begun
  <2>2. QED
    BY <1>1, <1>2, <2>1
<1> HIDE DEF int, targets, save
<1>7. /\ new \in ControlRecord /\ new.seq = control.seq + 1 /\ new.generation = 1
      /\ new.retired = control.retired /\ new.intent = int
  <2>1. control.known \in SUBSET Nodes /\ control.suspected \in BOOLEAN
    BY <1>2 DEF ControlRecord
  <2>2. QED
    BY <1>2, <1>3, <1>5, <2>1, BegunIs
<1> HIDE DEF new
<1>8. QED
  BY <1>1, <1>3, <1>4, <1>6, <1>7, GiveUpKeeps DEF int

\* The members of a repair that is done are open.
LEMMA AfterOpen ==
    ASSUME RepairInv, ~ Gone, control.intent # Nothing, After
    PROVE  /\ Failed \notin config.voters
           /\ Child.add.learner \in Learners /\ Child.add.learner[1] = control.seq
           /\ config.voters \cap closed = {}
<1>1. /\ Staged /\ control.seq \in Incidents /\ control.voters \subseteq Nodes
  BY DEF RepairInv, ViewOK, AutoTypes, ControlRecord
<1>2. Child.add.learner \in Learners /\ Child.add.learner[1] = control.seq
  BY <1>1 DEF After, Removed, RepairInv, ChildrenOK, ChildOK, Child
<1>3. Failed \in control.voters /\ (Failed \in Learners => Failed[1] < control.seq)
  BY <1>1 DEF Staged
<1>4. Child.add.learner # Failed
  BY <1>1, <1>2, <1>3 DEF Incidents
<1>5. QED
  BY <1>1, <1>2, <1>4 DEF After, Staged

\* The repair of a voter ends in the record as it has in the membership.
LEMMA EndVoterKeeps ==
    ASSUME RepairInv, NEW o \in Reconcilers, OnCluster(o), NEW new \in ControlRecord,
           SaveAuto(o, new), control.intent # Nothing, control.intent.scope = "Voter",
           control.intent.proof, Child # Nothing, Child.phase = "Complete",
           Child.add.learner = LearnerOf(control),
           new.intent = Nothing, new.seq = control.seq, new.generation = control.generation,
           new.history = control.history,
           new.retired \subseteq control.retired \cup control.intent.targets,
           new.voters = (control.voters \ {Failed}) \cup {LearnerOf(control)},
           UNCHANGED <<child, world, learnerPods, closed, config>>
    PROVE  RepairInv'
<1>1. /\ control' = new /\ work' = Passed(o) /\ control.generation = 1
      /\ AutoTypes /\ World /\ control.seq \in Nat /\ ViewOK(control)
  BY SaveIs DEF RepairInv, AutoTypes, ControlRecord
<1>2. ~ Gone /\ ~ Gone' /\ Staged
  BY <1>1 DEF Gone, RepairInv
<1>3. After
  BY <1>2 DEF Staged, RepairJournal
<1>4. /\ Failed \notin config.voters /\ config.voters \cap closed = {}
      /\ Child.add.learner \in Learners /\ Child.add.learner[1] = control.seq
  BY <1>2, <1>3, AfterOpen
<1>5. \A n : Over(n)' <=> Over(n)
  BY DEF Over, world
<1>6. Failed \in Nodes /\ control.intent.targets = {Failed} /\ Over(Failed)
  BY <1>1 DEF ViewOK, FencedVoter, Failed
<1>7. config.voters = new.voters /\ config.pending = Nothing
  BY <1>3 DEF After
<1>8. \A k \in Incidents : Finished(k)' <=> Finished(k) \/ k = control.seq
  BY <1>1 DEF Finished, Incidents
<1>9. Lasting
  <2>1. \A l \in Learners : Accounted(l) => Accounted(l)'
    BY <1>1, <1>2, <1>5, <1>7 DEF Accounted
  <2>2. control.seq <= control'.seq
    BY <1>1
  <2>3. QED
    BY <1>2, <1>5, <1>6, <2>1, <2>2 DEF Lasting
<1>10. ViewOK(control)'
  BY <1>1 DEF ViewOK
<1>11. World'
  <2>1. \A l \in learnerPods' : Accounted(l)'
    BY <1>1, <1>9 DEF Lasting, World, AutoTypes
  <2>2. \A l \in control'.retired : Over(l)'
    BY <1>1, <1>5, <1>6 DEF World
  <2>3. control'.generation # 2
    BY <1>1
  <2>4. QED
    BY <1>1, <1>5, <2>1, <2>2, <2>3 DEF World, world, Over
<1>12. /\ Child.remove # Nothing /\ Child.remove.id < config.id
       /\ Child.add # Nothing /\ Child.add.id < config.id /\ config.abort = 0
  BY <1>3 DEF After, Removed
<1>13. ChildrenOK'
  <2>1. ASSUME NEW k \in Incidents, child[k] # Nothing
        PROVE  ChildOK(k)'
    <3>1. ChildOK(k) /\ child' = child /\ config' = config /\ control'.seq = control.seq
      BY <1>1, <2>1 DEF RepairInv, ChildrenOK
    <3>2. ~ Finished(k) /\ Finished(k)' => k = control.seq /\ child[k] = Child
      BY <1>8 DEF Child
    <3>3. QED
      BY <1>2, <1>5, <1>12, <3>1, <3>2 DEF ChildOK, Past, Over
  <2>2. QED
    BY <1>2, <1>8, <2>1 DEF RepairInv, ChildrenOK, Child
<1>14. \A q \in Reconcilers, k \in Incidents : OnChild(q) /\ work[q].seq = k => GoesOn(q, k)
  <2>1. ASSUME NEW q \in Reconcilers, NEW k \in Incidents, OnChild(q), work[q].seq = k
        PROVE  GoesOn(q, k)
    <3>1. PassOK(q)
      BY <2>1 DEF RepairInv
    <3>2. Finished(k)'
      BY <1>1, <1>8, <2>1, <3>1 DEF PassOK, Finished, Incidents
    <3>3. ASSUME work[q].of.add # Nothing, ~ Finished(k)
          PROVE  work[q].of.add.id < config.id
      <4>1. k = control.seq /\ child[k] = Child
        BY <1>8, <3>2, <3>3 DEF Child
      <4>2. Dead(work[q].of.add) \/ work[q].of.add = Child.add
        BY <1>2, <2>1, <3>1, <3>3, <4>1 DEF PassOK
      <4>3. work[q].of.add.abort \in Nat
        BY <1>1, <2>1, <3>3, PassTypes DEF ChildPass, ChildRecord, AddRecord
      <4>4. QED
        BY <1>12, <4>2, <4>3 DEF Dead
    <3>4. QED
      BY <1>2, <2>1, <3>1, <3>2, <3>3 DEF GoesOn, PassOK
  <2>2. QED
    BY <2>1
<1>15. Staged'
  <2>1. \A l \in Learners : l[1] \in Nat
    BY DEF Learners, Incidents
  <2>2. \A l \in Learners : l \in control'.voters =>
           l[1] < control'.seq \/ (l[1] = control'.seq /\ control'.intent = Nothing)
    BY <1>1, <1>2, <1>4, <2>1 DEF Staged
  <2>3. LearnersClosed'
    BY <1>1, <1>2 DEF Staged, LearnersClosed
  <2>4. QED
    BY <1>1, <1>4, <1>7, <2>2, <2>3 DEF Staged
<1>16. QED
  BY <1>1, <1>9, <1>10, <1>11, <1>13, <1>14, <1>15, SaveKeeps

\* The generation ends when all of its nodes have.
LEMMA EndGenerationKeeps ==
    ASSUME RepairInv, NEW o \in Reconcilers, OnCluster(o), NEW new \in ControlRecord,
           SaveAuto(o, new), control.intent # Nothing, control.intent.scope = "Generation",
           control.intent.proof, new.intent = Nothing, new.seq = control.seq, new.generation = 2,
           UNCHANGED <<child, world, learnerPods, closed, config>>
    PROVE  RepairInv'
<1>1. /\ control' = new /\ work' = Passed(o) /\ control.seq \in Nat
      /\ AutoTypes /\ World /\ ViewOK(control)
  BY SaveIs DEF RepairInv, AutoTypes, ControlRecord
<1>2. Gone'
  BY <1>1 DEF Gone
<1>3. \A n : Over(n)' <=> Over(n)
  BY DEF Over, world
<1>4. \A n \in Nodes : Over(n)
  BY <1>1 DEF ViewOK, FencedVoter
<1>5. Lasting
  BY <1>1, <1>2, <1>3 DEF Lasting, Accounted
<1>6. ViewOK(control)'
  BY <1>1 DEF ViewOK
<1>7. World'
  <2>1. \A l \in learnerPods' : Accounted(l)'
    BY <1>2 DEF Accounted
  <2>2. control'.retired \subseteq Nodes
    BY <1>1 DEF ControlRecord
  <2>3. QED
    BY <1>1, <1>3, <1>4, <2>1, <2>2 DEF World, world, Over
<1>8. ChildrenOK'
  <2>1. ASSUME NEW k \in Incidents, child[k] # Nothing
        PROVE  ChildOK(k)'
    <3>1. ChildOK(k) /\ child' = child /\ config' = config /\ control'.seq = control.seq
      BY <1>1, <2>1 DEF RepairInv, ChildrenOK
    <3>2. QED
      BY <1>2, <1>3, <3>1 DEF ChildOK, Past, Over
  <2>2. QED
    BY <1>2, <2>1 DEF ChildrenOK
<1>9. \A q \in Reconcilers, k \in Incidents : OnChild(q) /\ work[q].seq = k => GoesOn(q, k)
  <2>1. ASSUME NEW q \in Reconcilers, NEW k \in Incidents, OnChild(q), work[q].seq = k
        PROVE  GoesOn(q, k)
    <3>1. k <= control.seq /\ k \in Nat
      BY <2>1 DEF RepairInv, PassOK, Incidents
    <3>2. QED
      BY <1>1, <1>2, <3>1 DEF GoesOn, Finished
  <2>2. QED
    BY <2>1
<1>10. QED
  BY <1>1, <1>2, <1>5, <1>6, <1>7, <1>8, <1>9, SaveKeeps

\* A record whose repair is over.
Ended(c, retired, voters, known) ==
    [c EXCEPT !.intent = Nothing, !.suspected = FALSE, !.retired = retired,
              !.voters = voters, !.known = known]

\* Its fields.
LEMMA EndedIs ==
    ASSUME NEW c \in ControlRecord, NEW retired \in SUBSET Nodes, NEW voters \in SUBSET Nodes,
           NEW known \in SUBSET Nodes
    PROVE  LET new == Ended(c, retired, voters, known)
           IN  /\ new \in ControlRecord /\ new.intent = Nothing /\ new.seq = c.seq
               /\ new.generation = c.generation /\ new.history = c.history
               /\ new.retired = retired /\ new.voters = voters
BY DEF ControlRecord, Ended

\* An incident that is over.
LEMMA CompleteKeeps ==
    ASSUME RepairInv, NEW o \in Reconcilers, CompleteIncident(o)
    PROVE  RepairInv'
<1> DEFINE done(s) == [s EXCEPT !.intent = Nothing, !.suspected = FALSE,
                                !.retired = @ \cup (s.history \cap s.intent.targets)]
           voter(s) == [done(s) EXCEPT
                          !.voters = (@ \ {s.intent.failed}) \cup {LearnerOf(s)},
                          !.known = (@ \ {s.intent.failed}) \cup {LearnerOf(s)}]
           whole(s) == [done(s) EXCEPT !.generation = 2]
<1>1. /\ OnCluster(o) /\ Loaded(o).intent # Nothing /\ Loaded(o).intent.proof
      /\ UNCHANGED <<child, world, learnerPods, closed, config>>
      /\ child[Loaded(o).seq] # Nothing /\ child[Loaded(o).seq].phase = "Complete"
      /\ \/ /\ Loaded(o).intent.scope = "Voter"
            /\ child[Loaded(o).seq].add.learner = LearnerOf(Loaded(o))
            /\ SaveAuto(o, voter(Loaded(o)))
         \/ /\ Loaded(o).intent.scope # "Voter" /\ SaveAuto(o, whole(Loaded(o)))
  BY DEF CompleteIncident, Working, OnCluster, Intent
<1>2. Loaded(o) = control /\ control \in ControlRecord
  <2>1. PICK new : SaveAuto(o, new)
    BY <1>1
  <2>2. QED
    BY <1>1, <2>1, SaveIs, RecordIs
<1>3. control.intent \in IntentRecord /\ LearnerOf(control) \in Nodes
  BY <1>1, <1>2, RecordIs
<1>4. done(control).retired \in SUBSET Nodes
  BY <1>2 DEF ControlRecord
<1>5. CASE control.intent.scope = "Voter"
  <2>1. SaveAuto(o, voter(control))
    BY <1>1, <1>2, <1>5
  <2>2. /\ voter(control) \in ControlRecord /\ voter(control).intent = Nothing
        /\ voter(control).seq = control.seq /\ voter(control).generation = control.generation
        /\ voter(control).history = control.history
        /\ voter(control).retired = control.retired \cup (control.history \cap control.intent.targets)
        /\ voter(control).voters = (control.voters \ {Failed}) \cup {LearnerOf(control)}
    <3> DEFINE r == control.retired \cup (control.history \cap control.intent.targets)
               v == (control.voters \ {Failed}) \cup {LearnerOf(control)}
               n == (control.known \ {Failed}) \cup {LearnerOf(control)}
    <3>1. r \in SUBSET Nodes /\ v \in SUBSET Nodes /\ n \in SUBSET Nodes
      BY <1>2, <1>3 DEF ControlRecord
    <3>2. voter(control) = Ended(control, r, v, n)
      BY <1>2 DEF ControlRecord, Ended, Failed
    <3> HIDE DEF voter, r, v, n
    <3>3. voter(control) \in ControlRecord /\ voter(control).intent = Nothing
          /\ voter(control).seq = control.seq /\ voter(control).generation = control.generation
          /\ voter(control).history = control.history
          /\ voter(control).retired = r /\ voter(control).voters = v
      BY <1>2, <3>1, <3>2, EndedIs
    <3>4. QED
      BY <3>3 DEF r, v
  <2>3. /\ Child # Nothing /\ Child.phase = "Complete" /\ Child.add.learner = LearnerOf(control)
        /\ control.intent # Nothing /\ control.intent.proof
    BY <1>1, <1>2, <1>5 DEF Child
  <2> HIDE DEF voter
  <2>4. QED
    BY <1>1, <1>5, <2>1, <2>2, <2>3, EndVoterKeeps
<1>6. CASE control.intent.scope # "Voter"
  <2>1. SaveAuto(o, whole(control)) /\ control.intent # Nothing /\ control.intent.proof
    BY <1>1, <1>2, <1>6
  <2>2. /\ whole(control) \in ControlRecord /\ whole(control).intent = Nothing
        /\ whole(control).seq = control.seq /\ whole(control).generation = 2
    BY <1>2 DEF ControlRecord
  <2>3. control.intent.scope = "Generation"
    BY <1>3, <1>6 DEF IntentRecord
  <2> HIDE DEF whole
  <2>4. QED
    BY <1>1, <2>1, <2>2, <2>3, EndGenerationKeeps
<1>7. QED
  BY <1>5, <1>6

-----------------------------------------------------------------------------
(* Fences *)

\* A scope is closed and the pass ends.
Fences(o) ==
    /\ UNCHANGED <<control, child, world, learnerPods, config>>
    /\ work' = [work EXCEPT ![o] = NoWork]
    /\ closed \subseteq closed' /\ closed' \subseteq Nodes

\* Closing a scope keeps the invariant when no repair is disturbed.
LEMMA FenceKeeps ==
    ASSUME RepairInv, NEW o \in Reconcilers, Fences(o),
           ~ Gone /\ Staged => LearnersClosed',
           ~ Gone /\ Staged => IF control.intent = Nothing THEN config.voters \cap closed' = {}
                               ELSE config.voters \cap closed' \subseteq {Failed},
           ~ Gone /\ Staged /\ control.intent # Nothing /\ Child # Nothing =>
              (Child.add # Nothing /\ Child.add.id = config.id /\ Child.add.abort = config.abort =>
                  Child.add.learner \notin closed')
    PROVE  RepairInv'
<1> USE DEF Fences
<1>1. AutoTypes /\ World /\ ViewOK(control) /\ control.seq \in Nat
  BY DEF RepairInv, AutoTypes, ControlRecord
<1>2. /\ work' \in [Reconcilers -> {NoWork} \cup ClusterPass \cup ChildPass]
      /\ ~ OnCluster(o)' /\ ~ OnChild(o)'
      /\ \A q \in Reconcilers : q # o => work'[q] = work[q] /\ Onward(q)
  BY <1>1, IdleIs
<1>3. AutoTypes'
  BY <1>1, <1>2 DEF AutoTypes, world
<1>4. (Gone' <=> Gone) /\ (\A k \in Incidents : Finished(k)' <=> Finished(k))
      /\ \A n \in Nodes : Over(n) => Over(n)'
  BY DEF Gone, Finished, Over, world
<1>5. Lasting
  <2>1. \A l \in Learners : Accounted(l) => Accounted(l)'
    BY <1>4 DEF Accounted, LearnerOf, Nodes
  <2>2. QED
    BY <1>1, <1>4, <2>1 DEF Lasting, Failed
<1>6. World'
  <2>1. \A l \in learnerPods' : Accounted(l)'
    BY <1>1, <1>5 DEF Lasting, World, AutoTypes
  <2>2. \A l \in control'.retired : Over(l)'
    BY <1>1, <1>4 DEF World, AutoTypes, ControlRecord
  <2>3. (config.pending # Nothing /\ config.pending.kind = "remove" => Over(config.pending.node))'
    <3>1. config.pending # Nothing => config.pending.node \in Nodes
      BY <1>1 DEF AutoTypes, PendingChange
    <3>2. QED
      BY <1>1, <1>4, <3>1 DEF World, Over
  <2>4. \A n \in BaseVoters \ config'.voters : Over(n)'
    BY <1>1, <1>4 DEF World, Nodes
  <2>5. QED
    BY <1>1, <1>4, <2>1, <2>2, <2>3, <2>4 DEF World, world
<1>7. ViewOK(control)'
  <2>1. PICK s \in ControlRecord : s = control
    BY <1>1 DEF AutoTypes
  <2>2. ViewOK(s)'
    BY <1>1, <1>5, <2>1, ViewStays
  <2>3. QED
    BY <2>1, <2>2
<1>8. ASSUME NEW q \in Reconcilers, OnCluster(q)'
      PROVE  ClusterOK(q)'
  <2>1. q # o /\ Onward(q) /\ work'[q] = work[q]
    BY <1>2, <1>8
  <2>2. work'[q].fresh => work'[q].ctl = control'
    BY <1>8, <2>1 DEF RepairInv, ClusterOK, OnCluster
  <2>3. QED
    BY <1>1, <1>5, <1>8, <2>1, <2>2, ViewsStay
<1>9. ASSUME NEW q \in Reconcilers, OnChild(q)'
      PROVE  PassOK(q)'
  <2>1. q # o /\ Onward(q) /\ work'[q] = work[q] /\ OnChild(q) /\ PassOK(q)
    BY <1>2, <1>9 DEF Onward, RepairInv
  <2>2. QED
    BY <1>4, <2>1 DEF PassOK, Past, Dead, Finished, Gone
<1>10. ChildrenOK'
  <2>1. ASSUME NEW k \in Incidents, child[k] # Nothing
        PROVE  ChildOK(k)'
    <3>1. ChildOK(k) /\ (child[k].remove # Nothing => child[k].remove.node \in Nodes)
      BY <1>1, <2>1 DEF RepairInv, ChildrenOK, AutoTypes, ChildRecord, RemoveRecord
    <3>2. QED
      BY <1>4, <3>1 DEF ChildOK, Past
  <2>2. QED
    BY <1>4, <2>1 DEF RepairInv, ChildrenOK
<1>11. ~ Gone' => Staged'
  <2>1. SUFFICES ASSUME ~ Gone
                 PROVE  Staged'
    BY <1>4
  <2>2. /\ Staged /\ Child' = Child /\ config' = config /\ control' = control /\ Failed' = Failed
    BY <2>1 DEF RepairInv, Child, Failed
  <2>3. Before => Before'
    <3>1. ASSUME Before, NEW q \in Reconcilers, OnChild(q)', work'[q].seq = control'.seq
          PROVE  work'[q].of.add = Nothing
      <4>1. q # o /\ Onward(q)
        BY <1>2, <3>1
      <4>2. QED
        BY <2>2, <3>1, <4>1 DEF Onward, Before
    <3>2. QED
      BY <2>2, <3>1 DEF Before
  <2>4. Between => Between'
    BY <2>2 DEF Between, Removed
  <2>5. After => After'
    BY <2>2 DEF After, Removed
  <2>6. control.intent # Nothing => RepairJournal'
    BY <2>1, <2>2, <2>5 DEF RepairJournal, Staged
  <2>7. QED
    BY <2>1, <2>2, <2>3, <2>4, <2>5, <2>6 DEF Staged
<1>12. QED
  BY <1>3, <1>6, <1>7, <1>8, <1>9, <1>10, <1>11 DEF RepairInv

\* The numbers that are compared.
LEMMA NumbersAre ==
    ASSUME AutoTypes
    PROVE  /\ config.id \in Nat /\ config.abort \in Nat /\ control.seq \in Nat
           /\ \A k \in Incidents : child[k] # Nothing => child[k] \in ChildRecord
           /\ \A c \in ChildRecord :
                /\ c.add # Nothing => c.add \in AddRecord /\ c.add.id \in Nat /\ c.add.abort \in Nat
                /\ c.remove # Nothing =>
                     c.remove \in RemoveRecord /\ c.remove.id \in Nat /\ c.remove.node \in Nodes
           /\ \A k \in Incidents : k \in Nat
           /\ \A l \in Learners : l[1] \in Nat /\ l[2] \in Nat
<1>1. /\ config.id \in Nat /\ config.abort \in Nat /\ control.seq \in Nat
      /\ \A k \in Incidents : child[k] # Nothing => child[k] \in ChildRecord
  BY DEF AutoTypes, ControlRecord
<1>2. \A c \in ChildRecord :
         /\ c.add # Nothing => c.add \in AddRecord /\ c.add.id \in Nat /\ c.add.abort \in Nat
         /\ c.remove # Nothing =>
              c.remove \in RemoveRecord /\ c.remove.id \in Nat /\ c.remove.node \in Nodes
  BY DEF ChildRecord, AddRecord, RemoveRecord
<1>3. /\ \A k \in Incidents : k \in Nat
      /\ \A l \in Learners : l[1] \in Nat /\ l[2] \in Nat
  BY AutoAssumption DEF Incidents, Learners
<1>4. QED
  BY <1>1, <1>2, <1>3

\* A fence of the record's intent, or of one it has replaced.
LEMMA RequestKeeps ==
    ASSUME RepairInv, NEW o \in Reconcilers, RequestFence(o)
    PROVE  RepairInv'
<1> DEFINE i == Loaded(o).intent
           scope == IF i.scope = "Generation" THEN Nodes ELSE i.targets
<1>1. /\ OnCluster(o) /\ i # Nothing /\ closed' = closed \cup scope
      /\ work' = [work EXCEPT ![o] = NoWork]
      /\ UNCHANGED <<control, child, world, learnerPods, config>>
  BY DEF RequestFence, Working, OnCluster, Intent
<1>2. /\ ViewOK(Loaded(o)) /\ Loaded(o) \in ControlRecord /\ AutoTypes /\ ViewOK(control)
  BY <1>1, PassTypes DEF RepairInv, ClusterOK, Loaded, ClusterPass
<1>3. i \in IntentRecord
  BY <1>1, <1>2 DEF ControlRecord
<1>4. scope \subseteq Nodes /\ i.scope \in {"Voter", "Generation"}
  BY <1>3 DEF IntentRecord
<1>5. Fences(o)
  BY <1>1, <1>2, <1>4 DEF Fences, AutoTypes
<1>6. ASSUME ~ Gone, Staged
      PROVE  \/ closed' = closed
             \/ control.intent # Nothing /\ closed' = closed \cup {Failed}
  <2>1. i.scope = "Voter" /\ i.targets = {i.failed}
    BY <1>1, <1>2, <1>4, <1>6 DEF ViewOK
  <2>2. Over(i.failed) \/ (control.intent # Nothing /\ Failed = i.failed)
    BY <1>1, <1>2, <1>6, <2>1 DEF ViewOK, Failed
  <2>3. QED
    BY <1>1, <2>1, <2>2 DEF Over
<1>7. ASSUME ~ Gone, Staged, control.intent # Nothing, closed' = closed \cup {Failed}
      PROVE  /\ LearnersClosed' /\ config.voters \cap closed' \subseteq {Failed}
             /\ Child # Nothing =>
                (Child.add # Nothing /\ Child.add.id = config.id /\ Child.add.abort = config.abort =>
                    Child.add.learner \notin closed')
  <2>1. /\ Failed \in control.voters /\ (Failed \in Learners => Failed[1] < control.seq)
        /\ control.seq \in Incidents
    BY <1>2, <1>7 DEF Staged, ViewOK
  <2>2. /\ \A l \in Learners : l[1] \in Nat
        /\ control.seq \in Nat
    BY <2>1 DEF Learners, Incidents
  <2>3. LearnersClosed'
    BY <1>1, <1>7, <2>1, <2>2 DEF Staged, LearnersClosed, Child
  <2>4. Child # Nothing /\ Child.add # Nothing => Child.add.learner # Failed
    <3>1. Child # Nothing /\ Child.add # Nothing =>
             Child.add.learner \in Learners /\ Child.add.learner[1] = control.seq
      BY <2>1 DEF RepairInv, ChildrenOK, ChildOK, Child
    <3>2. QED
      BY <2>1, <2>2, <3>1
  <2>5. QED
    BY <1>7, <2>3, <2>4 DEF Staged, RepairJournal
<1>8. ASSUME ~ Gone, Staged, closed' = closed
      PROVE  LearnersClosed'
  BY <1>1, <1>8 DEF Staged, LearnersClosed, Child
<1>9. ~ Gone /\ Staged => LearnersClosed'
  BY <1>6, <1>7, <1>8
<1>10. ~ Gone /\ Staged => IF control.intent = Nothing THEN config.voters \cap closed' = {}
                           ELSE config.voters \cap closed' \subseteq {Failed}
  BY <1>6, <1>7 DEF Staged
<1>11. ~ Gone /\ Staged /\ control.intent # Nothing /\ Child # Nothing =>
          (Child.add # Nothing /\ Child.add.id = config.id /\ Child.add.abort = config.abort =>
              Child.add.learner \notin closed')
  BY <1>6, <1>7 DEF Staged, RepairJournal
<1>12. QED
  BY <1>5, <1>9, <1>10, <1>11, FenceKeeps

\* A learner is fenced when its addition can no longer take effect.
LEMMA FenceLearnerKeeps ==
    ASSUME RepairInv, NEW o \in Reconcilers, FenceLearner(o)
    PROVE  RepairInv'
<1> DEFINE s == Loaded(o)
           l == LearnerOf(s)
<1>1. /\ OnCluster(o) /\ s.intent # Nothing /\ s.intent.scope = "Voter"
      /\ child[s.seq] # Nothing /\ child[s.seq].spec.abort /\ child[s.seq].spec.learner = l
      /\ child[s.seq].phase = "Aborted" /\ closed' = closed \cup {l}
      /\ work' = [work EXCEPT ![o] = NoWork]
      /\ UNCHANGED <<control, child, world, learnerPods, config>>
  BY DEF FenceLearner, Repairing, Working, OnCluster, Intent, Aborted
<1>2. /\ ViewOK(s) /\ AutoTypes /\ ViewOK(control)
  BY <1>1 DEF RepairInv, ClusterOK, Loaded
<1>3. l \in Learners /\ l[1] = s.seq /\ s.seq \in Incidents /\ s.seq <= control.seq
  BY <1>1, <1>2 DEF ViewOK, LearnerOf, Learners
<1> HIDE DEF l, s
<1>4. Fences(o)
  BY <1>1, <1>2, <1>3 DEF Fences, AutoTypes, Nodes
<1>5. ASSUME ~ Gone, Staged
      PROVE  s.seq = control.seq /\ control.intent # Nothing /\ child[s.seq] = Child
  <2>1. ~ Finished(s.seq)
    BY <1>1, <1>3, <1>5 DEF RepairInv, ChildrenOK, ChildOK
  <2>2. control.seq \in Nat /\ s.seq \in Nat
    BY <1>2, <1>3 DEF AutoTypes, ControlRecord, Incidents
  <2>3. QED
    BY <1>3, <2>1, <2>2 DEF Finished, Child
<1>6. ~ Gone /\ Staged => LearnersClosed'
  <2>1. SUFFICES ASSUME ~ Gone, Staged
                 PROVE  LearnersClosed'
    OBVIOUS
  <2>2. /\ control' = control /\ Child' = Child /\ LearnersClosed /\ control.seq \in Nat
        /\ closed' = closed \cup {l} /\ l[1] = control.seq
        /\ Child # Nothing /\ Child.spec.learner = l /\ Child.spec.abort
    BY <1>1, <1>2, <1>3, <1>5, <2>1 DEF Child, Staged, AutoTypes, ControlRecord
  <2>3. QED
    BY <2>2 DEF LearnersClosed
<1>7. ASSUME ~ Gone, Staged
      PROVE  /\ config.voters \cap closed' \subseteq {Failed}
             /\ Child.add # Nothing => ~ (Child.add.id = config.id /\ Child.add.abort = config.abort)
  <2>1. Child # Nothing /\ Child.phase = "Aborted" /\ l[1] = control.seq /\ control.intent # Nothing
    BY <1>1, <1>3, <1>5, <1>7
  <2>2. Child.add # Nothing => Child.add.id = config.id /\ Child.add.abort < config.abort
    BY <1>7, <2>1 DEF Staged, RepairJournal
  <2>3. /\ config.id \in Nat /\ config.abort \in Nat
        /\ Child.add # Nothing => Child.add.id \in Nat /\ Child.add.abort \in Nat
        /\ control.seq \in Nat
    <3>1. Child \in ChildRecord
      BY <1>2, <1>3, <1>5, <1>7, <2>1 DEF AutoTypes, Child
    <3>2. QED
      BY <1>2, <3>1, NumbersAre
  <2>4. ~ After
    BY <2>2, <2>3 DEF After
  <2>5. l \notin control.voters
    BY <1>3, <1>7, <2>1, <2>3 DEF Staged
  <2>6. l \notin config.voters
    BY <1>7, <2>1, <2>4, <2>5 DEF Staged, Before, Between
  <2>7. config.voters \cap closed \subseteq {Failed}
    BY <1>7, <2>1 DEF Staged
  <2>8. QED
    BY <1>1, <2>2, <2>3, <2>6, <2>7
<1>8. ~ Gone /\ Staged => control.intent # Nothing
  BY <1>5
<1>9. QED
  BY <1>4, <1>6, <1>7, <1>8, FenceKeeps

-----------------------------------------------------------------------------
(* Steps of a child and of the membership *)

\* The membership goes on, and refuses what it has left behind.
Ahead == config.id < config'.id \/ (config.id = config'.id /\ config.abort <= config'.abort)
Refused(add) == add.id < config'.id \/ (add.id = config'.id /\ add.abort < config'.abort)

\* Child k changes, or the membership: its journal is only added to, and an
\* addition is only forgotten when it is refused.
LEMMA ChildKeeps ==
    ASSUME RepairInv, UNCHANGED <<control, world, learnerPods, closed>>, AutoTypes', World', Ahead,
           \A l \in Learners : Accounted(l) => Accounted(l)',
           NEW k \in Incidents, \A j \in Incidents : j # k => child'[j] = child[j],
           child[k] # Nothing =>
             /\ child'[k] # Nothing
             /\ child[k].remove # Nothing => child'[k].remove = child[k].remove
             /\ ~ Gone /\ child[k].add # Nothing =>
                   child'[k].add = child[k].add \/ Refused(child[k].add),
           child'[k] # Nothing => ChildOK(k)',
           \A q \in Reconcilers :
             \/ /\ Onward(q)
                /\ OnChild(q) /\ work[q].seq = k /\ work'[q].fresh => child'[k] = child[k]
             \/ ~ OnChild(q)' /\ (OnCluster(q)' => ClusterOK(q)'),
           ~ Gone => Staged'
    PROVE  RepairInv'
<1>1. AutoTypes /\ ViewOK(control) /\ control' = control /\ control.seq \in Nat
  BY DEF RepairInv, AutoTypes, ControlRecord
<1>2. (Gone' <=> Gone) /\ (\A j \in Incidents : Finished(j)' <=> Finished(j))
      /\ \A n : Over(n)' <=> Over(n)
  BY DEF Gone, Finished, Over, world
<1>3. \A j \in Incidents : child[j] # Nothing => child'[j] # Nothing
  OBVIOUS
<1>4. Lasting
  BY <1>1, <1>2, <1>3 DEF Lasting, Failed
<1>5. ViewOK(control)'
  <2>1. PICK s \in ControlRecord : s = control
    BY <1>1 DEF AutoTypes
  <2>2. ViewOK(s)'
    BY <1>1, <1>4, <2>1, ViewStays
  <2>3. QED
    BY <1>1, <2>1, <2>2
<1>6. ASSUME NEW q \in Reconcilers, OnCluster(q)'
      PROVE  ClusterOK(q)'
  <2>1. CASE Onward(q)
    <3>1. work'[q].fresh => work'[q].ctl = control'
      BY <1>1, <1>6, <2>1 DEF RepairInv, ClusterOK, Onward
    <3>2. QED
      BY <1>1, <1>4, <1>6, <2>1, <3>1, ViewsStay
  <2>2. QED
    BY <1>6, <2>1
<1>7. config.id \in Nat /\ config.abort \in Nat /\ config'.id \in Nat /\ config'.abort \in Nat
  BY <1>1 DEF AutoTypes
<1>8. /\ \A a \in AddRecord : (Past(a) => Past(a)') /\ (Dead(a) => Dead(a)')
                              /\ (Refused(a) <=> Dead(a)')
                              /\ (a.id < config.id => a.id < config'.id)
      /\ \A r \in RemoveRecord : /\ r.id <= config.id => r.id <= config'.id
                                 /\ r.id < config.id => r.id < config'.id
  <2>1. /\ \A a \in AddRecord : a.id \in Nat /\ a.abort \in Nat
        /\ \A r \in RemoveRecord : r.id \in Nat
    BY DEF AddRecord, RemoveRecord
  <2>2. QED
    BY <1>7, <2>1 DEF Past, Dead, Refused, Ahead
<1>9. ChildrenOK'
  <2>1. ASSUME NEW j \in Incidents, child'[j] # Nothing, j # k
        PROVE  ChildOK(j)'
    <3>1. child'[j] = child[j] /\ ChildOK(j) /\ child[j] \in ChildRecord
      BY <1>1, <2>1 DEF RepairInv, ChildrenOK, AutoTypes
    <3>2. /\ child[j].add # Nothing => child[j].add \in AddRecord
          /\ child[j].remove # Nothing => child[j].remove \in RemoveRecord
      BY <1>1, <3>1, NumbersAre
    <3>3. QED
      BY <1>1, <1>2, <1>8, <3>1, <3>2 DEF ChildOK
  <2>2. QED
    BY <1>2, <1>3, <2>1 DEF RepairInv, ChildrenOK
<1>10. ASSUME NEW q \in Reconcilers, OnChild(q)'
       PROVE  PassOK(q)'
  <2>1. /\ Onward(q) /\ OnChild(q) /\ PassOK(q)
        /\ work[q].seq = k /\ work'[q].fresh => child'[k] = child[k]
    BY <1>10 DEF Onward, RepairInv
  <2>2. PICK j \in Incidents : j = work[q].seq
    BY <1>1, <2>1, PassTypes DEF ChildPass
  <2>3. /\ work'[q].kind = work[q].kind /\ work'[q].seq = j
        /\ work'[q].of = work[q].of /\ (work'[q].fresh => work[q].fresh)
    BY <2>1, <2>2 DEF Onward
  <2>4. work[q].of \in ChildRecord
    BY <1>1, <2>1, PassTypes DEF ChildPass
  <2>5. work[q].of.add # Nothing => work[q].of.add \in AddRecord
    BY <1>1, <2>4, NumbersAre
  <2>6. /\ child[j] # Nothing /\ child'[j] # Nothing
        /\ child[j].remove # Nothing => child'[j].remove = child[j].remove
        /\ ~ Gone /\ child[j].add # Nothing =>
              child'[j].add = child[j].add \/ Refused(child[j].add)
        /\ work'[q].fresh => child'[j] = child[j]
    BY <2>1, <2>2 DEF PassOK
  <2>7. PICK of \in ChildRecord : of = work[q].of
    BY <2>4
  <2>8. /\ of.phase # "Complete" /\ j <= control'.seq /\ (work'[q].fresh => of = child'[j])
        /\ of.remove # Nothing => of.remove = child'[j].remove
        /\ of.spec.scope = "Generation" => Gone'
        /\ work[q].kind = "authorized" =>
              \/ Finished(j)'
              \/ j = control'.seq /\ control'.intent # Nothing /\ control'.intent.proof
    BY <1>1, <1>2, <2>1, <2>2, <2>3, <2>6, <2>7 DEF PassOK
  <2>9. of.add # Nothing =>
              /\ Past(of.add)'
              /\ ~ Gone' => Dead(of.add)' \/ of.add = child'[j].add
              /\ ~ Gone' /\ Finished(j)' => of.add.id < config'.id
    <3>1. SUFFICES ASSUME of.add # Nothing
                   PROVE  /\ Past(of.add)'
                          /\ ~ Gone' => Dead(of.add)' \/ of.add = child'[j].add
                          /\ ~ Gone' /\ Finished(j)' => of.add.id < config'.id
      OBVIOUS
    <3>2. PICK a \in AddRecord : a = of.add
      BY <2>5, <2>7, <3>1
    <3>3. /\ Past(a) /\ (~ Gone => Dead(a) \/ a = child[j].add)
          /\ ~ Gone /\ Finished(j) => a.id < config.id
      BY <2>1, <2>2, <2>7, <3>1, <3>2 DEF PassOK
    <3>4. /\ Past(a)' /\ (~ Gone' => Dead(a)' \/ a = child'[j].add)
          /\ ~ Gone' /\ Finished(j)' => a.id < config'.id
      BY <1>2, <1>8, <2>6, <3>1, <3>2, <3>3
    <3>5. QED
      BY <3>2, <3>4
  <2>10. work'[q].of = of /\ work'[q].seq = j /\ work'[q].kind = work[q].kind
    BY <2>3, <2>7
  <2>11. QED
    BY <2>6, <2>8, <2>9, <2>10 DEF PassOK, Finished
<1>11. QED
  BY <1>2, <1>5, <1>6, <1>9, <1>10 DEF RepairInv

\* A pass over the child of the repair that is under way.
LEMMA CurrentPass ==
    ASSUME RepairInv, NEW o \in Reconcilers, OnChild(o), ~ Gone,
           \/ work[o].fresh
           \/ Of(o).add # Nothing /\ Of(o).add.id = config.id
           \/ Of(o).remove # Nothing /\ Of(o).remove.id = config.id
    PROVE  /\ work[o].seq = control.seq /\ control.seq \in Incidents
           /\ control.intent # Nothing /\ Child # Nothing
           /\ work[o].fresh => Of(o) = Child
           /\ Of(o).remove # Nothing => Of(o).remove = Child.remove
           /\ Of(o).add # Nothing => Dead(Of(o).add) \/ Of(o).add = Child.add
           /\ work[o].kind = "authorized" => Over(Failed) /\ Failed \in Nodes
<1>1. PassOK(o) /\ AutoTypes /\ work[o] \in ChildPass
  BY PassTypes DEF RepairInv
<1>2. PICK k \in Incidents : k = work[o].seq
  BY <1>1 DEF ChildPass
<1>3. child[k] # Nothing /\ ChildOK(k) /\ k <= control.seq
  BY <1>1, <1>2 DEF PassOK, RepairInv, ChildrenOK
<1>4. config.id \in Nat /\ control.seq \in Nat /\ k \in Nat
  BY <1>1, <1>2, NumbersAre
<1>5. ~ Finished(k)
  <2>1. Finished(k) => /\ child[k].phase = "Complete"
                       /\ child[k].remove # Nothing => child[k].remove.id < config.id
    BY <1>3 DEF ChildOK
  <2>2. /\ Of(o).phase # "Complete" /\ (work[o].fresh => Of(o) = child[k])
        /\ Of(o).remove # Nothing => Of(o).remove = child[k].remove
        /\ Of(o).add # Nothing /\ Finished(k) => Of(o).add.id < config.id
    BY <1>1, <1>2 DEF PassOK, Of
  <2>3. QED
    BY <1>4, <2>1, <2>2
<1>6. k = control.seq /\ control.intent # Nothing /\ child[k] = Child
  BY <1>3, <1>4, <1>5 DEF Finished, Child
<1>7. control.intent.scope = "Voter"
  <2>1. control.intent \in IntentRecord
    BY <1>6, RecordIs
  <2>2. QED
    BY <1>6, <2>1 DEF Gone, IntentRecord
<1>8. work[o].kind = "authorized" => Over(Failed) /\ Failed \in Nodes
  <2>1. work[o].kind = "authorized" => control.intent.proof
    BY <1>1, <1>2, <1>5 DEF PassOK
  <2>2. ViewOK(control)
    BY DEF RepairInv
  <2>3. QED
    BY <1>6, <1>7, <2>1, <2>2 DEF ViewOK, FencedVoter, Failed
<1>9. QED
  BY <1>1, <1>2, <1>3, <1>6, <1>8 DEF PassOK, Of

\* What a step of the membership leaves as it is, or makes true.
Members(o, new) ==
    /\ RecordMembership(o, new)
    /\ UNCHANGED <<control, world, learnerPods, closed>>
    /\ config' \in [id : Nat, voters : SUBSET Nodes, pending : PendingChange \cup {Nothing},
                    abort : Nat]
    /\ config'.voters = config.voters /\ config'.id = config.id /\ config.abort <= config'.abort
    /\ config'.pending = config.pending \/ config'.pending = Nothing
         \/ config'.pending.kind = "add" \/ Over(config'.pending.node)
    /\ ~ Gone /\ control.intent = Nothing => config' = config

\* A step of a pass over a child.
LEMMA RecordKeeps ==
    ASSUME RepairInv, NEW o \in Reconcilers, OnChild(o), NEW new \in ChildRecord, Members(o, new),
           new.spec = Of(o).spec,
           work[o].fresh =>
             /\ Of(o).remove # Nothing => new.remove = Of(o).remove
             /\ ~ Gone /\ Of(o).add # Nothing => new.add = Of(o).add \/ Refused(Of(o).add)
             /\ new.remove = Of(o).remove \/ (Over(new.remove.node) /\ new.remove.id = config.id)
             /\ \/ new.add = Of(o).add \/ new.add = Nothing
                \/ /\ new.add.learner = Of(o).spec.learner /\ Of(o).spec.scope = "Voter"
                   /\ new.add.id = config.id /\ new.add.abort = config.abort,
           ~ Gone /\ control.intent # Nothing => (Before' \/ Between' \/ After') /\ RepairJournal'
    PROVE  RepairInv'
<1>1. AutoTypes /\ World /\ PassOK(o) /\ work[o] \in ChildPass
  BY PassTypes DEF RepairInv
<1>2. PICK k \in Incidents : k = work[o].seq
  BY <1>1 DEF ChildPass
<1>3. /\ child[k] # Nothing /\ child[k] \in ChildRecord /\ ChildOK(k) /\ Of(o) \in ChildRecord
  BY <1>1, <1>2, NumbersAre DEF PassOK, RepairInv, ChildrenOK, ChildPass, Of
<1>4. /\ UNCHANGED <<control, world, learnerPods, closed>>
      /\ config'.voters = config.voters /\ config'.id = config.id /\ config.abort <= config'.abort
      /\ config.id \in Nat /\ config.abort \in Nat /\ config'.abort \in Nat
  BY <1>1, NumbersAre DEF Members
<1>5. \/ work[o].fresh /\ child' = [child EXCEPT ![k] = new] /\ work' = Outrun(k, o)
      \/ child' = child /\ work' = [work EXCEPT ![o] = NoWork]
  BY <1>2 DEF Members, RecordMembership
<1>6. /\ work' \in [Reconcilers -> {NoWork} \cup ClusterPass \cup ChildPass]
      /\ ~ OnCluster(o)' /\ ~ OnChild(o)'
      /\ \A q \in Reconcilers : q # o =>
           /\ Onward(q)
           /\ OnChild(q) /\ work[q].seq = k /\ work'[q].fresh => child'[k] = child[k]
  <2>1. CASE child' = child /\ work' = [work EXCEPT ![o] = NoWork]
    BY <1>1, <2>1, IdleIs
  <2>2. CASE work' = Outrun(k, o)
    BY <1>1, <2>2, OutrunIs
  <2>3. QED
    BY <1>5, <2>1, <2>2
<1>7. child' \in [Incidents -> ChildRecord \cup {Nothing}]
  BY <1>1, <1>5 DEF AutoTypes
<1>8. AutoTypes'
  BY <1>1, <1>4, <1>6, <1>7 DEF AutoTypes, Members, world
<1>9. \A n : Over(n)' <=> Over(n)
  BY <1>4 DEF Over, world
<1>10. (Gone' <=> Gone) /\ (\A j \in Incidents : Finished(j)' <=> Finished(j))
  BY <1>4 DEF Gone, Finished
<1>11. \A l : Accounted(l)' <=> Accounted(l)
  BY <1>4, <1>9, <1>10 DEF Accounted, LearnerOf
<1>12. World'
  <2>1. (config.pending # Nothing /\ config.pending.kind = "remove" => Over(config.pending.node))'
    BY <1>1, <1>4, <1>9 DEF World, Members, Over, world
  <2>2. QED
    BY <1>1, <1>4, <1>9, <1>11, <2>1 DEF World, world
<1>13. \A j \in Incidents : j # k => child'[j] = child[j]
  BY <1>1, <1>5 DEF AutoTypes
<1>14. child'[k] = child[k] \/ (work[o].fresh /\ child'[k] = new /\ Of(o) = child[k])
  BY <1>1, <1>2, <1>5 DEF AutoTypes, PassOK, Of
<1>15. /\ child'[k] # Nothing
       /\ child[k].remove # Nothing => child'[k].remove = child[k].remove
       /\ ~ Gone /\ child[k].add # Nothing => child'[k].add = child[k].add \/ Refused(child[k].add)
       /\ child'[k].spec = child[k].spec
  BY <1>3, <1>14, NothingAssumption
<1>16. \A a \in AddRecord : Past(a) => Past(a)'
  <2>1. \A a \in AddRecord : a.id \in Nat /\ a.abort \in Nat
    BY DEF AddRecord
  <2>2. QED
    BY <1>4, <2>1 DEF Past
<1>17. child[k].spec.scope = "Voter" =>
          child[k].spec.learner \in Learners /\ child[k].spec.learner[1] = k
  BY <1>3 DEF ChildOK
<1>18. ChildOK(k)'
  <2>1. CASE child'[k] = child[k]
    <3>1. child[k].add # Nothing => child[k].add \in AddRecord
      BY <1>1, <1>3, NumbersAre
    <3>2. child[k].add # Nothing => Past(child[k].add)'
      <4>1. SUFFICES ASSUME child[k].add # Nothing
                     PROVE  Past(child[k].add)'
        OBVIOUS
      <4>2. PICK a \in AddRecord : a = child[k].add
        BY <3>1, <4>1
      <4>3. Past(a)'
        BY <1>3, <1>16, <4>1, <4>2 DEF ChildOK
      <4>4. QED
        BY <2>1, <4>2, <4>3
    <3>3. QED
      BY <1>3, <1>4, <1>9, <1>10, <2>1, <3>2 DEF ChildOK
  <2>2. CASE work[o].fresh /\ child'[k] = new /\ Of(o) = child[k]
    <3>1. ~ (~ Gone /\ Finished(k))
      <4>1. ~ Gone /\ Finished(k) => child[k].phase = "Complete"
        BY <1>3 DEF ChildOK
      <4>2. QED
        BY <1>1, <2>2, <4>1 DEF PassOK, Of
    <3>2. new.remove # Nothing => Over(new.remove.node) /\ new.remove.id <= config.id
      BY <1>3, <1>4, <2>2 DEF ChildOK
    <3>3. new.add # Nothing => new.add.learner \in Learners /\ new.add.learner[1] = k
      BY <1>3, <1>17, <2>2 DEF ChildOK
    <3>4. new.add # Nothing => Past(new.add)
      BY <1>3, <1>4, <2>2 DEF ChildOK, Past
    <3>5. new.add # Nothing => Past(new.add)'
      <4>1. new.add # Nothing => new.add \in AddRecord
        BY <1>1, NumbersAre
      <4>2. QED
        BY <1>16, <3>4, <4>1 DEF Past
    <3>6. new.spec = child[k].spec /\ (child[k].spec.scope = "Generation" => Gone)
      BY <1>3, <2>2 DEF ChildOK
    <3>7. k <= control'.seq
      BY <1>3, <1>4 DEF ChildOK
    <3>8. QED
      BY <1>4, <1>9, <1>10, <1>17, <2>2, <3>1, <3>2, <3>3, <3>5, <3>6, <3>7 DEF ChildOK, Past
  <2>3. QED
    BY <1>14, <2>1, <2>2
<1>19. ASSUME ~ Gone
       PROVE  Staged'
  <2>1. Staged /\ control' = control /\ closed' = closed
    BY <1>4, <1>19 DEF RepairInv
  <2>2. (Child' = Nothing <=> Child = Nothing) /\ (Child # Nothing => Child'.spec = Child.spec)
    <3>1. CASE control.seq = k
      BY <1>3, <1>15, <2>1, <3>1 DEF Child
    <3>2. CASE control.seq # k
      <4>1. CASE control.seq \in Incidents
        BY <1>13, <2>1, <3>2, <4>1 DEF Child
      <4>2. CASE control.seq \notin Incidents
        <5>1. k <= control.seq /\ k \in Nat /\ control.seq \in 0..MaxIncidents
          BY <1>1, <1>3 DEF ChildOK, AutoTypes, ControlRecord, Incidents
        <5>2. QED
          BY <4>2, <5>1, AutoAssumption DEF Incidents
      <4>3. QED
        BY <4>1, <4>2
    <3>3. QED
      BY <3>1, <3>2
  <2>3. LearnersClosed'
    BY <2>1, <2>2 DEF Staged, LearnersClosed
  <2>4. Failed' = Failed
    BY <2>1 DEF Failed
  <2>5. CASE control.intent = Nothing
    BY <1>19, <2>1, <2>3, <2>5 DEF Staged, Members
  <2>6. CASE control.intent # Nothing
    BY <1>4, <1>19, <2>1, <2>3, <2>4, <2>6 DEF Staged
  <2>7. QED
    BY <2>5, <2>6
<1>20. Ahead
  BY <1>4 DEF Ahead
<1>21. \A q \in Reconcilers :
             \/ /\ Onward(q)
                /\ OnChild(q) /\ work[q].seq = k /\ work'[q].fresh => child'[k] = child[k]
             \/ ~ OnChild(q)' /\ (OnCluster(q)' => ClusterOK(q)')
  BY <1>6
<1>22. QED
  BY <1>4, <1>8, <1>11, <1>12, <1>13, <1>15, <1>18, <1>19, <1>20, <1>21, ChildKeeps

\* No pass over the child of this incident has read an addition.
NoneRead == \A q \in Reconcilers : OnChild(q) /\ work[q].seq = control.seq => work[q].of.add = Nothing

\* The child of the repair under way, after a step of a pass over a child.
LEMMA ChildAfter ==
    ASSUME RepairInv, NEW o \in Reconcilers, OnChild(o), NEW new \in ChildRecord, Members(o, new),
           ~ Gone, control.intent # Nothing
    PROVE  /\ control' = control /\ Failed' = Failed /\ closed' = closed /\ Staged
           /\ \/ Child' = Child
              \/ /\ work[o].seq = control.seq /\ work[o].fresh /\ Child = Of(o) /\ Child # Nothing
                 /\ Child' = new
           /\ NoneRead => NoneRead'
<1>1. AutoTypes /\ PassOK(o) /\ work[o] \in ChildPass /\ Staged /\ ViewOK(control)
  BY PassTypes DEF RepairInv
<1>2. PICK k \in Incidents : k = work[o].seq
  BY <1>1 DEF ChildPass
<1>3. control' = control /\ Failed' = Failed /\ closed' = closed /\ control.seq \in Incidents
  BY <1>1 DEF Members, Failed, ViewOK
<1>4. \/ work[o].fresh /\ child' = [child EXCEPT ![k] = new] /\ work' = Outrun(k, o)
      \/ child' = child /\ work' = [work EXCEPT ![o] = NoWork]
  BY <1>2 DEF Members, RecordMembership
<1>5. ~ OnChild(o)' /\ \A q \in Reconcilers : q # o => Onward(q)
  BY <1>1, <1>4, IdleIs, OutrunIs
<1>6. NoneRead => NoneRead'
  BY <1>3, <1>5 DEF NoneRead, Onward
<1>7. \/ Child' = Child
      \/ /\ k = control.seq /\ work[o].fresh /\ Child = Of(o) /\ Child # Nothing
         /\ Child' = new
  <2>1. CASE child' = child
    BY <1>3, <2>1 DEF Child
  <2>2. CASE work[o].fresh /\ child' = [child EXCEPT ![k] = new]
    BY <1>1, <1>2, <1>3, <2>2 DEF Child, AutoTypes, PassOK, Of
  <2>3. QED
    BY <1>4, <2>1, <2>2
<1>8. QED
  BY <1>1, <1>2, <1>3, <1>6, <1>7

\* A step that only writes the journal.
LEMMA WriteKeeps ==
    ASSUME RepairInv, NEW o \in Reconcilers, OnChild(o), NEW new \in ChildRecord,
           RecordMembership(o, new),
           UNCHANGED <<control, world, learnerPods, closed, config>>,
           new.spec = Of(o).spec,
           work[o].fresh =>
             /\ Of(o).remove # Nothing => new.remove = Of(o).remove
             /\ ~ Gone /\ Of(o).add # Nothing => new.add = Of(o).add \/ Refused(Of(o).add)
             /\ new.remove = Of(o).remove \/ (Over(new.remove.node) /\ new.remove.id = config.id)
             /\ \/ new.add = Of(o).add \/ new.add = Nothing
                \/ /\ new.add.learner = Of(o).spec.learner /\ Of(o).spec.scope = "Voter"
                   /\ new.add.id = config.id /\ new.add.abort = config.abort,
           ~ Gone /\ control.intent # Nothing /\ Staged /\ work[o].fresh /\ Child = Of(o)
             /\ Child # Nothing /\ Child' = new /\ Failed' = Failed /\ (NoneRead => NoneRead') =>
                (Before' \/ Between' \/ After') /\ RepairJournal'
    PROVE  RepairInv'
<1>1. Members(o, new)
  BY NumbersAre DEF Members, RepairInv, AutoTypes
<1>2. ASSUME ~ Gone, control.intent # Nothing
      PROVE  (Before' \/ Between' \/ After') /\ RepairJournal'
  <2>1. /\ control' = control /\ Failed' = Failed /\ closed' = closed /\ Staged
        /\ \/ Child' = Child
           \/ work[o].fresh /\ Child = Of(o) /\ Child # Nothing /\ Child' = new
        /\ NoneRead => NoneRead'
    BY <1>1, <1>2, ChildAfter
  <2>2. CASE Child' = Child
    <3>1. config' = config
      OBVIOUS
    <3>2. Before => Before'
      BY <2>1, <2>2, <3>1 DEF Before, NoneRead
    <3>3. Between => Between'
      BY <2>1, <2>2, <3>1 DEF Between, Removed
    <3>4. After => After'
      BY <2>1, <2>2, <3>1 DEF After, Removed
    <3>5. RepairJournal => RepairJournal'
      BY <2>1, <2>2, <3>1, <3>4 DEF RepairJournal
    <3>6. QED
      BY <1>2, <2>1, <3>2, <3>3, <3>4, <3>5 DEF Staged
  <2>3. QED
    BY <1>2, <2>1, <2>2
<1>3. QED
  BY <1>1, <1>2, RecordKeeps

\* The fields of a journal whose phase changes.
LEMMA PhaseIs ==
    ASSUME NEW c \in ChildRecord,
           NEW p \in {"", "Removing", "Adding", "Aborting", "Aborted", "Blocked", "Complete"}
    PROVE  LET new == [c EXCEPT !.phase = p]
           IN  /\ new \in ChildRecord /\ new.phase = p /\ new.spec = c.spec
               /\ new.remove = c.remove /\ new.add = c.add
BY DEF ChildRecord

\* What a pass over a child has read is a child.
LEMMA OfIs ==
    ASSUME RepairInv, NEW o \in Reconcilers, OnChild(o)
    PROVE  Of(o) \in ChildRecord /\ PassOK(o) /\ AutoTypes /\ World /\ ViewOK(control)
BY PassTypes DEF RepairInv, ChildPass, Of

\* The removal is journaled.
LEMMA JournalRemoveKeeps ==
    ASSUME RepairInv, NEW o \in Reconcilers, JournalRemove(o)
    PROVE  RepairInv'
<1> DEFINE r == [node |-> control.intent.failed, id |-> config.id, abort |-> config.abort]
           new == [Of(o) EXCEPT !.phase = "Removing", !.remove = r]
<1>1. /\ OnChild(o) /\ work[o].kind = "authorized" /\ Of(o).remove = Nothing
      /\ config.pending = Nothing /\ control.intent # Nothing
      /\ control.intent.failed \in config.voters /\ RecordMembership(o, new)
      /\ UNCHANGED <<control, world, learnerPods, closed, config>>
  BY DEF JournalRemove, MembershipTurn, Working, OnChild, FailedOf
<1>2. Of(o) \in ChildRecord /\ AutoTypes /\ World /\ ViewOK(control)
  BY <1>1, OfIs
<1>3. /\ control.intent.failed \in Nodes
      /\ r \in RemoveRecord /\ r.node = control.intent.failed /\ r.id = config.id
  BY <1>1, <1>2 DEF AutoTypes, RemoveRecord
<1> HIDE DEF r
<1>4. /\ new \in ChildRecord /\ new.spec = Of(o).spec /\ new.add = Of(o).add
      /\ new.remove = r /\ new.phase = "Removing"
  BY <1>2, <1>3 DEF ChildRecord
<1> HIDE DEF new
<1>5. ~ Gone
  BY <1>1, <1>2, <1>3, AutoAssumption DEF Gone, World, ViewOK
<1>6. work[o].fresh => Over(new.remove.node) /\ new.remove.id = config.id
  BY <1>1, <1>3, <1>4, <1>5, CurrentPass DEF Failed
<1>7. ASSUME Staged, Child = Of(o), Child # Nothing, Child' = new, Failed' = Failed,
             NoneRead => NoneRead'
      PROVE  (Before' \/ Between' \/ After') /\ RepairJournal'
  <2>1. Before
    BY <1>1, <1>7 DEF Staged, Between, After, Removed
  <2>2. Before'
    BY <1>1, <1>4, <1>7, <2>1 DEF Before, NoneRead
  <2>3. r # Nothing /\ new # Nothing /\ r.node = Failed
    BY <1>3, <1>4, NothingAssumption DEF Failed
  <2>4. RepairJournal'
    BY <1>4, <1>7, <2>1, <2>3 DEF RepairJournal, Before
  <2>5. QED
    BY <2>2, <2>4
<1>8. QED
  BY <1>1, <1>4, <1>6, <1>7, WriteKeeps

\* The removal is dispatched.
LEMMA DispatchRemoveKeeps ==
    ASSUME RepairInv, NEW o \in Reconcilers, DispatchRemove(o)
    PROVE  RepairInv'
<1> DEFINE pend == [kind |-> "remove", node |-> Of(o).remove.node]
           new == [Of(o) EXCEPT !.phase = "Removing"]
<1>1. /\ OnChild(o) /\ Of(o).remove # Nothing /\ Of(o).remove.id = config.id
      /\ config' = [config EXCEPT !.pending = pend] /\ RecordMembership(o, new)
      /\ UNCHANGED <<control, world, learnerPods, closed>>
  BY DEF DispatchRemove, MembershipTurn, Working, OnChild
<1>2. Of(o) \in ChildRecord /\ AutoTypes /\ World /\ ViewOK(control) /\ PassOK(o)
  BY <1>1, OfIs
<1>3. /\ new \in ChildRecord /\ new.spec = Of(o).spec /\ new.add = Of(o).add
      /\ new.remove = Of(o).remove /\ new.phase = "Removing"
  BY <1>2, PhaseIs
<1> HIDE DEF new
<1>4. Of(o).remove.node \in Nodes
  BY <1>1, <1>2, NumbersAre
<1>5. Over(Of(o).remove.node)
  <2>1. work[o].seq \in Incidents
    BY <1>1, <1>2, PassTypes DEF ChildPass
  <2>2. QED
    BY <1>1, <1>2, <2>1 DEF PassOK, Of, RepairInv, ChildrenOK, ChildOK
<1>6. pend \in PendingChange /\ pend # Nothing
  BY <1>4, NothingAssumption DEF PendingChange
<1>7. ASSUME ~ Gone
      PROVE  control.intent # Nothing /\ Child # Nothing /\ Of(o).remove = Child.remove
  BY <1>1, <1>7, CurrentPass
<1>8. /\ config' \in [id : Nat, voters : SUBSET Nodes, pending : PendingChange \cup {Nothing},
                      abort : Nat]
      /\ config'.pending = pend /\ config'.voters = config.voters
      /\ config'.id = config.id /\ config'.abort = config.abort
  BY <1>1, <1>2, <1>6 DEF AutoTypes
<1>9. Members(o, new)
  <2>1. config.abort <= config'.abort
    BY <1>2, <1>8, NumbersAre
  <2>2. QED
    BY <1>1, <1>5, <1>7, <1>8, <2>1 DEF Members
<1>10. ASSUME ~ Gone, control.intent # Nothing
       PROVE  (Before' \/ Between' \/ After') /\ RepairJournal'
  <2>1. /\ control' = control /\ Failed' = Failed /\ closed' = closed /\ Staged
        /\ \/ Child' = Child
           \/ Child = Of(o) /\ Child # Nothing /\ Child' = new
        /\ NoneRead => NoneRead'
    BY <1>1, <1>3, <1>9, <1>10, ChildAfter
  <2>2. Child # Nothing /\ Of(o).remove = Child.remove
    BY <1>7, <1>10
  <2>3. Before /\ RepairJournal
    BY <1>1, <1>2, <1>10, <2>1, <2>2, NumbersAre DEF Staged, Between, After, Removed
  <2>4. /\ Child' # Nothing /\ Child'.remove = Child.remove /\ Child'.add = Nothing
        /\ Child'.phase = Child.phase \/ Child'.phase = "Removing"
    BY <1>3, <2>1, <2>2, <2>3, NothingAssumption DEF Before
  <2>5. Of(o).remove.node = Failed
    BY <1>1, <2>2, <2>3 DEF RepairJournal
  <2>6. Before'
    BY <1>1, <1>8, <2>1, <2>2, <2>3, <2>4, <2>5 DEF Before, NoneRead
  <2>7. Child.phase # "Complete"
    BY <1>2, <1>1, <2>2, <2>3, NumbersAre DEF RepairJournal, After, Removed
  <2>8. RepairJournal'
    BY <1>1, <2>1, <2>2, <2>4, <2>5, <2>7 DEF RepairJournal
  <2>9. QED
    BY <2>6, <2>8
<1>11. QED
  BY <1>1, <1>3, <1>9, <1>10, RecordKeeps

\* An addition that the membership accepts is the child's, of a voter that is gone.
LEMMA AcceptKeeps ==
    ASSUME RepairInv, NEW o \in Reconcilers, OnChild(o), NEW phase \in {"Adding", "Aborting"},
           Of(o).add # Nothing, AcceptAdd(Of(o).add),
           RecordMembership(o, [Of(o) EXCEPT !.phase = phase]),
           UNCHANGED <<control, world, learnerPods, closed>>
    PROVE  RepairInv'
<1> DEFINE pend == [kind |-> "add", node |-> Of(o).add.learner]
           new == [Of(o) EXCEPT !.phase = phase]
<1>1. /\ Of(o).add.id = config.id /\ Of(o).add.abort = config.abort
      /\ config' = [config EXCEPT !.pending = pend] /\ RecordMembership(o, new)
  BY DEF AcceptAdd
<1>2. Of(o) \in ChildRecord /\ AutoTypes /\ World /\ ViewOK(control) /\ PassOK(o)
  BY OfIs
<1>3. /\ new \in ChildRecord /\ new.spec = Of(o).spec /\ new.add = Of(o).add
      /\ new.remove = Of(o).remove /\ new.phase = phase
  BY <1>2 DEF ChildRecord
<1> HIDE DEF new
<1>4. pend \in PendingChange /\ pend # Nothing
  <2>1. Of(o).add.learner \in Nodes
    BY <1>2, NumbersAre DEF AddRecord
  <2>2. QED
    BY <2>1, NothingAssumption DEF PendingChange
<1>5. config.id \in Nat /\ config.abort \in Nat
  BY <1>2, NumbersAre
<1>6. ASSUME ~ Gone
      PROVE  control.intent # Nothing /\ Child # Nothing /\ Of(o).add = Child.add
  <2>1. /\ control.intent # Nothing /\ Child # Nothing
        /\ Dead(Of(o).add) \/ Of(o).add = Child.add
    BY <1>1, <1>6, CurrentPass
  <2>2. QED
    BY <1>1, <1>5, <2>1 DEF Dead
<1>7. /\ config' \in [id : Nat, voters : SUBSET Nodes, pending : PendingChange \cup {Nothing},
                      abort : Nat]
      /\ config'.pending = pend /\ config'.voters = config.voters
      /\ config'.id = config.id /\ config'.abort = config.abort
  BY <1>1, <1>2, <1>4 DEF AutoTypes
<1>8. Members(o, new)
  BY <1>1, <1>5, <1>6, <1>7 DEF Members
<1>9. ASSUME ~ Gone, control.intent # Nothing
      PROVE  (Before' \/ Between' \/ After') /\ RepairJournal'
  <2>1. /\ control' = control /\ Failed' = Failed /\ closed' = closed /\ Staged
        /\ \/ Child' = Child
           \/ Child = Of(o) /\ Child # Nothing /\ Child' = new
    BY <1>3, <1>8, <1>9, ChildAfter
  <2>2. Child # Nothing /\ Of(o).add = Child.add
    BY <1>6, <1>9
  <2>3. Between /\ RepairJournal
    BY <1>1, <1>5, <1>9, <2>1, <2>2 DEF Staged, Before, After
  <2>4. /\ Child' # Nothing /\ Child'.remove = Child.remove /\ Child'.add = Child.add
        /\ Child'.phase = Child.phase \/ Child'.phase = phase
    BY <1>3, <2>1, <2>2, NothingAssumption
  <2>5. Between'
    BY <1>1, <1>7, <2>1, <2>2, <2>3, <2>4 DEF Between, Removed
  <2>6. Child.phase # "Complete" /\ Child.phase # "Aborted"
    BY <1>1, <1>5, <2>2, <2>3 DEF RepairJournal, After
  <2>7. RepairJournal'
    BY <1>7, <2>1, <2>2, <2>3, <2>4, <2>6 DEF RepairJournal
  <2>8. QED
    BY <2>5, <2>7
<1>10. QED
  BY <1>1, <1>3, <1>8, <1>9, RecordKeeps

\* An addition that took effect ends the repair.
LEMMA CompletesKeeps ==
    ASSUME RepairInv, NEW o \in Reconcilers, OnChild(o), Of(o).add # Nothing,
           config.id = Of(o).add.id + 1, config.abort = 0, config.pending = Nothing,
           Of(o).add.learner \in config.voters,
           RecordMembership(o, [Of(o) EXCEPT !.phase = "Complete"]),
           UNCHANGED <<control, world, learnerPods, closed, config>>
    PROVE  RepairInv'
<1> DEFINE new == [Of(o) EXCEPT !.phase = "Complete"]
<1>1. RecordMembership(o, new)
  OBVIOUS
<1>2. Of(o) \in ChildRecord /\ AutoTypes /\ ViewOK(control)
  BY OfIs
<1>3. /\ new \in ChildRecord /\ new.spec = Of(o).spec /\ new.add = Of(o).add
      /\ new.remove = Of(o).remove /\ new.phase = "Complete"
  BY <1>2, PhaseIs
<1> HIDE DEF new
<1>4. Of(o).add.id \in Nat /\ Of(o).add.abort \in Nat
  BY <1>2, NumbersAre
<1>5. ASSUME control.intent # Nothing, Staged, Child = Of(o), Child # Nothing, Child' = new,
             Failed' = Failed
      PROVE  (Before' \/ Between' \/ After') /\ RepairJournal'
  <2>1. control.seq \in Incidents
    BY <1>2, <1>5 DEF ViewOK
  <2>2. Child.add.learner \in Learners /\ Child.add.learner[1] = control.seq
    BY <1>5, <2>1 DEF RepairInv, ChildrenOK, ChildOK, Child
  <2>3. control.seq \in Nat
    BY <1>2, NumbersAre
  <2>4. Child.add.learner \notin control.voters
    BY <1>5, <2>2, <2>3 DEF Staged
  <2>5. ~ Before /\ ~ Between
    BY <1>5, <2>4 DEF Before, Between
  <2>6. After /\ RepairJournal
    BY <1>5, <2>5 DEF Staged
  <2>7. After'
    BY <1>3, <1>5, <2>6, NothingAssumption DEF After, Removed
  <2>8. RepairJournal'
    <3>1. Child'.add = Child.add /\ Child'.remove = Child.remove /\ Child'.phase = "Complete"
      BY <1>3, <1>5
    <3>2. config' = config /\ closed' = closed
      OBVIOUS
    <3>3. QED
      BY <1>5, <2>6, <2>7, <3>1, <3>2 DEF RepairJournal
  <2>9. QED
    BY <2>7, <2>8
<1>6. QED
  BY <1>1, <1>3, <1>5, WriteKeeps

\* The end of an addition is acknowledged.
LEMMA AbortedKeeps ==
    ASSUME RepairInv, NEW o \in Reconcilers, OnChild(o),
           Of(o).add # Nothing => config.id = Of(o).add.id /\ config.abort > Of(o).add.abort,
           RecordMembership(o, [Of(o) EXCEPT !.phase = "Aborted"]),
           UNCHANGED <<control, world, learnerPods, closed, config>>
    PROVE  RepairInv'
<1> DEFINE new == [Of(o) EXCEPT !.phase = "Aborted"]
<1>1. RecordMembership(o, new)
  OBVIOUS
<1>2. Of(o) \in ChildRecord /\ AutoTypes /\ ViewOK(control)
  BY OfIs
<1>3. /\ new \in ChildRecord /\ new.spec = Of(o).spec /\ new.add = Of(o).add
      /\ new.remove = Of(o).remove /\ new.phase = "Aborted"
  BY <1>2, PhaseIs
<1> HIDE DEF new
<1>4. /\ config.id \in Nat /\ config.abort \in Nat
      /\ Of(o).add # Nothing => Of(o).add.id \in Nat /\ Of(o).add.abort \in Nat
  BY <1>2, NumbersAre
<1>5. ASSUME control.intent # Nothing, Staged, Child = Of(o), Child # Nothing, Child' = new,
             Failed' = Failed, NoneRead => NoneRead'
      PROVE  (Before' \/ Between' \/ After') /\ RepairJournal'
  <2>1. /\ Child'.add = Child.add /\ Child'.remove = Child.remove /\ Child'.phase = "Aborted"
        /\ Child' # Nothing /\ config' = config /\ closed' = closed /\ control' = control
    BY <1>3, <1>5, NothingAssumption
  <2>2. Before => Before'
    BY <1>5, <2>1 DEF Before, NoneRead
  <2>3. Between => Between'
    BY <1>5, <2>1 DEF Between, Removed
  <2>4. After => After'
    BY <1>5, <2>1 DEF After, Removed
  <2>5. RepairJournal'
    <3>1. Child.add # Nothing => Child.add.id = config.id /\ Child.add.abort < config.abort
      BY <1>4, <1>5
    <3>2. QED
      BY <1>5, <2>1, <3>1 DEF RepairJournal, Staged
  <2>6. QED
    BY <1>5, <2>2, <2>3, <2>4, <2>5 DEF Staged
<1>6. QED
  BY <1>1, <1>3, <1>5, WriteKeeps

\* A round that is aborted refuses the addition it was about.
LEMMA RoundAbortKeeps ==
    ASSUME RepairInv, NEW o \in Reconcilers, OnChild(o), Of(o).add # Nothing,
           config.id = Of(o).add.id, config.pending # Nothing,
           config' = [config EXCEPT !.pending = Nothing, !.abort = @ + 1],
           RecordMembership(o, [Of(o) EXCEPT !.phase = "Aborted"]),
           UNCHANGED <<control, world, learnerPods, closed>>
    PROVE  RepairInv'
<1> DEFINE new == [Of(o) EXCEPT !.phase = "Aborted"]
<1>1. RecordMembership(o, new)
  OBVIOUS
<1>2. Of(o) \in ChildRecord /\ AutoTypes /\ ViewOK(control) /\ PassOK(o)
  BY OfIs
<1>3. /\ new \in ChildRecord /\ new.spec = Of(o).spec /\ new.add = Of(o).add
      /\ new.remove = Of(o).remove /\ new.phase = "Aborted"
  BY <1>2, PhaseIs
<1> HIDE DEF new
<1>4. /\ config.id \in Nat /\ config.abort \in Nat
      /\ Of(o).add.id \in Nat /\ Of(o).add.abort \in Nat
  BY <1>2, NumbersAre
<1>5. /\ config' \in [id : Nat, voters : SUBSET Nodes, pending : PendingChange \cup {Nothing},
                      abort : Nat]
      /\ config'.pending = Nothing /\ config'.voters = config.voters
      /\ config'.id = config.id /\ config'.abort = config.abort + 1
  <2>1. PICK a \in Nat : a = config.abort + 1
    BY <1>4
  <2>2. config' = [config EXCEPT !.pending = Nothing, !.abort = a]
    BY <2>1
  <2>3. QED
    BY <1>2, <2>1, <2>2 DEF AutoTypes
<1>6. Past(Of(o).add)
  BY <1>2 DEF PassOK, Of
<1>7. ASSUME ~ Gone
      PROVE  control.intent # Nothing /\ Child # Nothing /\ work[o].seq = control.seq
  BY <1>7, CurrentPass
<1>8. Members(o, new)
  BY <1>1, <1>4, <1>5, <1>7 DEF Members
<1>9. ASSUME ~ Gone, control.intent # Nothing
      PROVE  (Before' \/ Between' \/ After') /\ RepairJournal'
  <2>1. /\ control' = control /\ Failed' = Failed /\ closed' = closed /\ Staged
        /\ \/ Child' = Child
           \/ Child = Of(o) /\ Child # Nothing /\ Child' = new
    BY <1>3, <1>8, <1>9, ChildAfter
  <2>2. Child # Nothing /\ work[o].seq = control.seq
    BY <1>7, <1>9
  <2>3. ~ Before /\ ~ After
    BY <2>2 DEF Before, After, Of
  <2>4. Between /\ RepairJournal
    BY <1>9, <2>1, <2>3 DEF Staged
  <2>5. /\ Child.add # Nothing /\ Child.add.id = config.id /\ Child.add.abort = config.abort
    BY <2>4 DEF Between
  <2>6. /\ Child' # Nothing /\ Child'.remove = Child.remove /\ Child'.add = Child.add
        /\ Child'.phase = Child.phase \/ Child'.phase = "Aborted"
    BY <1>3, <2>1, <2>2, NothingAssumption
  <2>7. Between'
    BY <1>5, <2>1, <2>4, <2>6 DEF Between, Removed
  <2>8. Child.phase # "Complete"
    BY <2>3, <2>2, <2>4 DEF RepairJournal
  <2>9. RepairJournal'
    BY <1>4, <1>5, <2>1, <2>2, <2>4, <2>5, <2>6, <2>8 DEF RepairJournal
  <2>10. QED
    BY <2>7, <2>9
<1>10. QED
  BY <1>3, <1>8, <1>9, RecordKeeps

\* An addition that was aborted is forgotten: the membership refuses it.
LEMMA ResetKeeps ==
    ASSUME RepairInv, NEW o \in Reconcilers, ResetAborted(o)
    PROVE  RepairInv'
<1> DEFINE new == [Of(o) EXCEPT !.phase = "Adding", !.add = Nothing]
<1>1. /\ OnChild(o) /\ RecordMembership(o, new)
      /\ Of(o).add # Nothing => config.id = Of(o).add.id /\ config.abort > Of(o).add.abort
      /\ UNCHANGED <<control, world, learnerPods, closed, config>>
  BY DEF ResetAborted, MembershipTurn, Working, OnChild
<1>2. Of(o) \in ChildRecord /\ AutoTypes /\ ViewOK(control)
  BY <1>1, OfIs
<1>3. /\ new \in ChildRecord /\ new.spec = Of(o).spec /\ new.add = Nothing
      /\ new.remove = Of(o).remove /\ new.phase = "Adding"
  BY <1>2 DEF ChildRecord
<1> HIDE DEF new
<1>4. /\ config.id \in Nat /\ config.abort \in Nat
      /\ Of(o).add # Nothing => Of(o).add.id \in Nat /\ Of(o).add.abort \in Nat
  BY <1>2, NumbersAre
<1>5. Of(o).add # Nothing => Refused(Of(o).add)
  BY <1>1, <1>4 DEF Refused
<1>6. ASSUME control.intent # Nothing, Staged, Child = Of(o), Child # Nothing, Child' = new,
             Failed' = Failed, NoneRead => NoneRead'
      PROVE  (Before' \/ Between' \/ After') /\ RepairJournal'
  <2>1. /\ Child'.add = Nothing /\ Child'.remove = Child.remove /\ Child'.phase = "Adding"
        /\ Child' # Nothing /\ config' = config /\ closed' = closed /\ control' = control
    BY <1>1, <1>3, <1>6, NothingAssumption
  <2>2. Before => Before'
    BY <1>6, <2>1 DEF Before, NoneRead
  <2>3. Between => Between'
    <3>1. Between => config.pending = Nothing
      BY <1>1, <1>4, <1>6 DEF Between
    <3>2. QED
      BY <1>6, <2>1, <3>1 DEF Between, Removed
  <2>4. ~ After
    BY <1>1, <1>4, <1>6 DEF After
  <2>5. RepairJournal'
    BY <1>6, <2>1 DEF RepairJournal, Staged
  <2>6. QED
    BY <1>6, <2>2, <2>3, <2>4, <2>5 DEF Staged
<1>7. QED
  BY <1>1, <1>3, <1>5, <1>6, WriteKeeps

\* The addition is journaled: of a learner that nobody has fenced.
LEMMA JournalAddKeeps ==
    ASSUME RepairInv, NEW o \in Reconcilers, JournalAdd(o)
    PROVE  RepairInv'
<1> DEFINE a == [learner |-> Of(o).spec.learner, id |-> config.id, abort |-> config.abort]
           new == [Of(o) EXCEPT !.phase = "Adding", !.add = a]
<1>1. /\ OnChild(o) /\ RecordMembership(o, new) /\ Of(o).add = Nothing
      /\ Of(o).spec.scope = "Voter" /\ ~ Of(o).spec.abort /\ config.pending = Nothing
      /\ Of(o).remove # Nothing /\ Of(o).remove.node \notin config.voters
      /\ Of(o).spec.learner \in learnerPods
      /\ UNCHANGED <<control, world, learnerPods, closed, config>>
  BY DEF JournalAdd, AddTurn, MembershipTurn, Working, OnChild
<1>2. Of(o) \in ChildRecord /\ AutoTypes /\ ViewOK(control)
  BY <1>1, OfIs
<1>3. /\ a \in AddRecord /\ a.learner = Of(o).spec.learner /\ a.id = config.id
      /\ a.abort = config.abort
  <2>1. Of(o).spec.learner \in Nodes
    BY <1>1, <1>2 DEF AutoTypes, Nodes
  <2>2. QED
    BY <1>2, <2>1, NumbersAre DEF AddRecord
<1> HIDE DEF a
<1>4. /\ new \in ChildRecord /\ new.spec = Of(o).spec /\ new.add = a
      /\ new.remove = Of(o).remove /\ new.phase = "Adding"
  BY <1>2, <1>3 DEF ChildRecord
<1> HIDE DEF new
<1>5. ASSUME control.intent # Nothing, Staged, Child = Of(o), Child # Nothing, Child' = new,
             Failed' = Failed
      PROVE  (Before' \/ Between' \/ After') /\ RepairJournal'
  <2>1. /\ Child'.add = a /\ a # Nothing /\ Child'.remove = Child.remove /\ Child'.phase = "Adding"
        /\ Child' # Nothing /\ config' = config /\ closed' = closed /\ control' = control
    BY <1>1, <1>3, <1>4, <1>5, NothingAssumption
  <2>2. Child.remove.node = Failed /\ Failed \in control.voters
    BY <1>1, <1>5 DEF Staged, RepairJournal
  <2>3. Between
    BY <1>1, <1>5, <2>2 DEF Staged, Before, After
  <2>4. Between'
    BY <1>1, <1>5, <2>1, <2>3 DEF Between, Removed
  <2>5. control.seq \in Incidents /\ control.seq \in Nat
    BY <1>2, <1>5, NumbersAre DEF ViewOK
  <2>6. Child.spec.learner \in Learners /\ Child.spec.learner[1] = control.seq
    BY <1>1, <1>5, <2>5 DEF RepairInv, ChildrenOK, ChildOK, Child
  <2>7. Child.spec.learner[2] \in Nat
    BY <1>2, <2>6, NumbersAre
  <2>8. Child.spec.learner \notin closed
    BY <1>1, <1>5, <2>6, <2>7 DEF Staged, LearnersClosed
  <2>9. RepairJournal'
    BY <1>3, <1>5, <2>1, <2>2, <2>8 DEF RepairJournal
  <2>10. QED
    BY <2>4, <2>9
<1>6. QED
  BY <1>1, <1>3, <1>4, <1>5, WriteKeeps

\* The child of a generation's recovery.
LEMMA RecoverKeeps ==
    ASSUME RepairInv, NEW o \in Reconcilers, RecoverGeneration(o)
    PROVE  RepairInv'
<1> DEFINE new == [Of(o) EXCEPT !.phase = "Complete"]
<1>1. /\ OnChild(o) /\ RecordMembership(o, new) /\ Of(o).spec.scope = "Generation"
      /\ UNCHANGED <<control, world, learnerPods, closed, config>>
  BY DEF RecoverGeneration, Working, OnChild
<1>2. Of(o) \in ChildRecord /\ PassOK(o)
  BY <1>1, OfIs
<1>3. /\ new \in ChildRecord /\ new.spec = Of(o).spec /\ new.add = Of(o).add
      /\ new.remove = Of(o).remove
  BY <1>2, PhaseIs
<1> HIDE DEF new
<1>4. Gone
  BY <1>1, <1>2 DEF PassOK, Of
<1>5. QED
  BY <1>1, <1>3, <1>4, WriteKeeps

\* The steps of an addition that is given up.
LEMMA AbortKeeps ==
    ASSUME RepairInv, NEW o \in Reconcilers, AbortMembership(o)
    PROVE  RepairInv'
<1>1. OnChild(o) /\ Of(o).add # Nothing /\ UNCHANGED <<control, world, learnerPods, closed>>
  BY DEF AbortMembership, AbortTurn, MembershipTurn, Working, OnChild
<1>2. CASE /\ config.id = Of(o).add.id + 1 /\ config.pending = Nothing /\ config.abort = 0
           /\ Of(o).add.learner \in config.voters
           /\ RecordMembership(o, [Of(o) EXCEPT !.phase = "Complete"]) /\ UNCHANGED config
  BY <1>1, <1>2, CompletesKeeps
<1>3. CASE /\ config.id = Of(o).add.id /\ config.pending # Nothing
           /\ config' = [config EXCEPT !.pending = Nothing, !.abort = @ + 1]
           /\ RecordMembership(o, [Of(o) EXCEPT !.phase = "Aborted"])
  BY <1>1, <1>3, RoundAbortKeeps
<1>4. CASE /\ config.id = Of(o).add.id /\ config.abort > Of(o).add.abort
           /\ RecordMembership(o, [Of(o) EXCEPT !.phase = "Aborted"]) /\ UNCHANGED config
  BY <1>1, <1>4, AbortedKeeps
<1>5. CASE AcceptAdd(Of(o).add) /\ RecordMembership(o, [Of(o) EXCEPT !.phase = "Aborting"])
  BY <1>1, <1>5, AcceptKeeps
<1>6. QED
  BY <1>2, <1>3, <1>4, <1>5 DEF AbortMembership

\* A report that the repair is blocked leaves both requests in the journal.
LEMMA BlockedKeeps ==
    ASSUME RepairInv, NEW o \in Reconcilers, RecordBlocked(o)
    PROVE  RepairInv'
<1> DEFINE new == [Of(o) EXCEPT !.phase = "Blocked"]
<1>1. /\ OnChild(o) /\ RecordMembership(o, new)
      /\ UNCHANGED <<control, world, learnerPods, closed, config>>
  BY DEF RecordBlocked, Working, OnChild
<1>2. Of(o) \in ChildRecord /\ AutoTypes /\ ViewOK(control)
  BY <1>1, OfIs
<1>3. /\ new \in ChildRecord /\ new.spec = Of(o).spec /\ new.add = Of(o).add
      /\ new.remove = Of(o).remove /\ new.phase = "Blocked"
  BY <1>2, PhaseIs
<1> HIDE DEF new
<1>4. ASSUME control.intent # Nothing, Staged, Child = Of(o), Child # Nothing, Child' = new,
             Failed' = Failed, NoneRead => NoneRead'
      PROVE  (Before' \/ Between' \/ After') /\ RepairJournal'
  <2>1. /\ Child'.add = Child.add /\ Child'.remove = Child.remove /\ Child'.phase = "Blocked"
        /\ Child' # Nothing /\ config' = config /\ closed' = closed /\ control' = control
    BY <1>1, <1>3, <1>4, NothingAssumption
  <2>2. Before => Before'
    BY <1>4, <2>1 DEF Before, NoneRead
  <2>3. Between => Between'
    BY <1>4, <2>1 DEF Between, Removed
  <2>4. After => After'
    BY <1>4, <2>1 DEF After, Removed
  <2>5. RepairJournal'
    BY <1>4, <2>1 DEF RepairJournal, Staged
  <2>6. QED
    BY <1>4, <2>2, <2>3, <2>4, <2>5 DEF Staged
<1>5. QED
  BY <1>1, <1>3, <1>4, WriteKeeps

\* The steps of a pass over a child, together.
LEMMA PassesKeep ==
    ASSUME RepairInv, NEW o \in Reconcilers,
           \/ JournalRemove(o) \/ DispatchRemove(o)
           \/ JournalAdd(o) \/ DispatchAdd(o) \/ AddComplete(o)
           \/ ResetAborted(o) \/ AcknowledgeAbort(o) \/ AbortMembership(o)
           \/ RecordBlocked(o) \/ RecoverGeneration(o)
    PROVE  RepairInv'
<1>1. CASE DispatchAdd(o)
  <2>1. /\ OnChild(o) /\ Of(o).add # Nothing /\ AcceptAdd(Of(o).add)
        /\ RecordMembership(o, [Of(o) EXCEPT !.phase = "Adding"])
        /\ UNCHANGED <<control, world, learnerPods, closed>>
    BY <1>1 DEF DispatchAdd, AddTurn, MembershipTurn, Working, OnChild
  <2>2. QED
    BY <2>1, AcceptKeeps
<1>2. CASE AddComplete(o)
  <2>1. /\ OnChild(o) /\ Of(o).add # Nothing
        /\ config.id = Of(o).add.id + 1 /\ config.pending = Nothing /\ config.abort = 0
        /\ Of(o).add.learner \in config.voters
        /\ RecordMembership(o, [Of(o) EXCEPT !.phase = "Complete"])
        /\ UNCHANGED <<control, world, learnerPods, closed, config>>
    BY <1>2 DEF AddComplete, AddTurn, MembershipTurn, Working, OnChild
  <2>2. QED
    BY <2>1, CompletesKeeps
<1>3. CASE AcknowledgeAbort(o)
  <2>1. /\ OnChild(o) /\ Of(o).add = Nothing
        /\ RecordMembership(o, [Of(o) EXCEPT !.phase = "Aborted"])
        /\ UNCHANGED <<control, world, learnerPods, closed, config>>
    BY <1>3 DEF AcknowledgeAbort, AbortTurn, MembershipTurn, Working, OnChild
  <2>2. QED
    BY <2>1, AbortedKeeps
<1>4. QED
  BY <1>1, <1>2, <1>3, JournalRemoveKeeps, DispatchRemoveKeeps, JournalAddKeeps, ResetKeeps,
     AbortKeeps, BlockedKeeps, RecoverKeeps

-----------------------------------------------------------------------------
(* The child is created and revised, and the membership changes *)

\* The child of an incident is new or stays as it is.
LEMMA CreateKeeps ==
    ASSUME RepairInv, NEW o \in Reconcilers, CreateChild(o)
    PROVE  RepairInv'
<1> DEFINE w == [work[o] EXCEPT !.kind = "created"]
<1>1. /\ OnCluster(o) /\ work[o].kind = "cluster" /\ Loaded(o).intent # Nothing
      /\ ~ Loaded(o).intent.bound
      /\ child' = [child EXCEPT ![Loaded(o).seq] =
                      IF @ = Nothing THEN NewChild(Loaded(o)) ELSE @]
      /\ work' = [work EXCEPT ![o] = w]
      /\ UNCHANGED <<control, world, learnerPods, closed, config>>
  BY DEF CreateChild, ChildTurn, Working, OnCluster, Intent
<1>2. AutoTypes /\ World /\ ViewOK(control) /\ ClusterOK(o) /\ work[o] \in ClusterPass
  BY <1>1, PassTypes DEF RepairInv
<1>3. PICK s \in ControlRecord : s = Loaded(o)
  BY <1>2 DEF ClusterPass, Loaded
<1>4. ViewOK(s) /\ s.intent # Nothing /\ ~ s.intent.bound /\ s.generation = 1
  BY <1>1, <1>2, <1>3 DEF ClusterOK, Loaded
<1>5. PICK k \in Incidents : k = s.seq
  BY <1>4 DEF ViewOK
<1>6. k <= control.seq /\ k \in Nat /\ control.seq \in Nat
  BY <1>2, <1>4, <1>5, NumbersAre DEF ViewOK
<1>7. PICK c \in ChildRecord :
         c = NewChild(s) /\ c.remove = Nothing /\ c.add = Nothing /\ c.phase = ""
         /\ c.spec = DesiredSpec(s)
  <2>1. DesiredSpec(s) \in ChangeSpec
    BY <1>4, DesiredOK
  <2>2. NewChild(s) \in ChildRecord
    BY <2>1 DEF NewChild, ChildRecord
  <2>3. QED
    BY <2>2 DEF NewChild
<1>8. /\ child'[k] = IF child[k] = Nothing THEN c ELSE child[k]
      /\ \A j \in Incidents : j # k => child'[j] = child[j]
      /\ child' \in [Incidents -> ChildRecord \cup {Nothing}]
  BY <1>1, <1>2, <1>3, <1>5, <1>7 DEF AutoTypes
<1>9. c # Nothing
  BY NothingAssumption
<1>10. /\ w \in ClusterPass /\ w.kind = "created" /\ w.ctl = s /\ w.fresh = work[o].fresh
  BY <1>2, <1>3 DEF ClusterPass, Loaded
<1>11. /\ work' \in [Reconcilers -> {NoWork} \cup ClusterPass \cup ChildPass] /\ work'[o] = w
       /\ \A q \in Reconcilers : q # o => work'[q] = work[q] /\ Onward(q)
  BY <1>1, <1>2, <1>10, WorkIs
<1>12. AutoTypes'
  BY <1>1, <1>2, <1>8, <1>11 DEF AutoTypes, world
<1>13. /\ (Gone' <=> Gone) /\ (\A j \in Incidents : Finished(j)' <=> Finished(j))
       /\ (\A n : Over(n)' <=> Over(n)) /\ (\A l : Accounted(l)' <=> Accounted(l))
  BY <1>1 DEF Gone, Finished, Over, world, Accounted, LearnerOf
<1>14. World'
  BY <1>1, <1>2, <1>13 DEF World, world, Over
<1>15. Ahead
  BY <1>1, <1>2, NumbersAre DEF Ahead
<1>16. Lasting /\ control'.seq \in Nat
  BY <1>1, <1>6, <1>8, <1>13 DEF Lasting, Failed
<1>17. ClusterOK(o)' /\ ~ OnChild(o)'
  <2>1. ViewOK(s)'
    BY <1>2, <1>4, <1>16, ViewStays
  <2>2. work[o].fresh => s = control
    BY <1>2, <1>3 DEF ClusterOK, Loaded
  <2>3. child'[s.seq] # Nothing
    BY <1>5, <1>8, <1>9
  <2>4. work'[o].ctl = s /\ work'[o].kind = "created" /\ work'[o].fresh = work[o].fresh
    BY <1>10, <1>11
  <2>5. ViewOK(work[o].ctl)'
    BY <2>1, <2>4
  <2>6. QED
    BY <1>1, <1>4, <2>2, <2>3, <2>4, <2>5 DEF ClusterOK, OnChild
<1>18. ASSUME child[k] = Nothing, ~ Gone
       PROVE  k = control.seq /\ control.intent # Nothing /\ Child = Nothing /\ Child' = c
  <2>1. ~ Finished(k)
    BY <1>18 DEF RepairInv, ChildrenOK
  <2>2. k = control.seq /\ control.intent # Nothing
    BY <1>6, <2>1 DEF Finished
  <2>3. QED
    BY <1>1, <1>8, <1>18, <2>2 DEF Child
<1>19. ChildOK(k)'
  <2>1. CASE child[k] # Nothing
    <3>1. ChildOK(k) /\ child'[k] = child[k]
      BY <1>8, <2>1 DEF RepairInv, ChildrenOK
    <3>2. QED
      BY <1>1, <1>13, <3>1 DEF ChildOK, Past
  <2>2. CASE child[k] = Nothing
    <3>1. child'[k] = c /\ control' = control
      BY <1>1, <1>8, <2>2
    <3>2. /\ c.spec.scope = s.intent.scope
          /\ s.intent.scope = "Voter" => c.spec.learner \in Learners /\ c.spec.learner[1] = k
      BY <1>4, <1>5, <1>7, DesiredOK
    <3>3. s.intent.scope = "Generation" => Gone
      BY <1>4 DEF ViewOK
    <3>4. ~ Gone => ~ Finished(k)
      BY <1>6, <1>18, <2>2 DEF Finished
    <3>5. QED
      BY <1>6, <1>7, <1>13, <3>1, <3>2, <3>3, <3>4 DEF ChildOK
  <2>3. QED
    BY <2>1, <2>2
<1>20. ASSUME ~ Gone
       PROVE  Staged'
  <2>1. Staged /\ control' = control /\ closed' = closed /\ config' = config /\ Failed' = Failed
    BY <1>1, <1>20 DEF RepairInv, Failed
  <2>2. NoneRead => NoneRead'
    BY <1>11, <1>17, <2>1 DEF NoneRead, Onward
  <2>3. CASE Child' = Child
    <3>1. Before => Before'
      BY <2>1, <2>2, <2>3 DEF Before, NoneRead
    <3>2. Between => Between'
      BY <2>1, <2>3 DEF Between, Removed
    <3>3. After => After'
      BY <2>1, <2>3 DEF After, Removed
    <3>4. RepairJournal => RepairJournal'
      BY <2>1, <2>3, <3>3 DEF RepairJournal
    <3>5. LearnersClosed'
      BY <2>1, <2>3 DEF Staged, LearnersClosed
    <3>6. QED
      BY <2>1, <3>1, <3>2, <3>3, <3>4, <3>5 DEF Staged
  <2>4. CASE child[k] = Nothing
    <3>1. k = control.seq /\ control.intent # Nothing /\ Child = Nothing /\ Child' = c
      BY <1>18, <1>20, <2>4
    <3>2. Before
      BY <2>1, <3>1 DEF Staged, Between, After, Removed
    <3>3. Before'
      BY <1>7, <2>1, <2>2, <3>1, <3>2 DEF Before, NoneRead
    <3>4. RepairJournal'
      BY <1>7, <2>1, <3>1 DEF RepairJournal
    <3>5. LearnersClosed'
      BY <2>1, <3>1 DEF Staged, LearnersClosed
    <3>6. QED
      BY <2>1, <3>1, <3>3, <3>4, <3>5 DEF Staged
  <2>5. child[k] # Nothing => child' = child
    BY <1>1, <1>2, <1>3, <1>5 DEF AutoTypes
  <2>6. QED
    BY <2>1, <2>3, <2>4, <2>5 DEF Child
<1>21. \A q \in Reconcilers :
             \/ /\ Onward(q)
                /\ OnChild(q) /\ work[q].seq = k /\ work'[q].fresh => child'[k] = child[k]
             \/ ~ OnChild(q)' /\ (OnCluster(q)' => ClusterOK(q)')
  <2>1. ASSUME NEW q \in Reconcilers, q # o
        PROVE  /\ Onward(q)
               /\ OnChild(q) /\ work[q].seq = k /\ work'[q].fresh => child'[k] = child[k]
    <3>1. OnChild(q) /\ work[q].seq = k => child[k] # Nothing
      BY DEF RepairInv, PassOK
    <3>2. QED
      BY <1>8, <1>11, <2>1, <3>1
  <2>2. QED
    BY <1>17, <2>1
<1>22. child[k] # Nothing =>
             /\ child'[k] # Nothing
             /\ child[k].remove # Nothing => child'[k].remove = child[k].remove
             /\ ~ Gone /\ child[k].add # Nothing =>
                   child'[k].add = child[k].add \/ Refused(child[k].add)
  BY <1>8
<1>23. QED
  BY <1>1, <1>8, <1>12, <1>13, <1>14, <1>15, <1>19, <1>20, <1>21, <1>22, ChildKeeps

\* A revision follows the specification it replaces, so a fenced learner stays given up.
LEMMA SubmitKeeps ==
    ASSUME RepairInv, NEW o \in Reconcilers, SubmitRevision(o)
    PROVE  RepairInv'
<1>1. /\ OnCluster(o) /\ Loaded(o).intent # Nothing /\ Loaded(o).intent.bound
      /\ child[Loaded(o).seq].spec = Loaded(o).intent.previous
      /\ child' = [child EXCEPT ![Loaded(o).seq].spec = Loaded(o).intent.spec]
      /\ work' = Outrun(Loaded(o).seq, o)
      /\ UNCHANGED <<control, world, learnerPods, closed, config>>
  BY DEF SubmitRevision, ChildTurn, Working, OnCluster, Intent
<1>2. AutoTypes /\ World /\ ViewOK(control) /\ ClusterOK(o) /\ work[o] \in ClusterPass
  BY <1>1, PassTypes DEF RepairInv
<1>3. PICK s \in ControlRecord : s = Loaded(o)
  BY <1>2 DEF ClusterPass, Loaded
<1>4. ViewOK(s) /\ s.intent # Nothing /\ s.intent.bound
  BY <1>1, <1>2, <1>3 DEF ClusterOK, Loaded
<1>5. PICK k \in Incidents : k = s.seq
  BY <1>4 DEF ViewOK
<1>6. k <= control.seq /\ k \in Nat /\ control.seq \in Nat
  BY <1>2, <1>4, <1>5, NumbersAre DEF ViewOK
<1>7. child[k] # Nothing /\ child[k] \in ChildRecord /\ ChildOK(k)
  BY <1>2, <1>4, <1>5, NumbersAre DEF ViewOK, RepairInv, ChildrenOK
<1>8. PICK d \in ChangeSpec : d = s.intent.spec /\ SpecOK(s, d)
  <2>1. s.intent \in IntentRecord
    BY <1>4 DEF ControlRecord
  <2>2. s.intent.spec \in ChangeSpec
    BY <1>4, <2>1 DEF ViewOK, IntentRecord
  <2>3. QED
    BY <1>4, <2>2 DEF ViewOK
<1>9. child[k].spec = s.intent.previous /\ child[k].spec # Nothing
  BY <1>1, <1>3, <1>5, <1>7, NothingAssumption DEF ChildRecord
<1>10. PICK c \in ChildRecord :
          /\ c = [child[k] EXCEPT !.spec = d] /\ c.spec = d /\ c.remove = child[k].remove
          /\ c.add = child[k].add /\ c.phase = child[k].phase
  <2> DEFINE r == [child[k] EXCEPT !.spec = d]
  <2>1. /\ r \in ChildRecord /\ r.spec = d /\ r.remove = child[k].remove
        /\ r.add = child[k].add /\ r.phase = child[k].phase
    BY <1>7 DEF ChildRecord
  <2>2. QED
    BY <2>1
<1>11. /\ child'[k] = c /\ c # Nothing
       /\ \A j \in Incidents : j # k => child'[j] = child[j]
       /\ child' \in [Incidents -> ChildRecord \cup {Nothing}]
  <2>1. child' = [child EXCEPT ![k] = [child[k] EXCEPT !.spec = d]]
    BY <1>1, <1>3, <1>5, <1>8
  <2>2. QED
    BY <1>2, <1>10, <2>1, NothingAssumption DEF AutoTypes
<1>12. work' = Outrun(k, o)
  BY <1>1, <1>3, <1>5
<1>13. /\ work' \in [Reconcilers -> {NoWork} \cup ClusterPass \cup ChildPass]
       /\ ~ OnCluster(o)' /\ ~ OnChild(o)'
       /\ \A q \in Reconcilers : q # o =>
            Onward(q) /\ (OnChild(q) /\ work[q].seq = k => ~ work'[q].fresh)
  BY <1>2, <1>12, OutrunIs
<1>14. AutoTypes'
  BY <1>1, <1>2, <1>11, <1>13 DEF AutoTypes, world
<1>15. /\ (Gone' <=> Gone) /\ (\A j \in Incidents : Finished(j)' <=> Finished(j))
       /\ (\A n : Over(n)' <=> Over(n)) /\ (\A l : Accounted(l)' <=> Accounted(l))
  BY <1>1 DEF Gone, Finished, Over, world, Accounted, LearnerOf
<1>16. World'
  BY <1>1, <1>2, <1>15 DEF World, world, Over
<1>17. Ahead
  BY <1>1, <1>2, NumbersAre DEF Ahead
<1>18. ChildOK(k)'
  <2>1. /\ d.scope = "Generation" => Gone
        /\ d.scope = "Voter" => d.learner \in Learners /\ d.learner[1] = k
    BY <1>4, <1>5, <1>8 DEF ViewOK, SpecOK
  <2>2. control' = control /\ config' = config /\ child'[k] = c
    BY <1>1, <1>11
  <2>3. QED
    BY <1>7, <1>10, <1>15, <2>1, <2>2 DEF ChildOK, Past
<1>19. ASSUME ~ Gone
       PROVE  Staged'
  <2>1. Staged /\ control' = control /\ closed' = closed /\ config' = config /\ Failed' = Failed
    BY <1>1, <1>19 DEF RepairInv, Failed
  <2>2. NoneRead => NoneRead'
    BY <1>13, <2>1 DEF NoneRead, Onward
  <2>3. \/ Child' = Child
        \/ /\ k = control.seq /\ Child = child[k] /\ Child' = c
    BY <1>6, <1>11, <2>1, <1>2, AutoAssumption DEF Child, AutoTypes, ControlRecord, Incidents
  <2>4. /\ (Child' = Nothing <=> Child = Nothing)
        /\ Child # Nothing => /\ Child'.remove = Child.remove /\ Child'.add = Child.add
                              /\ Child'.phase = Child.phase
    BY <1>7, <1>10, <1>11, <2>3
  <2>5. Before => Before'
    BY <2>1, <2>2, <2>4 DEF Before, NoneRead
  <2>6. Between => Between'
    BY <2>1, <2>4 DEF Between, Removed
  <2>7. After => After'
    BY <2>1, <2>4 DEF After, Removed
  <2>8. RepairJournal => RepairJournal'
    BY <2>1, <2>4, <2>7 DEF RepairJournal
  <2>9. LearnersClosed'
    <3>1. CASE Child' = Child
      BY <2>1, <3>1 DEF Staged, LearnersClosed
    <3>2. CASE k = control.seq /\ Child = child[k] /\ Child' = c
      <4>1. s.intent.scope = "Voter"
        <5>1. s.intent \in IntentRecord
          BY <1>4 DEF ControlRecord
        <5>2. QED
          BY <1>4, <1>19, <5>1 DEF ViewOK, IntentRecord
      <4>2. Later(child[k].spec, d)
        BY <1>4, <1>8, <1>9, <4>1 DEF ViewOK
      <4>3. d.learner \in Learners /\ d.scope = "Voter" /\ d.abort \in BOOLEAN
        BY <1>8, <4>1 DEF SpecOK, ChangeSpec
      <4>4. child[k].spec.learner \in Learners
        <5>1. child[k].spec \in ChangeSpec /\ child[k].spec.scope \in {"Voter", "Generation"}
          BY <1>7 DEF ChildRecord, ChangeSpec
        <5>2. QED
          BY <1>7, <1>19, <5>1 DEF ChildOK
      <4>5. ASSUME NEW l \in Learners, l \in closed, l[1] = control.seq, control.intent # Nothing
            PROVE  l[2] < d.learner[2] \/ (l[2] = d.learner[2] /\ d.abort)
        <5>1. l[2] \in Nat /\ d.learner[2] \in Nat /\ child[k].spec.learner[2] \in Nat
          BY <1>2, <4>3, <4>4, NumbersAre
        <5>2. \/ l[2] < child[k].spec.learner[2]
              \/ l[2] = child[k].spec.learner[2] /\ child[k].spec.abort
          BY <2>1, <3>2, <4>5 DEF Staged, LearnersClosed
        <5>3. QED
          BY <4>2, <5>1, <5>2 DEF Later
      <4>6. Child' # Nothing /\ Child'.spec = d
        BY <1>10, <1>11, <3>2
      <4>7. QED
        BY <2>1, <4>5, <4>6 DEF Staged, LearnersClosed
    <3>3. QED
      BY <2>3, <3>1, <3>2
  <2>10. QED
    BY <2>1, <2>5, <2>6, <2>7, <2>8, <2>9 DEF Staged
<1>20. \A q \in Reconcilers :
             \/ /\ Onward(q)
                /\ OnChild(q) /\ work[q].seq = k /\ work'[q].fresh => child'[k] = child[k]
             \/ ~ OnChild(q)' /\ (OnCluster(q)' => ClusterOK(q)')
  BY <1>13
<1>21. child[k] # Nothing =>
             /\ child'[k] # Nothing
             /\ child[k].remove # Nothing => child'[k].remove = child[k].remove
             /\ ~ Gone /\ child[k].add # Nothing =>
                   child'[k].add = child[k].add \/ Refused(child[k].add)
  BY <1>10, <1>11
<1>22. QED
  BY <1>1, <1>11, <1>14, <1>15, <1>16, <1>17, <1>18, <1>19, <1>20, <1>21, ChildKeeps

\* A change takes effect.
LEMMA CommitKeeps ==
    ASSUME RepairInv, CommitChange
    PROVE  RepairInv'
<1>1. /\ config.pending # Nothing
      /\ config' = [id |-> config.id + 1, pending |-> Nothing, abort |-> 0,
                    voters |-> IF config.pending.kind = "remove"
                               THEN config.voters \ {config.pending.node}
                               ELSE config.voters \cup {config.pending.node}]
      /\ UNCHANGED <<control, child, world, learnerPods, closed, work>>
  BY DEF CommitChange
<1>2. AutoTypes /\ World /\ ViewOK(control)
  BY DEF RepairInv
<1>3. /\ config.pending.node \in Nodes /\ config.pending.kind \in {"remove", "add"}
      /\ config.voters \subseteq Nodes /\ config.id \in Nat /\ config.abort \in Nat
  BY <1>1, <1>2 DEF AutoTypes, PendingChange
<1>4. /\ config'.id = config.id + 1 /\ config'.pending = Nothing /\ config'.abort = 0
      /\ config.pending.kind = "remove" => config'.voters = config.voters \ {config.pending.node}
      /\ config.pending.kind = "add" => config'.voters = config.voters \cup {config.pending.node}
      /\ config' \in [id : Nat, voters : SUBSET Nodes, pending : PendingChange \cup {Nothing},
                      abort : Nat]
  BY <1>1, <1>3
<1>5. AutoTypes'
  BY <1>1, <1>2, <1>4 DEF AutoTypes, world
<1>6. (Gone' <=> Gone) /\ (\A j \in Incidents : Finished(j)' <=> Finished(j))
      /\ \A n : Over(n)' <=> Over(n)
  BY <1>1 DEF Gone, Finished, Over, world
<1>7. config.pending.kind = "remove" => Over(config.pending.node)
  BY <1>1, <1>2 DEF World
<1>8. \A n \in config.voters : n \in config'.voters \/ Over(n)
  BY <1>3, <1>4, <1>7
<1>9. \A l : Accounted(l) => Accounted(l)'
  BY <1>1, <1>6, <1>8 DEF Accounted, LearnerOf
<1>10. World'
  <2>1. \A n \in BaseVoters \ config'.voters : Over(n)'
    BY <1>2, <1>6, <1>8 DEF World
  <2>2. \A l \in learnerPods' : Accounted(l)'
    BY <1>1, <1>2, <1>9 DEF World
  <2>3. QED
    BY <1>1, <1>2, <1>4, <1>6, <2>1, <2>2 DEF World, world
<1>11. Ahead
  BY <1>3, <1>4 DEF Ahead
<1>12. ASSUME ~ Gone
       PROVE  Staged'
  <2>1. /\ Staged /\ control' = control /\ closed' = closed /\ Failed' = Failed /\ Child' = Child
        /\ work' = work /\ child' = child
    BY <1>1, <1>12 DEF RepairInv, Failed, Child
  <2>2. control.intent # Nothing /\ RepairJournal /\ ~ After
    BY <1>1, <2>1 DEF Staged, After
  <2>3. control.seq \in Incidents /\ Child # Nothing
    BY <1>1, <1>2, <2>1, <2>2 DEF ViewOK, Staged, Before, Between, Removed
  <2>4. ChildOK(control.seq) /\ Child \in ChildRecord
    BY <1>2, <2>3, NumbersAre DEF RepairInv, ChildrenOK, Child
  <2>5. /\ Child.remove # Nothing => Child.remove.id <= config.id /\ Child.remove.id \in Nat
        /\ Child.add # Nothing =>
             Child.add.id \in Nat /\ Child.add.abort \in Nat /\ Child.add.id <= config.id
    BY <1>2, <1>3, <2>4, NumbersAre DEF ChildOK, Child, Past
  <2>6. LearnersClosed'
    BY <2>1 DEF Staged, LearnersClosed
  <2>7. CASE Before
    <3>1. /\ config.pending.kind = "remove" /\ config.pending.node = Failed
          /\ Child.remove # Nothing /\ config.voters = control.voters /\ Child.add = Nothing
      BY <1>1, <2>3, <2>7 DEF Before
    <3>2. Between'
      BY <1>3, <1>4, <2>1, <2>3, <2>5, <3>1 DEF Between, Removed
    <3>3. RepairJournal'
      BY <2>1, <2>2, <2>3, <3>1 DEF RepairJournal
    <3>4. config'.voters \cap closed \subseteq {Failed}
      BY <1>4, <2>1, <2>2, <3>1 DEF Staged
    <3>5. QED
      BY <2>1, <2>2, <2>6, <3>2, <3>3, <3>4 DEF Staged
  <2>8. CASE Between
    <3>1. /\ config.pending.kind = "add" /\ config.pending.node = Child.add.learner
          /\ Child.add # Nothing /\ config.voters = control.voters \ {Failed} /\ Removed
          /\ Child.add.id = config.id /\ Child.add.abort = config.abort
      BY <1>1, <2>8 DEF Between
    <3>2. After'
      BY <1>3, <1>4, <2>1, <2>3, <2>5, <3>1 DEF After, Removed
    <3>3. RepairJournal'
      <4>1. Child.phase # "Aborted"
        BY <1>3, <2>2, <2>3, <3>1 DEF RepairJournal
      <4>2. Child.add.id # config'.id
        BY <1>3, <1>4, <3>1
      <4>3. QED
        BY <2>1, <2>2, <2>3, <3>2, <4>1, <4>2 DEF RepairJournal
    <3>4. Child.add.learner \notin closed
      BY <2>2, <2>3, <3>1 DEF RepairJournal
    <3>5. config'.voters \cap closed \subseteq {Failed}
      BY <1>4, <2>1, <2>2, <3>1, <3>4 DEF Staged
    <3>6. QED
      BY <2>1, <2>2, <2>6, <3>2, <3>3, <3>5 DEF Staged
  <2>9. QED
    BY <2>1, <2>2, <2>7, <2>8 DEF Staged
<1>13. \A q \in Reconcilers : Onward(q)
  BY <1>1 DEF Onward, OnCluster, OnChild
<1>14. ASSUME NEW k \in Incidents
       PROVE  RepairInv'
  <2>1. child'[k] # Nothing => ChildOK(k)'
    <3>1. SUFFICES ASSUME child[k] # Nothing
                   PROVE  ChildOK(k)'
      BY <1>1
    <3>2. ChildOK(k) /\ child[k] \in ChildRecord
      BY <1>2, <3>1, NumbersAre DEF RepairInv, ChildrenOK
    <3>3. /\ child[k].remove # Nothing => child[k].remove.id \in Nat
          /\ child[k].add # Nothing => child[k].add.id \in Nat /\ child[k].add.abort \in Nat
      BY <1>2, <3>2, NumbersAre
    <3>4. /\ child[k].remove # Nothing => child[k].remove.id < config'.id
          /\ child[k].add # Nothing => child[k].add.id < config'.id
      BY <1>3, <1>4, <3>2, <3>3 DEF ChildOK, Past
    <3>5. control' = control /\ child' = child
      BY <1>1
    <3>6. /\ child[k].remove # Nothing => child[k].remove.id <= config'.id
          /\ child[k].add # Nothing => Past(child[k].add)'
      BY <1>3, <1>4, <3>3, <3>4, <3>5 DEF Past
    <3>7. QED
      BY <1>6, <3>2, <3>4, <3>5, <3>6 DEF ChildOK
  <2>2. /\ \A j \in Incidents : j # k => child'[j] = child[j]
        /\ child[k] # Nothing =>
             /\ child'[k] # Nothing
             /\ child[k].remove # Nothing => child'[k].remove = child[k].remove
             /\ ~ Gone /\ child[k].add # Nothing =>
                   child'[k].add = child[k].add \/ Refused(child[k].add)
    BY <1>1
  <2>3. \A q \in Reconcilers :
             \/ /\ Onward(q)
                /\ OnChild(q) /\ work[q].seq = k /\ work'[q].fresh => child'[k] = child[k]
             \/ ~ OnChild(q)' /\ (OnCluster(q)' => ClusterOK(q)')
    BY <1>1, <1>13
  <2>4. QED
    BY <1>1, <1>5, <1>9, <1>10, <1>11, <1>12, <2>1, <2>2, <2>3, ChildKeeps
<1>15. 1 \in Incidents
  BY AutoAssumption DEF Incidents
<1>16. QED
  BY <1>14, <1>15

-----------------------------------------------------------------------------
(* The invariant and what it says *)

\* The first state.
LEMMA RepairBegins ==
    ASSUME AutoInit
    PROVE  RepairInv
<1> USE DEF AutoInit
<1>1. AutoTypes
  <2>1. control \in ControlRecord
    BY AutoAssumption DEF ControlRecord, Nodes
  <2>2. config \in [id : Nat, voters : SUBSET Nodes, pending : PendingChange \cup {Nothing},
                    abort : Nat]
    BY DEF Nodes
  <2>3. QED
    BY <2>1, <2>2 DEF AutoTypes, Nodes
<1>2. control.intent = Nothing /\ control.seq = 0 /\ control.generation = 1 /\ ~ Gone
  BY DEF Gone
<1>3. World
  <2>1. \A l \in Learners : proc[l] = "absent"
    BY AutoAssumption DEF Nodes
  <2>2. QED
    BY <2>1 DEF World
<1>4. ViewOK(control)
  BY <1>2 DEF ViewOK
<1>5. \A o \in Reconcilers : ~ OnCluster(o) /\ ~ OnChild(o)
  BY DEF OnCluster, OnChild, NoWork
<1>6. ChildrenOK
  BY <1>2 DEF ChildrenOK, Finished, Incidents
<1>7. Staged
  <2>1. \A l \in Learners : l \notin control.voters
    BY AutoAssumption
  <2>2. QED
    BY <1>2, <2>1 DEF Staged, LearnersClosed
<1>8. QED
  BY <1>1, <1>3, <1>4, <1>5, <1>6, <1>7 DEF RepairInv

\* A step of a pass over the cluster.
LEMMA ClusterKeeps ==
    ASSUME RepairInv, NEW o \in Reconcilers,
           \/ LoadAuto(o) \/ AbandonWork(o)
           \/ \E elapsed \in BOOLEAN : ObserveCluster(o, elapsed)
           \/ CompactHistory(o) \/ RequestFence(o) \/ PersistProof(o)
           \/ RecoverInventory(o)
           \/ WatchLearner(o, TRUE) \/ FenceLearner(o) \/ RotateLearner(o)
           \/ \E quorum \in BOOLEAN : NoteQuorum(o, quorum)
           \/ Escalate(o) \/ ProvisionLearner(o) \/ SaveLearner(o)
           \/ CreateChild(o) \/ BindChild(o)
           \/ ReserveRevision(o) \/ SubmitRevision(o) \/ CompleteIncident(o)
    PROVE  RepairInv'
<1>1. CASE AbandonWork(o)
  BY <1>1, IdleKeeps DEF AbandonWork
<1>2. CASE RecoverInventory(o)
  <2>1. OnCluster(o) /\ Intent(o) # Nothing
    BY <1>2 DEF RecoverInventory, Repairing, Working, OnCluster
  <2>2. QED
    BY <1>2, <2>1, InventoryKeeps DEF RecoverInventory
<1>3. CASE SaveLearner(o)
  <2>1. OnCluster(o) /\ Intent(o) # Nothing
    BY <1>3 DEF SaveLearner, Working, OnCluster, RepairInv, ClusterOK, Intent, Loaded
  <2>2. QED
    BY <1>3, <2>1, InventoryKeeps DEF SaveLearner
<1>4. QED
  BY <1>1, <1>2, <1>3, LoadKeeps, ObserveKeeps, CompactKeeps, RequestKeeps, ProofKeeps, WatchKeeps,
     FenceLearnerKeeps, RotateKeeps, NoteKeeps, EscalateKeeps, ProvisionKeeps, CreateKeeps,
     BindKeeps, ReserveKeeps, SubmitKeeps, CompleteKeeps

\* Every step keeps the invariant.
LEMMA RepairGoesOn ==
    ASSUME RepairInv, [AutoNext]_autoVars
    PROVE  RepairInv'
<1>1. CASE UNCHANGED autoVars
  <2>1. Quiet /\ \A q \in Reconcilers : Onward(q)
    BY <1>1 DEF autoVars, Quiet, Over, Onward, OnCluster, OnChild
  <2>2. /\ proc' \in [Nodes -> {"up", "dark", "absent", "stopped"}]
        /\ learnerPods' \subseteq Learners
        /\ work' \in [Reconcilers -> {NoWork} \cup ClusterPass \cup ChildPass]
        /\ \A l \in Learners : proc'[l] \in {"up", "dark"} => l \in learnerPods'
        /\ \A l \in learnerPods' : Accounted(l)
    BY <1>1 DEF autoVars, RepairInv, AutoTypes, World
  <2>3. QED
    BY <2>1, <2>2, QuietStepKeeps
<1>2. CASE CommitChange
  BY <1>2, CommitKeeps
<1>3. CASE \/ \E l \in Learners : LearnerStarts(l) \/ PodGone(l)
           \/ \E n \in Nodes : LoseContact(n) \/ RegainContact(n) \/ ProcessStops(n)
  BY <1>3, NodesKeep
<1>4. ASSUME NEW o \in Reconcilers,
             \/ AuthorizeChild(o)
             \/ \E k \in Incidents : ListChild(o, k)
      PROVE  RepairInv'
  BY <1>4, AuthorizeKeeps, ListKeeps
<1>5. QED
  BY <1>1, <1>2, <1>3, <1>4, ClusterKeeps, PassesKeep DEF AutoNext

\* Every reachable state has the invariant.
THEOREM RepairInvariant == AutoSpec => []RepairInv
<1>1. AutoInit => RepairInv
  BY RepairBegins
<1>2. RepairInv /\ [AutoNext]_autoVars => RepairInv'
  BY RepairGoesOn
<1>3. QED
  BY <1>1, <1>2, PTL DEF AutoSpec

\* What the invariant says of the cluster.
LEMMA InvariantIsSafe ==
    ASSUME RepairInv
    PROVE  RepairSafe
<1>1. AutoTypes /\ World
  BY DEF RepairInv
<1>2. \A n \in Nodes : Over(n) => n \notin Alive
  BY DEF Over, Alive
<1>3. RemovedVotersEnded
  BY <1>1, <1>2 DEF World, RemovedVotersEnded, Nodes
<1>4. OldGenerationEnded
  BY <1>1, <1>2 DEF World, OldGenerationEnded, Alive
<1>5. control.generation = 1 /\ (control.intent # Nothing => control.intent.scope = "Voter")
        => ~ Gone /\ Staged
  BY DEF RepairInv, Gone
<1>6. RepairKeepsQuorum
  <2>1. SUFFICES ASSUME Staged
                 PROVE  Cardinality(config.voters \cap closed) <= 1
    BY <1>5 DEF RepairKeepsQuorum
  <2>2. PICK f : config.voters \cap closed \subseteq {f}
    BY <2>1 DEF Staged
  <2>3. config.voters \cap closed = {} \/ config.voters \cap closed = {f}
    BY <2>2
  <2>4. Cardinality({}) = 0 /\ Cardinality({f}) = 1
    BY FS_EmptySet, FS_Singleton
  <2>5. QED
    BY <2>3, <2>4
<1>7. VotersAgree
  BY <1>5 DEF VotersAgree, Staged
<1>8. LearnersAccounted
  <2>1. SUFFICES ASSUME ~ (control.intent # Nothing /\ control.intent.scope = "Generation"),
                        NEW l \in Learners, l \in Alive
                 PROVE  \/ l \in config.voters \/ l \in control.history
                        \/ control.intent # Nothing /\ l = LearnerOf(control)
    BY DEF LearnersAccounted
  <2>2. Accounted(l) /\ l \in Nodes
    BY <1>1, <2>1 DEF World, Alive, Nodes
  <2>3. ~ Over(l) /\ control.generation # 2
    BY <1>1, <1>2, <2>1, <2>2 DEF World
  <2>4. ~ Gone
    BY <2>1, <2>3 DEF Gone
  <2>5. QED
    BY <2>2, <2>3, <2>4 DEF Accounted
<1>9. QED
  BY <1>3, <1>4, <1>6, <1>7, <1>8 DEF RepairSafe

\* Automatic repair keeps the cluster safe and its own records true.
THEOREM RepairIsSafe == AutoSpec => []RepairSafe
<1>1. RepairInv => RepairSafe
  BY InvariantIsSafe
<1>2. QED
  BY <1>1, RepairInvariant, PTL
=============================================================================
