----------------------------- MODULE MCRecovery -----------------------------
(***************************************************************************)
(* Recovery of a generation, of a voter and of a Local node, the WAL space  *)
(* of a Local node and the installation of a snapshot pair, with constants  *)
(* for TLC.  They are independent: `part' says which of them a behaviour is *)
(* about, and the others rest in their initial state.                       *)
(***************************************************************************)
EXTENDS GenerationRecovery, AutoRecovery, LocalBackup, LocalReclaim, PairInstall

VARIABLE part

\* Controllers are interchangeable.
CONSTANTS o1, o2
Controllers == Permutations({o1, o2})

\* GenerationRecovery: two recoveries of the first generation compete for its
\* StatefulSet, and a third one recovers the generation that r1 creates.
CONSTANTS r1, r2, r3
MCSourceOf == [op \in Recoveries |-> IF op = r3 THEN r1 ELSE Genesis]

\* A resource is listed once its fence is confirmed (an earlier pass has no
\* effect); the competing recovery and edits of the StatefulSet are each
\* explored against r1 alone, and so are r3, which follows r1, and further
\* writes of a generation.
RecoveryScenarios ==
  /\ \A o \in Operators : passes[o].op \in fenced \cup {None}
  /\ Cardinality(fenced) <= IF edits = 0 THEN 2 ELSE 1
  /\ ~ {r2, r3} \subseteq fenced
  /\ 2 \in {archiveTip[g] : g \in Generations} => edits = 0 /\ Cardinality(fenced) <= 1

\* AutoRecovery: two reconcilers and one outage, or one and two.  The voters
\* are interchangeable: v1 is the first to be lost and v2 the second.
CONSTANTS v1, v2, v3
AutoScenarios ==
  /\ outages = 2 => Cardinality({o \in Reconcilers : work[o] # NoWork}) <= 1
  /\ proc[v3] # "dark" /\ (proc[v2] = "dark" => outages = 2)

\* LocalBackup: a restore elsewhere runs beside the first start only, which
\* goes without faults; the more faults, the shorter the history.
LocalScenarios ==
  /\ viewPins # {} => \/ localFaults = 0 /\ boots = 2
                      \/ Starting
  /\ localFaults > 0 => Len(LocalWal.hist) + localFaults <= MaxLocalSlots

Scenarios ==
  /\ part = "generation" => RecoveryScenarios
  /\ part = "voter" => AutoScenarios
  /\ part = "local" => LocalScenarios

Parts == {"generation", "voter", "local", "reclaim", "pair"}

MCInit ==
  /\ part \in Parts /\ RecoveryInit /\ AutoInit /\ LocalBackupInit /\ ReclaimInit
  /\ PairInit
  /\ part # "local" => ~owned /\ dir = NoFiles
  /\ part # "pair" => flavor = "managed" /\ live = Nowhere

GenerationPart ==
  part = "generation" /\ RecoveryNext /\ UNCHANGED <<part, autoVars, localVars, reclaimVars, pairVars>>
VoterPart ==
  part = "voter" /\ AutoNext /\ UNCHANGED <<part, recoveryVars, localVars, reclaimVars, pairVars>>
LocalPart ==
  part = "local" /\ LocalBackupNext /\ UNCHANGED <<part, recoveryVars, autoVars, reclaimVars, pairVars>>
ReclaimPart ==
  part = "reclaim" /\ ReclaimNext /\ UNCHANGED <<part, recoveryVars, autoVars, localVars, pairVars>>
PairPart ==
  part = "pair" /\ PairNext /\ UNCHANGED <<part, recoveryVars, autoVars, localVars, reclaimVars>>

MCNext == GenerationPart \/ VoterPart \/ LocalPart \/ ReclaimPart \/ PairPart

MCSpec ==
  MCInit /\ [][MCNext]_<<part, recoveryVars, autoVars, localVars, reclaimVars, pairVars>>
=============================================================================
