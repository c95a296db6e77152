----------------------------- MODULE PairInstall -----------------------------
(***************************************************************************)
(* The journaled replacement of a node's SQLite and graph files by a        *)
(* verified snapshot pair: pkg/materializer/local_restore.go (a Local node  *)
(* restores the base of its WAL at every start) and                         *)
(* managed_graph_install.go (a managed node installs a certified pair).     *)
(* Both rename the originals into a backup, rename the staged pair into     *)
(* place and open it; the first resumes forward after a crash, the second   *)
(* rolls back to the originals until its journal says committed.            *)
(*                                                                         *)
(* The process may die between any two renames, between a rename and the    *)
(* journal that records it, and inside a removal.  The journal phases from  *)
(* backup-sql to published are one phase, "moving": a Local restore reads   *)
(* its originals once more in the phases before it, and nobody tells those  *)
(* phases apart.  A synced rename is durable.                               *)
(***************************************************************************)
EXTENDS Integers

CONSTANTS MaxRevision,    \* bound: how often the bytes of a new item change
          MaxPairCrashes  \* bound: crashes and failed operations

ASSUME PairAssumption == MaxRevision \in Nat /\ MaxPairCrashes \in Nat

\* The SQLite database, its -wal (with the -shm) and the graph directory.
PairItems == {"main", "wal", "graph"}

\* The bytes of an item: absent, half removed, as inventoried before the
\* installation, as in the snapshot (a -wal: empty), or changed since by an
\* open (Fresh + n).
Absent == 0
Torn == -1
Original == 1
Fresh == 2
Contents == -1 .. (Fresh + MaxRevision)

Nowhere == [i \in PairItems |-> Absent]
NoPhase == "none"

VARIABLES flavor,    \* which of the two procedures
          origin,    \* the inventory of the originals
          live,      \* the files in place
          saved,     \* attempt/backup
          staging,   \* attempt/stage
          attempt,   \* the attempt directory: none, partial, ready or stray
          journalAt, \* phase of the journal
          newInv,    \* the journal's inventory of the new pair
          drifted,   \* an inventoried -shm has been rewritten by a reader
          doing,     \* what the process does
          keepInput, \* a rollback that goes on with the installation
          knownNew,  \* newSQL and newGraph of the running process
          opens,     \* the pairs that were opened for writing
          pairCrashes

pairVars == <<flavor, origin, live, saved, staging, attempt, journalAt, newInv,
              drifted, doing, keepInput, knownNew, opens, pairCrashes>>

Local == flavor = "local"
PairAt(pc) == doing = pc
Had(i) == origin[i] = Original

\* A Local node has a graph; a managed one has the whole pair or nothing.
PairInit ==
  /\ flavor \in {"local", "managed"}
  /\ live \in [PairItems -> {Absent, Original}]
  /\ Local => live["graph"] = Original
  /\ ~ Local => live["main"] = live["graph"]
  /\ live["main"] = Absent => live["wal"] = Absent
  /\ origin = live
  /\ saved = Nowhere /\ staging = Nowhere /\ attempt = "none"
  /\ journalAt = NoPhase /\ newInv = Nowhere /\ drifted = FALSE
  /\ doing = "down" /\ keepInput = FALSE /\ knownNew = Nowhere
  /\ opens = {} /\ pairCrashes = 0

Keep == UNCHANGED <<flavor, origin, drifted>>
KeepFiles == UNCHANGED <<live, saved, staging>>
KeepJournal == UNCHANGED <<journalAt, newInv>>

----------------------------------------------------------------------------
(* Starting                                                                *)

Fault == pairCrashes < MaxPairCrashes /\ pairCrashes' = pairCrashes + 1

\* PrepareLocalRestore, OpenManagedGraphFromVerifiedPair without a journal:
\* a leftover attempt is refused, otherwise the intent is written.
BeginInstall ==
  /\ PairAt("down") /\ journalAt = NoPhase
  /\ IF attempt # "none"
     THEN doing' = "refused" /\ UNCHANGED <<journalAt, attempt>>
     ELSE /\ journalAt' = "intent"
          /\ doing' = IF Local THEN "stage" ELSE "inputs"
          /\ attempt' = IF Local THEN "none" ELSE "partial"
  /\ keepInput' = FALSE /\ knownNew' = Nowhere
  /\ KeepFiles /\ Keep /\ UNCHANGED <<newInv, opens, pairCrashes>>

\* The managed attempt keeps its own copy of the snapshot.
RetainInputs ==
  /\ PairAt("inputs") /\ attempt' = "ready" /\ doing' = "stage"
  /\ KeepFiles /\ KeepJournal /\ Keep
  /\ UNCHANGED <<keepInput, knownNew, opens, pairCrashes>>

\* The process dies while it writes the intent: the journal's temporary file
\* has the prefix of an attempt, which no later start accepts.
DieAtIntent ==
  /\ PairAt("down") /\ journalAt = NoPhase /\ Fault
  /\ attempt' = "stray"
  /\ KeepFiles /\ KeepJournal /\ Keep /\ UNCHANGED <<doing, keepInput, knownNew, opens>>

\* A start that was refused is tried again.
RetryStart ==
  /\ PairAt("refused") /\ doing' = "down"
  /\ KeepFiles /\ KeepJournal /\ Keep
  /\ UNCHANGED <<attempt, keepInput, knownNew, opens, pairCrashes>>

\* A Local restore goes on from every phase: an installed pair is opened again,
\* anything else is staged anew.
ResumeLocal ==
  /\ PairAt("down") /\ Local /\ journalAt \in {"moving", "installed"}
  /\ doing' = IF journalAt = "installed" THEN "open" ELSE "stage"
  /\ KeepFiles /\ KeepJournal /\ Keep
  /\ UNCHANGED <<attempt, keepInput, knownNew, opens, pairCrashes>>

\* Before that, in the phases intent and staged, PrepareLocalRestore opens the
\* database read-only, in place or in the backup, and looks at the graph
\* (validateLocalRestoreOriginalPolicy).  SQLite leaves an empty -wal where there
\* is none and may rewrite the -shm that lies beside the database.
WithSidecar(p) ==
  {p} \cup (IF p["main"] # Absent /\ p["wal"] = Absent
            THEN {[p EXCEPT !["wal"] = Fresh]} ELSE {})
\* If the recorded -wal is empty as well, the new one beside the backup passes
\* for it and the old one stays where it is.
SameEmpty ==
  /\ saved["main"] # Absent /\ Had("wal") /\ saved["wal"] = Absent
  /\ live' = [live EXCEPT !["wal"] = Fresh] /\ saved' = [saved EXCEPT !["wal"] = Original]
CheckOriginals ==
  /\ PairAt("down") /\ Local /\ journalAt \in {"intent", "staged"}
  /\ IF live["main"] # Absent
     THEN live' \in WithSidecar(live) /\ UNCHANGED saved
     ELSE \/ UNCHANGED live /\ saved' \in WithSidecar(saved)
          \/ SameEmpty
  /\ LET beside == IF live["main"] # Absent THEN live ELSE saved
     IN  drifted' \in {drifted, drifted \/ beside["wal"] = Original}
  /\ doing' \in {"stage"} \cup (IF live["graph"] = Torn THEN {"refused"} ELSE {})
  /\ KeepJournal
  /\ UNCHANGED <<flavor, origin, staging, attempt, keepInput, knownNew, opens, pairCrashes>>

\* recoverManagedGraphInstall up to the projection: an intent is not
\* recoverable; the inputs and nothing unknown must be in the attempt.
AttemptKnown ==
  /\ attempt = "ready"
  /\ \A i \in PairItems : staging[i] \in {Absent, newInv[i]}
                       /\ saved[i] \in {Absent, origin[i]}
RecoverInstall ==
  /\ PairAt("down") /\ ~ Local /\ journalAt # NoPhase
  /\ doing' = IF journalAt # "intent" /\ AttemptKnown THEN "verify" ELSE "refused"
  /\ KeepFiles /\ KeepJournal /\ Keep
  /\ UNCHANGED <<attempt, keepInput, knownNew, opens, pairCrashes>>

\* observeKnownManagedGraphInstalled: byte-exact, but for an empty -wal.
KnownInstalled ==
  /\ live["main"] = newInv["main"] /\ live["graph"] = newInv["graph"]
  /\ live["wal"] \in {newInv["wal"], Absent} \cup
                      (IF newInv["wal"] = Absent THEN {Fresh} ELSE {})
Opening == journalAt \in {"opening", "opened", "committed", "final-opened"}
Committed == journalAt \in {"committed", "final-opened"}

\* verifyManagedGraphPhaseProjection works in a directory inside the attempt
\* and is assumed to reproduce the journal's inventory.
Verified ==
  /\ PairAt("verify")
  /\ doing' = IF Opening /\ ~ KnownInstalled THEN "refused"
              ELSE IF Committed THEN "cleanup" ELSE "rollback"
  /\ knownNew' = IF Opening THEN live ELSE newInv
  /\ keepInput' = TRUE
  /\ KeepFiles /\ KeepJournal /\ Keep /\ UNCHANGED <<attempt, opens, pairCrashes>>

----------------------------------------------------------------------------
(* Installing                                                              *)

\* The private open of a managed stage may change its bytes.
StagePair ==
  /\ PairAt("stage")
  /\ \E m, g \in Fresh .. (IF Local \/ MaxRevision = 0 THEN Fresh ELSE Fresh + 1) :
       staging' = [i \in PairItems |->
                     IF i = "main" THEN m ELSE IF i = "graph" THEN g ELSE Absent]
  /\ newInv' = IF Local THEN newInv ELSE staging'
  /\ knownNew' = newInv'
  /\ journalAt' = "staged" /\ attempt' = "ready" /\ keepInput' = FALSE
  /\ doing' = IF Local \/ live = origin THEN "backup" ELSE "refused"
  /\ Keep /\ UNCHANGED <<live, saved, opens, pairCrashes>>

\* Mutant: what is in place is moved even if the backup has the original.
BackupOriginalAgain(i) ==
  /\ PairAt("backup") /\ Had(i) /\ live[i] # Absent
  /\ saved' = [saved EXCEPT ![i] = live[i]] /\ live' = [live EXCEPT ![i] = Absent]
  /\ KeepJournal /\ Keep
  /\ UNCHANGED <<staging, attempt, doing, keepInput, knownNew, opens, pairCrashes>>

\* backupLocalOriginals, in the order of the names: what the backup has is
\* not moved again, and only an unchanged original is moved.  The journal
\* follows each rename.
BackupDue(i) == Had(i) /\ (saved[i] # Original \/ (i = "wal" /\ drifted))
BackupNext(i) == /\ BackupDue(i)
                 /\ i # "main" => ~ BackupDue("main")
                 /\ i = "graph" => ~ BackupDue("wal")
BackupOriginal(i) ==
  /\ PairAt("backup") /\ BackupNext(i)
  /\ IF saved[i] = Absent /\ live[i] = Original /\ ~ (i = "wal" /\ drifted)
     THEN /\ saved' = [saved EXCEPT ![i] = Original] /\ live' = [live EXCEPT ![i] = Absent]
          /\ doing' = "moved"
     ELSE /\ doing' = IF Local THEN "refused" ELSE "rollback"
          /\ UNCHANGED <<live, saved>>
  /\ KeepJournal /\ Keep
  /\ UNCHANGED <<staging, attempt, keepInput, knownNew, opens, pairCrashes>>

\* publishLocalRestore: the backup must be there; without an original the
\* target must be absent or the snapshot itself.  The target goes first.
BackedUp == \A k \in PairItems : ~ BackupDue(k)
Unpublished(i) == IF Had(i) THEN saved[i] = Original ELSE live[i] \in {Absent, Fresh}
RemoveTarget(i, before, after) ==
  /\ PairAt(before)
  /\ before = "backup" => BackedUp
  /\ IF Unpublished(i)
     THEN live' = [live EXCEPT ![i] = Absent] /\ doing' = after
     ELSE doing' = (IF Local THEN "refused" ELSE "rollback") /\ UNCHANGED live
  /\ KeepJournal /\ Keep
  /\ UNCHANGED <<saved, staging, attempt, keepInput, knownNew, opens, pairCrashes>>
PublishStaged(i, before, after) ==
  /\ PairAt(before)
  /\ live' = [live EXCEPT ![i] = staging[i]]
  /\ staging' = [staging EXCEPT ![i] = Absent]
  /\ doing' = after
  /\ KeepJournal /\ Keep
  /\ UNCHANGED <<saved, attempt, keepInput, knownNew, opens, pairCrashes>>

RecordMove ==
  /\ doing \in {"moved", "placed", "landed"}
  /\ journalAt' = "moving"
  /\ doing' = CASE PairAt("moved") -> "backup" [] PairAt("placed") -> "main"
                [] PairAt("landed") -> "published"
  /\ KeepFiles /\ Keep /\ UNCHANGED <<newInv, attempt, keepInput, knownNew, opens, pairCrashes>>

\* A managed installation says so before it opens the published pair.
AnnounceOpen ==
  /\ PairAt("published")
  /\ journalAt' = (IF Local THEN journalAt ELSE "opening") /\ doing' = "open"
  /\ KeepFiles /\ Keep /\ UNCHANGED <<newInv, attempt, keepInput, knownNew, opens, pairCrashes>>

\* What opening, using and closing a pair may leave: changed bytes, a -wal,
\* or none after a checkpoint.
Touched(c) == IF c >= Fresh THEN {c, c + 1} \cap Contents ELSE {c}
AfterUse(p) ==
  {q \in [PairItems -> Contents] :
     /\ \A i \in {"main", "graph"} : q[i] \in Touched(p[i])
     /\ q["wal"] \in {Absent, Fresh} \cup Touched(p["wal"])}

\* openMaterializer and the validation; a failure may follow (PairFails).
OpenPair ==
  /\ PairAt("open")
  /\ opens' = opens \cup {live}
  /\ live' \in AfterUse(live) /\ doing' = "validated"
  /\ KeepJournal /\ Keep
  /\ UNCHANGED <<saved, staging, attempt, keepInput, knownNew, pairCrashes>>

\* installed, or opened with the inventory of the opened pair.
RecordOpened ==
  /\ PairAt("validated")
  /\ journalAt' = IF Local THEN "installed" ELSE "opened"
  /\ newInv' = IF Local THEN newInv ELSE live
  /\ knownNew' = newInv'
  /\ doing' = IF Local THEN "finalize" ELSE "close"
  /\ KeepFiles /\ Keep /\ UNCHANGED <<attempt, keepInput, opens, pairCrashes>>

\* The managed pair is closed, inventoried and committed.
ClosePair ==
  /\ PairAt("close")
  /\ live' \in AfterUse(live) /\ doing' = "commit"
  /\ KeepJournal /\ Keep
  /\ UNCHANGED <<saved, staging, attempt, keepInput, knownNew, opens, pairCrashes>>
Commit ==
  /\ PairAt("commit")
  /\ journalAt' = "committed" /\ newInv' = live /\ knownNew' = live
  /\ doing' = "cleanup"
  /\ KeepFiles /\ Keep /\ UNCHANGED <<attempt, keepInput, opens, pairCrashes>>

\* finishManagedGraphInstall: backup and stage go, the pair is opened again.
CleanUp ==
  /\ PairAt("cleanup")
  /\ saved' = Nowhere /\ staging' = Nowhere /\ doing' = "reopen"
  /\ KeepJournal /\ Keep
  /\ UNCHANGED <<live, attempt, keepInput, knownNew, opens, pairCrashes>>
FinalOpen ==
  /\ PairAt("reopen")
  /\ opens' = opens \cup {live}
  /\ live' \in AfterUse(live) /\ doing' = "reopened"
  /\ KeepJournal /\ Keep
  /\ UNCHANGED <<saved, staging, attempt, keepInput, knownNew, pairCrashes>>
RecordFinal ==
  /\ PairAt("reopened")
  /\ journalAt' = "final-opened" /\ newInv' = live /\ doing' = "finalize"
  /\ KeepFiles /\ Keep /\ UNCHANGED <<attempt, keepInput, knownNew, opens, pairCrashes>>

\* FinalizeLocalRestore and the end of the other: the attempt goes before the
\* journal, which authorizes it; then the pair is in service.
RemoveAttempt ==
  /\ PairAt("finalize")
  /\ Local => journalAt = "installed"
  /\ saved' = Nowhere /\ staging' = Nowhere /\ attempt' = "none"
  /\ doing' = "finalized"
  /\ KeepJournal /\ Keep /\ UNCHANGED <<live, keepInput, knownNew, opens, pairCrashes>>
RemoveJournal ==
  /\ PairAt("finalized")
  /\ journalAt' = NoPhase /\ doing' = "serving"
  /\ KeepFiles /\ Keep
  /\ UNCHANGED <<newInv, attempt, keepInput, knownNew, opens, pairCrashes>>

----------------------------------------------------------------------------
(* Rolling a managed installation back                                     *)

\* Everything in place is an original or the process's own, and every
\* original is in place or in the backup.
RollbackSafe ==
  /\ \A i \in PairItems :
       /\ live[i] \in {Absent, origin[i], knownNew[i]}
       /\ saved[i] \in {Absent, origin[i]}
       /\ Had(i) => saved[i] = Original \/ live[i] = Original
StartRollback ==
  /\ PairAt("rollback")
  /\ doing' = IF RollbackSafe THEN "undo" ELSE "refused"
  /\ KeepFiles /\ KeepJournal /\ Keep
  /\ UNCHANGED <<attempt, keepInput, knownNew, opens, pairCrashes>>

\* SQLite files that are not originals go, the backups return, then the graph.
Alien(i) == live[i] # Absent /\ live[i] # origin[i]
AlienDue(i) ==
  /\ Alien(i)
  /\ i = "graph" => \A k \in {"main", "wal"} : ~ Alien(k) /\ saved[k] = Absent
RemoveAlien(i) ==
  /\ PairAt("undo") /\ AlienDue(i)
  /\ live' = [live EXCEPT ![i] = Absent]
  /\ KeepJournal /\ Keep
  /\ UNCHANGED <<saved, staging, attempt, doing, keepInput, knownNew, opens, pairCrashes>>
Restorable(i) == /\ saved[i] # Absent /\ \A k \in {"main", "wal", i} : ~ Alien(k)
                 /\ i # "main" => saved["main"] = Absent
                 /\ i = "graph" => saved["wal"] = Absent
RestoreOriginal(i) ==
  /\ PairAt("undo") /\ Restorable(i)
  /\ live' = [live EXCEPT ![i] = saved[i]] /\ saved' = [saved EXCEPT ![i] = Absent]
  /\ KeepJournal /\ Keep
  /\ UNCHANGED <<staging, attempt, doing, keepInput, knownNew, opens, pairCrashes>>

\* The originals are verified in place.  A recovery keeps its inputs, notes
\* the intent and installs again; a failure removes attempt and journal.
Undone == saved = Nowhere /\ \A i \in PairItems : ~ Alien(i)
RolledBack ==
  /\ PairAt("undo") /\ Undone
  /\ IF live # origin THEN doing' = "refused" /\ UNCHANGED <<staging, attempt>>
     ELSE /\ staging' = Nowhere
          /\ attempt' = IF keepInput THEN attempt ELSE "none"
          /\ doing' = "undone"
  /\ KeepJournal /\ Keep /\ UNCHANGED <<live, saved, keepInput, knownNew, opens, pairCrashes>>
EndRollback ==
  /\ PairAt("undone")
  /\ journalAt' = IF keepInput THEN "intent" ELSE NoPhase
  /\ newInv' = Nowhere /\ knownNew' = Nowhere
  /\ doing' = IF keepInput THEN "stage" ELSE "down"
  /\ KeepFiles /\ Keep /\ UNCHANGED <<attempt, keepInput, opens, pairCrashes>>

----------------------------------------------------------------------------
(* Failures                                                                *)

\* An error or a cancelled context.  A managed installation rolls back in the
\* steps up to its commit, knowing what a failed open left; the commit is
\* rolled back too if only the sync of its directory fails.
PairFails ==
  /\ Fault /\ ~ Local
  /\ \/ doing \in {"stage", "backup", "moved", "graph", "placed", "main", "unmain",
                   "landed", "published", "open"}
          /\ UNCHANGED knownNew
     \/ PairAt("cleanup") /\ ~ keepInput /\ UNCHANGED knownNew
     \/ PairAt("close") /\ knownNew' = newInv
     \/ doing \in {"validated", "commit"} /\ knownNew' = live
  /\ keepInput' = FALSE /\ doing' = "rollback"
  /\ KeepFiles /\ KeepJournal /\ Keep /\ UNCHANGED <<attempt, opens>>

\* The process dies.  Directories may be half removed, copies half made, and
\* a journal half written, whose temporary file a managed start refuses.
GraphRemoval ==
  /\ live["graph"] # Absent
  /\ \/ PairAt("backup") /\ BackedUp /\ Unpublished("graph")
     \/ PairAt("undo") /\ (AlienDue("graph") \/ Restorable("graph"))
HalfRemoved(p) == {q \in [PairItems -> Contents] : \A i \in PairItems : q[i] \in {p[i], Absent}}
JournalSteps == {"stage", "moved", "placed", "landed", "published", "validated", "commit",
                 "reopened", "undone"}
PairDies ==
  /\ Fault /\ doing \notin {"down", "refused", "serving"}
  /\ doing' = "down"
  /\ IF doing \in {"cleanup", "finalize"} THEN saved' \in HalfRemoved(saved)
     ELSE UNCHANGED saved
  /\ attempt' \in CASE PairAt("verify") -> {attempt, "stray"}
                    [] doing \in JournalSteps /\ ~ Local -> {attempt, "stray"}
                    [] PairAt("finalize") \/ (PairAt("undo") /\ Undone /\ ~ keepInput) ->
                         {attempt, "partial", "none"}
                    [] OTHER -> {attempt}
  /\ live' \in {live} \cup
       (IF GraphRemoval THEN {[live EXCEPT !["graph"] = Torn]} ELSE {})
  /\ staging' \in IF PairAt("undo") /\ Undone THEN HalfRemoved(staging) ELSE {staging}
  /\ KeepJournal /\ Keep /\ UNCHANGED <<keepInput, knownNew, opens>>

PairNext ==
  \/ BeginInstall \/ DieAtIntent \/ RetryStart \/ RetainInputs
  \/ ResumeLocal \/ CheckOriginals \/ RecoverInstall \/ Verified
  \/ StagePair \/ (\E i \in PairItems : BackupOriginal(i))
  \/ RemoveTarget("graph", "backup", "graph") \/ PublishStaged("graph", "graph", "placed")
  \/ RemoveTarget("main", "main", "unmain") \/ PublishStaged("main", "unmain", "landed")
  \/ RecordMove \/ AnnounceOpen \/ OpenPair \/ RecordOpened \/ ClosePair \/ Commit
  \/ CleanUp \/ FinalOpen \/ RecordFinal \/ RemoveAttempt \/ RemoveJournal
  \/ StartRollback \/ (\E i \in PairItems : RemoveAlien(i) \/ RestoreOriginal(i))
  \/ RolledBack \/ EndRollback
  \/ PairFails \/ PairDies

PairSpec == PairInit /\ [][PairNext]_pairVars

----------------------------------------------------------------------------
(* Properties                                                              *)

\* The journal says that the new pair is validated.
Replaced == journalAt \in {"installed", "committed", "final-opened"} \/ PairAt("serving")

OldPairKept == \A i \in PairItems : Had(i) => Original \in {live[i], saved[i]}
NewPairWhole(p) == p["main"] >= Fresh /\ p["graph"] >= Fresh /\ p["wal"] # Original

\* Wherever the process dies, fails or is refused: every original file is in
\* place or in the backup, or the journal says that the new pair is validated
\* and the new pair is in place; without a journal it is all the originals that
\* are in place, until the new pair serves.
OriginalsKept ==
  /\ OldPairKept \/ (Replaced /\ NewPairWhole(live))
  /\ journalAt = NoPhase /\ ~ PairAt("serving") => live = origin

\* What is opened for writing is the new database beside the new graph, and
\* never beside a -wal of the old database, which SQLite would replay into it.
OpenedPairsWhole == \A p \in opens : NewPairWhole(p)

PairPreserved == OriginalsKept /\ OpenedPairsWhole

\* A validated pair is given up only by the rollback of a managed installation,
\* and only when it has put all the originals back.
ReplacedOrRestored ==
  [][Replaced => Replaced' \/ (~ Local /\ live' = origin)]_pairVars
=============================================================================
