--------------------------- MODULE MCObjectStore ---------------------------
(***************************************************************************)
(* The components that keep their state in the object store, with constants *)
(* for TLC.  They are independent: `part' says which of them a behaviour is *)
(* about, and the others rest in their initial state.                       *)
(***************************************************************************)
EXTENDS Archive, CheckpointSeal, CheckpointStore, Fork

VARIABLE part

\* Archive: m1 publishes, trims and replays, m2 publishes, collects and seals.
CONSTANTS m1, m2
MCManagers == {m1, m2}
MCDuties == {<<m1, "sync">>, <<m1, "trim">>, <<m1, "snap">>,
             <<m2, "sync">>, <<m2, "gc">>, <<m2, "seal">>}

\* CheckpointSeal: two publishers that reach the third voter and not each
\* other, so it is the one every majority shares; it compacts and restarts.
CONSTANTS a, b, c
MiddleReached == {a, b} \X {c}

\* No voter is more than one decided slot behind.
LagBound ==
  \A n \in Voters : \A s \in SealSlots :
    (\A u \in 1..s : chosen[u] # Undecided) => tip[n] + 1 >= s

\* a holds the first claim and b the next one it can get, whether or not a
\* maintenance claim comes between: a publisher publishes once.
OneEach ==
  /\ publication[a].gen <= 1 /\ publication[b].gen # 1
  /\ publication[b].gen = 2 => claim.gen = 2

Scenarios == part = "seal" => LagBound /\ OneEach

Parts == {"archive", "seal", "store", "fork"}

MCInit == part \in Parts /\ ArchiveInit /\ SealInit /\ StoreInit /\ ForkInit

ArchivePart ==
  part = "archive" /\ ArchiveNext /\ UNCHANGED <<part, sealVars, storeVars, forkVars>>
SealPart ==
  part = "seal" /\ SealNext /\ UNCHANGED <<part, archiveVars, storeVars, forkVars>>
StorePart ==
  part = "store" /\ StoreNext /\ UNCHANGED <<part, archiveVars, sealVars, forkVars>>
ForkPart ==
  part = "fork" /\ ForkNext /\ UNCHANGED <<part, archiveVars, sealVars, storeVars>>

MCNext == ArchivePart \/ SealPart \/ StorePart \/ ForkPart

MCSpec == MCInit /\ [][MCNext]_<<part, archiveVars, sealVars, storeVars, forkVars>>

=============================================================================
