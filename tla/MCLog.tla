------------------------------- MODULE MCLog --------------------------------
(***************************************************************************)
(* The durable log: what the recorder keeps in it (RecorderLog) and the     *)
(* segments and manifests it is made of (Wal), with constants for TLC.      *)
(* `part' says which of the two a behaviour is about, and the other rests   *)
(* in its initial state.                                                    *)
(***************************************************************************)
EXTENDS RecorderLog, Wal

VARIABLE part

CONSTANTS t1, t2
Symmetry == Permutations({t1, t2})

P(h) == [priority |-> 1, proposerID |-> 1, hash |-> h]

\* Slot 2 seals the checkpoint at slot 1 and slot 3 stays open meanwhile.
MCDecidedHash == <<1, 2, 1>>
MCSealSlot == <<2, 0, 0>>

\* Two steps of slot 3 and a late request of the sealing slot.
MCRequests ==
    {[slot |-> 3, step |-> 4, proposal |-> P(1)],
     [slot |-> 3, step |-> 5, proposal |-> P(2)],
     [slot |-> 2, step |-> 4, proposal |-> P(1)]}

\* First a value or the record of slot 1, then a record of the next slot.
MCAppends ==
    {[type |-> "proposal", slot |-> 0, id |-> 1],
     [type |-> "record", slot |-> 1, id |-> 1],
     [type |-> "record", slot |-> 2, id |-> 2],
     [type |-> "record", slot |-> 3, id |-> 3]}

Base == [type |-> "checkpoint", slot |-> 1, id |-> 0]
KeptValue == [type |-> "proposal", slot |-> 0, id |-> 0]
MCPlans == {[base |-> Base, keep |-> <<>>], [base |-> Base, keep |-> <<KeptValue>>]}

\* Recorder: slot 3 is decided only where nothing goes wrong.
\* Wal: two things go wrong, of which at most one is a system call; with a bound
\* identity and a compaction, one.
Incidents ==
    /\ failures + restarts > 0 => ~ IsDecided(3)
    /\ faults + crashes
         + (IF w.state = "up" /\ w.identity /\ compactions > 0 THEN 1 ELSE 0) <= 2

MCInit == part \in {"recorder", "wal"} /\ Init /\ WalInit

RecorderPart == part = "recorder" /\ Next /\ UNCHANGED <<part, walVars>>
WalPart == part = "wal" /\ WalNext /\ UNCHANGED <<part, vars>>
MCNext == RecorderPart \/ WalPart

MCSpec == MCInit /\ [][MCNext]_<<part, vars, walVars>>
=============================================================================
