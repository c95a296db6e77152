------------------------- MODULE MCReconfiguration -------------------------
EXTENDS Reconfiguration, TLC
CONSTANTS na, nb, nc, nd, MaxLag

MCNode == {na, nb, nc, nd}
MCGenesis == {na, nb, nc}
MCLegacy == {<<nb, 4>>, <<nc, 4>>}
MCCaller == {na}
MCProposer == {na}
MCWanted == {{na, nb, nc, nd}, {na, nb}, {na, nc}}
Others == Permutations({nb, nc})

Writes == {q \in requests : ~ IsControl(q.val)}
WriteSlots == {q.slot : q \in Writes}
Calls == {n \in Node : op[n] # None}
Aborting == (\E n \in Calls : op[n].abort) \/ \E q \in requests : q.val.kind = "abort"
Upgraded == \E v \in votes : <<v.rec, v.slot>> \in LegacyVotes /\ v.cfg = 1
Sparse == {<<n, s>> \in Node \X Slot : decided[n][s] # None /\ s > core[n].tip}
Adding == \A j \in journal : nd \in j.target.members
Removing == \A j \in journal : nd \notin j.target.members
OneRound == Cardinality(journal) <= 1 /\ Cardinality(Calls) <= 1 /\ ~ Aborting

(* How far the genesis voters trail the longest prefix, together. *)
Tips == {core[n].tip : n \in Node}
Lag == MapThenSumSet(LAMBDA n : Max(Tips) - core[n].tip, Genesis)

(* An addition with a drained and a new slot; a removal with votes from     *)
(* before the window; a removal with a write aimed at its terminal slot; an  *)
(* addition, two crashes; an aborted addition and the round that follows.     *)
Scenario ==
    \/ /\ crashes = 0 /\ OneRound
       /\ Sparse = {} /\ Lag <= 2 /\ IF Upgraded THEN Removing ELSE Adding
       /\ WriteSlots \subseteq {2, 4} /\ Cardinality(Writes) <= 2
    \/ /\ crashes = 0 /\ OneRound /\ ~ Upgraded /\ Removing
       /\ WriteSlots \subseteq {2, 3} /\ Cardinality(Writes) <= 2
    \/ /\ ~ Upgraded /\ OneRound /\ Adding
       /\ Sparse = {} /\ Lag <= IF crashes = 2 THEN 1 ELSE 2
       /\ WriteSlots \subseteq {2} /\ Cardinality(Writes) <= 1
    \/ /\ crashes = 0 /\ ~ Upgraded /\ Sparse = {} /\ Lag <= 1
       /\ WriteSlots \subseteq {2} /\ Cardinality(Writes) <= 1

(* An addition behind a write in slot 1 that nb and na both drive and decide *)
(* themselves; nb stops twice and na reports it.                             *)
MCCallers == {na, nb}
MCStopping == {nb}
MCAddition == {MCNode}
Sent == {q.val.kind : q \in requests}

StoppedTwice ==
    /\ ~ Aborting
    /\ WriteSlots \subseteq {1, 3} /\ Cardinality(Writes) <= 2
    /\ Sent # {} => 1 \in WriteSlots
    /\ \A q \in requests : q.val.kind = "freeze" => q.slot = 2
    /\ \A v \in votes : v.rec \in {na, nb}
    /\ core[nc] = NewCore
    /\ crashes = 0 /\ "freeze" \in Sent => op[na] # None /\ op[nb] # None
    /\ crashes = 0 /\ decided[nb][4] # None => {2, 3} \subseteq durable[nb]

Bounded ==
    /\ Scenario
    /\ Cardinality(journal) <= 2
    /\ Cardinality(Sparse) <= 1
    /\ Lag <= MaxLag
    /\ \A q \in requests : q.val.kind = "freeze" => q.slot \in {1, 4}
    /\ \A q \in Writes :
          Cardinality({v \in votes : v.slot = q.slot /\ v.val = q.val /\ v.cfg = q.cfg}) <=
            Cardinality(q.to) \div 2 + 1
    /\ \A c1, c2 \in chosen : c1.slot = c2.slot /\ c1.val = Write /\ c1.cfg = c2.cfg => c1 = c2
=============================================================================
