----------------------------- MODULE NodeProofs -----------------------------
(***************************************************************************)
(* A node that serves, starts and catches up.                              *)
(*                                                                         *)
(* CompletedWriteVisible, for every set of voters, every log length and    *)
(* any number of restarts.  The argument: an answered write is on the      *)
(* disks of a quorum, together with all slots below it, and stays there.   *)
(* A read that begins later asks a quorum; a node in both has it in its    *)
(* tip.                                                                    *)
(*                                                                         *)
(* CatchUpSound, for any decided log, any placement of its checkpoint      *)
(* seals and any number of stops: what the database shows is logged or     *)
(* archived, and no start is refused.  The argument is about seals.  A     *)
(* checkpoint index becomes a base, or the one CURRENT names, only when    *)
(* the slot that decides its seal is archived (ArchiveInv); a start pins   *)
(* the archive after it has loaded CURRENT and opened the WAL, so the      *)
(* pinned suffix contains the seals of both (StartInv); and a page is      *)
(* applied only when each of its slots is logged or below a base           *)
(* (PageInv).                                                              *)
(***************************************************************************)
EXTENDS ReadIndex, NodeCatchUp, FiniteSetTheorems, TLAPS

\* The tip is the end of the contiguous prefix, in memory and on disk.
Prefix ==
    \A n \in NodeID : /\ 1..tip[n] \subseteq known[n]
                      /\ tip[n] + 1 \notin known[n]
                      /\ durable[n] \subseteq known[n]

\* Node m has the slots up to k on disk.
Stores(m, k) == 1..k \subseteq durable[m]

\* A learner answers when the slot is on its disk.
AcksStored ==
    \A n \in NodeID, s \in Slot :
        \A m \in write[n][s].acks : m # n => Stores(m, s)

CompletedStored == \E Q \in Quorum : \A m \in Q : Stores(m, completed)

\* The tips collected so far, where they come from a node that stores the
\* answered writes, are not below them.
Covered(n) ==
    \E Q \in Quorum : \A m \in Q :
        /\ Stores(m, read[n].floor)
        /\ \A t \in 0..MaxSlot : <<m, t>> \in read[n].tips => t >= read[n].floor

ReadsCovered ==
    \A n \in NodeID : /\ read[n].phase = "ask" => Covered(n)
                      /\ read[n].phase = "apply" => read[n].index >= read[n].floor

IInv == TypeOK /\ Prefix /\ AcksStored /\ CompletedStored /\ ReadsCovered

-----------------------------------------------------------------------------
\* All voters are a quorum, and any two quorums share a voter.
LEMMA QuorumNodes ==
    /\ NodeID \in Quorum
    /\ \A Q, R \in Quorum : Q \cap R # {}
<1>1. Cardinality(NodeID) \in Nat /\ (Cardinality(NodeID) = 0 <=> NodeID = {})
  BY FS_CardinalityType, FS_EmptySet, ReadIndexAssumption
<1>2. NodeID \in Quorum
  BY <1>1, ReadIndexAssumption DEF Quorum
<1>3. ASSUME NEW Q \in Quorum, NEW R \in Quorum
      PROVE  Q \cap R # {}
  <2>1. Q \subseteq NodeID /\ R \subseteq NodeID
    BY DEF Quorum
  <2>2. Cardinality(Q) \in Nat /\ Cardinality(R) \in Nat
    BY <2>1, FS_Subset, FS_CardinalityType, ReadIndexAssumption
  <2>3. Cardinality(Q) + Cardinality(R) > Cardinality(NodeID)
    BY <1>1, <2>2 DEF Quorum
  <2>4. QED
    BY <2>1, <2>3, FS_MajoritiesIntersect, ReadIndexAssumption
<1>4. QED
  BY <1>2, <1>3

\* A node that stores a prefix has a tip that is not below it.
LEMMA StoredBelowTip ==
    ASSUME TypeOK, Prefix, NEW m \in NodeID, NEW k \in 0..MaxSlot, Stores(m, k)
    PROVE  tip[m] >= k
<1>1. tip[m] \in 0..MaxSlot /\ MaxSlot \in Nat
  BY ReadIndexAssumption DEF TypeOK
<1>2. SUFFICES ASSUME tip[m] < k PROVE FALSE
  BY <1>1
<1>3. tip[m] + 1 \in 1..k
  BY <1>1, <1>2
<1>4. QED
  BY <1>3 DEF Prefix, Stores

\* What an accepted decision does to the memory of a node.
LEMMA AcceptEffect ==
    ASSUME TypeOK, Prefix, NEW n \in NodeID, NEW slots \in SUBSET Slot, Accept(n, slots)
    PROVE  /\ known' \in [NodeID -> SUBSET Slot]
           /\ tip' \in [NodeID -> 0..MaxSlot]
           /\ \A m \in NodeID : /\ known[m] \subseteq known'[m]
                                /\ 1..tip'[m] \subseteq known'[m]
                                /\ tip'[m] + 1 \notin known'[m]
           /\ slots \subseteq known'[n]
<1>1. MaxSlot \in Nat /\ tip[n] \in 0..MaxSlot
  BY ReadIndexAssumption DEF TypeOK
<1>2. PICK t \in 0..MaxSlot : IsTip(n, known[n] \cup slots, t) /\ tip' = [tip EXCEPT ![n] = t]
  BY DEF Accept
<1>3. /\ known' = [known EXCEPT ![n] = known[n] \cup slots]
      /\ known \in [NodeID -> SUBSET Slot]
      /\ tip \in [NodeID -> 0..MaxSlot]
  BY DEF Accept, TypeOK
<1>4. 1..t \subseteq known[n] \cup slots
  <2>1. 1..t = (1..tip[n]) \cup ((tip[n] + 1)..t)
    BY <1>1, <1>2 DEF IsTip
  <2>2. QED
    BY <2>1, <1>2 DEF IsTip, Prefix
<1>5. ASSUME NEW m \in NodeID, m # n
      PROVE  known'[m] = known[m] /\ tip'[m] = tip[m]
  BY <1>2, <1>3, <1>5
<1>6. known'[n] = known[n] \cup slots /\ tip'[n] = t
  BY <1>2, <1>3
<1>7. t + 1 \notin known[n] \cup slots
  BY <1>2 DEF IsTip
<1>8. known' \in [NodeID -> SUBSET Slot] /\ tip' \in [NodeID -> 0..MaxSlot]
  BY <1>2, <1>3
<1>9. QED
  BY <1>4, <1>5, <1>6, <1>7, <1>8 DEF Prefix

\* Nothing on a disk is ever lost, so what was stored stays stored.
LEMMA StoredStays ==
    ASSUME IInv, \A m \in NodeID : durable[m] \subseteq durable'[m]
    PROVE  /\ write' = write => AcksStored'
           /\ completed' = completed => CompletedStored'
           /\ read' = read => ReadsCovered'
<1>1. \A m \in NodeID : \A k : Stores(m, k) => Stores(m, k)'
  BY DEF Stores
<1>2. \A Q \in Quorum : Q \subseteq NodeID
  BY DEF Quorum
<1>3. ASSUME write' = write PROVE AcksStored'
  BY <1>1, <1>3 DEF AcksStored, IInv, TypeOK, WriteState
<1>4. ASSUME completed' = completed PROVE CompletedStored'
  BY <1>1, <1>2, <1>4 DEF CompletedStored, IInv
<1>5. ASSUME read' = read PROVE ReadsCovered'
  BY <1>1, <1>2, <1>5 DEF ReadsCovered, Covered, IInv
<1>6. QED
  BY <1>3, <1>4, <1>5

\* What a sync and the materializer do to a node.
LEMMA PersistEffect ==
    ASSUME TypeOK, NEW n \in NodeID, NEW slots \in SUBSET Slot, Persist(n, slots)
    PROVE  /\ durable' \in [NodeID -> SUBSET Slot]
           /\ \A m \in NodeID : durable[m] \subseteq durable'[m]
           /\ durable'[n] = durable[n] \cup slots
           /\ \A m \in NodeID : m # n => durable'[m] = durable[m]
BY DEF Persist, TypeOK

\* applyDecisions leaves the slot, and all below it, on the node's disk.
LEMMA ApplyEffect ==
    ASSUME TypeOK, Prefix, NEW n \in NodeID, NEW s \in 0..MaxSlot, ApplyThrough(n, s)
    PROVE  /\ durable' \in [NodeID -> SUBSET Slot]
           /\ applied' \in [NodeID -> 0..MaxSlot]
           /\ \A m \in NodeID : durable[m] \subseteq durable'[m]
           /\ 1..s \subseteq durable'[n]
           /\ applied'[n] >= s
           /\ UNCHANGED <<known, tip>>
           /\ Prefix'
<1>1. MaxSlot \in Nat /\ tip[n] \in 0..MaxSlot
  BY ReadIndexAssumption DEF TypeOK
<1>2. 1..s \in SUBSET Slot
  BY <1>1 DEF Slot
<1>3. UNCHANGED <<known, tip>> /\ 1..s \subseteq 1..tip[n]
  BY <1>1 DEF ApplyThrough
<1>4. /\ durable' \in [NodeID -> SUBSET Slot]
      /\ \A m \in NodeID : durable[m] \subseteq durable'[m]
      /\ durable'[n] = durable[n] \cup 1..s
      /\ \A m \in NodeID : m # n => durable'[m] = durable[m]
  <2>1. known[n] \cap 1..s = 1..s
    BY <1>3 DEF Prefix
  <2>2. QED
    BY <1>2, <2>1, PersistEffect DEF ApplyThrough
<1>5. applied' \in [NodeID -> 0..MaxSlot] /\ applied'[n] >= s
  BY <1>1 DEF ApplyThrough, TypeOK, Max
<1>6. Prefix'
  BY <1>3, <1>4 DEF Prefix
<1>7. QED
  BY <1>3, <1>4, <1>5, <1>6

-----------------------------------------------------------------------------
\* An empty cluster satisfies the invariant.
LEMMA InitInv == Init => IInv
<1>1. SUFFICES ASSUME Init PROVE IInv
  OBVIOUS
<1>2. MaxSlot \in Nat
  BY ReadIndexAssumption
<1>3. TypeOK
  BY <1>1, <1>2 DEF Init, TypeOK, NoWrite, NoRead, WriteState, ReadState
<1>4. Prefix
  BY <1>1 DEF Init, Prefix
<1>5. AcksStored
  BY <1>1 DEF Init, AcksStored, NoWrite
<1>6. CompletedStored
  BY <1>1, QuorumNodes DEF Init, CompletedStored, Stores
<1>7. ReadsCovered
  BY <1>1 DEF Init, ReadsCovered, NoRead
<1>8. QED
  BY <1>3, <1>4, <1>5, <1>6, <1>7 DEF IInv

\* Reserving a slot touches no decision and clears the answers for it.
LEMMA ProposeInv == ASSUME IInv, NEW n \in NodeID, Propose(n) PROVE IInv'
<1>1. TypeOK'
  BY DEF IInv, TypeOK, Propose, nodeVars, WriteState
<1>2. Prefix'
  BY DEF IInv, Prefix, Propose, nodeVars
<1>3. AcksStored'
  BY DEF IInv, TypeOK, AcksStored, Stores, Propose, nodeVars
<1>4. CompletedStored' /\ ReadsCovered'
  BY StoredStays DEF Propose, nodeVars
<1>5. QED
  BY <1>1, <1>2, <1>3, <1>4 DEF IInv

\* The proposer accepts its decision in memory only: its disk is as before.
LEMMA RunSlotInv == ASSUME IInv, NEW n \in NodeID, NEW s \in Slot, RunSlot(n, s) PROVE IInv'
<1>1. /\ known' \in [NodeID -> SUBSET Slot]
      /\ tip' \in [NodeID -> 0..MaxSlot]
      /\ \A m \in NodeID : /\ known[m] \subseteq known'[m]
                           /\ 1..tip'[m] \subseteq known'[m]
                           /\ tip'[m] + 1 \notin known'[m]
  BY AcceptEffect DEF IInv, RunSlot
<1>2. TypeOK'
  BY <1>1 DEF IInv, TypeOK, RunSlot, WriteState
<1>3. Prefix'
  BY <1>1 DEF IInv, Prefix, RunSlot
<1>4. AcksStored'
  BY DEF IInv, TypeOK, AcksStored, Stores, RunSlot
<1>5. CompletedStored' /\ ReadsCovered'
  BY StoredStays DEF RunSlot
<1>6. QED
  BY <1>2, <1>3, <1>4, <1>5 DEF IInv

\* Sending a decision changes no node.
LEMMA SendDecisionInv ==
    ASSUME IInv, NEW n \in NodeID, NEW s \in Slot, SendDecision(n, s) PROVE IInv'
<1>1. TypeOK'
  BY DEF IInv, TypeOK, SendDecision, nodeVars
<1>2. Prefix'
  BY DEF IInv, Prefix, SendDecision, nodeVars
<1>3. AcksStored' /\ CompletedStored' /\ ReadsCovered'
  BY StoredStays DEF SendDecision, nodeVars
<1>4. QED
  BY <1>1, <1>2, <1>3 DEF IInv

\* A learner accepts, with or without a sync, and loses nothing.
LEMMA LearnedInv == ASSUME IInv, NEW n \in NodeID, NEW s \in Slot, Learned(n, s) PROVE IInv'
<1>1. /\ known' \in [NodeID -> SUBSET Slot]
      /\ tip' \in [NodeID -> 0..MaxSlot]
      /\ \A m \in NodeID : /\ known[m] \subseteq known'[m]
                           /\ 1..tip'[m] \subseteq known'[m]
                           /\ tip'[m] + 1 \notin known'[m]
      /\ {s} \subseteq known'[n]
  BY AcceptEffect DEF IInv, Learned
<1>2. /\ durable' \in [NodeID -> SUBSET Slot]
      /\ \A m \in NodeID : durable[m] \subseteq durable'[m]
      /\ durable'[n] \subseteq durable[n] \cup {s}
      /\ \A m \in NodeID : m # n => durable'[m] = durable[m]
  <2>1. CASE Persist(n, {s})
    BY <2>1, PersistEffect DEF IInv
  <2>2. CASE UNCHANGED durable
    BY <2>2 DEF IInv, TypeOK
  <2>3. QED
    BY <2>1, <2>2 DEF Learned
<1>3. TypeOK'
  BY <1>1, <1>2 DEF IInv, TypeOK, Learned
<1>4. Prefix'
  BY <1>1, <1>2 DEF IInv, Prefix
<1>5. AcksStored' /\ CompletedStored' /\ ReadsCovered'
  BY <1>2, StoredStays DEF Learned
<1>6. QED
  BY <1>3, <1>4, <1>5 DEF IInv

\* A learner's answer comes after its sync, so the answer is stored.
LEMMA AcknowledgeInv ==
    ASSUME IInv, NEW m \in NodeID, NEW n \in NodeID, NEW s \in Slot, Acknowledge(m, n, s)
    PROVE  IInv'
<1>1. /\ durable' \in [NodeID -> SUBSET Slot]
      /\ applied' \in [NodeID -> 0..MaxSlot]
      /\ \A k \in NodeID : durable[k] \subseteq durable'[k]
      /\ 1..s \subseteq durable'[m]
      /\ UNCHANGED <<known, tip>>
      /\ Prefix'
  <2>1. s \in 0..MaxSlot
    BY ReadIndexAssumption DEF Slot
  <2>2. QED
    BY <2>1, ApplyEffect DEF IInv, Acknowledge
<1>2. TypeOK'
  <2>0. write[n][s] \in WriteState
    BY DEF IInv, TypeOK
  <2>1. [write[n][s] EXCEPT !.acks = @ \cup {m}]
           \in WriteState
    BY <2>0 DEF WriteState
  <2>2. write' = [write EXCEPT ![n] = [write[n] EXCEPT ![s] =
                     [write[n][s] EXCEPT !.acks = @ \cup {m}]]]
    BY DEF Acknowledge
  <2>3. write' \in [NodeID -> [Slot -> WriteState]]
    BY <2>1, <2>2 DEF IInv, TypeOK
  <2>4. QED
    BY <1>1, <2>3 DEF IInv, TypeOK, Acknowledge
<1>3. AcksStored'
  BY <1>1 DEF IInv, TypeOK, AcksStored, Stores, Acknowledge, WriteState
<1>4. CompletedStored' /\ ReadsCovered'
  BY <1>1, StoredStays DEF Acknowledge
<1>5. QED
  BY <1>1, <1>2, <1>3, <1>4 DEF IInv

\* The acknowledging quorum is the one that stores the answered write.
LEMMA CompleteInv == ASSUME IInv, NEW n \in NodeID, NEW s \in Slot, Complete(n, s) PROVE IInv'
<1>0. s \in 0..MaxSlot /\ MaxSlot \in Nat
  BY ReadIndexAssumption DEF Slot
<1>1. /\ durable' \in [NodeID -> SUBSET Slot]
      /\ applied' \in [NodeID -> 0..MaxSlot]
      /\ \A k \in NodeID : durable[k] \subseteq durable'[k]
      /\ 1..s \subseteq durable'[n]
      /\ UNCHANGED <<known, tip>>
      /\ Prefix'
  BY <1>0, ApplyEffect DEF IInv, Complete
<1>2. completed' \in {completed, s}
  BY DEF Complete, Max
<1>3. TypeOK'
  BY <1>0, <1>1, <1>2 DEF IInv, TypeOK, Complete, NoWrite, WriteState
<1>4. AcksStored'
  BY <1>1 DEF IInv, TypeOK, AcksStored, Stores, Complete, NoWrite, WriteState
<1>5. CompletedStored'
  <2>1. CASE completed' = completed
    BY <1>1, <2>1, StoredStays
  <2>2. CASE completed' = s
    <3>0. write[n][s] \in WriteState
      BY DEF IInv, TypeOK
    <3>1. ASSUME NEW m \in write[n][s].acks
          PROVE  1..s \subseteq durable'[m]
      <4>1. m \in NodeID
        BY <3>0 DEF WriteState
      <4>2. CASE m = n
        BY <1>1, <4>2
      <4>3. CASE m # n
        <5>1. 1..s \subseteq durable[m]
          BY <4>3 DEF IInv, AcksStored, Stores
        <5>2. QED
          BY <1>1, <4>1, <5>1
      <4>4. QED
        BY <4>2, <4>3
    <3>2. write[n][s].acks \in Quorum
      BY DEF Complete
    <3>3. \E Q \in Quorum : \A m \in Q : 1..completed' \subseteq durable'[m]
      BY <2>2, <3>1, <3>2
    <3>4. QED
      BY <3>3 DEF CompletedStored, Stores
  <2>3. QED
    BY <1>2, <2>1, <2>2
<1>6. ReadsCovered'
  BY <1>1, StoredStays DEF Complete
<1>7. QED
  BY <1>1, <1>3, <1>4, <1>5, <1>6 DEF IInv

\* A Propose that gives up leaves what its learners stored.
LEMMA FailWriteInv == ASSUME IInv, NEW n \in NodeID, NEW s \in Slot, FailWrite(n, s) PROVE IInv'
<1>1. TypeOK'
  BY DEF IInv, TypeOK, FailWrite, nodeVars, NoWrite, WriteState
<1>2. Prefix'
  BY DEF IInv, Prefix, FailWrite, nodeVars
<1>3. AcksStored'
  BY DEF IInv, TypeOK, AcksStored, Stores, FailWrite, nodeVars, NoWrite
<1>4. CompletedStored' /\ ReadsCovered'
  BY StoredStays DEF FailWrite, nodeVars
<1>5. QED
  BY <1>1, <1>2, <1>3, <1>4 DEF IInv

\* Accepting and syncing the same slots, as recovery and catch-up do.
LEMMA InstallEffect ==
    ASSUME IInv, NEW n \in NodeID, NEW slots \in SUBSET Slot,
           Accept(n, slots), Persist(n, slots)
    PROVE  /\ known' \in [NodeID -> SUBSET Slot]
           /\ tip' \in [NodeID -> 0..MaxSlot]
           /\ durable' \in [NodeID -> SUBSET Slot]
           /\ \A m \in NodeID : durable[m] \subseteq durable'[m]
           /\ Prefix'
<1>1. /\ known' \in [NodeID -> SUBSET Slot]
      /\ tip' \in [NodeID -> 0..MaxSlot]
      /\ \A m \in NodeID : /\ known[m] \subseteq known'[m]
                           /\ 1..tip'[m] \subseteq known'[m]
                           /\ tip'[m] + 1 \notin known'[m]
      /\ slots \subseteq known'[n]
  BY AcceptEffect DEF IInv
<1>2. /\ durable' \in [NodeID -> SUBSET Slot]
      /\ \A m \in NodeID : durable[m] \subseteq durable'[m]
      /\ durable'[n] = durable[n] \cup slots
      /\ \A m \in NodeID : m # n => durable'[m] = durable[m]
  BY PersistEffect DEF IInv
<1>3. Prefix'
  BY <1>1, <1>2 DEF IInv, Prefix
<1>4. QED
  BY <1>1, <1>2, <1>3

\* Recovery installs the slot after the tip, on disk as well.
LEMMA RecoverSlotInv == ASSUME IInv, NEW n \in NodeID, RecoverSlot(n) PROVE IInv'
<1> DEFINE s == tip[n] + 1
<1>1. s \in Slot /\ Accept(n, {s}) /\ Persist(n, {s})
  BY DEF RecoverSlot
<1> HIDE DEF s
<1>2. /\ known' \in [NodeID -> SUBSET Slot]
      /\ tip' \in [NodeID -> 0..MaxSlot]
      /\ durable' \in [NodeID -> SUBSET Slot]
      /\ \A m \in NodeID : durable[m] \subseteq durable'[m]
      /\ Prefix'
  BY <1>1, InstallEffect
<1>3. TypeOK'
  BY <1>2 DEF IInv, TypeOK, RecoverSlot
<1>4. AcksStored' /\ CompletedStored' /\ ReadsCovered'
  BY <1>2, StoredStays DEF RecoverSlot
<1>5. QED
  BY <1>2, <1>3, <1>4 DEF IInv

\* When a read begins, the node's own tip is the first one collected.
LEMMA ReadStartInv == ASSUME IInv, NEW n \in NodeID, ReadStart(n) PROVE IInv'
<1>1. /\ UNCHANGED <<started, sent, known, durable, tip, applied, ready, write, completed,
                     exposed, restarts>>
      /\ read' = [read EXCEPT ![n] =
                    [phase |-> "ask", tips |-> {<<n, tip[n]>>}, index |-> 0, source |-> {},
                     floor |-> completed, shown |-> exposed]]
  BY DEF ReadStart, nodeVars
<1>2. TypeOK'
  BY <1>1, ReadIndexAssumption DEF IInv, TypeOK, ReadState
<1>3. Prefix'
  BY <1>1 DEF IInv, Prefix
<1>4. AcksStored' /\ CompletedStored'
  BY <1>1, StoredStays
<1>5. Covered(n)'
  <2>1. PICK Q \in Quorum : \A m \in Q : Stores(m, completed)
    BY DEF IInv, CompletedStored
  <2>2. /\ read'[n].floor = completed
        /\ read'[n].tips = {<<n, tip[n]>>}
    BY <1>1 DEF IInv, TypeOK
  <2>3. n \in Q => tip[n] >= completed
    BY <2>1, StoredBelowTip DEF IInv, TypeOK
  <2>4. \A m \in Q : 1..completed \subseteq durable'[m]
    BY <1>1, <2>1 DEF Stores
  <2>5. ASSUME NEW m \in Q, NEW t \in 0..MaxSlot, <<m, t>> \in read'[n].tips
        PROVE  t >= read'[n].floor
    BY <2>2, <2>3, <2>5
  <2>6. QED
    BY <2>2, <2>4, <2>5 DEF Covered, Stores
<1>6. ReadsCovered'
  <2>1. ASSUME NEW k \in NodeID, k # n
        PROVE  /\ read'[k].phase = "ask" => Covered(k)'
               /\ read'[k].phase = "apply" => read'[k].index >= read'[k].floor
    BY <1>1, <2>1 DEF IInv, TypeOK, ReadsCovered, Covered, Stores
  <2>2. read'[n].phase = "ask"
    BY <1>1 DEF IInv, TypeOK
  <2>3. QED
    BY <1>5, <2>1, <2>2 DEF ReadsCovered
<1>7. QED
  BY <1>2, <1>3, <1>4, <1>6 DEF IInv

\* A node in the storing quorum reports a tip that is not below the floor.
LEMMA ReadTipInv ==
    ASSUME IInv, NEW n \in NodeID, NEW m \in NodeID, ReadTip(n, m) PROVE IInv'
<1>1. /\ UNCHANGED <<started, sent, known, durable, tip, applied, ready, write, completed,
                     exposed, restarts>>
      /\ read[n].phase = "ask"
      /\ read' = [read EXCEPT ![n] = [read[n] EXCEPT !.tips = @ \cup {<<m, tip[m]>>}]]
  BY DEF ReadTip, nodeVars
<1>2. /\ read[n] \in ReadState
      /\ tip[m] \in 0..MaxSlot
  BY DEF IInv, TypeOK
<1>3. read'[n] = [read[n] EXCEPT !.tips = @ \cup {<<m, tip[m]>>}]
  BY <1>1 DEF IInv, TypeOK
<1>4. TypeOK'
  <2>1. read'[n] \in ReadState
    BY <1>2, <1>3 DEF ReadState
  <2>2. QED
    BY <1>1, <1>3, <2>1 DEF IInv, TypeOK
<1>5. Prefix'
  BY <1>1 DEF IInv, Prefix
<1>6. AcksStored' /\ CompletedStored'
  BY <1>1, StoredStays
<1>7. Covered(n)'
  <2>1. PICK Q \in Quorum : \A k \in Q :
            /\ Stores(k, read[n].floor)
            /\ \A t \in 0..MaxSlot : <<k, t>> \in read[n].tips => t >= read[n].floor
    BY <1>1 DEF IInv, ReadsCovered, Covered
  <2>2. /\ read'[n].floor = read[n].floor
        /\ read'[n].tips = read[n].tips \cup {<<m, tip[m]>>}
    BY <1>2, <1>3
  <2>3. m \in Q => tip[m] >= read[n].floor
    BY <1>2, <2>1, StoredBelowTip DEF IInv, ReadState
  <2>4. \A k \in Q : 1..read'[n].floor \subseteq durable'[k]
    BY <1>1, <2>1, <2>2 DEF Stores
  <2>5. ASSUME NEW k \in Q, NEW t \in 0..MaxSlot, <<k, t>> \in read'[n].tips
        PROVE  t >= read'[n].floor
    BY <2>1, <2>2, <2>3, <2>5
  <2>6. QED
    BY <2>4, <2>5 DEF Covered, Stores
<1>8. ReadsCovered'
  <2>1. ASSUME NEW k \in NodeID, k # n
        PROVE  /\ read'[k].phase = "ask" => Covered(k)'
               /\ read'[k].phase = "apply" => read'[k].index >= read'[k].floor
    BY <1>1, <2>1 DEF IInv, TypeOK, ReadsCovered, Covered, Stores
  <2>2. read'[n].phase = "ask"
    BY <1>1, <1>2, <1>3
  <2>3. QED
    BY <1>7, <2>1, <2>2 DEF ReadsCovered
<1>9. QED
  BY <1>4, <1>5, <1>6, <1>8 DEF IInv

\* The asked quorum and the storing quorum share a node, so the highest tip
\* is not below the floor.
LEMMA ReadQuorumInv == ASSUME IInv, NEW n \in NodeID, ReadQuorum(n) PROVE IInv'
<1>1. /\ UNCHANGED <<started, sent, known, durable, tip, applied, ready, write, completed,
                     exposed, restarts>>
      /\ read[n].phase = "ask"
      /\ Asked(n) \in Quorum
  BY DEF ReadQuorum, nodeVars
<1>2. PICK a \in read[n].tips :
         /\ \A b \in read[n].tips : b[2] <= a[2]
         /\ read' = [read EXCEPT ![n].phase = "apply", ![n].tips = {},
                                 ![n].index = a[2], ![n].source = {a[1]}]
  BY DEF ReadQuorum
<1>3. read[n] \in ReadState
  BY DEF IInv, TypeOK
<1>4. a[1] \in NodeID /\ a[2] \in 0..MaxSlot
  BY <1>3 DEF ReadState
<1>5. /\ read'[n] = [read[n] EXCEPT !.phase = "apply", !.tips = {},
                                    !.index = a[2], !.source = {a[1]}]
      /\ DOMAIN read' = NodeID
      /\ read' = [k \in NodeID |-> read'[k]]
      /\ \A k \in NodeID : k # n => read'[k] = read[k]
  BY <1>2 DEF IInv, TypeOK
<1>6. TypeOK'
  <2>1. read'[n] = [phase |-> "apply", tips |-> {}, index |-> a[2], source |-> {a[1]},
                    floor |-> read[n].floor, shown |-> read[n].shown]
    BY <1>3, <1>5 DEF ReadState
  <2>2. /\ read[n].floor \in 0..MaxSlot
        /\ read[n].shown \in 0..MaxSlot
    BY <1>3 DEF ReadState
  <2>3. read'[n] \in ReadState
    BY <1>4, <2>1, <2>2 DEF ReadState
  <2>4. read' \in [NodeID -> ReadState]
    <3>1. \A k \in NodeID :
             read'[k] \in ReadState
      BY <1>5, <2>3 DEF IInv, TypeOK
    <3>2. QED
      BY <1>5, <3>1
  <2>5. QED
    BY <1>1, <2>4 DEF IInv, TypeOK
<1>7. Prefix'
  BY <1>1 DEF IInv, Prefix
<1>8. AcksStored' /\ CompletedStored'
  BY <1>1, StoredStays
<1>9. a[2] >= read[n].floor
  <2>1. PICK Q \in Quorum : \A k \in Q :
            /\ Stores(k, read[n].floor)
            /\ \A t \in 0..MaxSlot : <<k, t>> \in read[n].tips => t >= read[n].floor
    BY <1>1 DEF IInv, ReadsCovered, Covered
  <2>2. PICK k : k \in Q /\ k \in Asked(n)
    BY <1>1, QuorumNodes
  <2>3. PICK b \in read[n].tips : b[1] = k
    BY <2>2 DEF Asked
  <2>4. b \in NodeID \X (0..MaxSlot)
    <3>1. read[n].tips \subseteq NodeID \X (0..MaxSlot)
      BY <1>3 DEF ReadState
    <3>2. QED
      BY <2>3, <3>1
  <2>5. b = <<b[1], b[2]>> /\ b[2] \in 0..MaxSlot
    BY <2>4
  <2>6. <<k, b[2]>> \in read[n].tips
    BY <2>3, <2>5
  <2>7. b[2] >= read[n].floor
    BY <2>1, <2>2, <2>5, <2>6
  <2>8. b[2] <= a[2]
    BY <1>2, <2>3
  <2>9. read[n].floor \in Int /\ a[2] \in Int /\ b[2] \in Int
    BY <1>3, <1>4, <2>5 DEF ReadState
  <2>10. QED
    BY <2>7, <2>8, <2>9
<1>10. ReadsCovered'
  <2>1. ASSUME NEW k \in NodeID, k # n
        PROVE  /\ read'[k].phase = "ask" => Covered(k)'
               /\ read'[k].phase = "apply" => read'[k].index >= read'[k].floor
    BY <1>1, <1>5, <2>1 DEF IInv, ReadsCovered, Covered, Stores
  <2>2. /\ read'[n].phase = "apply"
        /\ read'[n].index >= read'[n].floor
    BY <1>3, <1>5, <1>9
  <2>3. QED
    BY <2>1, <2>2 DEF ReadsCovered
<1>11. QED
  BY <1>6, <1>7, <1>8, <1>10 DEF IInv

\* A catch-up installs the source's decisions; the read's index stays.
LEMMA ReadCatchUpInv == ASSUME IInv, NEW n \in NodeID, ReadCatchUp(n) PROVE IInv'
<1>1. PICK m \in read[n].source : /\ Accept(n, (tip[n] + 1)..tip[m])
                                 /\ Persist(n, (tip[n] + 1)..tip[m])
  BY DEF ReadCatchUp
<1>2. m \in NodeID
  BY DEF IInv, TypeOK, ReadState
<1>3. (tip[n] + 1)..tip[m] \in SUBSET Slot
  BY <1>2, ReadIndexAssumption DEF IInv, TypeOK, Slot
<1>4. /\ known' \in [NodeID -> SUBSET Slot]
      /\ tip' \in [NodeID -> 0..MaxSlot]
      /\ durable' \in [NodeID -> SUBSET Slot]
      /\ \A k \in NodeID : durable[k] \subseteq durable'[k]
      /\ Prefix'
  BY <1>1, <1>3, InstallEffect
<1>5. TypeOK'
  BY <1>4 DEF IInv, TypeOK, ReadCatchUp
<1>6. AcksStored' /\ CompletedStored' /\ ReadsCovered'
  BY <1>4, StoredStays DEF ReadCatchUp
<1>7. QED
  BY <1>4, <1>5, <1>6 DEF IInv

\* A read that is over, or lost, no longer matters.
LEMMA ReadOver ==
    ASSUME IInv, NEW n \in NodeID, read' = [read EXCEPT ![n] = NoRead],
           \A m \in NodeID : durable[m] \subseteq durable'[m]
    PROVE  /\ ReadsCovered'
           /\ read' \in [NodeID -> ReadState]
<1>1. NoRead \in ReadState
  BY ReadIndexAssumption DEF NoRead, ReadState
<1>2. read'[n].phase = "idle"
  BY DEF IInv, TypeOK, NoRead
<1>3. \A Q \in Quorum : Q \subseteq NodeID
  BY DEF Quorum
<1>4. ASSUME NEW k \in NodeID, k # n
      PROVE  /\ read'[k].phase = "ask" => Covered(k)'
             /\ read'[k].phase = "apply" => read'[k].index >= read'[k].floor
  <2>1. read'[k] = read[k]
    BY <1>4 DEF IInv, TypeOK
  <2>2. QED
    BY <1>3, <2>1 DEF IInv, ReadsCovered, Covered, Stores
<1>5. QED
  BY <1>1, <1>2, <1>4 DEF IInv, TypeOK, ReadsCovered

\* A read's answer syncs more of the log and ends the read.
LEMMA ReadReturnInv == ASSUME IInv, NEW n \in NodeID, ReadReturn(n) PROVE IInv'
<1>1. read[n].index \in 0..MaxSlot
  BY DEF IInv, TypeOK, ReadState
<1>2. /\ durable' \in [NodeID -> SUBSET Slot]
      /\ applied' \in [NodeID -> 0..MaxSlot]
      /\ \A m \in NodeID : durable[m] \subseteq durable'[m]
      /\ UNCHANGED <<known, tip>>
      /\ Prefix'
  BY <1>1, ApplyEffect DEF IInv, ReadReturn
<1>3. /\ ReadsCovered'
      /\ read' \in [NodeID -> ReadState]
  BY <1>2, ReadOver DEF ReadReturn
<1>4. TypeOK'
  BY <1>2, <1>3 DEF IInv, TypeOK, ReadReturn, Max
<1>5. AcksStored' /\ CompletedStored'
  BY <1>2, StoredStays DEF ReadReturn
<1>6. QED
  BY <1>2, <1>3, <1>4, <1>5 DEF IInv

\* A read that fails is forgotten.
LEMMA FailReadInv == ASSUME IInv, NEW n \in NodeID, FailRead(n) PROVE IInv'
<1>1. /\ ReadsCovered'
      /\ read' \in [NodeID -> ReadState]
  BY ReadOver DEF FailRead, nodeVars
<1>2. TypeOK'
  BY <1>1 DEF IInv, TypeOK, FailRead, nodeVars
<1>3. Prefix'
  BY DEF IInv, Prefix, FailRead, nodeVars
<1>4. AcksStored' /\ CompletedStored'
  BY StoredStays DEF FailRead, nodeVars
<1>5. QED
  BY <1>1, <1>2, <1>3, <1>4 DEF IInv

\* Only what was never synced is lost.
LEMMA RestartInv == ASSUME IInv, NEW n \in NodeID, Restart(n) PROVE IInv'
<1>1. PICK kept \in SUBSET known[n], t \in 0..MaxSlot :
         /\ durable[n] \subseteq kept
         /\ known' = [known EXCEPT ![n] = kept]
         /\ durable' = [durable EXCEPT ![n] = kept]
         /\ 1..t \subseteq kept
         /\ t + 1 \notin kept
         /\ tip' = [tip EXCEPT ![n] = t]
  BY DEF Restart
<1>2. /\ known \in [NodeID -> SUBSET Slot]
      /\ durable \in [NodeID -> SUBSET Slot]
      /\ tip \in [NodeID -> 0..MaxSlot]
      /\ restarts \in Nat
      /\ write \in [NodeID -> [Slot -> WriteState]]
  BY DEF IInv, TypeOK
<1>3. kept \in SUBSET Slot
  BY <1>1, <1>2
<1>4. /\ known' \in [NodeID -> SUBSET Slot]
      /\ durable' \in [NodeID -> SUBSET Slot]
      /\ tip' \in [NodeID -> 0..MaxSlot]
  BY <1>1, <1>2, <1>3
<1>5. \A m \in NodeID : durable[m] \subseteq durable'[m]
  BY <1>1, <1>2
<1>6. /\ write' = [write EXCEPT ![n] = [s \in Slot |-> NoWrite]]
      /\ read' = [read EXCEPT ![n] = NoRead]
      /\ UNCHANGED <<started, sent, applied, completed, exposed>>
      /\ ready' = ready \ {n}
      /\ restarts' = restarts + 1
  BY DEF Restart
<1>7. /\ ReadsCovered'
      /\ read' \in [NodeID -> ReadState]
  BY <1>5, <1>6, ReadOver
<1>8. write' \in [NodeID -> [Slot -> WriteState]]
  BY <1>2, <1>6 DEF NoWrite, WriteState
<1>9. restarts' \in Nat
  BY <1>2, <1>6
<1>10. TypeOK'
  BY <1>4, <1>6, <1>7, <1>8, <1>9 DEF IInv, TypeOK
<1>11. Prefix'
  BY <1>1, <1>2 DEF IInv, Prefix
<1>12. AcksStored'
  <2>1. ASSUME NEW m \in NodeID, NEW s \in Slot, NEW k \in write'[m][s].acks, k # m
        PROVE  1..s \subseteq durable'[k]
    <3>1. m # n /\ write'[m] = write[m]
      BY <1>2, <1>6, <2>1 DEF NoWrite
    <3>2. k \in NodeID
      BY <1>2, <3>1 DEF WriteState
    <3>3. QED
      BY <1>5, <2>1, <3>1, <3>2 DEF IInv, AcksStored, Stores
  <2>2. QED
    BY <2>1 DEF AcksStored, Stores
<1>13. CompletedStored'
  BY <1>5, <1>6, StoredStays
<1>14. QED
  BY <1>7, <1>10, <1>11, <1>12, <1>13 DEF IInv

\* Catching up at start-up installs decisions as a read's catch-up does.
LEMMA StartupFetchInv == ASSUME IInv, NEW n \in NodeID, StartupFetch(n) PROVE IInv'
<1>1. PICK m \in NodeID : /\ Accept(n, (tip[n] + 1)..tip[m])
                          /\ Persist(n, (tip[n] + 1)..tip[m])
  BY DEF StartupFetch, Quorum
<1>2. (tip[n] + 1)..tip[m] \in SUBSET Slot
  BY <1>1, ReadIndexAssumption DEF IInv, TypeOK, Slot
<1>3. /\ known' \in [NodeID -> SUBSET Slot]
      /\ tip' \in [NodeID -> 0..MaxSlot]
      /\ durable' \in [NodeID -> SUBSET Slot]
      /\ \A k \in NodeID : durable[k] \subseteq durable'[k]
      /\ Prefix'
  BY <1>1, <1>2, InstallEffect
<1>4. TypeOK'
  BY <1>3 DEF IInv, TypeOK, StartupFetch
<1>5. AcksStored' /\ CompletedStored' /\ ReadsCovered'
  BY <1>3, StoredStays DEF StartupFetch
<1>6. QED
  BY <1>3, <1>4, <1>5 DEF IInv

\* Replaying the log at the end of start-up syncs it.
LEMMA BecomeReadyInv == ASSUME IInv, NEW n \in NodeID, BecomeReady(n) PROVE IInv'
<1>1. tip[n] \in 0..MaxSlot
  BY DEF IInv, TypeOK
<1>2. /\ durable' \in [NodeID -> SUBSET Slot]
      /\ applied' \in [NodeID -> 0..MaxSlot]
      /\ \A m \in NodeID : durable[m] \subseteq durable'[m]
      /\ UNCHANGED <<known, tip>>
      /\ Prefix'
  BY <1>1, ApplyEffect DEF IInv, BecomeReady
<1>3. TypeOK'
  BY <1>2 DEF IInv, TypeOK, BecomeReady
<1>4. AcksStored' /\ CompletedStored' /\ ReadsCovered'
  BY <1>2, StoredStays DEF BecomeReady
<1>5. QED
  BY <1>2, <1>3, <1>4 DEF IInv

-----------------------------------------------------------------------------
\* Every step of a write, a read or a start-up preserves the invariant.
LEMMA StepInv == ASSUME IInv, [Next]_vars PROVE IInv'
<1>1. CASE UNCHANGED vars
  <2>1. /\ UNCHANGED <<started, sent, known, durable, tip, applied>>
        /\ UNCHANGED <<ready, write, read, completed, exposed, restarts>>
    BY <1>1 DEF vars, nodeVars
  <2>2. TypeOK'
    BY <2>1 DEF IInv, TypeOK
  <2>3. Prefix'
    BY <2>1 DEF IInv, Prefix
  <2>4. AcksStored' /\ CompletedStored' /\ ReadsCovered'
    BY <2>1, StoredStays
  <2>5. QED
    BY <2>2, <2>3, <2>4 DEF IInv
<1>2. ASSUME NEW n \in NodeID, WriteStep(n) PROVE IInv'
  BY <1>2, ProposeInv, RecoverSlotInv, RunSlotInv, SendDecisionInv, LearnedInv,
     AcknowledgeInv, CompleteInv, FailWriteInv DEF WriteStep
<1>3. ASSUME NEW n \in NodeID, ReadStep(n) PROVE IInv'
  BY <1>3, ReadStartInv, ReadTipInv, ReadQuorumInv, ReadCatchUpInv, ReadReturnInv,
     FailReadInv DEF ReadStep
<1>4. ASSUME NEW n \in NodeID, StartStep(n) PROVE IInv'
  BY <1>4, RestartInv, StartupFetchInv, BecomeReadyInv DEF StartStep
<1>5. QED
  BY <1>1, <1>2, <1>3, <1>4 DEF Next

\* The inductive invariant holds throughout, and with it the type of the
\* state: tips never pass a gap, and every answered write stays on the disks
\* of a quorum across restarts (acceptDecision, EnsureDurable, completeDecision).
THEOREM Invariant == Spec => []IInv
<1>1. Init => IInv
  BY InitInv
<1>2. IInv /\ [Next]_vars => IInv'
  BY StepInv
<1>3. QED
  BY <1>1, <1>2, PTL DEF Spec

\* The state keeps its shape.
THEOREM TypeCorrect == Spec => []TypeOK
<1>1. IInv => TypeOK
  BY DEF IInv
<1>2. QED
  BY <1>1, Invariant, PTL

\* A linearizable read shows every write answered before it began: the index
\* that ReadIndex computes is never below such a write, and readBarrier
\* applies the log up to the index.
THEOREM ReadsSeeCompletedWrites == Spec => CompletedWriteVisible
<1>1. ASSUME IInv, NEW n \in NodeID, ReadReturn(n)
      PROVE  1..read[n].floor \subseteq Visible(n)'
  <2>1. /\ read[n].index \in 0..MaxSlot
        /\ read[n].floor \in 0..MaxSlot
        /\ tip[n] \in 0..MaxSlot
    BY <1>1 DEF IInv, TypeOK, ReadState
  <2>2. /\ applied'[n] >= read[n].index
        /\ applied' \in [NodeID -> 0..MaxSlot]
        /\ UNCHANGED <<known, tip>>
    BY <1>1, <2>1, ApplyEffect DEF IInv, ReadReturn
  <2>3. read[n].index >= read[n].floor /\ tip[n] >= read[n].index
    BY <1>1 DEF IInv, ReadsCovered, ReadReturn, ApplyThrough
  <2>4. 1..read[n].floor \subseteq 1..tip[n] /\ 1..read[n].floor \subseteq 1..applied'[n]
    BY <2>1, <2>2, <2>3
  <2>5. 1..tip[n] \subseteq known'[n]
    BY <1>1, <2>2 DEF IInv, Prefix
  <2>6. QED
    BY <2>4, <2>5 DEF Visible
<1>2. IInv /\ [Next]_vars =>
         [\A n \in NodeID : ReadReturn(n) => 1..read[n].floor \subseteq Visible(n)']_vars
  BY <1>1
<1>3. QED
  BY <1>2, Invariant, PTL DEF Spec, CompletedWriteVisible

-----------------------------------------------------------------------------
(* Start and catch-up *)

\* The checkpoint b is decided by the slot last at the latest.
SealedBy(b, last) == b = 0 \/ \E s \in SealSlots : s <= last /\ SealOf[s] = b

Phases == {"down", "loaded", "pinned", "based", "selected", "recovered", "replaying",
           "open", "refused"}

Numbers ==
  /\ headTip \in 0..LastSlot /\ matTip \in 0..LastSlot
  /\ headBase \in 0..LastSlot /\ currentTo \in 0..LastSlot
  /\ walBase \in 0..LastSlot /\ seen \in 0..LastSlot
  /\ phase \in Phases
Logs == (\A s \in walHas : s \in 1..LastSlot) /\ (\A s \in learned : s \in 1..LastSlot)

\* A restore and the pages of the workers are slots.
Pages ==
  /\ restore.base \in 0..LastSlot /\ restore.tip \in 0..LastSlot
  /\ restore.seal \in 0..LastSlot
  /\ DOMAIN job = Workers
  /\ \A w \in Workers : job[w].from \in Nat /\ job[w].to \in 0..LastSlot

Types == Numbers /\ Logs /\ Pages

\* The workers run on an open node only; a starting one only replays.
Control ==
  /\ \A w \in Workers : job[w].then # "rewrite"
  /\ phase \notin {"replaying", "open"} => job = Idle
  /\ phase = "replaying" =>
       /\ job["peers"].pc = "rest" /\ job["archive"].pc = "rest"
       /\ job["start"].pc \in {"replay", "log", "applyLogged", "open"}
       /\ job["start"].pc # "open" => job["start"].then = "open"

\* Bases, CURRENT and what is pinned of them are sealed in the archive.
ArchiveInv ==
  /\ SealedBy(headBase, headTip) /\ SealedBy(currentTo, headTip)
  /\ SealedBy(walBase, headTip) /\ SealedBy(seen, headTip)
  /\ restore.tip <= headTip /\ SealedBy(restore.base, restore.tip)
  /\ At("archive", "rewrite") => SealedBy(job["archive"].to, headTip)

\* What a start has selected.
StartInv ==
  /\ phase \in {"pinned", "based"} =>
       /\ SealedBy(seen, restore.tip) /\ SealedBy(walBase, restore.tip)
       /\ learned \subseteq walHas
  /\ phase \in {"selected", "recovered"} =>
       /\ restore.seal >= walBase
       /\ \A s \in (walBase + 1)..restore.seal : s \in walHas
  /\ phase \in {"selected", "recovered", "replaying"} =>
       \/ restore.seal = 0
       \/ \E s \in SealSlots : s > walBase /\ Certified(s) /\ SealOf[s] = restore.seal

\* The page a worker is about to log, or to apply.
PageInv ==
  \A w \in Workers :
    /\ At(w, "log") =>
         \A s \in job[w].from..job[w].to : s <= walBase \/ s \in learned
    /\ job[w].pc \in {"applyLogged", "applyFetched"} =>
         \A s \in job[w].from..job[w].to : s <= walBase \/ s \in walHas \/ s <= headTip

CatchUpInv == Types /\ Control /\ ArchiveInv /\ StartInv /\ PageInv /\ CatchUpSound

\* The constants, as the steps below need them.
LEMMA SlotTypes ==
  /\ LastSlot \in Nat
  /\ \A s \in SealSlots : s \in 1..LastSlot /\ SealOf[s] \in 1..LastSlot /\ SealOf[s] < s
BY CatchUpAssumption DEF CatchUpSlots

\* A checkpoint is below its seal, and what a slot seals stays sealed.
LEMMA SealedFacts ==
  /\ \A t \in Nat : SealedBy(0, t)
  /\ \A s \in SealSlots, t \in Nat : s <= t => SealedBy(SealOf[s], t)
  /\ \A b \in Nat, t, u \in Nat : SealedBy(b, t) /\ t <= u => SealedBy(b, u)
  /\ \A b \in Nat, t \in Nat : SealedBy(b, t) => b <= t
BY SlotTypes DEF SealedBy

\* A start selects a seal no older than CURRENT and its own base, and it has
\* the log up to there.
LEMMA SelectedSeal ==
  ASSUME Types, StartInv, phase = "based", ReachedTip(restore.tip),
         NEW i \in 0..LastSlot, LatestSeal(i)
  PROVE  /\ seen <= i /\ walBase <= i
         /\ i = 0 \/ \E s \in SealSlots : s > walBase /\ Certified(s) /\ SealOf[s] = i
         /\ \A s \in (walBase + 1)..i : s \in walHas
<1> USE SlotTypes DEF Types, Numbers, Logs, Pages
<1>1. PICK t \in 0..LastSlot : Certified(t) /\ t >= restore.tip
  BY DEF ReachedTip, TipIs
<1>2. \A s \in SealSlots : s > walBase /\ s <= t => Certified(s)
  BY <1>1 DEF Certified
<1>3. \A s \in SealSlots : s > walBase /\ s <= t => SealOf[s] <= i
  BY <1>2 DEF LatestSeal, KnownSeals
<1>4. SealedBy(seen, restore.tip) /\ SealedBy(walBase, restore.tip) /\ learned \subseteq walHas
  BY DEF StartInv
<1>5. walBase <= i
  BY <1>1, <1>3, <1>4 DEF SealedBy
<1>6. seen <= i
  <2>1. CASE seen = 0
    BY <2>1
  <2>2. CASE seen # 0
    <3>1. PICK s \in SealSlots : s <= restore.tip /\ SealOf[s] = seen
      BY <1>4, <2>2 DEF SealedBy
    <3>2. CASE s > walBase
      BY <1>1, <1>3, <3>1, <3>2
    <3>3. CASE s <= walBase
      BY <1>5, <3>1, <3>3
    <3>4. QED
      BY <3>2, <3>3
  <2>3. QED
    BY <2>1, <2>2
<1>7. i = 0 \/ \E s \in SealSlots : s > walBase /\ Certified(s) /\ SealOf[s] = i
  BY DEF LatestSeal, KnownSeals
<1>8. \A s \in (walBase + 1)..i : s \in walHas
  BY <1>4, <1>7 DEF Certified
<1>9. QED
  BY <1>5, <1>6, <1>7, <1>8

\* Slots stay slots.
LEMMA NumbersStep ==
  ASSUME Types, CatchUpNext
  PROVE  Numbers'
<1> USE SlotTypes DEF Types, Numbers, Logs, Pages, Phases, archiveVars, logVars,
    MaxOf, Workers, CatchUpSlots, Certified
<1>1. CASE LoadCurrent
  BY <1>1, SMT DEF LoadCurrent
<1>2. CASE PinHead
  BY <1>2, SMT DEF PinHead
<1>3. CASE StartBase
  BY <1>3, SMT DEF StartBase, InstallBase, TipIs
<1>4. CASE StartSuffix
  BY <1>4, SMT DEF StartSuffix, AcceptArchived, AcceptCertifiedValues, TipIs
<1>5. CASE SelectSeal
  BY <1>5, SMT DEF SelectSeal, CurrentSeen
<1>6. CASE RecoverLog
  BY <1>6, SMT DEF RecoverLog
<1>7. CASE StartDatabase
  BY <1>7, SMT DEF StartDatabase
<1>8. CASE FinishOpen
  BY <1>8, SMT DEF FinishOpen, TipIs
<1>9. ASSUME NEW w \in Workers, ReadPage(w) PROVE Numbers'
  BY <1>9, SMT DEF ReadPage, TipIs
<1>10. ASSUME NEW w \in Workers, LogPage(w) PROVE Numbers'
  BY <1>10, SMT DEF LogPage
<1>11. ASSUME NEW w \in Workers, ApplyPage(w) PROVE Numbers'
  BY <1>11, SMT DEF ApplyPage
<1>12. ASSUME NEW w \in Workers, BeginRestore(w) PROVE Numbers'
  BY <1>12, SMT DEF BeginRestore
<1>13. ASSUME NEW w \in Workers, RestoreBase(w) PROVE Numbers'
  BY <1>13, SMT DEF RestoreBase, InstallBase, TipIs
<1>14. ASSUME NEW w \in Workers, CheckDatabase(w) PROVE Numbers'
  BY <1>14, SMT DEF CheckDatabase
<1>15. ASSUME NEW w \in Workers, InstallDatabase(w) PROVE Numbers'
  BY <1>15, SMT DEF InstallDatabase
<1>16. ASSUME NEW w \in Workers, RestoreSuffix(w) PROVE Numbers'
  BY <1>16, SMT DEF RestoreSuffix, AcceptArchived, AcceptCertifiedValues, TipIs
<1>17. ASSUME NEW w \in Workers, Restored(w) PROVE Numbers'
  BY <1>17, SMT DEF Restored
<1>18. ASSUME NEW w \in Workers, WorkFails(w) PROVE Numbers'
  BY <1>18, SMT DEF WorkFails
<1>19. CASE ExpirePin
  BY <1>19, SMT DEF ExpirePin
<1>20. CASE StartRound
  BY <1>20, SMT DEF StartRound
<1>21. CASE FetchDecisions
  BY <1>21, SMT DEF FetchDecisions
<1>22. CASE AcceptPage
  BY <1>22, SMT DEF AcceptPage, AcceptCertifiedValues
<1>23. CASE ArchiveTick
  BY <1>23, SMT DEF ArchiveTick, TipIs
<1>24. CASE CatchUpArchive
  BY <1>24, SMT DEF CatchUpArchive, AcceptArchived, AcceptCertifiedValues, TipIs
<1>25. CASE SyncArchive
  BY <1>25, SMT DEF SyncArchive, TipIs
<1>26. CASE TrimArchive
  BY <1>26, SMT DEF TrimArchive
<1>27. CASE CompactWal
  BY <1>27, SMT DEF CompactWal
<1>28. CASE LearnHint
  BY <1>28, SMT DEF LearnHint
<1>29. CASE ApplyDecisions
  BY <1>29, SMT DEF ApplyDecisions
<1>30. CASE WakeCatchUp
  BY <1>30, SMT DEF WakeCatchUp
<1>31. CASE BackgroundSync
  BY <1>31, SMT DEF BackgroundSync
<1>32. CASE OtherVoters
  BY <1>32, SMT DEF OtherVoters
<1>33. CASE NodeCrash
  BY <1>33, SMT DEF NodeCrash, StopNode
<1>34. CASE Shutdown
  BY <1>34, SMT DEF Shutdown, StopNode, TipIs
<1>35. QED
  BY <1>1, <1>2, <1>3, <1>4, <1>5, <1>6, <1>7, <1>8, <1>9, <1>10, <1>11, <1>12,
      <1>13, <1>14, <1>15, <1>16, <1>17, <1>18, <1>19, <1>20, <1>21, <1>22, <1>23,
      <1>24, <1>25, <1>26, <1>27, <1>28, <1>29, <1>30, <1>31, <1>32, <1>33, <1>34
      DEF CatchUpNext

\* The log has slots.
LEMMA LogsStep ==
  ASSUME Types, CatchUpNext
  PROVE  Logs'
<1> USE SlotTypes DEF Types, Numbers, Logs, Pages, archiveVars, logVars, Workers,
    CatchUpSlots
<1>1. CASE LoadCurrent
  BY <1>1, SMT DEF LoadCurrent
<1>2. CASE PinHead
  BY <1>2, SMT DEF PinHead
<1>3. CASE StartBase
  BY <1>3, SMT DEF StartBase, InstallBase, TipIs
<1>4. CASE StartSuffix
  BY <1>4, SMT DEF StartSuffix, AcceptArchived, AcceptCertifiedValues, TipIs
<1>5. CASE SelectSeal
  BY <1>5, SMT DEF SelectSeal, CurrentSeen
<1>6. CASE RecoverLog
  BY <1>6, SMT DEF RecoverLog
<1>7. CASE StartDatabase
  BY <1>7, SMT DEF StartDatabase
<1>8. CASE FinishOpen
  BY <1>8, SMT DEF FinishOpen, TipIs
<1>9. ASSUME NEW w \in Workers, ReadPage(w) PROVE Logs'
  BY <1>9, SMT DEF ReadPage, TipIs
<1>10. ASSUME NEW w \in Workers, LogPage(w) PROVE Logs'
  BY <1>10, SMT DEF LogPage
<1>11. ASSUME NEW w \in Workers, ApplyPage(w) PROVE Logs'
  BY <1>11, SMT DEF ApplyPage
<1>12. ASSUME NEW w \in Workers, BeginRestore(w) PROVE Logs'
  BY <1>12, SMT DEF BeginRestore
<1>13. ASSUME NEW w \in Workers, RestoreBase(w) PROVE Logs'
  BY <1>13, SMT DEF RestoreBase, InstallBase, TipIs
<1>14. ASSUME NEW w \in Workers, CheckDatabase(w) PROVE Logs'
  BY <1>14, SMT DEF CheckDatabase
<1>15. ASSUME NEW w \in Workers, InstallDatabase(w) PROVE Logs'
  BY <1>15, SMT DEF InstallDatabase
<1>16. ASSUME NEW w \in Workers, RestoreSuffix(w) PROVE Logs'
  BY <1>16, SMT DEF RestoreSuffix, AcceptArchived, AcceptCertifiedValues, TipIs
<1>17. ASSUME NEW w \in Workers, Restored(w) PROVE Logs'
  BY <1>17, SMT DEF Restored
<1>18. ASSUME NEW w \in Workers, WorkFails(w) PROVE Logs'
  BY <1>18, SMT DEF WorkFails
<1>19. CASE ExpirePin
  BY <1>19, SMT DEF ExpirePin
<1>20. CASE StartRound
  BY <1>20, SMT DEF StartRound
<1>21. CASE FetchDecisions
  BY <1>21, SMT DEF FetchDecisions
<1>22. CASE AcceptPage
  BY <1>22, SMT DEF AcceptPage, AcceptCertifiedValues
<1>23. CASE ArchiveTick
  BY <1>23, SMT DEF ArchiveTick, TipIs
<1>24. CASE CatchUpArchive
  BY <1>24, SMT DEF CatchUpArchive, AcceptArchived, AcceptCertifiedValues, TipIs
<1>25. CASE SyncArchive
  BY <1>25, SMT DEF SyncArchive, TipIs
<1>26. CASE TrimArchive
  BY <1>26, SMT DEF TrimArchive
<1>27. CASE CompactWal
  BY <1>27, SMT DEF CompactWal
<1>28. CASE LearnHint
  BY <1>28, SMT DEF LearnHint
<1>29. CASE ApplyDecisions
  BY <1>29, SMT DEF ApplyDecisions
<1>30. CASE WakeCatchUp
  BY <1>30, SMT DEF WakeCatchUp
<1>31. CASE BackgroundSync
  BY <1>31, SMT DEF BackgroundSync
<1>32. CASE OtherVoters
  BY <1>32, SMT DEF OtherVoters
<1>33. CASE NodeCrash
  BY <1>33, SMT DEF NodeCrash, StopNode
<1>34. CASE Shutdown
  BY <1>34, SMT DEF Shutdown, StopNode, TipIs
<1>35. QED
  BY <1>1, <1>2, <1>3, <1>4, <1>5, <1>6, <1>7, <1>8, <1>9, <1>10, <1>11, <1>12,
      <1>13, <1>14, <1>15, <1>16, <1>17, <1>18, <1>19, <1>20, <1>21, <1>22, <1>23,
      <1>24, <1>25, <1>26, <1>27, <1>28, <1>29, <1>30, <1>31, <1>32, <1>33, <1>34
      DEF CatchUpNext

\* A restore and a worker work on slots.
LEMMA PagesStep ==
  ASSUME Types, CatchUpNext
  PROVE  Pages'
<1> USE SlotTypes DEF Types, Numbers, Logs, Pages, catchUpVars, archiveVars,
    logVars, At, Do, Step, Resting, Idle, Pinned, NoRestore, MaxOf, Workers,
    CatchUpSlots
<1>1. CASE LoadCurrent
  BY <1>1, SMT DEF LoadCurrent
<1>2. CASE PinHead
  BY <1>2, SMT DEF PinHead
<1>3. CASE StartBase
  BY <1>3, SMT DEF StartBase, InstallBase, TipIs
<1>4. CASE StartSuffix
  BY <1>4, SMT DEF StartSuffix, AcceptArchived, AcceptCertifiedValues, TipIs
<1>5. CASE SelectSeal
  BY <1>5, SMT DEF SelectSeal, CurrentSeen
<1>6. CASE RecoverLog
  BY <1>6, SMT DEF RecoverLog
<1>7. CASE StartDatabase
  BY <1>7, SMT DEF StartDatabase
<1>8. CASE FinishOpen
  BY <1>8, SMT DEF FinishOpen, TipIs
<1>9. ASSUME NEW w \in Workers, ReadPage(w) PROVE Pages'
  BY <1>9, SMT DEF ReadPage, TipIs
<1>10. ASSUME NEW w \in Workers, LogPage(w) PROVE Pages'
  BY <1>10, SMT DEF LogPage
<1>11. ASSUME NEW w \in Workers, ApplyPage(w) PROVE Pages'
  BY <1>11, SMT DEF ApplyPage
<1>12. ASSUME NEW w \in Workers, BeginRestore(w) PROVE Pages'
  BY <1>12, SMT DEF BeginRestore
<1>13. ASSUME NEW w \in Workers, RestoreBase(w) PROVE Pages'
  BY <1>13, SMT DEF RestoreBase, InstallBase, TipIs
<1>14. ASSUME NEW w \in Workers, CheckDatabase(w) PROVE Pages'
  BY <1>14, SMT DEF CheckDatabase
<1>15. ASSUME NEW w \in Workers, InstallDatabase(w) PROVE Pages'
  BY <1>15, SMT DEF InstallDatabase
<1>16. ASSUME NEW w \in Workers, RestoreSuffix(w) PROVE Pages'
  BY <1>16, SMT DEF RestoreSuffix, AcceptArchived, AcceptCertifiedValues, TipIs
<1>17. ASSUME NEW w \in Workers, Restored(w) PROVE Pages'
  BY <1>17, SMT DEF Restored
<1>18. ASSUME NEW w \in Workers, WorkFails(w) PROVE Pages'
  BY <1>18, SMT DEF WorkFails
<1>19. CASE ExpirePin
  BY <1>19, SMT DEF ExpirePin
<1>20. CASE StartRound
  BY <1>20, SMT DEF StartRound
<1>21. CASE FetchDecisions
  BY <1>21, SMT DEF FetchDecisions
<1>22. CASE AcceptPage
  BY <1>22, SMT DEF AcceptPage, AcceptCertifiedValues
<1>23. CASE ArchiveTick
  BY <1>23, SMT DEF ArchiveTick, TipIs
<1>24. CASE CatchUpArchive
  BY <1>24, SMT DEF CatchUpArchive, AcceptArchived, AcceptCertifiedValues, TipIs
<1>25. CASE SyncArchive
  BY <1>25, SMT DEF SyncArchive, TipIs
<1>26. CASE TrimArchive
  BY <1>26, SMT DEF TrimArchive
<1>27. CASE CompactWal
  BY <1>27, SMT DEF CompactWal
<1>28. CASE LearnHint
  BY <1>28, SMT DEF LearnHint
<1>29. CASE ApplyDecisions
  BY <1>29, SMT DEF ApplyDecisions
<1>30. CASE WakeCatchUp
  BY <1>30, SMT DEF WakeCatchUp
<1>31. CASE BackgroundSync
  BY <1>31, SMT DEF BackgroundSync
<1>32. CASE OtherVoters
  BY <1>32, SMT DEF OtherVoters
<1>33. CASE NodeCrash
  BY <1>33, SMT DEF NodeCrash, StopNode
<1>34. CASE Shutdown
  BY <1>34, SMT DEF Shutdown, StopNode, TipIs
<1>35. QED
  BY <1>1, <1>2, <1>3, <1>4, <1>5, <1>6, <1>7, <1>8, <1>9, <1>10, <1>11, <1>12,
      <1>13, <1>14, <1>15, <1>16, <1>17, <1>18, <1>19, <1>20, <1>21, <1>22, <1>23,
      <1>24, <1>25, <1>26, <1>27, <1>28, <1>29, <1>30, <1>31, <1>32, <1>33, <1>34
      DEF CatchUpNext

\* Each step keeps to the control of the start and of the workers.
LEMMA ControlStep ==
  ASSUME Types, Control, CatchUpNext
  PROVE  Control'
<1> USE DEF Types, Numbers, Logs, Pages, Phases, Control, catchUpVars, archiveVars,
    logVars, At, Do, Step, Resting, Idle, Pinned, NoRestore, MaxOf, Workers,
    CatchUpSlots
<1>1. CASE LoadCurrent
  BY <1>1, SMT DEF LoadCurrent
<1>2. CASE PinHead
  BY <1>2, SMT DEF PinHead
<1>3. CASE StartBase
  BY <1>3, SMT DEF StartBase, InstallBase, TipIs
<1>4. CASE StartSuffix
  BY <1>4, SMT DEF StartSuffix, AcceptArchived, AcceptCertifiedValues, TipIs
<1>5. CASE SelectSeal
  BY <1>5, SMT DEF SelectSeal, CurrentSeen
<1>6. CASE RecoverLog
  BY <1>6, SMT DEF RecoverLog
<1>7. CASE StartDatabase
  BY <1>7, SMT DEF StartDatabase
<1>8. CASE FinishOpen
  BY <1>8, SMT DEF FinishOpen, TipIs
<1>9. ASSUME NEW w \in Workers, ReadPage(w) PROVE Control'
  BY <1>9, SMT DEF ReadPage, TipIs
<1>10. ASSUME NEW w \in Workers, LogPage(w) PROVE Control'
  BY <1>10, SMT DEF LogPage
<1>11. ASSUME NEW w \in Workers, ApplyPage(w) PROVE Control'
  BY <1>11, SMT DEF ApplyPage
<1>12. ASSUME NEW w \in Workers, BeginRestore(w) PROVE Control'
  BY <1>12, SMT DEF BeginRestore
<1>13. ASSUME NEW w \in Workers, RestoreBase(w) PROVE Control'
  BY <1>13, SMT DEF RestoreBase, InstallBase, TipIs
<1>14. ASSUME NEW w \in Workers, CheckDatabase(w) PROVE Control'
  BY <1>14, SMT DEF CheckDatabase
<1>15. ASSUME NEW w \in Workers, InstallDatabase(w) PROVE Control'
  BY <1>15, SMT DEF InstallDatabase
<1>16. ASSUME NEW w \in Workers, RestoreSuffix(w) PROVE Control'
  BY <1>16, SMT DEF RestoreSuffix, AcceptArchived, AcceptCertifiedValues, TipIs
<1>17. ASSUME NEW w \in Workers, Restored(w) PROVE Control'
  BY <1>17, SMT DEF Restored
<1>18. ASSUME NEW w \in Workers, WorkFails(w) PROVE Control'
  BY <1>18, SMT DEF WorkFails
<1>19. CASE ExpirePin
  BY <1>19, SMT DEF ExpirePin
<1>20. CASE StartRound
  BY <1>20, SMT DEF StartRound
<1>21. CASE FetchDecisions
  BY <1>21, SMT DEF FetchDecisions
<1>22. CASE AcceptPage
  BY <1>22, SMT DEF AcceptPage, AcceptCertifiedValues
<1>23. CASE ArchiveTick
  BY <1>23, SMT DEF ArchiveTick, TipIs
<1>24. CASE CatchUpArchive
  BY <1>24, SMT DEF CatchUpArchive, AcceptArchived, AcceptCertifiedValues, TipIs
<1>25. CASE SyncArchive
  BY <1>25, SMT DEF SyncArchive, TipIs
<1>26. CASE TrimArchive
  BY <1>26, SMT DEF TrimArchive
<1>27. CASE CompactWal
  BY <1>27, SMT DEF CompactWal
<1>28. CASE LearnHint
  BY <1>28, SMT DEF LearnHint
<1>29. CASE ApplyDecisions
  BY <1>29, SMT DEF ApplyDecisions
<1>30. CASE WakeCatchUp
  BY <1>30, SMT DEF WakeCatchUp
<1>31. CASE BackgroundSync
  BY <1>31, SMT DEF BackgroundSync
<1>32. CASE OtherVoters
  BY <1>32, SMT DEF OtherVoters
<1>33. CASE NodeCrash
  BY <1>33, SMT DEF NodeCrash, StopNode
<1>34. CASE Shutdown
  BY <1>34, SMT DEF Shutdown, StopNode, TipIs
<1>35. QED
  BY <1>1, <1>2, <1>3, <1>4, <1>5, <1>6, <1>7, <1>8, <1>9, <1>10, <1>11, <1>12,
      <1>13, <1>14, <1>15, <1>16, <1>17, <1>18, <1>19, <1>20, <1>21, <1>22, <1>23,
      <1>24, <1>25, <1>26, <1>27, <1>28, <1>29, <1>30, <1>31, <1>32, <1>33, <1>34
      DEF CatchUpNext

\* A base and CURRENT move only to checkpoints that are sealed in the archive.
LEMMA ArchiveStep ==
  ASSUME Types, Control, ArchiveInv, StartInv, CatchUpNext
  PROVE  ArchiveInv'
<1> USE SlotTypes, SealedFacts DEF Types, Numbers, Logs, Pages, Phases, Control,
    ArchiveInv, StartInv, SealSlots, catchUpVars, archiveVars, logVars, At, Do,
    Step, Resting, Idle, Pinned, NoRestore, MaxOf, Workers, CatchUpSlots
<1>1. CASE LoadCurrent
  BY <1>1, SMT DEF LoadCurrent
<1>2. CASE PinHead
  BY <1>2, SMT DEF PinHead
<1>3. CASE StartBase
  BY <1>3, SMT DEF StartBase, InstallBase, TipIs
<1>4. CASE StartSuffix
  BY <1>4, SMT DEF StartSuffix, AcceptArchived, AcceptCertifiedValues, TipIs
<1>5. CASE SelectSeal
  BY <1>5, SMT DEF SelectSeal, CurrentSeen
<1>6. CASE RecoverLog
  BY <1>6, SMT DEF RecoverLog
<1>7. CASE StartDatabase
  BY <1>7, SMT DEF StartDatabase
<1>8. CASE FinishOpen
  <2>1. PICK t \in 0..LastSlot :
          /\ Certified(t) /\ (t + 1) \notin learned
          /\ IF restore.seal = 0 THEN UNCHANGED archiveVars
             ELSE headTip' = MaxOf(headTip, t) /\ currentTo' = MaxOf(currentTo, restore.seal)
                    /\ UNCHANGED headBase
    BY <1>8 DEF FinishOpen, TipIs
  <2>2. SealedBy(restore.seal, t)
    <3>1. ASSUME NEW s \in SealSlots, s > walBase, Certified(s) PROVE s <= t
      BY <2>1, <3>1 DEF Certified
    <3>2. QED
      BY <1>8, <3>1 DEF FinishOpen
  <2>3. /\ SealedBy(headBase', headTip') /\ SealedBy(currentTo', headTip')
        /\ headTip <= headTip' /\ headTip' \in Nat
    BY <2>1, <2>2
  <2>4. QED
    BY <1>8, <2>3, SMT DEF FinishOpen
<1>9. ASSUME NEW w \in Workers, ReadPage(w) PROVE ArchiveInv'
  BY <1>9, SMT DEF ReadPage, TipIs
<1>10. ASSUME NEW w \in Workers, LogPage(w) PROVE ArchiveInv'
  BY <1>10, SMT DEF LogPage
<1>11. ASSUME NEW w \in Workers, ApplyPage(w) PROVE ArchiveInv'
  BY <1>11, SMT DEF ApplyPage
<1>12. ASSUME NEW w \in Workers, BeginRestore(w) PROVE ArchiveInv'
  BY <1>12, SMT DEF BeginRestore
<1>13. ASSUME NEW w \in Workers, RestoreBase(w) PROVE ArchiveInv'
  BY <1>13, SMT DEF RestoreBase, InstallBase, TipIs
<1>14. ASSUME NEW w \in Workers, CheckDatabase(w) PROVE ArchiveInv'
  BY <1>14, SMT DEF CheckDatabase
<1>15. ASSUME NEW w \in Workers, InstallDatabase(w) PROVE ArchiveInv'
  BY <1>15, SMT DEF InstallDatabase
<1>16. ASSUME NEW w \in Workers, RestoreSuffix(w) PROVE ArchiveInv'
  BY <1>16, SMT DEF RestoreSuffix, AcceptArchived, AcceptCertifiedValues, TipIs
<1>17. ASSUME NEW w \in Workers, Restored(w) PROVE ArchiveInv'
  BY <1>17, SMT DEF Restored
<1>18. ASSUME NEW w \in Workers, WorkFails(w) PROVE ArchiveInv'
  BY <1>18, SMT DEF WorkFails
<1>19. CASE ExpirePin
  BY <1>19, SMT DEF ExpirePin
<1>20. CASE StartRound
  BY <1>20, SMT DEF StartRound
<1>21. CASE FetchDecisions
  BY <1>21, SMT DEF FetchDecisions
<1>22. CASE AcceptPage
  BY <1>22, SMT DEF AcceptPage, AcceptCertifiedValues
<1>23. CASE ArchiveTick
  BY <1>23, SMT DEF ArchiveTick, TipIs
<1>24. CASE CatchUpArchive
  BY <1>24, SMT DEF CatchUpArchive, AcceptArchived, AcceptCertifiedValues, TipIs
<1>25. CASE SyncArchive
  BY <1>25, SMT DEF SyncArchive, TipIs
<1>26. CASE TrimArchive
  BY <1>26, SMT DEF TrimArchive
<1>27. CASE CompactWal
  BY <1>27, SMT DEF CompactWal
<1>28. CASE LearnHint
  BY <1>28, SMT DEF LearnHint
<1>29. CASE ApplyDecisions
  BY <1>29, SMT DEF ApplyDecisions
<1>30. CASE WakeCatchUp
  BY <1>30, SMT DEF WakeCatchUp
<1>31. CASE BackgroundSync
  BY <1>31, SMT DEF BackgroundSync
<1>32. CASE OtherVoters
  BY <1>32, SMT DEF OtherVoters
<1>33. CASE NodeCrash
  BY <1>33, SMT DEF NodeCrash, StopNode
<1>34. CASE Shutdown
  BY <1>34, SMT DEF Shutdown, StopNode, TipIs
<1>35. QED
  BY <1>1, <1>2, <1>3, <1>4, <1>5, <1>6, <1>7, <1>8, <1>9, <1>10, <1>11, <1>12,
      <1>13, <1>14, <1>15, <1>16, <1>17, <1>18, <1>19, <1>20, <1>21, <1>22, <1>23,
      <1>24, <1>25, <1>26, <1>27, <1>28, <1>29, <1>30, <1>31, <1>32, <1>33, <1>34
      DEF CatchUpNext

\* A start keeps what it has selected.
LEMMA StartingStep ==
  ASSUME Types, Control, ArchiveInv, StartInv, CatchUpNext
  PROVE  StartInv'
<1> USE SlotTypes, SealedFacts DEF Types, Numbers, Logs, Pages, Phases, Control,
    ArchiveInv, StartInv, SealSlots, catchUpVars, archiveVars, logVars, At, Do,
    Step, Resting, Idle, Pinned, NoRestore, MaxOf, Workers, CatchUpSlots, Certified
<1>1. CASE LoadCurrent
  BY <1>1, SMT DEF LoadCurrent
<1>2. CASE PinHead
  BY <1>2, SMT DEF PinHead
<1>3. CASE StartBase
  BY <1>3, SMT DEF StartBase, InstallBase, TipIs
<1>4. CASE StartSuffix
  BY <1>4, SMT DEF StartSuffix, AcceptArchived, AcceptCertifiedValues, TipIs
<1>5. CASE SelectSeal
  BY <1>5, SelectedSeal, SMT DEF SelectSeal, CurrentSeen
<1>6. CASE RecoverLog
  BY <1>6, SMT DEF RecoverLog
<1>7. CASE StartDatabase
  BY <1>7, SMT DEF StartDatabase
<1>8. CASE FinishOpen
  BY <1>8, SMT DEF FinishOpen, TipIs
<1>9. ASSUME NEW w \in Workers, ReadPage(w) PROVE StartInv'
  BY <1>9, SMT DEF ReadPage, TipIs
<1>10. ASSUME NEW w \in Workers, LogPage(w) PROVE StartInv'
  BY <1>10, SMT DEF LogPage
<1>11. ASSUME NEW w \in Workers, ApplyPage(w) PROVE StartInv'
  BY <1>11, SMT DEF ApplyPage
<1>12. ASSUME NEW w \in Workers, BeginRestore(w) PROVE StartInv'
  BY <1>12, SMT DEF BeginRestore
<1>13. ASSUME NEW w \in Workers, RestoreBase(w) PROVE StartInv'
  BY <1>13, SMT DEF RestoreBase, InstallBase, TipIs
<1>14. ASSUME NEW w \in Workers, CheckDatabase(w) PROVE StartInv'
  BY <1>14, SMT DEF CheckDatabase
<1>15. ASSUME NEW w \in Workers, InstallDatabase(w) PROVE StartInv'
  BY <1>15, SMT DEF InstallDatabase
<1>16. ASSUME NEW w \in Workers, RestoreSuffix(w) PROVE StartInv'
  BY <1>16, SMT DEF RestoreSuffix, AcceptArchived, AcceptCertifiedValues, TipIs
<1>17. ASSUME NEW w \in Workers, Restored(w) PROVE StartInv'
  BY <1>17, SMT DEF Restored
<1>18. ASSUME NEW w \in Workers, WorkFails(w) PROVE StartInv'
  BY <1>18, SMT DEF WorkFails
<1>19. CASE ExpirePin
  BY <1>19, SMT DEF ExpirePin
<1>20. CASE StartRound
  BY <1>20, SMT DEF StartRound
<1>21. CASE FetchDecisions
  BY <1>21, SMT DEF FetchDecisions
<1>22. CASE AcceptPage
  BY <1>22, SMT DEF AcceptPage, AcceptCertifiedValues
<1>23. CASE ArchiveTick
  BY <1>23, SMT DEF ArchiveTick, TipIs
<1>24. CASE CatchUpArchive
  BY <1>24, SMT DEF CatchUpArchive, AcceptArchived, AcceptCertifiedValues, TipIs
<1>25. CASE SyncArchive
  BY <1>25, SMT DEF SyncArchive, TipIs
<1>26. CASE TrimArchive
  BY <1>26, SMT DEF TrimArchive
<1>27. CASE CompactWal
  BY <1>27, SMT DEF CompactWal
<1>28. CASE LearnHint
  BY <1>28, SMT DEF LearnHint
<1>29. CASE ApplyDecisions
  BY <1>29, SMT DEF ApplyDecisions
<1>30. CASE WakeCatchUp
  BY <1>30, SMT DEF WakeCatchUp
<1>31. CASE BackgroundSync
  BY <1>31, SMT DEF BackgroundSync
<1>32. CASE OtherVoters
  BY <1>32, SMT DEF OtherVoters
<1>33. CASE NodeCrash
  BY <1>33, SMT DEF NodeCrash, StopNode
<1>34. CASE Shutdown
  BY <1>34, SMT DEF Shutdown, StopNode, TipIs
<1>35. QED
  BY <1>1, <1>2, <1>3, <1>4, <1>5, <1>6, <1>7, <1>8, <1>9, <1>10, <1>11, <1>12,
      <1>13, <1>14, <1>15, <1>16, <1>17, <1>18, <1>19, <1>20, <1>21, <1>22, <1>23,
      <1>24, <1>25, <1>26, <1>27, <1>28, <1>29, <1>30, <1>31, <1>32, <1>33, <1>34
      DEF CatchUpNext

\* A page stays certified until it is logged, and logged until it is applied.
LEMMA PageStep ==
  ASSUME Types, Control, PageInv, CatchUpNext
  PROVE  PageInv'
<1> USE SlotTypes DEF Types, Numbers, Logs, Pages, Phases, Control, PageInv,
    catchUpVars, archiveVars, logVars, At, Do, Step, Resting, Idle, Pinned,
    NoRestore, MaxOf, Workers, CatchUpSlots, Certified
<1>1. CASE LoadCurrent
  BY <1>1, SMT DEF LoadCurrent
<1>2. CASE PinHead
  BY <1>2, SMT DEF PinHead
<1>3. CASE StartBase
  BY <1>3, SMT DEF StartBase, InstallBase, TipIs
<1>4. CASE StartSuffix
  BY <1>4, SMT DEF StartSuffix, AcceptArchived, AcceptCertifiedValues, TipIs
<1>5. CASE SelectSeal
  BY <1>5, SMT DEF SelectSeal, CurrentSeen
<1>6. CASE RecoverLog
  BY <1>6, SMT DEF RecoverLog
<1>7. CASE StartDatabase
  BY <1>7, SMT DEF StartDatabase
<1>8. CASE FinishOpen
  BY <1>8, SMT DEF FinishOpen, TipIs
<1>9. ASSUME NEW w \in Workers, ReadPage(w) PROVE PageInv'
  BY <1>9, SMT DEF ReadPage, TipIs
<1>10. ASSUME NEW w \in Workers, LogPage(w) PROVE PageInv'
  BY <1>10, SMT DEF LogPage
<1>11. ASSUME NEW w \in Workers, ApplyPage(w) PROVE PageInv'
  BY <1>11, SMT DEF ApplyPage
<1>12. ASSUME NEW w \in Workers, BeginRestore(w) PROVE PageInv'
  BY <1>12, SMT DEF BeginRestore
<1>13. ASSUME NEW w \in Workers, RestoreBase(w) PROVE PageInv'
  BY <1>13, SMT DEF RestoreBase, InstallBase, TipIs
<1>14. ASSUME NEW w \in Workers, CheckDatabase(w) PROVE PageInv'
  BY <1>14, SMT DEF CheckDatabase
<1>15. ASSUME NEW w \in Workers, InstallDatabase(w) PROVE PageInv'
  BY <1>15, SMT DEF InstallDatabase
<1>16. ASSUME NEW w \in Workers, RestoreSuffix(w) PROVE PageInv'
  BY <1>16, SMT DEF RestoreSuffix, AcceptArchived, AcceptCertifiedValues, TipIs
<1>17. ASSUME NEW w \in Workers, Restored(w) PROVE PageInv'
  BY <1>17, SMT DEF Restored
<1>18. ASSUME NEW w \in Workers, WorkFails(w) PROVE PageInv'
  BY <1>18, SMT DEF WorkFails
<1>19. CASE ExpirePin
  BY <1>19, SMT DEF ExpirePin
<1>20. CASE StartRound
  BY <1>20, SMT DEF StartRound
<1>21. CASE FetchDecisions
  BY <1>21, SMT DEF FetchDecisions
<1>22. CASE AcceptPage
  BY <1>22, SMT DEF AcceptPage, AcceptCertifiedValues
<1>23. CASE ArchiveTick
  BY <1>23, SMT DEF ArchiveTick, TipIs
<1>24. CASE CatchUpArchive
  BY <1>24, SMT DEF CatchUpArchive, AcceptArchived, AcceptCertifiedValues, TipIs
<1>25. CASE SyncArchive
  BY <1>25, SMT DEF SyncArchive, TipIs
<1>26. CASE TrimArchive
  BY <1>26, SMT DEF TrimArchive
<1>27. CASE CompactWal
  BY <1>27, SMT DEF CompactWal
<1>28. CASE LearnHint
  BY <1>28, SMT DEF LearnHint
<1>29. CASE ApplyDecisions
  BY <1>29, SMT DEF ApplyDecisions
<1>30. CASE WakeCatchUp
  BY <1>30, SMT DEF WakeCatchUp
<1>31. CASE BackgroundSync
  BY <1>31, SMT DEF BackgroundSync
<1>32. CASE OtherVoters
  BY <1>32, SMT DEF OtherVoters
<1>33. CASE NodeCrash
  BY <1>33, SMT DEF NodeCrash, StopNode
<1>34. CASE Shutdown
  BY <1>34, SMT DEF Shutdown, StopNode, TipIs
<1>35. QED
  BY <1>1, <1>2, <1>3, <1>4, <1>5, <1>6, <1>7, <1>8, <1>9, <1>10, <1>11, <1>12,
      <1>13, <1>14, <1>15, <1>16, <1>17, <1>18, <1>19, <1>20, <1>21, <1>22, <1>23,
      <1>24, <1>25, <1>26, <1>27, <1>28, <1>29, <1>30, <1>31, <1>32, <1>33, <1>34
      DEF CatchUpNext

\* Only what is logged or archived is applied.
LEMMA LoggedStep ==
  ASSUME Types, Control, ArchiveInv, StartInv, PageInv, AppliedIsLogged, CatchUpNext
  PROVE  AppliedIsLogged'
<1> USE SlotTypes, SealedFacts DEF Types, Numbers, Logs, Pages, Phases, Control,
    ArchiveInv, StartInv, PageInv, AppliedIsLogged, catchUpVars, archiveVars,
    logVars, At, Do, Step, Resting, Idle, Pinned, NoRestore, MaxOf, Workers,
    CatchUpSlots, Certified
<1>1. CASE LoadCurrent
  BY <1>1, SMT DEF LoadCurrent
<1>2. CASE PinHead
  BY <1>2, SMT DEF PinHead
<1>3. CASE StartBase
  BY <1>3, SMT DEF StartBase, InstallBase, TipIs
<1>4. CASE StartSuffix
  BY <1>4, SMT DEF StartSuffix, AcceptArchived, AcceptCertifiedValues, TipIs
<1>5. CASE SelectSeal
  BY <1>5, SMT DEF SelectSeal, CurrentSeen
<1>6. CASE RecoverLog
  BY <1>6, SMT DEF RecoverLog
<1>7. CASE StartDatabase
  BY <1>7, SMT DEF StartDatabase
<1>8. CASE FinishOpen
  BY <1>8, SMT DEF FinishOpen, TipIs
<1>9. ASSUME NEW w \in Workers, ReadPage(w) PROVE AppliedIsLogged'
  BY <1>9, SMT DEF ReadPage, TipIs
<1>10. ASSUME NEW w \in Workers, LogPage(w) PROVE AppliedIsLogged'
  BY <1>10, SMT DEF LogPage
<1>11. ASSUME NEW w \in Workers, ApplyPage(w) PROVE AppliedIsLogged'
  BY <1>11, SMT DEF ApplyPage
<1>12. ASSUME NEW w \in Workers, BeginRestore(w) PROVE AppliedIsLogged'
  BY <1>12, SMT DEF BeginRestore
<1>13. ASSUME NEW w \in Workers, RestoreBase(w) PROVE AppliedIsLogged'
  BY <1>13, SMT DEF RestoreBase, InstallBase, TipIs
<1>14. ASSUME NEW w \in Workers, CheckDatabase(w) PROVE AppliedIsLogged'
  BY <1>14, SMT DEF CheckDatabase
<1>15. ASSUME NEW w \in Workers, InstallDatabase(w) PROVE AppliedIsLogged'
  BY <1>15, SMT DEF InstallDatabase
<1>16. ASSUME NEW w \in Workers, RestoreSuffix(w) PROVE AppliedIsLogged'
  BY <1>16, SMT DEF RestoreSuffix, AcceptArchived, AcceptCertifiedValues, TipIs
<1>17. ASSUME NEW w \in Workers, Restored(w) PROVE AppliedIsLogged'
  BY <1>17, SMT DEF Restored
<1>18. ASSUME NEW w \in Workers, WorkFails(w) PROVE AppliedIsLogged'
  BY <1>18, SMT DEF WorkFails
<1>19. CASE ExpirePin
  BY <1>19, SMT DEF ExpirePin
<1>20. CASE StartRound
  BY <1>20, SMT DEF StartRound
<1>21. CASE FetchDecisions
  BY <1>21, SMT DEF FetchDecisions
<1>22. CASE AcceptPage
  BY <1>22, SMT DEF AcceptPage, AcceptCertifiedValues
<1>23. CASE ArchiveTick
  BY <1>23, SMT DEF ArchiveTick, TipIs
<1>24. CASE CatchUpArchive
  BY <1>24, SMT DEF CatchUpArchive, AcceptArchived, AcceptCertifiedValues, TipIs
<1>25. CASE SyncArchive
  BY <1>25, SMT DEF SyncArchive, TipIs
<1>26. CASE TrimArchive
  BY <1>26, SMT DEF TrimArchive
<1>27. CASE CompactWal
  BY <1>27, SMT DEF CompactWal
<1>28. CASE LearnHint
  BY <1>28, SMT DEF LearnHint
<1>29. CASE ApplyDecisions
  BY <1>29, SMT DEF ApplyDecisions
<1>30. CASE WakeCatchUp
  BY <1>30, SMT DEF WakeCatchUp
<1>31. CASE BackgroundSync
  BY <1>31, SMT DEF BackgroundSync
<1>32. CASE OtherVoters
  BY <1>32, SMT DEF OtherVoters
<1>33. CASE NodeCrash
  BY <1>33, SMT DEF NodeCrash, StopNode
<1>34. CASE Shutdown
  BY <1>34, SMT DEF Shutdown, StopNode, TipIs
<1>35. QED
  BY <1>1, <1>2, <1>3, <1>4, <1>5, <1>6, <1>7, <1>8, <1>9, <1>10, <1>11, <1>12,
      <1>13, <1>14, <1>15, <1>16, <1>17, <1>18, <1>19, <1>20, <1>21, <1>22, <1>23,
      <1>24, <1>25, <1>26, <1>27, <1>28, <1>29, <1>30, <1>31, <1>32, <1>33, <1>34
      DEF CatchUpNext

\* No step refuses a start.
LEMMA RefusedStep ==
  ASSUME Types, ArchiveInv, StartInv, StartRecovers, CatchUpNext
  PROVE  StartRecovers'
<1> USE SlotTypes DEF Types, Numbers, Logs, Pages, Phases, ArchiveInv, StartInv,
    StartRecovers, SealSlots, catchUpVars, archiveVars, logVars, At, Do, Step,
    Resting, Idle, Pinned, NoRestore, MaxOf, Workers, CatchUpSlots
<1>1. CASE LoadCurrent
  BY <1>1, SMT DEF LoadCurrent
<1>2. CASE PinHead
  BY <1>2, SMT DEF PinHead
<1>3. CASE StartBase
  BY <1>3, SMT DEF StartBase, InstallBase, TipIs
<1>4. CASE StartSuffix
  BY <1>4, SMT DEF StartSuffix, AcceptArchived, AcceptCertifiedValues, TipIs
<1>5. CASE SelectSeal
  BY <1>5, SelectedSeal, SMT DEF SelectSeal, CurrentSeen
<1>6. CASE RecoverLog
  BY <1>6, SMT DEF RecoverLog
<1>7. CASE StartDatabase
  BY <1>7, SMT DEF StartDatabase
<1>8. CASE FinishOpen
  BY <1>8, SMT DEF FinishOpen, TipIs
<1>9. ASSUME NEW w \in Workers, ReadPage(w) PROVE StartRecovers'
  BY <1>9, SMT DEF ReadPage, TipIs
<1>10. ASSUME NEW w \in Workers, LogPage(w) PROVE StartRecovers'
  BY <1>10, SMT DEF LogPage
<1>11. ASSUME NEW w \in Workers, ApplyPage(w) PROVE StartRecovers'
  BY <1>11, SMT DEF ApplyPage
<1>12. ASSUME NEW w \in Workers, BeginRestore(w) PROVE StartRecovers'
  BY <1>12, SMT DEF BeginRestore
<1>13. ASSUME NEW w \in Workers, RestoreBase(w) PROVE StartRecovers'
  BY <1>13, SMT DEF RestoreBase, InstallBase, TipIs
<1>14. ASSUME NEW w \in Workers, CheckDatabase(w) PROVE StartRecovers'
  BY <1>14, SMT DEF CheckDatabase
<1>15. ASSUME NEW w \in Workers, InstallDatabase(w) PROVE StartRecovers'
  BY <1>15, SMT DEF InstallDatabase
<1>16. ASSUME NEW w \in Workers, RestoreSuffix(w) PROVE StartRecovers'
  BY <1>16, SMT DEF RestoreSuffix, AcceptArchived, AcceptCertifiedValues, TipIs
<1>17. ASSUME NEW w \in Workers, Restored(w) PROVE StartRecovers'
  BY <1>17, SMT DEF Restored
<1>18. ASSUME NEW w \in Workers, WorkFails(w) PROVE StartRecovers'
  BY <1>18, SMT DEF WorkFails
<1>19. CASE ExpirePin
  BY <1>19, SMT DEF ExpirePin
<1>20. CASE StartRound
  BY <1>20, SMT DEF StartRound
<1>21. CASE FetchDecisions
  BY <1>21, SMT DEF FetchDecisions
<1>22. CASE AcceptPage
  BY <1>22, SMT DEF AcceptPage, AcceptCertifiedValues
<1>23. CASE ArchiveTick
  BY <1>23, SMT DEF ArchiveTick, TipIs
<1>24. CASE CatchUpArchive
  BY <1>24, SMT DEF CatchUpArchive, AcceptArchived, AcceptCertifiedValues, TipIs
<1>25. CASE SyncArchive
  BY <1>25, SMT DEF SyncArchive, TipIs
<1>26. CASE TrimArchive
  BY <1>26, SMT DEF TrimArchive
<1>27. CASE CompactWal
  BY <1>27, SMT DEF CompactWal
<1>28. CASE LearnHint
  BY <1>28, SMT DEF LearnHint
<1>29. CASE ApplyDecisions
  BY <1>29, SMT DEF ApplyDecisions
<1>30. CASE WakeCatchUp
  BY <1>30, SMT DEF WakeCatchUp
<1>31. CASE BackgroundSync
  BY <1>31, SMT DEF BackgroundSync
<1>32. CASE OtherVoters
  BY <1>32, SMT DEF OtherVoters
<1>33. CASE NodeCrash
  BY <1>33, SMT DEF NodeCrash, StopNode
<1>34. CASE Shutdown
  BY <1>34, SMT DEF Shutdown, StopNode, TipIs
<1>35. QED
  BY <1>1, <1>2, <1>3, <1>4, <1>5, <1>6, <1>7, <1>8, <1>9, <1>10, <1>11, <1>12,
      <1>13, <1>14, <1>15, <1>16, <1>17, <1>18, <1>19, <1>20, <1>21, <1>22, <1>23,
      <1>24, <1>25, <1>26, <1>27, <1>28, <1>29, <1>30, <1>31, <1>32, <1>33, <1>34
      DEF CatchUpNext


\* The invariant is inductive.
THEOREM CatchUpInductive == CatchUpSpec => []CatchUpInv
<1>1. CatchUpInit => CatchUpInv
  BY SlotTypes, SealedFacts DEF CatchUpInit, CatchUpInv, Types, Numbers, Logs, Pages, Phases,
      Control, ArchiveInv, StartInv, PageInv, CatchUpSound, AppliedIsLogged, StartRecovers,
      Idle, Resting, Step, NoRestore, Pinned, At, Workers
<1>2. CatchUpInv /\ [CatchUpNext]_catchUpVars => CatchUpInv'
  <2> SUFFICES ASSUME CatchUpInv, [CatchUpNext]_catchUpVars PROVE CatchUpInv'
    OBVIOUS
  <2>1. CASE CatchUpNext
    BY <2>1, NumbersStep, LogsStep, PagesStep, ControlStep, ArchiveStep, StartingStep, PageStep,
        LoggedStep, RefusedStep DEF CatchUpInv, Types, CatchUpSound
  <2>2. CASE UNCHANGED catchUpVars
    BY <2>2 DEF catchUpVars, archiveVars, logVars, CatchUpInv, Types, Numbers, Logs, Pages,
        Control, ArchiveInv, StartInv, PageInv, CatchUpSound, AppliedIsLogged, StartRecovers,
        Certified, At
  <2>3. QED
    BY <2>1, <2>2
<1>3. QED
  BY <1>1, <1>2, PTL DEF CatchUpSpec

\* What the database of a voter shows is in its WAL or in the archive, and no
\* start is refused: CURRENT and the base of the WAL, however they moved while
\* the node was down or starting, are backed by a seal in the pinned suffix.
THEOREM CatchUpIsSound == CatchUpSpec => []CatchUpSound
<1>1. CatchUpInv => CatchUpSound
  BY DEF CatchUpInv
<1>2. QED
  BY <1>1, CatchUpInductive, PTL

=============================================================================
