------------------------------ MODULE ReadIndex -----------------------------
(***************************************************************************)
(* The log above consensus: decisions that are accepted in memory, learned *)
(* by a quorum, made durable and applied before a write is answered, and   *)
(* linearizable reads that ask a quorum for its tips.                      *)
(*                                                                         *)
(* All decisions of a slot carry the same value (QuePaxa, Agreement), so a *)
(* slot number stands for its decision.  A write is answered with the slot *)
(* it was decided in, a read with the last slot applied at its node: the   *)
(* answer shows the writes of all slots up to there.                       *)
(***************************************************************************)
EXTENDS Integers, FiniteSets

CONSTANTS
    NodeID,      \* the voters
    Writers,     \* the nodes clients send writes to
    Readers,     \* the nodes clients send linearizable reads to
    MaxSlot,     \* bound: the last slot of the log
    MaxRestarts  \* bound: restarts, of all nodes together

ASSUME ReadIndexAssumption ==
    /\ IsFiniteSet(NodeID) /\ NodeID # {}
    /\ Writers \subseteq NodeID
    /\ Readers \subseteq NodeID
    /\ MaxSlot \in Nat
    /\ MaxRestarts \in Nat

Slot == 1..MaxSlot

Quorum == {Q \in SUBSET NodeID : 2 * Cardinality(Q) > Cardinality(NodeID)}

VARIABLES
    started,    \* the slots a run has been started for, anywhere
    sent,       \* the slots whose decision has been sent to the learners
    known,      \* known[n]: the decisions n has accepted
    durable,    \* durable[n]: the decisions in n's log, on disk
    tip,        \* tip[n]: the last slot of the contiguous prefix of known[n]
    applied,    \* applied[n]: the last slot in n's materializer
    ready,      \* the nodes that have caught up since they started
    write,      \* write[n][s]: the Propose of n that holds slot s
    read,       \* read[n]: the linearizable read in progress at n
    completed,  \* the last slot a write was answered with
    exposed,    \* the last slot a read was answered with
    restarts    \* restarts so far

nodeVars == <<known, durable, tip, applied>>
vars == <<started, sent, nodeVars, ready, write, read, completed, exposed, restarts>>

WriteState == [phase : {"idle", "run", "learn"}, acks : SUBSET NodeID]

ReadState == [phase : {"idle", "ask", "apply"}, tips : SUBSET (NodeID \X (0..MaxSlot)),
              index : 0..MaxSlot, source : SUBSET NodeID,
              floor : 0..MaxSlot, shown : 0..MaxSlot]

NoWrite == [phase |-> "idle", acks |-> {}]

NoRead == [phase |-> "idle", tips |-> {}, index |-> 0, source |-> {},
           floor |-> 0, shown |-> 0]

Init ==
    /\ started = {}
    /\ sent = {}
    /\ known = [n \in NodeID |-> {}]
    /\ durable = [n \in NodeID |-> {}]
    /\ tip = [n \in NodeID |-> 0]
    /\ applied = [n \in NodeID |-> 0]
    /\ ready = NodeID
    /\ write = [n \in NodeID |-> [s \in Slot |-> NoWrite]]
    /\ read = [n \in NodeID |-> NoRead]
    /\ completed = 0
    /\ exposed = 0
    /\ restarts = 0

Max(a, b) == IF a > b THEN a ELSE b

-----------------------------------------------------------------------------
(* What the core does with a decision.                                     *)

\* advanceTipLocked: t is the new tip once the decisions of n are slots.
IsTip(n, slots, t) ==
    /\ t \in tip[n]..MaxSlot
    /\ (tip[n] + 1)..t \subseteq slots
    /\ t + 1 \notin slots

\* acceptDecision of some slots; the tip follows at once, in memory.
Accept(n, slots) ==
    /\ known' = [known EXCEPT ![n] = @ \cup slots]
    /\ \E t \in 0..MaxSlot : /\ IsTip(n, known[n] \cup slots, t)
                             /\ tip' = [tip EXCEPT ![n] = t]

Persist(n, slots) == durable' = [durable EXCEPT ![n] = @ \cup slots]

\* applyDecisions: waits for the tip, syncs the prefix, then applies it.
ApplyThrough(n, s) ==
    /\ tip[n] >= s
    /\ Persist(n, known[n] \cap 1..s)
    /\ applied' = [applied EXCEPT ![n] = Max(@, s)]
    /\ UNCHANGED <<known, tip>>

-----------------------------------------------------------------------------
(* Writes: proposeLocal.                                                   *)

Holds(n, s) == write[n][s].phase # "idle"

\* reserveSlot: the first slot above the tip that no other Propose of n holds.
Propose(n) ==
    /\ n \in ready \cap Writers
    /\ \E s \in Slot :
         /\ s > tip[n] /\ ~Holds(n, s)
         /\ \A u \in (tip[n] + 1)..(s - 1) : Holds(n, u)
         /\ started' = started \cup {s}
         /\ write' = [write EXCEPT ![n][s] = [phase |-> "run", acks |-> {}]]
    /\ UNCHANGED <<sent, nodeVars, ready, read, completed, exposed, restarts>>

\* runSlot returns a decision of the slot and the proposer accepts it.  It is
\* sent out once there is no gap below it.
RunSlot(n, s) ==
    /\ write[n][s].phase = "run"
    /\ Accept(n, {s})
    /\ write' = [write EXCEPT ![n][s] = [phase |-> "learn", acks |-> {n}]]
    /\ UNCHANGED <<started, sent, durable, applied, ready, read, completed, exposed,
                   restarts>>

\* completeDecision: WaitTip, then SendDecision.
SendDecision(n, s) ==
    /\ write[n][s].phase = "learn"
    /\ tip[n] >= s
    /\ s \notin sent
    /\ sent' = sent \cup {s}
    /\ UNCHANGED <<started, nodeVars, ready, write, read, completed, exposed, restarts>>

\* The Learned handler accepts the decision; a recorder the certificate names
\* does so without a sync.
Learned(m, s) ==
    /\ m \in ready
    /\ s \in sent
    /\ s \notin known[m]
    /\ Accept(m, {s})
    /\ Persist(m, {s}) \/ UNCHANGED durable
    /\ UNCHANGED <<started, sent, applied, ready, write, read, completed, exposed,
                   restarts>>

\* Mutant: the handler answers as soon as the decision is accepted.
AcknowledgeAccepted(m, n, s) ==
    /\ m # n /\ m \in ready
    /\ s \in sent
    /\ s \in known[m]
    /\ write[n][s].phase = "learn"
    /\ write' = [write EXCEPT ![n][s].acks = @ \cup {m}]
    /\ UNCHANGED <<started, sent, nodeVars, ready, read, completed, exposed, restarts>>

\* It answers when the slot is applied.
Acknowledge(m, n, s) ==
    /\ m # n /\ m \in ready
    /\ s \in sent
    /\ s \in known[m]
    /\ ApplyThrough(m, s)
    /\ write[n][s].phase = "learn"
    /\ write' = [write EXCEPT ![n][s].acks = @ \cup {m}]
    /\ UNCHANGED <<started, sent, ready, read, completed, exposed, restarts>>

\* With a quorum of learners, itself included, the proposer applies the slot
\* and answers its client, unless somebody else's value was decided.
Complete(n, s) ==
    /\ write[n][s].phase = "learn"
    /\ write[n][s].acks \in Quorum
    /\ ApplyThrough(n, s)
    /\ write' = [write EXCEPT ![n][s] = NoWrite]
    /\ completed' = Max(completed, s) \/ UNCHANGED completed
    /\ UNCHANGED <<started, sent, ready, read, exposed, restarts>>

\* A Propose gives up at any point: too few answers or a cancelled context.
FailWrite(n, s) ==
    /\ Holds(n, s)
    /\ write' = [write EXCEPT ![n][s] = NoWrite]
    /\ UNCHANGED <<started, sent, nodeVars, ready, read, completed, exposed, restarts>>

\* RecoverThrough: the slot after the tip is driven to a decision and synced,
\* at start-up or because a later slot is decided already.
RecoverSlot(n) ==
    LET s == tip[n] + 1
    IN /\ s \in Slot
       /\ \/ n \notin ready /\ s \in started
          \/ \E u \in Slot : u > s /\ write[n][u].phase = "learn"
       /\ started' = started \cup {s}
       /\ Accept(n, {s})
       /\ Persist(n, {s})
       /\ UNCHANGED <<sent, applied, ready, write, read, completed, exposed,
                   restarts>>

-----------------------------------------------------------------------------
(* Linearizable reads: readBarrier and ReadIndex.                          *)

\* The node's own tip counts, whether the node is ready or not.
ReadStart(n) ==
    /\ n \in Readers
    /\ read[n].phase = "idle"
    /\ read' = [read EXCEPT ![n] =
                  [phase |-> "ask", tips |-> {<<n, tip[n]>>}, index |-> 0, source |-> {},
                   floor |-> completed, shown |-> exposed]]
    /\ UNCHANGED <<started, sent, nodeVars, ready, write, completed, exposed, restarts>>

Asked(n) == {a[1] : a \in read[n].tips}

\* A ready peer answers with its tip as it is in memory.
ReadTip(n, m) ==
    /\ read[n].phase = "ask"
    /\ Asked(n) \notin Quorum
    /\ m \in ready /\ m \notin Asked(n)
    /\ read' = [read EXCEPT ![n].tips = @ \cup {<<m, tip[m]>>}]
    /\ UNCHANGED <<started, sent, nodeVars, ready, write, completed, exposed, restarts>>

\* The highest tip of a quorum is the index of the read.
ReadQuorum(n) ==
    /\ read[n].phase = "ask"
    /\ Asked(n) \in Quorum
    /\ \E a \in read[n].tips :
         /\ \A b \in read[n].tips : b[2] <= a[2]
         /\ read' = [read EXCEPT ![n].phase = "apply", ![n].tips = {},
                                 ![n].index = a[2], ![n].source = {a[1]}]
    /\ UNCHANGED <<started, sent, nodeVars, ready, write, completed, exposed, restarts>>

\* catchUpFrom the node that reported the index.
ReadCatchUp(n) ==
    /\ read[n].phase = "apply"
    /\ tip[n] < read[n].index
    /\ \E m \in read[n].source :
         /\ tip[m] > tip[n]
         /\ Accept(n, (tip[n] + 1)..tip[m])
         /\ Persist(n, (tip[n] + 1)..tip[m])
    /\ UNCHANGED <<started, sent, applied, ready, write, read, completed, exposed,
                   restarts>>

\* The barrier is passed and the query reads what the node has applied.
ReadReturn(n) ==
    /\ read[n].phase = "apply"
    /\ ApplyThrough(n, read[n].index)
    /\ exposed' = Max(exposed, applied'[n])
    /\ read' = [read EXCEPT ![n] = NoRead]
    /\ UNCHANGED <<started, sent, ready, write, completed, restarts>>

FailRead(n) ==
    /\ read[n].phase # "idle"
    /\ read' = [read EXCEPT ![n] = NoRead]
    /\ UNCHANGED <<started, sent, nodeVars, ready, write, completed, exposed, restarts>>

-----------------------------------------------------------------------------
(* Restart and start-up.                                                   *)

\* What was not synced may be lost; whatever another sync took along is not.
Restart(n) ==
    /\ restarts < MaxRestarts
    /\ restarts' = restarts + 1
    /\ \E kept \in SUBSET known[n] :
         /\ durable[n] \subseteq kept
         /\ known' = [known EXCEPT ![n] = kept]
         /\ durable' = [durable EXCEPT ![n] = kept]
         /\ \E t \in 0..MaxSlot : /\ 1..t \subseteq kept /\ t + 1 \notin kept
                                  /\ tip' = [tip EXCEPT ![n] = t]
    /\ ready' = ready \ {n}
    /\ write' = [write EXCEPT ![n] = [s \in Slot |-> NoWrite]]
    /\ read' = [read EXCEPT ![n] = NoRead]
    /\ UNCHANGED <<started, sent, applied, completed, exposed>>

\* One round of catchUpQuorum: the decisions of the highest tip in a quorum.
StartupFetch(n) ==
    /\ n \notin ready
    /\ \E Q \in Quorum :
         /\ n \in Q
         /\ \E m \in Q \ {n} :
              /\ \A k \in Q \ {n} : tip[k] <= tip[m]
              /\ tip[m] > tip[n]
              /\ Accept(n, (tip[n] + 1)..tip[m])
              /\ Persist(n, (tip[n] + 1)..tip[m])
    /\ UNCHANGED <<started, sent, applied, ready, write, read, completed, exposed,
                   restarts>>

\* Nobody in a quorum is ahead: the local decisions are replayed, the node serves.
BecomeReady(n) ==
    /\ n \notin ready
    /\ \E Q \in Quorum : n \in Q /\ \A m \in Q : tip[m] <= tip[n]
    /\ ApplyThrough(n, tip[n])
    /\ ready' = ready \cup {n}
    /\ UNCHANGED <<started, sent, write, read, completed, exposed, restarts>>

-----------------------------------------------------------------------------
WriteStep(n) ==
    \/ Propose(n)
    \/ RecoverSlot(n)
    \/ \E s \in Slot : \/ RunSlot(n, s)
                       \/ SendDecision(n, s)
                       \/ Learned(n, s)
                       \/ \E m \in NodeID : Acknowledge(n, m, s)
                       \/ Complete(n, s)
                       \/ FailWrite(n, s)

ReadStep(n) ==
    \/ ReadStart(n)
    \/ \E m \in NodeID : ReadTip(n, m)
    \/ ReadQuorum(n)
    \/ ReadCatchUp(n)
    \/ ReadReturn(n)
    \/ FailRead(n)

StartStep(n) == Restart(n) \/ StartupFetch(n) \/ BecomeReady(n)

Next == \E n \in NodeID : WriteStep(n) \/ ReadStep(n) \/ StartStep(n)

Spec == Init /\ [][Next]_vars

-----------------------------------------------------------------------------
\* What a query at n shows: the decisions its materializer has applied.
Visible(n) == known[n] \cap 1..applied[n]

\* A linearizable read shows every write that was answered before the read
\* began, although writes are answered from memory and nodes restart (core.go,
\* ReadIndex: "a completed write cannot be missed").
CompletedWriteVisible ==
    [][\A n \in NodeID : ReadReturn(n) => 1..read[n].floor \subseteq Visible(n)']_vars

\* A linearizable read shows whatever a read that ended before it began showed.
\* It does not hold: a proposer's tip runs ahead of its learners (README,
\* section 5).
ReadsMonotone ==
    [][\A n \in NodeID : ReadReturn(n) => 1..read[n].shown \subseteq Visible(n)']_vars

\* The shape of the state.
TypeOK ==
    /\ started \subseteq Slot
    /\ sent \subseteq Slot
    /\ known \in [NodeID -> SUBSET Slot]
    /\ durable \in [NodeID -> SUBSET Slot]
    /\ tip \in [NodeID -> 0..MaxSlot]
    /\ applied \in [NodeID -> 0..MaxSlot]
    /\ ready \subseteq NodeID
    /\ write \in [NodeID -> [Slot -> WriteState]]
    /\ read \in [NodeID -> ReadState]
    /\ completed \in 0..MaxSlot
    /\ exposed \in 0..MaxSlot
    /\ restarts \in Nat

=============================================================================
