-------------------------- MODULE Reconfiguration --------------------------
(***************************************************************************)
(* Changing the voters of a running cluster (pkg/quepaxa/reconfiguration.go *)
(* and the guards of pkg/quepaxa/core.go, driven by pkg/node/membership.go).*)
(*                                                                         *)
(* A change is a pair of log entries decided by the old voters: a FREEZE    *)
(* in slot f and a TERMINAL in slot f + Window, a "finish" that activates   *)
(* the target after the terminal slot or an "abort" that drops it.  The     *)
(* slots between are drained.  Recorders vote at most Window slots ahead of *)
(* the prefix they have applied, so one that voted for the freeze in f      *)
(* cannot have voted under the old voters in f + Window or beyond.          *)
(*                                                                         *)
(* Abstractions.  A recorder's interval register is the set of values it    *)
(* recorded; one slot under one configuration decides one value, which is   *)
(* what module QuePaxa is about (Decide assumes it, per configuration).     *)
(* Every write, read barrier, leader schedule and no-op is one value.       *)
(* Prefix hashes are left out: a freeze or a terminal names its slots, and  *)
(* the values below them are the decided ones.                              *)
(***************************************************************************)
EXTENDS Integers, FiniteSets, FiniteSetsExt

CONSTANTS
    Node,         \* every process that is or may become a voter
    Genesis,      \* the voters of the first configuration
    Window,       \* 16 in the code: look-ahead of a recorder, freeze to terminal
    MaxSlot,      \* bound: the last slot of the model
    LegacyVotes,  \* <<recorder, slot>>: votes that may all predate the window
    Caller,       \* bound: the nodes that receive management calls
    Proposer,     \* bound: the nodes that propose ordinary values
    Wanted,       \* bound: the voter sets the management calls ask for
    MaxCrashes,   \* bound: process or host crashes
    Crashing,     \* bound: the nodes that may crash
    None          \* no certificate, no freeze, no call

Slot == 1 .. MaxSlot

(* The target of a change, and a change that is frozen at a node: safe are  *)
(* the recorders that the freeze's certificate names.                       *)
Target == [id : Nat, members : SUBSET Node]
Frozen == [freeze : Slot, target : Target, safe : SUBSET Node]

ASSUME ReconfigurationAssumption ==
    /\ Genesis \subseteq Node /\ Genesis # {} /\ IsFiniteSet(Node)
    /\ Window \in Nat \ {0, 1} /\ MaxSlot \in Nat /\ MaxCrashes \in Nat
    /\ LegacyVotes \subseteq Genesis \X (1 .. MaxSlot)
    /\ Caller \subseteq Node /\ Proposer \subseteq Node
    /\ Wanted \subseteq SUBSET Node /\ Crashing \subseteq Node
    /\ None \notin Frozen

VARIABLES
    decided,   \* decided[n][s]: the certificate n holds for slot s, or None
    durable,   \* durable[n]: the slots whose decision marker n has synced
    core,      \* core[n]: what n derived from its contiguous prefix
    requests,  \* every record request sent; the network may delay or repeat
    votes,     \* every value a recorder durably recorded
    chosen,    \* every certificate some proposer assembled
    journal,   \* the bucket's membership journal, one target per round
    op,        \* op[n]: the management call n is executing, or None
    completed, \* the configurations some call reported active
    crashes

vars == <<decided, durable, core, requests, votes, chosen, journal, op,
          completed, crashes>>

(* A configuration and the values that a slot may decide. *)
Config == [id : 1 .. MaxSlot, members : SUBSET Node \ {{}}]
First == [id |-> 1, members |-> Genesis]
Write == [kind |-> "write"]
Freeze(f, t) == [kind |-> "freeze", freeze |-> f, target |-> t]
Terminal(kind, f, t) == [kind |-> kind, freeze |-> f, target |-> t]
IsTerminal(v) == v.kind \in {"finish", "abort"}
IsControl(v) == v.kind # "write"
QuorumSize(c) == Cardinality(c.members) \div 2 + 1

Adds(c, t) == ~ (t.members \subseteq c.members)

(* validateReconfigurationTarget: one voter more or one less, no identity  *)
(* that an earlier change removed.                                         *)
TargetValid(c, t, retired) ==
    /\ t.id = c.id + 1
    /\ t.members # {}
    /\ Cardinality((t.members \ c.members) \cup (c.members \ t.members)) = 1
    /\ (t.members \ c.members) \cap retired = {}

-----------------------------------------------------------------------------
(* What a node knows once its first k decisions are applied in order.  The *)
(* epochs are <<first slot, configuration>> pairs.                         *)
NewCore ==
    [tip |-> 0, epochs |-> {<<1, First>>}, frozen |-> None, abort |-> 0,
     retired |-> {}]

ClusterFor(c, s) ==
    LET starts == {e \in c.epochs : e[1] <= s}
        last == Max({e[1] : e \in starts})
    IN  (CHOOSE e \in starts : e[1] = last)[2]

Current(c) == ClusterFor(c, c.tip + 1)

(* The checks of applyReconfigurationLocked and validateFreezeBindingLocked *)
(* on the decision in slot c.tip + 1.                                       *)
Draining(c, s) == c.frozen # None /\ s > c.frozen.freeze /\ s < c.frozen.freeze + Window

Applies(c, d) ==
    LET s == c.tip + 1 IN
    \/ ~ IsControl(d.val)
    \/ d.val.kind = "freeze" /\ Draining(c, s)
    \/ /\ d.val.kind = "freeze"
       /\ c.frozen = None
       /\ d.val.freeze = s
       /\ TargetValid(ClusterFor(c, s), d.val.target, c.retired)
    \/ /\ IsTerminal(d.val)
       /\ c.frozen # None
       /\ s = c.frozen.freeze + Window
       /\ d.val.freeze = c.frozen.freeze
       /\ d.val.target = c.frozen.target
       /\ d.val.kind = "abort" => Adds(ClusterFor(c, s), c.frozen.target)

(* Installing the same decision: the freeze's certificate names the safe   *)
(* recorders, a finish opens an epoch, an abort only records its slot.      *)
Apply(c, d) ==
    LET s == c.tip + 1
        old == ClusterFor(c, s)
        next == [c EXCEPT !.tip = s]
    IN  IF ~ IsControl(d.val) \/ Draining(c, s) THEN next
        ELSE IF d.val.kind = "freeze"
             THEN [next EXCEPT !.frozen =
                     [freeze |-> s, target |-> d.val.target, safe |-> d.by]]
        ELSE IF d.val.kind = "abort"
             THEN [next EXCEPT !.frozen = None, !.abort = s]
        ELSE [next EXCEPT !.frozen = None, !.abort = 0,
                          !.epochs = @ \cup {<<s + 1, c.frozen.target>>},
                          !.retired = @ \cup (old.members \ c.frozen.target.members)]

(* advanceReconfigurationTipLocked: apply what is decided, in order, until *)
(* a slot is missing or does not apply.  Prefixes[k] is the state after at  *)
(* most k slots.                                                            *)
Prefixes(d) ==
    LET after[k \in 0 .. MaxSlot] ==
          IF k = 0 THEN NewCore
          ELSE LET c == after[k - 1] IN
               IF c.tip = k - 1 /\ d[k] # None /\ Applies(c, d[k])
               THEN Apply(c, d[k]) ELSE c
    IN  after

Advance(d) == Prefixes(d)[MaxSlot]

-----------------------------------------------------------------------------
NewDecided == [s \in Slot |-> None]
Vote(r, s, v, cfg) == [rec |-> r, slot |-> s, val |-> v, cfg |-> cfg]

Legacy(s, by) == [slot |-> s, val |-> Write, cfg |-> 1, by |-> by]

(* A cluster upgraded from a version without the window may hold votes, and *)
(* a decision, far ahead of its prefix.                                     *)
Init ==
    /\ decided = [n \in Node |-> NewDecided]
    /\ durable = [n \in Node |-> {}]
    /\ core = [n \in Node |-> NewCore]
    /\ requests = {}
    /\ \E legacy \in {{}, LegacyVotes} :
          /\ votes = {Vote(l[1], l[2], Write, 1) : l \in legacy}
          /\ chosen = {cert \in {Legacy(s, {l[1] : l \in {x \in legacy : x[2] = s}}) : s \in Slot} :
                        Cardinality(cert.by) >= QuorumSize(First)}
    /\ journal = {}
    /\ op = [n \in Node |-> None]
    /\ completed = {}
    /\ crashes = 0

(* voterForClusterLocked: a member of an activated configuration votes only *)
(* once the terminal that activated it is durable here.                     *)
IsVoter(n, cfg) ==
    /\ n \in cfg.members
    /\ \A e \in core[n].epochs : e[2] = cfg /\ e[1] > 1 => e[1] - 1 \in durable[n]

(* The abort revision a management call compares with: an abort whose       *)
(* markers are not durable blocks the call.                                 *)
RevisionReadable(n) == core[n].abort # 0 => {core[n].abort - Window, core[n].abort} \subseteq durable[n]

(* highestKnownSlotLocked. *)
HighestKnown(n) ==
    Max({core[n].tip} \cup {v.slot : v \in {w \in votes : w.rec = n}}
        \cup {s \in Slot : decided[n][s] # None})

RoundOf(c) == <<Current(c).id, c.abort>>
Journaled(round) == \E j \in journal : j.round = round
InJournal(round, t) == [round |-> round, target |-> t] \in journal
-----------------------------------------------------------------------------
(* changeMembership: the first call of a round writes the journal, a later *)
(* one must ask for the target that is there.  A removal is never executed  *)
(* by the voter it removes.                                                 *)
ChangeMembership(n, members) ==
    LET c == core[n]
        round == RoundOf(c)
        t == [id |-> Current(c).id + 1, members |-> members]
    IN  /\ op[n] = None
        /\ IsVoter(n, Current(c))
        /\ n \in t.members
        /\ \/ /\ ~ Journaled(round)
              /\ TargetValid(Current(c), t, c.retired)
              /\ c.frozen # None => c.frozen.target = t
              /\ journal' = journal \cup {[round |-> round, target |-> t]}
           \/ /\ InJournal(round, t)
              /\ UNCHANGED journal
        /\ op' = [op EXCEPT ![n] = [round |-> round, target |-> t, abort |-> FALSE]]
        /\ UNCHANGED <<decided, durable, core, requests, votes, chosen, completed, crashes>>

(* abortMembership: only the journaled addition that is frozen here. *)
AbortMembership(n) ==
    LET c == core[n] IN
    /\ op[n] = None
    /\ IsVoter(n, Current(c))
    /\ c.frozen # None
    /\ Adds(Current(c), c.frozen.target)
    /\ InJournal(RoundOf(c), c.frozen.target)
    /\ op' = [op EXCEPT ![n] = [round |-> RoundOf(c), target |-> c.frozen.target, abort |-> TRUE]]
    /\ UNCHANGED <<decided, durable, core, requests, votes, chosen, journal, completed, crashes>>

(* A call may fail at any point: a deadline, a lost peer, a refused record. *)
GiveUp(n) ==
    /\ op[n] # None
    /\ op' = [op EXCEPT ![n] = None]
    /\ UNCHANGED <<decided, durable, core, requests, votes, chosen, journal, completed, crashes>>

Send(s, v, cfg, rid, to) ==
    requests' = requests \cup
        {[slot |-> s, val |-> v, cfg |-> cfg.id, rid |-> rid, to |-> to]}

(* BeginReconfigurationAt: the call's abort revision must still be the     *)
(* current one when the pipeline is its own.                               *)
SameRevision(n) == RevisionReadable(n) /\ core[n].abort = op[n].round[2]

BeginReconfiguration(n) ==
    LET c == core[n]
        f == c.tip + 1
    IN  /\ op[n] # None /\ ~ op[n].abort
        /\ c.frozen = None
        /\ SameRevision(n)
        /\ f + Window <= MaxSlot
        /\ HighestKnown(n) < f + Window
        /\ TargetValid(ClusterFor(c, f), op[n].target, c.retired)
        /\ Send(f, Freeze(f, op[n].target), ClusterFor(c, f), Freeze(f, op[n].target),
                ClusterFor(c, f).members)
        /\ UNCHANGED <<decided, durable, core, votes, chosen, journal, op, completed, crashes>>

(* runSlot of a terminal: only the recorders of the freeze are asked. *)
SafeQuorum(c) == Cardinality(c.frozen.safe) >= QuorumSize(Current(c))

(* sendFreezeDecision: every recorder named by the certificate has it. *)
FreezeAcknowledged(f) == \A r \in f.safe : f.freeze \in durable[r]

(* FinishReconfigurationAt and AbortReconfigurationAt: the freeze is       *)
(* durable and acknowledged by every recorder its certificate names, the    *)
(* drain is decided and durable, and the terminal goes to those recorders   *)
(* only (runSlot).                                                          *)
FinishReconfiguration(n) ==
    LET c == core[n] IN
    /\ op[n] # None
    /\ c.frozen # None
    /\ c.frozen.target = op[n].target
    /\ SameRevision(n)
    /\ op[n].abort => Adds(Current(c), c.frozen.target)
    /\ c.tip = c.frozen.freeze + Window - 1
    /\ FreezeAcknowledged(c.frozen)
    /\ durable' = [durable EXCEPT ![n] = @ \cup c.frozen.freeze .. c.tip]
    /\ SafeQuorum(c)
    /\ Send(c.tip + 1,
            Terminal(IF op[n].abort THEN "abort" ELSE "finish", c.frozen.freeze, c.frozen.target),
            Current(c), Freeze(c.frozen.freeze, c.frozen.target), c.frozen.safe)
    /\ UNCHANGED <<decided, core, votes, chosen, journal, op, completed, crashes>>

(* proposeOwned and RecoverThrough: an ordinary value goes to a slot of the *)
(* pipeline, or fills the drain on behalf of the freeze.                    *)
Propose(n, s) ==
    LET c == core[n] IN
    /\ decided[n][s] = None
    /\ n \in ClusterFor(c, s).members
    /\ s > c.tip
    /\ IF c.frozen = None
       THEN Send(s, Write, ClusterFor(c, s), None, ClusterFor(c, s).members)
       ELSE /\ Draining(c, s)
            /\ Send(s, Write, ClusterFor(c, s), Freeze(c.frozen.freeze, c.frozen.target),
                    ClusterFor(c, s).members)
    /\ UNCHANGED <<decided, durable, core, votes, chosen, journal, op, completed, crashes>>

-----------------------------------------------------------------------------
(* record: the guards on a request at recorder r, in the order of the code. *)
InWiderWindow(r, s) == s <= core[r].tip + Window + 1
InWindow(r, s) == s <= core[r].tip + Window

FrozenAdmits(r, q) ==
    LET f == core[r].frozen IN
    f # None => /\ q.slot <= f.freeze + Window
                /\ q.slot > f.freeze => q.rid = Freeze(f.freeze, f.target)
                /\ q.slot = f.freeze + Window => IsTerminal(q.val)

(* verifyMembershipAdmission: the added voter has the drained prefix. *)
AdmittedUnchecked(old, t, through) == TRUE
Admitted(old, t, through) ==
    \A x \in t.members \ old.members : 1 .. through \subseteq durable[x]

TerminalAdmitted(r, q) ==
    LET c == core[r] IN
    /\ c.frozen # None
    /\ q.slot = c.frozen.freeze + Window
    /\ c.tip = q.slot - 1
    /\ q.val.freeze = c.frozen.freeze
    /\ q.val.target = c.frozen.target
    /\ q.val.kind = "abort" => Adds(ClusterFor(c, q.slot), c.frozen.target)
    /\ q.val.kind = "finish" => Admitted(ClusterFor(c, q.slot), c.frozen.target, c.tip)
    /\ \A v \in votes : v.rec = r /\ v.slot = q.slot => v.val = q.val

(* A recorder promises a freeze only while it knows nothing at or beyond   *)
(* the terminal, unless the certificate it holds already names it.         *)
PromisesAnything(r, q) == TRUE
Promises(r, q) ==
    \/ HighestKnown(r) < q.val.freeze + Window
    \/ /\ decided[r][q.slot] # None
       /\ decided[r][q.slot].val = q.val
       /\ r \in decided[r][q.slot].by

FreezeAdmitted(r, q) ==
    LET c == core[r] IN
    /\ c.frozen = None \/ q.slot = c.frozen.freeze => Promises(r, q)
    /\ c.frozen = None =>
          /\ q.val.freeze = q.slot
          /\ TargetValid(ClusterFor(c, q.slot), q.val.target, c.retired)

(* A recorder that holds the decision answers with it instead. *)
Record(r, q) ==
    LET cfg == ClusterFor(core[r], q.slot)
        held == decided[r][q.slot]
        val == IF held = None THEN q.val ELSE held.val
    IN  /\ r \in q.to
        /\ q.cfg = cfg.id
        /\ IsVoter(r, cfg)
        /\ InWindow(r, q.slot)
        /\ FrozenAdmits(r, q)
        /\ IsTerminal(q.val) /\ held = None => TerminalAdmitted(r, q)
        /\ q.val.kind = "freeze" => FreezeAdmitted(r, q)
        /\ votes' = votes \cup {Vote(r, q.slot, val, q.cfg)}
        /\ votes' # votes
        /\ UNCHANGED <<decided, durable, core, requests, chosen, journal, op, completed, crashes>>

-----------------------------------------------------------------------------
(* Decision markers.  A terminal is made durable only with the whole prefix *)
(* below it (ensureDurableLocked), so that the epoch it opens can be rebuilt *)
(* after a crash.                                                            *)
Synced(n, d, s) ==
    IF ~ IsTerminal(d[s].val) THEN durable[n] \cup {s}
    ELSE IF Advance(d).tip >= s THEN durable[n] \cup 1 .. s ELSE durable[n]

Cert(cert) == [val |-> cert.val, cfg |-> cert.cfg, by |-> cert.by]

(* validateDecisionForRecovery, as far as configurations are concerned, at  *)
(* a node that derived c.                                                   *)
Acceptable(c, cert) ==
    LET cfg == ClusterFor(c, cert.slot) IN
    /\ cert.cfg = cfg.id
    /\ cert.by \subseteq cfg.members
    /\ Cardinality(cert.by) >= QuorumSize(cfg)

(* acceptDecision, with its marker when sync holds. *)
Install(n, cert, sync) ==
    LET d == [decided[n] EXCEPT ![cert.slot] = Cert(cert)] IN
    /\ decided[n][cert.slot] = None
    /\ Acceptable(core[n], cert)
    /\ decided' = [decided EXCEPT ![n] = d]
    /\ core' = [core EXCEPT ![n] = Advance(d)]
    /\ durable' = IF sync
                  THEN [durable EXCEPT ![n] = Synced(n, d, cert.slot)]
                  ELSE durable

(* catchUpFrom: what a learner, or a recorder that lags behind a request,   *)
(* takes durably from a peer, in order.                                     *)
Fetched(n, m, through) ==
    [s \in Slot |-> IF s <= through /\ decided[n][s] = None THEN decided[m][s]
                    ELSE decided[n][s]]

(* runSlot returns with the answers of a quorum; the proposer installs the *)
(* decision.  One configuration decides one value in a slot.               *)
Decide(n, s, v) ==
    LET cfg == ClusterFor(core[n], s)
        voters == {w.rec : w \in {x \in votes : x.slot = s /\ x.val = v /\ x.cfg = cfg.id}}
    IN  /\ decided[n][s] = None
        /\ n \in cfg.members
        /\ \E by \in kSubset(QuorumSize(cfg), voters) :
          LET cert == [slot |-> s, val |-> v, cfg |-> cfg.id, by |-> by] IN
          /\ IsTerminal(v) => core[n].frozen # None /\ by \subseteq core[n].frozen.safe
          /\ \A c \in chosen : c.slot = s /\ c.cfg = cfg.id => c.val = v
          /\ chosen' = chosen \cup {cert}
          /\ Install(n, cert, FALSE)
          /\ UNCHANGED <<requests, votes, journal, op, completed, crashes>>

(* A certificate reaches another node: a learned message, a catch-up or a  *)
(* recovery.  Controls are always synced, other values when the receiver is *)
(* not among the recorders of the certificate, and whatever a catch-up      *)
(* brings.  A control is accepted only behind its whole prefix.             *)
Learn(n, cert) ==
    /\ \/ n \in ClusterFor(core[n], cert.slot).members
       \/ IsTerminal(cert.val) /\ n \in cert.val.target.members
    /\ IsControl(cert.val) => core[n].tip >= cert.slot - 1
    /\ Install(n, cert, IsControl(cert.val) \/ n \notin cert.by)
    /\ UNCHANGED <<requests, votes, chosen, journal, op, completed, crashes>>

CatchUp(n, m) ==
    LET d == Fetched(n, m, core[m].tip) IN
    /\ core[m].tip > core[n].tip
    /\ decided' = [decided EXCEPT ![n] = d]
    /\ core' = [core EXCEPT ![n] = Advance(d)]
    /\ durable' = [durable EXCEPT ![n] = @ \cup 1 .. core[m].tip]
    /\ UNCHANGED <<requests, votes, chosen, journal, op, completed, crashes>>

(* completeDecision of a control, by the proposer that decided it. *)
CompleteDecision(n, s) ==
    /\ decided[n][s] # None
    /\ IsControl(decided[n][s].val)
    /\ s \notin durable[n]
    /\ s <= core[n].tip
    /\ durable' = [durable EXCEPT ![n] = Synced(n, decided[n], s)]
    /\ UNCHANGED <<decided, core, requests, votes, chosen, journal, op, completed, crashes>>

(* Mutant: the old voters' acknowledgements are enough. *)
AcknowledgedByOld(s, old, new) ==
    Cardinality({r \in old.members : s \in durable[r] /\ core[r].tip >= s}) >= QuorumSize(old)

(* sendTerminalDecision: the terminal is installed by a quorum of the old   *)
(* and of the new voters and by every added voter.  A voter acknowledges it  *)
(* behind its whole prefix.                                                 *)
TerminalAcknowledged(s, old, new) ==
    LET acked == {r \in Node : s \in durable[r] /\ core[r].tip >= s} IN
    /\ Cardinality(acked \cap old.members) >= QuorumSize(old)
    /\ Cardinality(acked \cap new.members) >= QuorumSize(new)
    /\ new.members \ old.members \subseteq acked

(* The end of changeMembership: the terminal is acknowledged and            *)
(* persistMembership makes the caller's prefix durable.                     *)
CompleteChange(n) ==
    LET c == core[n]
        last == Max({e[1] : e \in c.epochs})
        old == ClusterFor(c, last - 1)
        new == ClusterFor(c, last)
    IN  /\ op[n] # None /\ ~ op[n].abort
        /\ last > 1
        /\ new = op[n].target
        /\ durable' = [durable EXCEPT ![n] = @ \cup 1 .. c.tip]
        /\ TerminalAcknowledged(last - 1, old, new)
        /\ completed' = completed \cup {new}
        /\ op' = [op EXCEPT ![n] = None]
        /\ UNCHANGED <<decided, core, requests, votes, chosen, journal, crashes>>

(* A crash keeps what was synced and any part of the rest; recover() reads *)
(* what is left, marks it durable and applies it.                          *)
Crash(n) ==
    /\ crashes < MaxCrashes
    /\ crashes' = crashes + 1
    /\ \E keep \in SUBSET {s \in Slot : decided[n][s] # None} :
          /\ durable[n] \subseteq keep
          /\ durable' = [durable EXCEPT ![n] = keep]
          /\ decided' = [decided EXCEPT ![n] = [s \in Slot |-> IF s \in keep THEN @[s] ELSE None]]
          /\ core' = [core EXCEPT ![n] = Advance(decided'[n])]
    /\ op' = [op EXCEPT ![n] = None]
    /\ UNCHANGED <<requests, votes, chosen, journal, completed>>

-----------------------------------------------------------------------------
Offers == {<<v.slot, v.val>> : v \in votes}

Next ==
    \/ \E n \in Caller, m \in Wanted : ChangeMembership(n, m)
    \/ \E n \in Caller : AbortMembership(n)
    \/ \E n \in Caller : GiveUp(n)
    \/ \E n \in Caller : BeginReconfiguration(n)
    \/ \E n \in Caller : FinishReconfiguration(n)
    \/ \E n \in Caller : CompleteChange(n)
    \/ \E n \in Proposer, s \in Slot : Propose(n, s)
    \/ \E r \in Node, q \in requests : Record(r, q)
    \/ \E n \in Caller \cup Proposer : \E o \in Offers : Decide(n, o[1], o[2])
    \/ \E n \in Node, cert \in chosen : Learn(n, cert)
    \/ \E n, m \in Node : CatchUp(n, m)
    \/ \E n \in Caller, s \in Slot : CompleteDecision(n, s)
    \/ \E n \in Crashing : Crash(n)

Spec == Init /\ [][Next]_vars
-----------------------------------------------------------------------------
(* Properties. *)

(* Every variable has its type; a node applied only what it holds. *)
ReconfigurationTypeOK ==
    /\ \A n \in Node :
          /\ durable[n] \subseteq {s \in Slot : decided[n][s] # None}
          /\ core[n].tip \in 0 .. MaxSlot
          /\ \A s \in 1 .. core[n].tip : decided[n][s] # None
          /\ op[n] # None => op[n].target \in Config
    /\ \A v \in votes : v.rec \in Node /\ v.slot \in Slot
    /\ \A j \in journal : j.target \in Config
    /\ completed \subseteq Config
    /\ crashes \in 0 .. MaxCrashes

(* A slot decides one value whatever configuration decided it: the freeze  *)
(* quorum keeps the old voters from ever deciding a slot that belongs to   *)
(* the new ones.                                                            *)
SlotAgreement ==
    \A c1, c2 \in chosen : c1.slot = c2.slot => c1.val = c2.val /\ c1.cfg = c2.cfg

(* A decision that is next in a node's prefix can be applied, and a frozen *)
(* node's prefix never passes the terminal: no schedule of freezes, drains  *)
(* and aborts leaves a log that a replica refuses.                          *)
PrefixNeverStuck ==
    \A n \in Node :
        /\ core[n].tip < MaxSlot /\ decided[n][core[n].tip + 1] # None
              => Applies(core[n], decided[n][core[n].tip + 1])
        /\ core[n].frozen # None => core[n].tip < core[n].frozen.freeze + Window

(* The voters that a finish adds for the first time. *)
NewTo(cert) ==
    {x \in cert.val.target.members \ Genesis :
        \A c \in chosen : c.slot < cert.slot =>
            ~ (c.val.kind = "finish" /\ x \in c.val.target.members)}

(* A change that was reported complete survives any number of crashes: its   *)
(* terminal is on the disks of a quorum of the new voters, and one of them,  *)
(* as well as each voter that is new, can rebuild the epoch from its disk.   *)
CompletedChangesKept ==
    \A cfg \in completed : \E cert \in chosen :
        /\ cert.val.kind = "finish" /\ cert.val.target = cfg
        /\ Cardinality({r \in cfg.members : cert.slot \in durable[r]}) >= QuorumSize(cfg)
        /\ \E r \in cfg.members : 1 .. cert.slot \subseteq durable[r]
        /\ \A x \in NewTo(cert) : 1 .. cert.slot \subseteq durable[x]


(* A voter that a finished change added had the whole prefix durably when   *)
(* the old voters certified it: activation never waits for a replay.        *)
AddedVotersCaughtUp ==
    \A cert \in chosen :
        cert.val.kind = "finish" =>
            \A x \in NewTo(cert) : 1 .. cert.slot - 1 \subseteq durable[x]

(* While a change is frozen, some terminal can still be decided by the       *)
(* recorders that may vote for it.                                           *)
TerminalPossible ==
    \A n \in Node :
        LET f == core[n].frozen IN
        f # None =>
            \E kind \in {"finish", "abort"} :
                Cardinality({r \in f.safe : \A v \in votes :
                      v.rec = r /\ v.slot = f.freeze + Window => v.val.kind = kind})
                  >= QuorumSize(Current(core[n]))
=============================================================================
