----------------------------- MODULE RecorderLog ----------------------------
(***************************************************************************)
(* One node's recorder and its write-ahead log: what record appends and    *)
(* waits for before it answers (pkg/quepaxa/core.go), the group commit     *)
(* that shares one sync among the waiters, compaction behind a fence while *)
(* records go on (pkg/quepaxa/compaction.go, pkg/qlog/wal.go), and recover *)
(* after the process was killed or the machine lost power.                 *)
(*                                                                         *)
(* A caller is a goroutine in Record, StoreValue, EnsureDurable or         *)
(* EnsureDurableThrough.  What it does under c.mu is one step.  Record and *)
(* EnsureDurable keep the slot's lock while they wait for the sync;        *)
(* compaction takes all slot locks.                                        *)
(***************************************************************************)
EXTENDS Register, Sequences, FiniteSets, FiniteSetsExt

CONSTANTS
    MaxSlot,      \* bound: the last slot
    DecidedHash,  \* DecidedHash[s]: the value slot s is decided with (QuePaxa, Agreement)
    SealSlot,     \* SealSlot[s]: the slot whose decision seals a checkpoint at s, or 0
    Requests,     \* the Record requests that may arrive
    Callers,      \* goroutines
    MaxCalls,     \* bound: calls, of all callers together
    MaxRestarts,  \* bound: kills and power losses
    MaxFailures   \* bound: failed syncs and cancelled contexts

Slot == 1..MaxSlot
NoHash == -1

ASSUME RecorderLogAssumption ==
    /\ MaxSlot \in Nat /\ MaxCalls \in Nat /\ MaxRestarts \in Nat /\ MaxFailures \in Nat
    /\ DecidedHash \in [Slot -> Hash]
    /\ SealSlot \in [Slot -> 0..MaxSlot] /\ \A s \in Slot : SealSlot[s] = 0 \/ SealSlot[s] > s
    /\ Requests \subseteq [slot : Slot, step : Nat, proposal : Proposal]
    /\ IsFiniteSet(Callers)

\* qlog.Entry.  A value is its hash; a decision carries its value inline.
Entry ==
    [type : {"value"}, slot : {0}, hash : Hash, state : {EmptyISR}]
      \cup [type : {"receipt"}, slot : Slot, hash : {NoHash}, state : ISR]
      \cup [type : {"decide"}, slot : Slot, hash : Hash, state : {EmptyISR}]
      \cup [type : {"base"}, slot : Slot, hash : {NoHash}, state : {EmptyISR}]

ValueEntry(h) == [type |-> "value", slot |-> 0, hash |-> h, state |-> EmptyISR]
ReceiptEntry(s, state) == [type |-> "receipt", slot |-> s, hash |-> NoHash, state |-> state]
DecideEntry(s, h) == [type |-> "decide", slot |-> s, hash |-> h, state |-> EmptyISR]
BaseEntry(s) == [type |-> "base", slot |-> s, hash |-> NoHash, state |-> EmptyISR]

VARIABLES
    wal,         \* the log as written
    synced,      \* how many of its entries are on disk for certain
    found,       \* how many Open has found of them that nobody synced since, or 0
    core,        \* the Core's maps, in memory
    call,        \* call[t]: what caller t is doing
    batch,       \* the group commit's flush: "idle", "taken" or "synced"
    compaction,  \* the compaction in progress
    answers,     \* what Record has answered
    calls,       \* calls so far
    restarts,    \* kills and power losses so far
    failures     \* failed syncs and cancelled contexts so far

vars == <<wal, synced, found, core, call, batch, compaction, answers, calls, restarts, failures>>

Core == [floor : 0..MaxSlot, values : SUBSET Hash, recorders : [Slot -> ISR],
         decided : [Slot -> Hash \cup {NoHash}], valueDurable : SUBSET Hash,
         logged : SUBSET Slot, durable : SUBSET Slot, durableThrough : 0..MaxSlot]

\* A Summary, with the proposal of the request it answers; "decision": made up
\* from an accepted decision.
Answer == [slot : Slot, step : Nat, proposal : Proposal, first : OptProposal,
           prior : OptProposal, source : {"isr", "decision"}]

\* "staged" waits for the slot's lock, "scan" walks the undurable prefix, "sync"
\* has joined the pending batch, "running" is in the batch being synced, "done"
\* has seen it succeed.  pending are the decisions and hashes the values to mark
\* durable after that.
Call == [phase : {"idle", "staged", "scan", "sync", "running", "done"},
         kind : {"record", "store", "durable", "ensure"}, request : SUBSET Requests,
         answer : SUBSET Answer, hashes : SUBSET Hash, pending : SUBSET Slot,
         next : 0..MaxSlot, through : 0..MaxSlot, base : 0..MaxSlot]

Idle == [phase |-> "idle", kind |-> "record", request |-> {}, answer |-> {},
         hashes |-> {}, pending |-> {}, next |-> 0, through |-> 0, base |-> 0]

NoCompaction == [base |-> 0, retained |-> {}, cut |-> 0, values |-> {}]

EmptyCore == [floor |-> 0, values |-> {}, recorders |-> [s \in Slot |-> EmptyISR],
              decided |-> [s \in Slot |-> NoHash], valueDurable |-> {}, logged |-> {},
              durable |-> {}, durableThrough |-> 0]

Init ==
    /\ wal = <<>> /\ synced = 0 /\ found = 0
    /\ core = EmptyCore
    /\ call = [t \in Callers |-> Idle]
    /\ batch = "idle"
    /\ compaction = NoCompaction
    /\ answers = {}
    /\ calls = 0 /\ restarts = 0 /\ failures = 0

IsDecided(s) == core.decided[s] # NoHash

Tip == Max({core.floor} \cup
           {t \in Slot : \A s \in Slot : core.floor < s /\ s <= t => IsDecided(s)})

\* The hashes a register refers to.
References(state) ==
    {p.hash : p \in {state.first, state.agg, state.prior} \ {NilProposal}}

-----------------------------------------------------------------------------
(* recover: the maps as they are read back from a log.                     *)

Replayed(log, type) == {log[i] : i \in {j \in DOMAIN log : log[j].type = type}}

LastReceipt(log, s) ==
    LET receipts == {i \in DOMAIN log : log[i].type = "receipt" /\ log[i].slot = s}
    IN IF receipts = {} THEN EmptyISR ELSE log[Max(receipts)].state

Recovered(log) ==
    LET decisions == Replayed(log, "decide")
        slots == {e.slot : e \in decisions}
        values == {e.hash : e \in decisions \cup Replayed(log, "value")}
        floor == Max({0} \cup {e.slot : e \in Replayed(log, "base")})
    IN [floor |-> floor, values |-> values, valueDurable |-> values,
        recorders |-> [s \in Slot |-> IF s \in slots THEN EmptyISR ELSE LastReceipt(log, s)],
        decided |-> [s \in Slot |-> IF s \in slots THEN DecidedHash[s] ELSE NoHash],
        logged |-> slots, durable |-> slots, durableThrough |-> floor]

\* The logs a power loss may leave: everything synced, and any part of the rest.
Survivors == {SubSeq(wal, 1, k) : k \in synced..Len(wal)}

-----------------------------------------------------------------------------
(* Record.                                                                 *)

Start(t, c) ==
    /\ call[t].phase = "idle"
    /\ calls < MaxCalls
    /\ calls' = calls + 1
    /\ call' = [call EXCEPT ![t] = c]

\* stageValueLocked: a new value is appended; a known one is appended again
\* while a compaction is under way that would drop it.
StageValue(h) ==
    LET compacting == compaction # NoCompaction
        append == h \notin core.values \/ (compacting /\ h \notin compaction.values)
    IN /\ wal' = IF append THEN Append(wal, ValueEntry(h)) ELSE wal
       /\ core' = [core EXCEPT !.values = @ \cup {h}]
       /\ compaction' = IF compacting THEN [compaction EXCEPT !.values = @ \cup {h}]
                                      ELSE compaction

\* The value is staged before the request waits for the slot's lock; a request
\* may also name its value by its hash only.
RecordStage(t, m) ==
    /\ m.slot > core.floor
    /\ Start(t, [Idle EXCEPT !.phase = "staged", !.request = {m}])
    /\ StageValue(m.proposal.hash) \/ UNCHANGED <<wal, core, compaction>>
    /\ UNCHANGED <<synced, found, batch, answers, restarts, failures>>

\* A Record or EnsureDurable that has appended holds its slot's lock until it
\* returns.
HoldsLock(t) ==
    /\ call[t].kind \in {"record", "durable"}
    /\ call[t].phase \in {"sync", "running", "done"}

Locked(s) ==
    \E t \in Callers : HoldsLock(t) /\ s \in call[t].pending \cup {m.slot : m \in call[t].request}

Finish(t) == call' = [call EXCEPT ![t] = Idle]

\* The slot was compacted, or its value dropped, while the request waited.
RecordRefused(t) ==
    /\ call[t].phase = "staged"
    /\ \E m \in call[t].request :
         /\ ~Locked(m.slot)
         /\ \/ m.slot <= core.floor
            \/ /\ ~IsDecided(m.slot)
               /\ m.proposal.hash \notin core.values
               /\ LET state == core.recorders[m.slot]
                  IN m.proposal \notin {state.first, state.agg, state.prior}
    /\ Finish(t)
    /\ UNCHANGED <<wal, synced, found, core, batch, compaction, answers, calls, restarts, failures>>

\* A decision is appended once; after a compaction it is in the log still.
LogDecision(s) ==
    /\ wal' = IF s \in core.logged THEN wal ELSE Append(wal, DecideEntry(s, core.decided[s]))
    /\ core' = [core EXCEPT !.logged = @ \cup {s}]

\* Mutant: a logged decision needs no sync.
RecordDecidedLogged(t) ==
    /\ call[t].phase = "staged"
    /\ \E m \in call[t].request :
         /\ ~Locked(m.slot) /\ m.slot > core.floor /\ IsDecided(m.slot)
         /\ LogDecision(m.slot)
         /\ call' = [call EXCEPT ![t].phase = IF m.slot \in core.logged THEN "done" ELSE "sync",
                         ![t].answer = {[slot |-> m.slot, step |-> m.step, proposal |-> m.proposal,
                                         first |-> NilProposal, prior |-> NilProposal,
                                         source |-> "decision"]},
                         ![t].pending = {m.slot} \ core.durable,
                         ![t].hashes = {core.decided[s] : s \in {m.slot} \ core.durable}]
    /\ UNCHANGED <<synced, found, batch, compaction, answers, calls, restarts, failures>>

\* A decided slot: the decision is logged and synced unless it is already.
RecordDecided(t) ==
    /\ call[t].phase = "staged"
    /\ \E m \in call[t].request :
         /\ ~Locked(m.slot) /\ m.slot > core.floor /\ IsDecided(m.slot)
         /\ LogDecision(m.slot)
         /\ call' = [call EXCEPT ![t].phase = IF m.slot \in core.durable THEN "done" ELSE "sync",
                         ![t].answer = {[slot |-> m.slot, step |-> m.step, proposal |-> m.proposal,
                                         first |-> NilProposal, prior |-> NilProposal,
                                         source |-> "decision"]},
                         ![t].pending = {m.slot} \ core.durable,
                         ![t].hashes = {core.decided[s] : s \in {m.slot} \ core.durable}]
    /\ UNCHANGED <<synced, found, batch, compaction, answers, calls, restarts, failures>>

\* An open slot: the whole register is appended, changed or not.
RecordISR(t) ==
    /\ call[t].phase = "staged"
    /\ \E m \in call[t].request :
         LET state == core.recorders[m.slot]
             next == ISRRecord(state, m.step, m.proposal)
         IN /\ ~Locked(m.slot) /\ m.slot > core.floor /\ ~IsDecided(m.slot)
            /\ \/ m.proposal.hash \in core.values
               \/ m.proposal \in {state.first, state.agg, state.prior}
            /\ wal' = Append(wal, ReceiptEntry(m.slot, next))
            /\ core' = [core EXCEPT !.recorders[m.slot] = next]
            /\ call' = [call EXCEPT ![t].phase = "sync",
                            ![t].answer = {[slot |-> m.slot, step |-> next.step,
                                            proposal |-> m.proposal, first |-> next.first,
                                            prior |-> next.prior, source |-> "isr"]},
                            ![t].hashes = {m.proposal.hash}]
    /\ UNCHANGED <<synced, found, batch, compaction, answers, calls, restarts, failures>>

\* The sync has succeeded: flags are set and the summary goes out.
RecordAnswer(t) ==
    /\ call[t].phase = "done" /\ call[t].kind = "record"
    /\ core' = [core EXCEPT !.durable = @ \cup call[t].pending,
                            !.valueDurable = @ \cup call[t].hashes]
    /\ answers' = answers \cup call[t].answer
    /\ Finish(t)
    /\ UNCHANGED <<wal, synced, found, batch, compaction, calls, restarts, failures>>

\* StoreValue installs a value that was not at hand when hydrateProposal asked a
\* peer for it, and syncs it unless it is flagged durable by now.
StoreStart(t, h) ==
    /\ h \notin core.valueDurable
    /\ Start(t, [Idle EXCEPT !.phase = "sync", !.kind = "store", !.hashes = {h}])
    /\ StageValue(h)
    /\ UNCHANGED <<synced, found, batch, answers, restarts, failures>>

\* The end of StoreValue and EnsureDurable.
FlagReturn(t) ==
    /\ call[t].phase = "done" /\ call[t].kind \in {"store", "durable"}
    /\ core' = [core EXCEPT !.durable = @ \cup call[t].pending,
                            !.valueDurable = @ \cup call[t].hashes]
    /\ Finish(t)
    /\ UNCHANGED <<wal, synced, found, batch, compaction, answers, calls, restarts, failures>>

-----------------------------------------------------------------------------
(* Decisions.                                                              *)

\* acceptDecision keeps a decision in memory only and forgets the register.
\* Propose calls it without the slot's lock.
AcceptDecision(s) ==
    /\ s > core.floor
    /\ ~IsDecided(s)
    /\ core' = [core EXCEPT !.decided[s] = DecidedHash[s], !.values = @ \cup {DecidedHash[s]},
                            !.recorders[s] = EmptyISR]
    /\ UNCHANGED <<wal, synced, found, call, batch, compaction, answers, calls, restarts, failures>>

\* completeDecision appends the marker of a clustered decision without a sync.
CompleteDecision(s) ==
    /\ ~Locked(s)
    /\ IsDecided(s) /\ s \notin core.logged
    /\ calls < MaxCalls /\ calls' = calls + 1
    /\ LogDecision(s)
    /\ UNCHANGED <<synced, found, call, batch, compaction, answers, restarts, failures>>

\* EnsureDurable, also the second half of AcceptDecision.
EnsureDurable(t, s) ==
    /\ ~Locked(s)
    /\ IsDecided(s) /\ s \notin core.durable
    /\ Start(t, [Idle EXCEPT !.phase = "sync", !.kind = "durable", !.pending = {s},
                             !.hashes = {core.decided[s]}])
    /\ LogDecision(s)
    /\ UNCHANGED <<synced, found, batch, compaction, answers, restarts, failures>>

\* EnsureDurableThrough: the scan starts above what is known to be durable.
EnsureStart(t, through) ==
    LET from == IF core.durableThrough > core.floor THEN core.durableThrough ELSE core.floor
    IN /\ from < through
       /\ Start(t, [Idle EXCEPT !.phase = "scan", !.kind = "ensure", !.next = from + 1,
                                !.through = through, !.base = core.floor])
       /\ UNCHANGED <<wal, synced, found, core, batch, compaction, answers, restarts, failures>>

\* appendUndurablePrefix, one slot at a time; compaction may overtake the scan.
EnsureScan(t) ==
    LET s == call[t].next
        last(u) == u = call[t].through
        then(pending) == IF pending = {} THEN "done" ELSE "sync"
        more == IF s \in core.durable THEN {} ELSE {s}
    IN /\ call[t].phase = "scan"
       /\ ~Locked(s)
       /\ \/ /\ s <= core.floor
             /\ LET to == Min({core.floor, call[t].through})
                IN call' = [call EXCEPT ![t].phase = IF last(to) THEN then(call[t].pending) ELSE @,
                                        ![t].next = IF last(to) THEN @ ELSE to + 1]
             /\ UNCHANGED <<wal, core>>
          \/ /\ s > core.floor /\ ~IsDecided(s)
             /\ Finish(t)
             /\ UNCHANGED <<wal, core>>
          \/ /\ s > core.floor /\ IsDecided(s)
             /\ LogDecision(s)
             /\ call' = [call EXCEPT ![t].phase = IF last(s) THEN then(call[t].pending \cup more)
                                                   ELSE @,
                                     ![t].next = IF last(s) THEN @ ELSE s + 1,
                                     ![t].pending = @ \cup more]
       /\ UNCHANGED <<synced, found, batch, compaction, answers, calls, restarts, failures>>

\* After the sync the flags follow, and the frontier unless the base has moved.
EnsureReturn(t) ==
    LET c == call[t]
        durable == core.durable \cup {s \in c.pending : IsDecided(s)}
        frontier == {u \in core.durableThrough..c.through :
                        \A s \in Slot : core.durableThrough < s /\ s <= u =>
                            IsDecided(s) /\ s \in core.logged \cap durable}
    IN /\ c.phase = "done" /\ c.kind = "ensure"
       /\ core' = [core EXCEPT !.durable = durable,
                       !.valueDurable = @ \cup {core.decided[s] : s \in {u \in c.pending : IsDecided(u)}},
                       !.durableThrough = IF core.floor = c.base
                                          THEN Max({@} \cup frontier) ELSE @]
       /\ Finish(t)
       /\ UNCHANGED <<wal, synced, found, batch, compaction, answers, calls, restarts, failures>>

-----------------------------------------------------------------------------
(* The group commit.                                                       *)

\* flush takes the pending batch; later waiters start another one.
TakeBatch ==
    /\ batch = "idle"
    /\ \E t \in Callers : call[t].phase = "sync"
    /\ batch' = "taken"
    /\ call' = [t \in Callers |-> IF call[t].phase = "sync"
                                  THEN [call[t] EXCEPT !.phase = "running"] ELSE call[t]]
    /\ UNCHANGED <<wal, synced, found, core, compaction, answers, calls, restarts, failures>>

\* WAL.Sync excludes appends, so everything written so far is on disk; but it
\* does nothing unless this handle has appended since it was opened.
SyncBatch ==
    /\ batch = "taken"
    /\ batch' = "synced"
    /\ IF Len(wal) > found THEN synced' = Len(wal) /\ found' = 0
                          ELSE UNCHANGED <<synced, found>>
    /\ UNCHANGED <<wal, core, call, compaction, answers, calls, restarts, failures>>

\* Mutant: whoever waits by now is released, in the batch or not.
CloseBatchAll ==
    /\ batch = "synced"
    /\ batch' = "idle"
    /\ call' = [t \in Callers |-> IF call[t].phase \in {"sync", "running"}
                                  THEN [call[t] EXCEPT !.phase = "done"] ELSE call[t]]
    /\ UNCHANGED <<wal, synced, found, core, compaction, answers, calls, restarts, failures>>

\* The waiters of the batch are released.
CloseBatch ==
    /\ batch = "synced"
    /\ batch' = "idle"
    /\ call' = [t \in Callers |-> IF call[t].phase = "running"
                                  THEN [call[t] EXCEPT !.phase = "done"] ELSE call[t]]
    /\ UNCHANGED <<wal, synced, found, core, compaction, answers, calls, restarts, failures>>

\* A failed sync fails its waiters; what they appended stays in memory and in
\* the log, and a later sync takes it along.
SyncFails ==
    /\ batch = "taken"
    /\ failures < MaxFailures
    /\ failures' = failures + 1
    /\ batch' = "idle"
    /\ call' = [t \in Callers |-> IF call[t].phase = "running" THEN Idle ELSE call[t]]
    /\ UNCHANGED <<wal, synced, found, core, compaction, answers, calls, restarts>>

\* A caller's context ends while it waits: it leaves, its entries stay.  The
\* other two wait without a context.
Cancel(t) ==
    /\ call[t].kind \in {"record", "ensure"}
    /\ call[t].phase \in {"sync", "running"}
    /\ failures < MaxFailures
    /\ failures' = failures + 1
    /\ Finish(t)
    /\ UNCHANGED <<wal, synced, found, core, batch, compaction, answers, calls, restarts>>

-----------------------------------------------------------------------------
(* Compaction.                                                             *)

\* lockCompactionBarrier: no Record is between its append and its answer.
Barrier == \A t \in Callers : ~HoldsLock(t)

\* liveProposalValuesAboveLocked: the values of open registers and of decisions
\* that are not in the log, unless a logged decision carries them.
LiveValues(b) ==
    LET above == {s \in Slot : s > b}
        inline == {core.decided[s] : s \in above \cap core.logged}
        unlogged == {core.decided[s] : s \in {u \in above : IsDecided(u)} \ core.logged}
    IN unlogged \cup (UNION {References(core.recorders[s]) : s \in above} \ inline)

\* The checkpoint at b is sealed by a decision this node has; the current
\* segment is synced, whoever wrote it, and appends go to a new one.
BeginCompaction(b) ==
    /\ compaction = NoCompaction
    /\ Barrier
    /\ core.floor < b /\ b <= Tip
    /\ SealSlot[b] # 0 /\ IsDecided(SealSlot[b])
    /\ LiveValues(b) \subseteq core.values
    /\ synced' = Len(wal) /\ found' = 0
    /\ compaction' = [base |-> b, retained |-> LiveValues(b), cut |-> Len(wal),
                      values |-> LiveValues(b) \cup
                                 {core.decided[s] : s \in {u \in core.logged : u > b}}]
    /\ UNCHANGED <<wal, core, call, batch, answers, calls, restarts, failures>>

ValueEntries(hashes) ==
    CHOOSE seq \in [1..Cardinality(hashes) -> {ValueEntry(h) : h \in hashes}] :
        {seq[i] : i \in DOMAIN seq} = {ValueEntry(h) : h \in hashes}

\* Build: the base, the retained values, what lies above the base, then the tail.
Compacted ==
    LET c == compaction
        kept(e) == e.type # "value" /\ e.slot > c.base
    IN <<BaseEntry(c.base)>> \o ValueEntries(c.retained)
         \o SelectSeq(SubSeq(wal, 1, c.cut), kept) \o SubSeq(wal, c.cut + 1, Len(wal))

\* installBaseLocked forgets what the base covers and the values nothing uses.
InstallBase(b) ==
    LET open(s) == s > b
        recorders == [s \in Slot |-> IF open(s) THEN core.recorders[s] ELSE EmptyISR]
        decided == [s \in Slot |-> IF open(s) THEN core.decided[s] ELSE NoHash]
        used == UNION {References(recorders[s]) : s \in Slot} \cup
                {decided[s] : s \in {u \in Slot : decided[u] # NoHash}}
    IN core' = [floor |-> b, values |-> core.values \cap used, recorders |-> recorders,
                decided |-> decided, valueDurable |-> core.valueDurable \cap used,
                logged |-> {s \in core.logged : open(s)},
                durable |-> {s \in core.durable : open(s)}, durableThrough |-> b]

\* The tail is synced and the manifest switched.
CommitCompaction ==
    /\ compaction # NoCompaction
    /\ Barrier
    /\ wal' = Compacted
    /\ synced' = Len(wal') /\ found' = 0
    /\ InstallBase(compaction.base)
    /\ compaction' = NoCompaction
    /\ UNCHANGED <<call, batch, answers, calls, restarts, failures>>

\* A failed rewrite is discarded: the old segments and the tail stay in use.
AbortCompaction ==
    /\ compaction # NoCompaction
    /\ failures < MaxFailures
    /\ failures' = failures + 1
    /\ compaction' = NoCompaction
    /\ UNCHANGED <<wal, synced, found, core, call, batch, answers, calls, restarts>>

\* recover reads the log that is left and flags all its decisions durable.
Restart(log) ==
    /\ restarts < MaxRestarts
    /\ restarts' = restarts + 1
    /\ wal' = log
    /\ core' = Recovered(log)
    /\ call' = [t \in Callers |-> Idle]
    /\ batch' = "idle"
    /\ compaction' = NoCompaction
    /\ UNCHANGED <<answers, calls, failures>>

\* The process dies: all it wrote is still seen, and what was not synced is not
\* synced by Open either.
ProcessKilled ==
    /\ Restart(wal)
    /\ found' = IF synced < Len(wal) THEN Len(wal) ELSE 0
    /\ UNCHANGED synced

\* The machine stops: what was not synced may be lost.
MachineStops ==
    /\ \E log \in Survivors : Restart(log) /\ synced' = Len(log)
    /\ found' = 0

-----------------------------------------------------------------------------
CallStep(t) ==
    \/ \E m \in Requests : RecordStage(t, m)
    \/ RecordRefused(t)
    \/ RecordDecided(t)
    \/ RecordISR(t)
    \/ RecordAnswer(t)
    \/ \E h \in Hash : StoreStart(t, h)
    \/ FlagReturn(t)
    \/ \E s \in Slot : EnsureDurable(t, s) \/ EnsureStart(t, s)
    \/ EnsureScan(t)
    \/ EnsureReturn(t)
    \/ Cancel(t)

CompactionStep == CommitCompaction \/ AbortCompaction \/ \E s \in Slot : BeginCompaction(s)

CommitStep == TakeBatch \/ SyncBatch \/ CloseBatch \/ SyncFails

Next ==
    \/ \E t \in Callers : CallStep(t)
    \/ \E s \in Slot : AcceptDecision(s) \/ CompleteDecision(s)
    \/ CommitStep
    \/ CompactionStep
    \/ ProcessKilled \/ MachineStops

Spec == Init /\ [][Next]_vars

-----------------------------------------------------------------------------
\* A register that still stands for the answer a: it is at least as far, and
\* the interval it keeps includes the answered proposal.
Covers(state, a) ==
    \/ state.step > a.step + 1
    \/ state.step = a.step + 1 /\ Leq(a.proposal, state.prior)
    \/ /\ state.step = a.step
       /\ state.first = a.first /\ state.prior = a.prior /\ Leq(a.proposal, state.agg)

\* Whatever a power loss leaves of the log, the recorder it recovers still
\* stands by every answer it has given: the quorum arguments of QuePaxa rest on
\* that.  Only an answer from a decision that a killed process had appended, and
\* nothing has synced since, may be gone (README, section 5); its slot is decided
\* all the same.
AnswersSurvive ==
    \A log \in Survivors : \A a \in answers :
        LET c == Recovered(log)
        IN \/ a.slot <= c.floor
           \/ c.decided[a.slot] # NoHash
           \/ a.source = "isr" /\ Covers(c.recorders[a.slot], a)
           \/ a.source = "decision" /\ Len(log) < found

Flagged == core.durable \cup (core.floor + 1)..core.durableThrough

Keeps(log, s) == LET c == Recovered(log) IN s <= c.floor \/ c.decided[s] # NoHash

\* A decision that is flagged durable, or below the durable frontier, is never
\* appended again: it is in every log a power loss may leave that keeps what
\* Open found.
SyncedFlagsHold ==
    \A log \in Survivors : Len(log) >= found => \A s \in Flagged : Keeps(log, s)

\* The documented meaning of the flag, "durable[slot] == true: the Sync this
\* decision needs has completed": a power loss leaves no log without it.  It
\* does not hold of what a killed process had only appended: recover flags it
\* durable and Open syncs nothing (README, section 5).
DurableFlagsHold ==
    \A log \in Survivors : \A s \in Flagged : Keeps(log, s)

\* A value flagged durable is one the node hands out to its peers and never
\* stores again (core.go, "StoreValue durably installs one content-addressed
\* proposal value"): it must be in every log a crash may leave.  It does not
\* hold of values that a decision carried (README, section 5).
ValueFlagsHold ==
    \A log \in Survivors : core.valueDurable \subseteq Recovered(log).values

\* The shape of the state.
TypeOK ==
    /\ wal \in Seq(Entry)
    /\ synced \in 0..Len(wal) /\ found \in 0..Len(wal)
    /\ core \in Core
    /\ call \in [Callers -> Call]
    /\ batch \in {"idle", "taken", "synced"}
    /\ compaction.base \in 0..MaxSlot /\ compaction.retained \subseteq Hash
    /\ compaction.cut \in 0..Len(wal) /\ compaction.values \subseteq Hash
    /\ answers \subseteq Answer
    /\ calls \in Nat /\ restarts \in Nat /\ failures \in Nat

=============================================================================
