----------------------------- MODULE WritePath ------------------------------
(***************************************************************************)
(* The way of a mutation through one server: admission and its lease, the  *)
(* lock and the receipt of its request ID, the mutation batcher, proposal  *)
(* admission, the proposal itself with the retry of local mode, Quiesce    *)
(* and Close (pkg/network/server.go, batcher.go, mutation_admission.go).   *)
(*                                                                         *)
(* What consensus does with a value is in QuePaxa and ReadIndex; here      *)
(* Propose refuses a value before it is sent (slot 0), commits it, or      *)
(* fails with a slot, and then any node may still bring it to a decision.  *)
(***************************************************************************)
EXTENDS Naturals, Sequences, FiniteSets

CONSTANTS
    Call,          \* calls of Execute, KVMutate, GraphExecute or NotifyPublish
    Setups,        \* the situations to start from, see setup
    Worker,        \* the batcher's workers, one per in-flight permit
    MaxAdmitted,   \* maxAdmittedMutations
    MaxQueued,     \* maxQueuedRequests
    BatchLimit,    \* commandBatchLimit
    ValueLimit,    \* encodedValueLimit
    InflightBytes, \* maxInflightEncodedByte
    LocalCap       \* maxLocalProposals; in local mode it is 1

ASSUME WritePathAssumption ==
    /\ {MaxAdmitted, MaxQueued, BatchLimit, ValueLimit, InflightBytes, LocalCap}
           \subseteq Nat
    /\ \A s \in Setups : /\ s.local \in BOOLEAN
                         /\ s.calls \subseteq Call /\ s.direct \subseteq Call
                         /\ DOMAIN s.item = Call
                         /\ s.size \in [Call -> 0..ValueLimit]
                         /\ s.maxDisturbances \in Nat

VARIABLES
    setup,      \* core.LocalMode(), the calls made, the ones of NotifyPublish, the
                \* request ID and payload of each and their encoded size; fixed.
                \* maxDisturbances bounds the cancelled calls, timeouts, denials,
                \* Quiesce and Close
    call,       \* call[c]: where the call is, the result it was sent, its answer
    ctxDone,    \* calls whose context is over
    lease,      \* lease[c]: who releases c's admission
    admitted,   \* mutationAdmission.count
    input,      \* the batcher's queue
    queuedN,    \* requests charged to the queue
    batch,      \* the batcher's run loop: state, items taken, item carried over
    job,        \* job[w]: what worker w executes
    inflightN,  \* in-flight permits taken
    inflightB,  \* in-flight bytes charged
    proposal,   \* the in-flight calls by value (s.inflight)
    permits,    \* attempts that hold a proposal permit and are in proposalWG
    server,     \* closing, quiescing and failure state
    lifecycle,  \* calls whose receipt's durability is being awaited (local mode)
    log,        \* committed values in slot order
    pending,    \* values sent to recorders whose slot is not decided
    appliedN,   \* slots the materializer has applied
    disturbances \* cancellations, timeouts, denials, Quiesce and Close so far

writeVars == <<setup, call, ctxDone, lease, admitted, input, queuedN, batch, job,
               inflightN, inflightB, proposal, permits, server, lifecycle, log,
               pending, appliedN, disturbances>>

callVars == <<call, lease, admitted>>
batchVars == <<input, queuedN, batch, job, inflightN, inflightB>>
logVars == <<log, pending, appliedN>>
otherVars == <<setup, disturbances>>

\* One of the boundedly many things that get in the way.
Disturb ==
    /\ disturbances < setup.maxDisturbances
    /\ disturbances' = disturbances + 1
    /\ UNCHANGED setup

NoCall == "none"

Local == setup.local
Direct == setup.direct
Item(c) == setup.item[c]
ItemSet == {Item(c) : c \in Call}

\* The value assembled from the items of a batch.
ValueOf(items) == [i \in DOMAIN items |-> Item(items[i])]

Elements(s) == {s[i] : i \in DOMAIN s}

BytesOf(items) ==
    LET sum[i \in 0..Len(items)] == IF i = 0 THEN 0 ELSE sum[i - 1] + setup.size[items[i]]
    IN sum[Len(items)]

\* The items that took effect among the first n slots: the materializer executes
\* a request ID once and keeps its receipt.
Effects(n) ==
    {i \in ItemSet :
        \E s \in 1..n : \E k \in DOMAIN log[s] :
            /\ log[s][k] = i
            /\ \A t \in 1..s : \A l \in DOMAIN log[t] :
                   (t < s \/ l < k) => log[t][l].id # i.id}

\* Mutant: the receipt is taken for the call's own without comparing payloads.
ReceiptMatchesById(c) == \E i \in Effects(appliedN) : i.id = Item(c).id

ReceiptMatches(c) == Item(c) \in Effects(appliedN)
ReceiptConflicts(c) == \E i \in Effects(appliedN) : i.id = Item(c).id /\ i # Item(c)

IdleBatch == [pc |-> "next", items |-> <<>>, carry |-> NoCall]
IdleJob == [pc |-> "idle", items |-> <<>>, stale |-> FALSE]

WriteInit ==
    /\ setup \in Setups
    /\ call = [c \in Call |-> [pc |-> "idle", res |-> "none", answer |-> "none"]]
    /\ ctxDone = {}
    /\ lease = [c \in Call |-> "none"]
    /\ admitted = 0
    /\ input = <<>>
    /\ queuedN = 0
    /\ batch = IdleBatch
    /\ job = [w \in Worker |-> IdleJob]
    /\ inflightN = 0
    /\ inflightB = 0
    /\ proposal = <<>>
    /\ permits = 0
    /\ server = [stage |-> "open", quiesce |-> "open", failed |-> FALSE]
    /\ lifecycle = {}
    /\ log = <<>>
    /\ pending = {}
    /\ appliedN = 0
    /\ disturbances = 0

-----------------------------------------------------------------------------
(* Leases: CompareAndSwap of the owner decides who releases.               *)

\* releaseCaller and releaseWorker for the calls in S.
Released(S) == [c \in Call |-> IF c \in S THEN "released" ELSE lease[c]]

OwnedBy(S, owner) == {c \in S : lease[c] = owner}

\* The call answers; the deferred releaseCaller and unlock run.
Answer(c, answer) ==
    /\ call' = [call EXCEPT ![c].pc = "done", ![c].answer = answer]
    /\ lease' = Released(OwnedBy({c}, "caller"))
    /\ admitted' = admitted - Cardinality(OwnedBy({c}, "caller"))

\* item.finish: the result goes to the callers and the worker's lease is released.
FinishItems(S, res) ==
    /\ call' = [c \in Call |-> IF c \in S THEN [call[c] EXCEPT !.res = res] ELSE call[c]]
    /\ lease' = Released(OwnedBy(S, "worker"))
    /\ admitted' = admitted - Cardinality(OwnedBy(S, "worker"))

-----------------------------------------------------------------------------
(* The handlers.                                                           *)

Ready == ~server.failed
Stopped == server.stage # "open"                   \* proposalCtx is done
BatcherStopped == server.stage \in {"stopping", "closed"} \* b.ctx is done

AdmitMutation(c) ==
    /\ call[c].pc = "idle" /\ c \in setup.calls
    /\ server.stage = "open"
    /\ \/ /\ Ready
          /\ admitted < MaxAdmitted
          /\ call' = [call EXCEPT ![c].pc = "admitted"]
          /\ lease' = [lease EXCEPT ![c] = "caller"]
          /\ admitted' = admitted + 1
       \/ /\ ~Ready \/ admitted >= MaxAdmitted
          /\ Answer(c, "error")
    /\ UNCHANGED <<ctxDone, batchVars, proposal, permits, server, lifecycle, logVars, otherVars>>

Locked(id) == \E c \in Call : Item(c).id = id /\ call[c].pc \notin {"idle", "admitted", "done"}

LockRequest(c) ==
    /\ call[c].pc = "admitted"
    /\ \/ /\ ~Locked(Item(c).id) /\ c \notin ctxDone /\ ~Stopped
          /\ call' = [call EXCEPT ![c].pc = "locked"]
          /\ UNCHANGED <<lease, admitted>>
       \/ /\ c \in ctxDone \/ Stopped
          /\ Answer(c, "error")
    /\ UNCHANGED <<ctxDone, batchVars, proposal, permits, server, lifecycle, logVars, otherVars>>

\* beginLocalLifecycle's capacity, checked under proposeMu.
PermitLimit == IF Local THEN 1 ELSE LocalCap
Open == server.stage = "open" /\ server.quiesce = "open" /\ ~server.failed

\* A receipt is found: it conflicts, or it is answered once it is durable.  In
\* local mode the wait is a lifecycle of its own that holds a permit.
AnswerReceipt(c) ==
    /\ call[c].pc = "locked"
    /\ \/ /\ ReceiptConflicts(c)
          /\ Answer(c, "conflict")
          /\ UNCHANGED <<permits, lifecycle>>
       \/ /\ ReceiptMatches(c) /\ ~Local
          /\ Answer(c, "ok") \/ Answer(c, "unknown")
          /\ UNCHANGED <<permits, lifecycle>>
       \/ /\ ReceiptMatches(c) /\ Local
          /\ \/ /\ Open /\ permits < PermitLimit
                /\ permits' = permits + 1
                /\ lifecycle' = lifecycle \cup {c}
                /\ call' = [call EXCEPT ![c].pc = "durable"]
                /\ UNCHANGED <<lease, admitted>>
             \/ /\ ~(Open /\ permits < PermitLimit)
                /\ Answer(c, "error")
                /\ UNCHANGED <<permits, lifecycle>>
    /\ UNCHANGED <<ctxDone, batchVars, proposal, server, logVars, otherVars>>

\* finishLocalLifecycle: an error is sticky and invalidates waiting admissions.
FinishLifecycle(c, ok) ==
    /\ c \in lifecycle
    /\ lifecycle' = lifecycle \ {c}
    /\ permits' = permits - 1
    /\ server' = [server EXCEPT !.failed = @ \/ ~ok]
    /\ job' = [w \in Worker |-> [job[w] EXCEPT !.stale = @ \/ ~ok]]
    /\ call' = [call EXCEPT ![c].res = IF ok THEN "ok" ELSE "unknown"]
    /\ UNCHANGED <<ctxDone, lease, admitted, input, queuedN, batch, inflightN, inflightB,
                   proposal, logVars, otherVars>>

AwaitDurable(c) ==
    /\ call[c].pc = "durable"
    /\ \/ call[c].res # "none" /\ Answer(c, call[c].res)
       \/ c \in ctxDone /\ Answer(c, "unknown")
    /\ UNCHANGED <<ctxDone, batchVars, proposal, permits, server, lifecycle, logVars, otherVars>>

\* submitEncoded: the lease goes to the worker, the queue is charged, and the
\* item is sent unless the caller's or the batcher's context wins the select.
\* The charge keeps the channel from filling up, so its default never runs.
Submit(c) ==
    /\ call[c].pc = "locked" /\ c \notin Direct
    /\ ~ReceiptMatches(c) /\ ~ReceiptConflicts(c)
    /\ \/ /\ queuedN < MaxQueued
          /\ lease' = [lease EXCEPT ![c] = "worker"]
          /\ queuedN' = queuedN + 1
          /\ input' = Append(input, c)
          /\ call' = [call EXCEPT ![c].pc = "queued"]
          /\ UNCHANGED admitted
       \/ /\ queuedN >= MaxQueued \/ c \in ctxDone \/ BatcherStopped
          /\ Answer(c, "error")
          /\ UNCHANGED <<queuedN, input>>
    /\ UNCHANGED <<ctxDone, batch, job, inflightN, inflightB, proposal, permits, server,
                   lifecycle, logVars, otherVars>>

\* The second select of submitEncoded.
AwaitResult(c) ==
    /\ call[c].pc = "queued"
    /\ \/ /\ call[c].res = "ok"
          /\ call' = [call EXCEPT ![c].pc = "reread"]
          /\ UNCHANGED <<lease, admitted>>
       \/ call[c].res \in {"error", "unknown"} /\ Answer(c, call[c].res)
       \/ (c \in ctxDone \/ BatcherStopped) /\ Answer(c, "unknown")
    /\ UNCHANGED <<ctxDone, batchVars, proposal, permits, server, lifecycle, logVars, otherVars>>

\* The receipt is read again after the commit.  A failed read leaves the outcome
\* of a batched call unknown.  NotifyPublish compares the payload first, where a
\* failure and a conflict both become an unknown outcome, and then reads the
\* receipt, where a failure is reported like any other error.
Reread(c) ==
    /\ call[c].pc = "reread"
    /\ \/ ReceiptMatches(c) /\ Answer(c, "ok")
       \/ ReceiptConflicts(c) /\ Answer(c, IF c \in Direct THEN "unknown" ELSE "conflict")
       \/ c \in ctxDone /\ Answer(c, "unknown")
       \/ c \in ctxDone /\ c \in Direct /\ ReceiptMatches(c) /\ Answer(c, "error")
    /\ UNCHANGED <<ctxDone, batchVars, proposal, permits, server, lifecycle, logVars, otherVars>>

\* The caller gives up.
Cancel(c) ==
    /\ call[c].pc \notin {"idle", "done"}
    /\ c \notin ctxDone
    /\ Disturb
    /\ ctxDone' = ctxDone \cup {c}
    /\ UNCHANGED <<callVars, batchVars, proposal, permits, server, lifecycle, logVars>>

-----------------------------------------------------------------------------
(* The batcher's run loop.                                                 *)

\* rejectQueued, after the failure of the items already taken.
StopBatcher(taken) ==
    /\ FinishItems(taken \cup Elements(input), "error")
    /\ queuedN' = queuedN - Len(input)
    /\ input' = <<>>
    /\ batch' = [IdleBatch EXCEPT !.pc = "exited"]

Take(pc, items, carry) ==
    /\ input' = Tail(input)
    /\ queuedN' = queuedN - 1
    /\ batch' = [pc |-> pc, items |-> items, carry |-> carry]

\* Mutant: next waits for an item only.
BatchNextWaits ==
    /\ batch.pc = "next" /\ batch.carry = NoCall /\ input # <<>>
    /\ Take("collect", <<Head(input)>>, NoCall)
    /\ UNCHANGED <<callVars, ctxDone, job, inflightN, inflightB, proposal, permits, server,
                   lifecycle, logVars, otherVars>>

\* next: the carried item comes first, even after Close.
BatchNext ==
    /\ batch.pc = "next"
    /\ \/ /\ batch.carry # NoCall
          /\ batch' = [pc |-> "collect", items |-> <<batch.carry>>, carry |-> NoCall]
          /\ UNCHANGED <<callVars, input, queuedN>>
       \/ /\ batch.carry = NoCall /\ input # <<>>
          /\ Take("collect", <<Head(input)>>, NoCall)
          /\ UNCHANGED callVars
       \/ /\ batch.carry = NoCall /\ BatcherStopped
          /\ StopBatcher({})
    /\ UNCHANGED <<ctxDone, job, inflightN, inflightB, proposal, permits, server, lifecycle,
                   logVars, otherVars>>

\* One turn of collect: an item joins the batch or is carried over, the timer
\* or the target size ends the batch, or the batcher stops.
BatchCollect ==
    /\ batch.pc = "collect"
    /\ \/ /\ input # <<>> /\ Len(batch.items) < BatchLimit
          /\ LET items == Append(batch.items, Head(input))
             IN IF BytesOf(items) > ValueLimit
                THEN Take("dispatch", batch.items, Head(input))
                ELSE Take("collect", items, NoCall)
          /\ UNCHANGED callVars
       \/ /\ batch' = [batch EXCEPT !.pc = "dispatch"]
          /\ UNCHANGED <<callVars, input, queuedN>>
       \/ /\ BatcherStopped /\ Len(batch.items) < BatchLimit
          /\ StopBatcher(Elements(batch.items))
    /\ UNCHANGED <<ctxDone, job, inflightN, inflightB, proposal, permits, server, lifecycle,
                   logVars, otherVars>>

BackToNext == batch' = [batch EXCEPT !.pc = "next", !.items = <<>>]

\* dispatch drops the items whose caller has gone.
BatchDispatch ==
    /\ batch.pc = "dispatch"
    /\ LET active == SelectSeq(batch.items, LAMBDA c : c \notin ctxDone)
       IN /\ FinishItems(Elements(batch.items) \cap ctxDone, "error")
          /\ IF active = <<>> THEN BackToNext
             ELSE batch' = [batch EXCEPT !.pc = "permit", !.items = active]
    /\ UNCHANGED <<ctxDone, input, queuedN, job, inflightN, inflightB, proposal, permits,
                   server, lifecycle, logVars, otherVars>>

\* Mutant: the permit is not returned when the byte budget is exceeded.
BatchPermitKept ==
    /\ batch.pc = "permit"
    /\ inflightN < Cardinality(Worker)
    /\ inflightN' = inflightN + 1
    /\ IF inflightB + BytesOf(batch.items) > InflightBytes
       THEN FinishItems(Elements(batch.items), "error") /\ BackToNext /\ UNCHANGED inflightB
       ELSE /\ inflightB' = inflightB + BytesOf(batch.items)
            /\ batch' = [batch EXCEPT !.pc = "send"]
            /\ UNCHANGED callVars
    /\ UNCHANGED <<ctxDone, input, queuedN, job, proposal, permits, server, lifecycle,
                   logVars, otherVars>>

\* The in-flight permit, waited for without a context, and the byte budget.
BatchPermit ==
    /\ batch.pc = "permit"
    /\ inflightN < Cardinality(Worker)
    /\ IF inflightB + BytesOf(batch.items) > InflightBytes
       THEN /\ FinishItems(Elements(batch.items), "error")
            /\ BackToNext
            /\ UNCHANGED <<inflightN, inflightB>>
       ELSE /\ inflightN' = inflightN + 1
            /\ inflightB' = inflightB + BytesOf(batch.items)
            /\ batch' = [batch EXCEPT !.pc = "send"]
            /\ UNCHANGED callVars
    /\ UNCHANGED <<ctxDone, input, queuedN, job, proposal, permits, server, lifecycle,
                   logVars, otherVars>>

\* The job is handed to a worker, or the batcher stops first.
BatchSend ==
    /\ batch.pc = "send"
    /\ \/ \E w \in Worker :
             /\ job[w].pc = "idle"
             /\ job' = [job EXCEPT ![w] = [IdleJob EXCEPT !.pc = "admission",
                                                          !.items = batch.items]]
             /\ UNCHANGED <<callVars, inflightN, inflightB>>
       \/ /\ BatcherStopped
          /\ FinishItems(Elements(batch.items), "error")
          /\ inflightN' = inflightN - 1
          /\ inflightB' = inflightB - BytesOf(batch.items)
          /\ UNCHANGED job
    /\ BackToNext
    /\ UNCHANGED <<ctxDone, input, queuedN, proposal, permits, server, lifecycle, logVars, otherVars>>

-----------------------------------------------------------------------------
(* Proposal admission.                                                     *)

NewProposal(leases) == [phase |-> "attempt", res |-> "none", leases |-> leases,
                        retried |-> FALSE]

\* proposeWithAdmission joins the call in flight for the same value or starts one.
StartOrJoin(value, leases) ==
    \/ /\ value \in DOMAIN proposal
       /\ proposal' = [proposal EXCEPT ![value].leases = @ \cup leases]
       /\ UNCHANGED permits
    \/ /\ value \notin DOMAIN proposal
       /\ permits < PermitLimit
       /\ proposal' = [v \in DOMAIN proposal \cup {value} |->
                          IF v = value THEN NewProposal(leases) ELSE proposal[v]]
       /\ permits' = permits + 1

Overloaded(value) == value \notin DOMAIN proposal /\ permits >= PermitLimit

\* A direct proposal fails fast.
ProposeDirect(c) ==
    /\ call[c].pc = "locked" /\ c \in Direct
    /\ ~ReceiptMatches(c) /\ ~ReceiptConflicts(c)
    /\ \/ /\ Open /\ c \notin ctxDone
          /\ StartOrJoin(ValueOf(<<c>>), {c})
          /\ lease' = [lease EXCEPT ![c] = "worker"]
          /\ call' = [call EXCEPT ![c].pc = "calling"]
          /\ UNCHANGED admitted
       \/ /\ ~Open \/ c \in ctxDone \/ Overloaded(ValueOf(<<c>>))
          /\ Answer(c, "error")
          /\ UNCHANGED <<proposal, permits>>
    /\ UNCHANGED <<ctxDone, batchVars, server, lifecycle, logVars, otherVars>>

\* NotifyPublish waits for call.done or its own context.
AwaitProposal(c) ==
    /\ call[c].pc = "calling"
    /\ \/ /\ call[c].res = "ok"
          /\ call' = [call EXCEPT ![c].pc = "reread"]
          /\ UNCHANGED <<lease, admitted>>
       \/ call[c].res \in {"error", "unknown"} /\ Answer(c, call[c].res)
       \/ c \in ctxDone /\ Answer(c, "unknown")
    /\ UNCHANGED <<ctxDone, batchVars, proposal, permits, server, lifecycle, logVars, otherVars>>

\* The worker is done with its job: results, then the in-flight permit.
EndJob(w, res) ==
    /\ FinishItems(Elements(job[w].items), res)
    /\ job' = [job EXCEPT ![w] = IdleJob]
    /\ inflightN' = inflightN - 1
    /\ inflightB' = inflightB - BytesOf(job[w].items)

\* A batch waits for a permit until its budget is spent, admission is
\* invalidated or the batcher stops.
ProposeBatch(w) ==
    /\ job[w].pc = "admission"
    /\ \/ /\ Open /\ ~job[w].stale /\ ~BatcherStopped
          /\ StartOrJoin(ValueOf(job[w].items), {})
          /\ job' = [job EXCEPT ![w].pc = "call"]
          /\ UNCHANGED <<callVars, inflightN, inflightB>>
       \/ /\ ~Open \/ job[w].stale \/ BatcherStopped \/ Overloaded(ValueOf(job[w].items))
          /\ EndJob(w, "error")
          /\ UNCHANGED <<proposal, permits>>
    /\ UNCHANGED <<ctxDone, input, queuedN, batch, server, lifecycle, logVars, otherVars>>

\* The 30 s of the job, or Close, end before the proposal does.
AbandonJob(w) ==
    /\ job[w].pc = "call"
    /\ \/ BatcherStopped /\ UNCHANGED otherVars
       \/ ~BatcherStopped /\ Disturb
    /\ EndJob(w, "unknown")
    /\ UNCHANGED <<ctxDone, input, queuedN, batch, proposal, permits, server, lifecycle, logVars>>

-----------------------------------------------------------------------------
(* The proposal.                                                           *)

SetProposal(v, fields) ==
    proposal' = [proposal EXCEPT ![v] =
                    [f \in DOMAIN @ |-> IF f \in DOMAIN fields THEN fields[f] ELSE @[f]]]

\* Mutant: a failure is reported as it is.
FailureAsIs(slotKnown) == "error"

\* commitUnknown: a failure with a slot may still commit.
Failure(slotKnown) == IF slotKnown THEN "unknown" ELSE "error"

\* proposeOnce: the value is decided already, or Propose runs.  It refuses the
\* value before anything is sent, loses track of it, or commits it.
Attempt(v) ==
    /\ v \in DOMAIN proposal /\ proposal[v].phase = "attempt"
    /\ \/ /\ v \in Elements(log)
          /\ \/ SetProposal(v, [phase |-> "apply"])
             \/ SetProposal(v, [phase |-> "release", res |-> Failure(TRUE)])
          /\ UNCHANGED <<log, pending>>
       \/ /\ v \notin Elements(log)
          /\ SetProposal(v, [phase |-> "release", res |-> Failure(FALSE)])
          /\ UNCHANGED <<log, pending>>
       \/ /\ v \notin Elements(log)
          /\ SetProposal(v, [phase |-> "release", res |-> Failure(TRUE)])
          /\ pending' = pending \cup {v}
          /\ UNCHANGED log
       \/ /\ v \notin Elements(log)
          /\ SetProposal(v, [phase |-> "apply"])
          /\ log' = Append(log, v)
          /\ pending' = pending \ {v}
    /\ UNCHANGED <<callVars, ctxDone, batchVars, permits, server, lifecycle, appliedN, otherVars>>

\* The protected reserve of local mode refuses the value before anything is written.
Deny(v) ==
    /\ Local /\ Disturb
    /\ v \in DOMAIN proposal /\ proposal[v].phase = "attempt"
    /\ \/ /\ ~proposal[v].retried
          /\ SetProposal(v, [phase |-> "denied", res |-> "error"])
          /\ permits' = permits - 1
       \/ /\ proposal[v].retried
          /\ SetProposal(v, [phase |-> "finish", res |-> "error"])
          /\ permits' = permits - 1
    /\ UNCHANGED <<callVars, ctxDone, batchVars, server, lifecycle, logVars>>

\* Mutant: beginLocalRetry does not look at quiescing.
MaintainUnchecked(v) ==
    /\ v \in DOMAIN proposal /\ proposal[v].phase = "denied"
    /\ permits < PermitLimit
    /\ SetProposal(v, [phase |-> "attempt", retried |-> TRUE, res |-> "none"])
    /\ permits' = permits + 1
    /\ UNCHANGED <<callVars, ctxDone, batchVars, server, lifecycle, logVars, otherVars>>

\* The reclaim handler: refused or not ready, failed, or done; beginLocalRetry
\* then takes the permits again unless the server is no longer open.
Maintain(v) ==
    /\ v \in DOMAIN proposal /\ proposal[v].phase = "denied"
    /\ \/ /\ SetProposal(v, [phase |-> "finish"])
          /\ UNCHANGED <<permits, server, job>>
       \/ /\ SetProposal(v, [phase |-> "finish", res |-> "unknown"])
          /\ server' = [server EXCEPT !.failed = TRUE]
          /\ job' = [w \in Worker |-> [job[w] EXCEPT !.stale = TRUE]]
          /\ UNCHANGED permits
       \/ /\ Open /\ permits < PermitLimit
          /\ SetProposal(v, [phase |-> "attempt", retried |-> TRUE, res |-> "none"])
          /\ permits' = permits + 1
          /\ UNCHANGED <<server, job>>
    /\ UNCHANGED <<callVars, ctxDone, input, queuedN, batch, inflightN, inflightB, lifecycle,
                   logVars, otherVars>>

SlotOf(v) == CHOOSE s \in DOMAIN log : log[s] = v

\* applyDecisions, under applyMu, and waitDurable.
Apply(v) ==
    /\ v \in DOMAIN proposal /\ proposal[v].phase = "apply"
    /\ server.quiesce # "held"
    /\ \/ /\ appliedN' = IF appliedN < SlotOf(v) THEN SlotOf(v) ELSE appliedN
          /\ \/ SetProposal(v, [phase |-> "release", res |-> "ok"])
             \/ SetProposal(v, [phase |-> "release", res |-> Failure(TRUE)])
       \/ /\ SetProposal(v, [phase |-> "release", res |-> Failure(TRUE)])
          /\ UNCHANGED appliedN
    /\ UNCHANGED <<callVars, ctxDone, batchVars, permits, server, lifecycle, log, pending, otherVars>>

\* FailLocalLifecycle, for a core failure of local mode, and releaseProposalAttempt.
\* The failure makes the outcome unknown whether or not the slot is known.
ReleaseAttempt(v) ==
    /\ v \in DOMAIN proposal /\ proposal[v].phase = "release"
    /\ LET fails == Local /\ proposal[v].res # "ok"
       IN /\ server' = [server EXCEPT !.failed = @ \/ fails]
          /\ job' = [w \in Worker |-> [job[w] EXCEPT !.stale = @ \/ fails]]
          /\ SetProposal(v, [phase |-> "finish",
                             res |-> IF fails THEN "unknown" ELSE proposal[v].res])
    /\ permits' = permits - 1
    /\ UNCHANGED <<callVars, ctxDone, input, queuedN, batch, inflightN, inflightB, lifecycle,
                   logVars, otherVars>>

\* finishProposalLogical: the call leaves s.inflight, its leases are released and
\* everybody waiting for call.done sees the result.
FinishProposal(v) ==
    /\ v \in DOMAIN proposal /\ proposal[v].phase = "finish"
    /\ LET res == proposal[v].res
           joined == proposal[v].leases
           waiting == {w \in Worker : job[w].pc = "call" /\ ValueOf(job[w].items) = v}
           batched == UNION {Elements(job[w].items) : w \in waiting}
           bytes[S \in SUBSET Worker] ==
               IF S = {} THEN 0 ELSE LET w == CHOOSE x \in S : TRUE
                                     IN BytesOf(job[w].items) + bytes[S \ {w}]
       IN /\ FinishItems(joined \cup batched, res)
          /\ job' = [w \in Worker |-> IF w \in waiting THEN IdleJob ELSE job[w]]
          /\ inflightN' = inflightN - Cardinality(waiting)
          /\ inflightB' = inflightB - bytes[waiting]
          /\ proposal' = [u \in DOMAIN proposal \ {v} |-> proposal[u]]
    /\ UNCHANGED <<ctxDone, input, queuedN, batch, permits, server, lifecycle, logVars, otherVars>>

\* Another node, or recovery, brings a value that was lost track of to a decision.
CommitLate(v) ==
    /\ v \in pending
    /\ log' = Append(log, v)
    /\ pending' = pending \ {v}
    /\ UNCHANGED <<callVars, ctxDone, batchVars, proposal, permits, server, lifecycle, appliedN, otherVars>>

-----------------------------------------------------------------------------
(* Quiesce and Close.                                                      *)

\* signalAdmissionLocked(true): whoever waits for admission is refused.
Invalidate == job' = [w \in Worker |-> [job[w] EXCEPT !.stale = TRUE]]

SetQuiesce(q) == server' = [server EXCEPT !.quiesce = q]

Quiesce ==
    /\ Open /\ Disturb
    /\ SetQuiesce("draining")
    /\ Invalidate
    /\ UNCHANGED <<callVars, ctxDone, input, queuedN, batch, inflightN, inflightB, proposal,
                   permits, lifecycle, logVars>>

\* proposalWG is drained: applyMu is taken; after a failure Quiesce returns with
\* quiescing still set; after the caller's timeout admission is opened again.
Drained ==
    /\ server.quiesce \in {"draining", "abandoned"} /\ permits = 0
    /\ \/ /\ server.quiesce = "draining" /\ ~server.failed
          /\ SetQuiesce("held")
          /\ UNCHANGED job
       \/ /\ server.quiesce = "draining" /\ server.failed
          /\ SetQuiesce("stuck")
          /\ UNCHANGED job
       \/ /\ server.quiesce = "abandoned"
          /\ SetQuiesce("open")
          /\ Invalidate
    /\ UNCHANGED <<callVars, ctxDone, input, queuedN, batch, inflightN, inflightB, proposal,
                   permits, lifecycle, logVars, otherVars>>

AbandonQuiesce ==
    /\ server.quiesce = "draining"
    /\ SetQuiesce("abandoned")
    /\ UNCHANGED <<callVars, ctxDone, batchVars, proposal, permits, lifecycle, logVars, otherVars>>

Resume ==
    /\ server.quiesce = "held"
    /\ SetQuiesce("open")
    /\ Invalidate
    /\ UNCHANGED <<callVars, ctxDone, input, queuedN, batch, inflightN, inflightB, proposal,
                   permits, lifecycle, logVars, otherVars>>

Close ==
    /\ server.stage = "open" /\ Disturb
    /\ server' = [server EXCEPT !.stage = "closing"]
    /\ Invalidate
    /\ UNCHANGED <<callVars, ctxDone, input, queuedN, batch, inflightN, inflightB, proposal,
                   permits, lifecycle, logVars>>

CloseBatcher ==
    /\ server.stage = "closing"
    /\ server' = [server EXCEPT !.stage = "stopping"]
    /\ UNCHANGED <<callVars, ctxDone, batchVars, proposal, permits, lifecycle, logVars, otherVars>>

\* The batcher's goroutines, proposalWG, logicalWG and handlerWG are done.
CloseReturns ==
    /\ server.stage = "stopping"
    /\ batch.pc = "exited" /\ \A w \in Worker : job[w].pc = "idle"
    /\ permits = 0 /\ DOMAIN proposal = {}
    /\ \A c \in Call : call[c].pc \in {"idle", "done"}
    /\ server' = [server EXCEPT !.stage = "closed"]
    /\ UNCHANGED <<callVars, ctxDone, batchVars, proposal, permits, lifecycle, logVars, otherVars>>

-----------------------------------------------------------------------------
CallStep(c) ==
    \/ LockRequest(c) \/ AnswerReceipt(c) \/ AwaitDurable(c) \/ Submit(c)
    \/ AwaitResult(c) \/ Reread(c) \/ ProposeDirect(c) \/ AwaitProposal(c)

BatchStep == BatchNext \/ BatchCollect \/ BatchDispatch \/ BatchPermit \/ BatchSend

JobStep(w) == ProposeBatch(w) \/ AbandonJob(w)

ProposalStep(v) ==
    Attempt(v) \/ Deny(v) \/ Maintain(v) \/ Apply(v) \/ ReleaseAttempt(v) \/ FinishProposal(v)

WriteNext ==
    \/ \E c \in Call : \/ AdmitMutation(c) \/ CallStep(c) \/ Cancel(c)
                       \/ FinishLifecycle(c, TRUE) \/ FinishLifecycle(c, FALSE)
    \/ BatchStep
    \/ \E w \in Worker : JobStep(w)
    \/ \E v \in DOMAIN proposal : ProposalStep(v)
    \/ \E v \in pending : CommitLate(v)
    \/ Quiesce \/ Drained \/ AbandonQuiesce \/ Resume
    \/ Close \/ CloseBatcher \/ CloseReturns

WriteSpec == WriteInit /\ [][WriteNext]_writeVars

\* The goroutines make progress, contexts run out, a quiesced server is resumed.
WriteFairSpec ==
    /\ WriteSpec
    /\ \A c \in Call : /\ WF_writeVars(CallStep(c))
                       /\ WF_writeVars(FinishLifecycle(c, TRUE) \/ FinishLifecycle(c, FALSE))
    /\ WF_writeVars(BatchStep)
    /\ \A w \in Worker : WF_writeVars(JobStep(w))
    /\ WF_writeVars(\E v \in DOMAIN proposal : ProposalStep(v))
    /\ WF_writeVars(Resume)
    /\ WF_writeVars(CloseBatcher \/ CloseReturns)

-----------------------------------------------------------------------------
\* The shape of the state.
WriteTypeOK ==
    /\ setup \in Setups
    /\ call \in [Call -> [pc : {"idle", "admitted", "locked", "durable", "queued", "calling",
                                "reread", "done"},
                          res : {"none", "ok", "error", "unknown"},
                          answer : {"none", "ok", "error", "unknown", "conflict"}]]
    /\ ctxDone \subseteq Call
    /\ lease \in [Call -> {"none", "caller", "worker", "released"}]
    /\ {admitted, queuedN, inflightN, inflightB, permits, appliedN, disturbances}
           \subseteq Nat
    /\ input \in Seq(Call)
    /\ batch \in [pc : {"next", "collect", "dispatch", "permit", "send", "exited"},
                  items : Seq(Call), carry : Call \cup {NoCall}]
    /\ job \in [Worker -> [pc : {"idle", "admission", "call"}, items : Seq(Call),
                           stale : BOOLEAN]]
    /\ server \in [stage : {"open", "closing", "stopping", "closed"},
                   quiesce : {"open", "draining", "abandoned", "held", "stuck"},
                   failed : BOOLEAN]
    /\ lifecycle \subseteq Call
    /\ log \in Seq(Seq(ItemSet))
    /\ appliedN <= Len(log)

Refused(c) == call[c].answer \in {"error", "conflict"}

\* CommitUnknownError "means a mutation may commit despite the failed call"
\* (server.go), so any other error means it does not: the item of a batched call
\* that was refused takes effect only if another attempt with the same request
\* ID and payload was not refused.
DefiniteErrorsTrue ==
    \A c \in Call \ Direct :
        Refused(c) /\ Item(c) \in Effects(Len(log)) =>
            \E d \in Call : Item(d) = Item(c) /\ call[d].pc # "idle" /\ ~Refused(d)

\* The same for NotifyPublish, of which the release notes of v0.18.0 say "Return
\* ErrCommitUnknown with the request ID when a notification is canceled after
\* submission".  It does not hold: NotifyPublish passes such an error on as it
\* is (README, section 5).
NotifyErrorsTrue ==
    \A c \in Direct :
        Refused(c) /\ Item(c) \in Effects(Len(log)) =>
            \E d \in Call : Item(d) = Item(c) /\ call[d].pc # "idle" /\ ~Refused(d)

\* A call that was answered with a receipt took effect with its own payload,
\* whatever other calls with its request ID were in flight.
OkAnswersHold == \A c \in Call : call[c].answer = "ok" => Item(c) \in Effects(appliedN)

\* Where the work of a call may be once its lease was transferred.
InWork(c) ==
    \/ c \in Elements(input) \cup Elements(batch.items) \cup {batch.carry}
    \/ \E w \in Worker : c \in Elements(job[w].items)
    \/ \E v \in DOMAIN proposal : c \in proposal[v].leases

\* The 128 admissions are charged exactly for the calls whose memory is in use:
\* a worker's lease is held as long as the item is queued, batched or proposed,
\* also after its caller has gone, and by nobody else.
LeasesMatchWork ==
    /\ admitted = Cardinality({c \in Call : lease[c] \in {"caller", "worker"}})
    /\ \A c \in Call : /\ lease[c] = "worker" <=> InWork(c)
                       /\ lease[c] = "caller" => call[c].pc \notin {"idle", "done"}

Running == {v \in DOMAIN proposal : proposal[v].phase \in {"attempt", "apply", "release"}}

\* Queue charges, in-flight permits and proposal permits are returned exactly
\* once on every path out of the batcher, the proposal and its local retry.
BudgetsBalance ==
    /\ queuedN = Len(input)
    /\ permits = Cardinality(Running) + Cardinality(lifecycle) /\ permits <= PermitLimit
    /\ inflightN = Cardinality({w \in Worker : job[w].pc # "idle"})
                   + (IF batch.pc = "send" THEN 1 ELSE 0)
    /\ inflightN = 0 => inflightB = 0

\* Every resource a mutation takes is held for as long as it is used and given
\* back once, whoever goes first: the caller, the worker, maintenance or Close.
ResourcesBalance == LeasesMatchWork /\ BudgetsBalance

\* While a checkpoint replaces the state nothing is proposed or applied, the
\* retry of a denied local proposal included.
QuiesceExcludes == server.quiesce = "held" => Running = {} /\ lifecycle = {}

\* Close returns: dispatch waits for an in-flight permit without a context, but
\* the workers that hold one see the batcher's context.
CloseCompletes == server.stage = "closing" ~> server.stage = "closed"

=============================================================================
