------------------------------ MODULE QuePaxa -------------------------------
(***************************************************************************)
(* One slot of the log of pkg/quepaxa/core.go: the proposer loop runSlot,  *)
(* the recorder Record, the certificates they produce, the learners that   *)
(* accept them, failed runs that are retried and nodes that restart.       *)
(*                                                                         *)
(* Every node is proposer, recorder and learner.  Record requests stay in  *)
(* the network for ever, so a recorder may answer them late, in any order  *)
(* or not at all, and a proposer may miss any answer.  A recorder answers  *)
(* only what its log has synced (see RecorderLog), so the register kept    *)
(* here is the durable one and an answer is one step with the append.      *)
(***************************************************************************)
EXTENDS Register, FiniteSets

CONSTANTS
    Leader,       \* LeaderOrder(slot)[0]
    Offers,       \* Offers[n]: the hashes clients may hand to n
    Gaps,         \* nodes that learn of a later slot first, and re-drive this one
    Up,           \* the recorders that are never down for good
    Barrier,      \* Barrier[n]: hash of the read barrier recoveryValue falls back to
    MaxStep,      \* bound: no run goes beyond this step
    MaxRuns,      \* bound: MaxRuns[w] runs of the slot by worker w
    MaxCuts,      \* bound: runs cut short
    MaxRestarts   \* bound: MaxRestarts[n] restarts of node n

\* A node may drive the slot twice at once: the write pipeline hands a slot to
\* one Propose at a time, the recovery gate admits one RecoverThrough, and
\* recovery does not wait for the pipeline.
Worker == {<<n, kind>> : n \in NodeID, kind \in {"propose", "recover"}}

ASSUME QuePaxaAssumption ==
    /\ IsFiniteSet(NodeID)
    /\ Leader \in NodeID
    /\ Offers \in [NodeID -> SUBSET Hash]
    /\ Gaps \subseteq NodeID
    /\ Up \subseteq NodeID
    /\ Barrier \in [NodeID -> Hash]
    /\ MaxStep \in Nat
    /\ MaxRuns \in [Worker -> Nat]
    /\ MaxCuts \in Nat
    /\ MaxRestarts \in [NodeID -> Nat]

VARIABLES
    isr,        \* isr[n]: the slot's register in n's recorder, as on disk
    run,        \* run[w]: w's latest execution of runSlot
    reserved,   \* nodes whose Propose has taken this slot since they started
    recovering, \* restarted nodes that must re-drive the slot before serving
    requests,   \* every RecordRequest sent
    summaries,  \* every Summary a recorder answered
    decisions,  \* every Decision runSlot returned
    decided,    \* decided[n]: the decision n has accepted, or NoDecision
    logged,     \* nodes whose accepted decision is on disk
    cuts,       \* runs cut short so far
    restarts    \* restarts[n]: restarts of n so far

vars == <<isr, run, reserved, recovering, requests, summaries, decisions,
          decided, logged, cuts, restarts>>

Quorum == {Q \in SUBSET NodeID : 2 * Cardinality(Q) > Cardinality(NodeID)}

\* recordQuorum returns as soon as QuorumSize() recorders have answered.
SmallestQuorum == {Q \in Quorum : \A n \in Q : Q \ {n} \notin Quorum}

\* slot and configuration are fixed here; from and round identify the call
Request == [from : Worker, round : Nat, step : Nat, proposal : Proposal]

\* "isr": read from the register; "decision": made up from the accepted one
Summary == [recorder : NodeID, request : Request, step : Nat,
            first : OptProposal, prior : OptProposal,
            source : {"isr", "decision"}]

Decision == [step : Nat, proposal : Proposal, summaries : SUBSET Summary]

NoDecision == [step |-> 0, proposal |-> NilProposal, summaries |-> {}]

IdleRun == [active |-> FALSE, round |-> 0, step |-> 0, proposal |-> NilProposal]

Init ==
    /\ isr = [n \in NodeID |-> EmptyISR]
    /\ run = [w \in Worker |-> IdleRun]
    /\ reserved = {}
    /\ recovering = {}
    /\ requests = {}
    /\ summaries = {}
    /\ decisions = {}
    /\ decided = [n \in NodeID |-> NoDecision]
    /\ logged = {}
    /\ cuts = 0
    /\ restarts = [n \in NodeID |-> 0]

-----------------------------------------------------------------------------
(* The proposer: Propose, RecoverThrough and runSlot.                      *)

Decided(n) == decided[n] # NoDecision

CurrentRequest(w) == [from |-> w, round |-> run[w].round, step |-> run[w].step,
                      proposal |-> run[w].proposal]

\* One turn of runSlot's loop: the candidate goes to all recorders at once.
SendRecord(w, round, step, proposal) ==
    /\ step <= MaxStep
    /\ run' = [run EXCEPT ![w] = [active |-> TRUE, round |-> round, step |-> step,
                                  proposal |-> proposal]]
    /\ requests' = requests \cup {[from |-> w, round |-> round, step |-> step,
                                   proposal |-> proposal]}

\* Phase 0 draws a new priority, the other phases keep the proposal as it is.
Candidates(step, proposal) ==
    IF step % 4 = 0 THEN {[proposal EXCEPT !.priority = p] : p \in RandomPriority}
                    ELSE {proposal}

EndOfRun(w) == run' = [run EXCEPT ![w].active = FALSE]

\* The loop starts over; a decision the node has accepted in the meantime is
\* returned instead of another turn.
NextTurn(w, step, proposal) ==
    /\ \/ /\ Decided(w[1])
          /\ EndOfRun(w)
          /\ UNCHANGED requests
       \/ /\ ~Decided(w[1])
          /\ \E c \in Candidates(step, proposal) : SendRecord(w, run[w].round, step, c)
    /\ UNCHANGED <<isr, reserved, recovering, summaries, decisions, decided, logged,
                   cuts, restarts>>

CanStart(w) ==
    /\ ~run[w].active
    /\ ~Decided(w[1])
    /\ run[w].round < MaxRuns[w]

\* Mutant: a retried slot keeps the fast path.
FirstPrioritiesAlways(n, reused) == IF n = Leader THEN {High} ELSE RandomPriority

\* Only the leader's first Propose of a slot skips the random priority.
FirstPriorities(n, reused) ==
    IF n = Leader /\ ~reused THEN {High} ELSE RandomPriority

\* reserveSlot hands out a new slot or one that an earlier Propose released.
Propose(n, hash) ==
    LET w == <<n, "propose">>
    IN /\ CanStart(w)
       /\ n \notin recovering
       /\ reserved' = reserved \cup {n}
       /\ \E p \in FirstPriorities(n, n \in reserved) :
            SendRecord(w, run[w].round + 1, 4,
                       [priority |-> p, proposerID |-> n, hash |-> hash])
       /\ UNCHANGED <<isr, recovering, summaries, decisions, decided, logged,
                      cuts, restarts>>

\* The value of the largest proposal in n's own register, else a read barrier.
RecoveryValue(n) ==
    LET best == Larger(Larger(isr[n].first, isr[n].agg), isr[n].prior)
    IN IF best = NilProposal THEN Barrier[n] ELSE best.hash

\* RecoverThrough re-drives the slot with the fast path disabled, at start-up or
\* below a later decision.
Recover(n) ==
    LET w == <<n, "recover">>
    IN /\ n \in recovering \cup Gaps
       /\ CanStart(w)
       /\ \E p \in FirstPriorities(n, TRUE) :
            SendRecord(w, run[w].round + 1, 4,
                       [priority |-> p, proposerID |-> n, hash |-> RecoveryValue(n)])
       /\ UNCHANGED <<isr, reserved, recovering, summaries, decisions, decided, logged,
                      cuts, restarts>>

\* The sets of answers recordQuorum may return for w's current request.
AnswerSets(w) ==
    {S \in SUBSET {a \in summaries : a.request = CurrentRequest(w)} :
        {a.recorder : a \in S} \in SmallestQuorum}

AllCurrent(w, S) == \A a \in S : a.step = run[w].step

Firsts(S) == {a.first : a \in S}
Priors(S) == {a.prior : a \in S}

\* A recorder is ahead: continue from the highest summary received.
CatchUp(w, S) ==
    /\ ~AllCurrent(w, S)
    /\ \E a \in S :
         /\ a.step > run[w].step
         /\ \A b \in S : \/ b.step < a.step
                        \/ (b.step = a.step /\ a.recorder <= b.recorder)
         /\ NextTurn(w, a.step, a.first)

\* The summaries are scanned in recorder order; the scan of a possible fast
\* decision stops with an error at a second highest-priority proposal.
Highest(a) == a.first.priority = High
FastCandidate(w, S) == run[w].step = 4 /\ \A a \in S : Highest(a)

ConflictingHighest(w, S) ==
    /\ run[w].step = 4
    /\ \E a, b \in S :
         /\ a.first # b.first
         /\ \A c \in S : c.recorder <= a.recorder \/ c.recorder <= b.recorder => Highest(c)

\* The run fails; releaseSlot leaves the slot to a retry, which finds it reused.
Conflict(w, S) ==
    /\ AllCurrent(w, S)
    /\ ConflictingHighest(w, S)
    /\ EndOfRun(w)
    /\ UNCHANGED <<isr, reserved, recovering, requests, summaries, decisions, decided,
                   logged, cuts, restarts>>

\* Mutant: phase 0 sticks to the run's own proposal.
Phase0Own(w, S) ==
    /\ AllCurrent(w, S)
    /\ run[w].step % 4 = 0
    /\ ~FastCandidate(w, S) /\ ~ConflictingHighest(w, S)
    /\ NextTurn(w, run[w].step + 1, run[w].proposal)

Phase0(w, S) ==
    /\ AllCurrent(w, S)
    /\ run[w].step % 4 = 0
    /\ ~FastCandidate(w, S) /\ ~ConflictingHighest(w, S)
    /\ \E best \in Firsts(S) : /\ IsLargest(best, Firsts(S))
                               /\ NextTurn(w, run[w].step + 1, best)

Phase1(w, S) ==
    /\ AllCurrent(w, S)
    /\ run[w].step % 4 = 1
    /\ NextTurn(w, run[w].step + 1, run[w].proposal)

Phase2(w, S) ==
    /\ AllCurrent(w, S)
    /\ run[w].step % 4 = 2 /\ ~IsLargest(run[w].proposal, Priors(S))
    /\ NextTurn(w, run[w].step + 1, run[w].proposal)

Phase3(w, S) ==
    /\ AllCurrent(w, S)
    /\ run[w].step % 4 = 3
    /\ \E best \in Priors(S) : /\ IsLargest(best, Priors(S)) /\ best # NilProposal
                               /\ NextTurn(w, run[w].step + 1, best)

\* validateDecision: what every learner checks of a certificate.
ValidDecision(d) ==
    /\ {a.recorder : a \in d.summaries} \in Quorum
    /\ \A a, b \in d.summaries : a.recorder = b.recorder => a = b
    /\ \A a \in d.summaries : a.step = d.step
    /\ \/ /\ d.step = 4
          /\ d.proposal.proposerID = Leader /\ d.proposal.priority = High
          /\ \A a \in d.summaries : a.first = d.proposal
       \/ /\ d.step % 4 = 2
          /\ IsLargest(d.proposal, Priors(d.summaries))

\* acceptDecision refuses an invalid certificate and another value.
Acceptable(n, d) ==
    /\ ValidDecision(d)
    /\ Decided(n) => decided[n].proposal.hash = d.proposal.hash

\* runSlot returns a decision and the node accepts it.  RecoverThrough syncs it;
\* Propose only appends it, and Restart tells whether it reached the disk.
Decide(w, decision) ==
    LET n == w[1]
        ok == Acceptable(n, decision)
    IN /\ decisions' = decisions \cup {decision}
       /\ decided' = IF ok /\ ~Decided(n) THEN [decided EXCEPT ![n] = decision] ELSE decided
       /\ logged' = IF ok /\ w[2] = "recover" THEN logged \cup {n} ELSE logged
       /\ recovering' = IF ok THEN recovering \ {n} ELSE recovering
       /\ EndOfRun(w)
       /\ UNCHANGED <<isr, reserved, requests, summaries, cuts, restarts>>

DecideFast(w, S) ==
    /\ AllCurrent(w, S)
    /\ FastCandidate(w, S) /\ ~ConflictingHighest(w, S)
    /\ \E p \in Firsts(S) : Decide(w, [step |-> 4, proposal |-> p, summaries |-> S])

\* Mutant: phase 2 only looks for its proposal among the priors.
DecideSlowAny(w, S) ==
    /\ AllCurrent(w, S)
    /\ run[w].step % 4 = 2 /\ run[w].proposal \in Priors(S)
    /\ Decide(w, [step |-> run[w].step, proposal |-> run[w].proposal, summaries |-> S])

DecideSlow(w, S) ==
    /\ AllCurrent(w, S)
    /\ run[w].step % 4 = 2 /\ IsLargest(run[w].proposal, Priors(S))
    /\ Decide(w, [step |-> run[w].step, proposal |-> run[w].proposal, summaries |-> S])

\* A run ends early: too few answers or a cancelled context.
EndRun(w) ==
    /\ run[w].active
    /\ cuts < MaxCuts
    /\ cuts' = cuts + 1
    /\ EndOfRun(w)
    /\ UNCHANGED <<isr, reserved, recovering, requests, summaries, decisions, decided,
                   logged, restarts>>

-----------------------------------------------------------------------------
(* The recorder and the learner.                                           *)

\* Mutant: a decided slot always answers with the step of its decision.
DecidedSummaryOldStep(r, m) ==
    [recorder |-> r, request |-> m, step |-> decided[r].step,
     first |-> decided[r].proposal, prior |-> decided[r].proposal, source |-> "decision"]

\* A decided slot is answered from the certificate, which is logged first.
DecidedSummary(r, m) ==
    LET d == decided[r]
    IN [recorder |-> r, request |-> m,
        step |-> IF m.step > d.step THEN m.step ELSE d.step,
        first |-> d.proposal, prior |-> d.proposal, source |-> "decision"]

ISRSummary(r, m, state) ==
    [recorder |-> r, request |-> m, step |-> state.step,
     first |-> state.first, prior |-> state.prior, source |-> "isr"]

Unanswered(r, m) == \A a \in summaries : a.recorder = r => a.request # m

RecordDecided(r, m) ==
    /\ Decided(r)
    /\ Unanswered(r, m)
    /\ logged' = logged \cup {r}
    /\ summaries' = summaries \cup {DecidedSummary(r, m)}
    /\ UNCHANGED <<isr, run, reserved, recovering, requests, decisions, decided,
                   cuts, restarts>>

RecordISR(r, m) ==
    /\ ~Decided(r)
    /\ Unanswered(r, m)
    /\ LET next == ISRRecord(isr[r], m.step, m.proposal)
       IN /\ isr' = [isr EXCEPT ![r] = next]
          /\ summaries' = summaries \cup {ISRSummary(r, m, next)}
    /\ UNCHANGED <<run, reserved, recovering, requests, decisions, decided, logged,
                   cuts, restarts>>

\* The Learned message.  A recorder the certificate names only keeps the
\* decision in memory until its materializer needs it, which waits for the
\* slots before it; its register makes the slot recoverable.
Learn(n, d) ==
    /\ ~Decided(n) /\ Acceptable(n, d)
    /\ decided' = [decided EXCEPT ![n] = d]
    /\ logged' = IF n \in {a.recorder : a \in d.summaries} THEN logged ELSE logged \cup {n}
    /\ recovering' = recovering \ {n}
    /\ UNCHANGED <<isr, run, reserved, requests, summaries, decisions, cuts, restarts>>

\* Mutant: answers were sent before the register was on disk.
RestartForgets(n) ==
    /\ restarts[n] < MaxRestarts[n]
    /\ restarts' = [restarts EXCEPT ![n] = @ + 1]
    /\ isr' = [isr EXCEPT ![n] = EmptyISR]
    /\ run' = [run EXCEPT ![<<n, "propose">>].active = FALSE, ![<<n, "recover">>].active = FALSE]
    /\ reserved' = reserved \ {n}
    /\ n \notin logged
    /\ decided' = [decided EXCEPT ![n] = NoDecision]
    /\ recovering' = recovering \cup {n}
    /\ UNCHANGED <<logged, requests, summaries, decisions, cuts>>

\* A node restarts from its log: its run and its slot reservations are gone,
\* and so is an accepted decision unless it was logged, for an answer, for the
\* materializer or by the sync of another entry.  Start-up re-drives the slots
\* the node's own recorder knows of before it serves proposals.
Restart(n) ==
    /\ restarts[n] < MaxRestarts[n]
    /\ restarts' = [restarts EXCEPT ![n] = @ + 1]
    /\ run' = [run EXCEPT ![<<n, "propose">>].active = FALSE, ![<<n, "recover">>].active = FALSE]
    /\ reserved' = reserved \ {n}
    /\ \/ /\ Decided(n)
          /\ logged' = logged \cup {n}
          /\ UNCHANGED <<decided, recovering>>
       \/ /\ n \notin logged
          /\ decided' = [decided EXCEPT ![n] = NoDecision]
          /\ recovering' = IF isr[n].step > 0 THEN recovering \cup {n} ELSE recovering
          /\ UNCHANGED logged
    /\ UNCHANGED <<isr, requests, summaries, decisions, cuts>>

-----------------------------------------------------------------------------
RunStep(w) ==
    /\ run[w].active
    /\ \E S \in AnswerSets(w) :
        \/ CatchUp(w, S)
        \/ Conflict(w, S)
        \/ Phase0(w, S)
        \/ Phase1(w, S)
        \/ Phase2(w, S)
        \/ Phase3(w, S)
        \/ DecideFast(w, S)
        \/ DecideSlow(w, S)

RecordStep(r) == \E m \in requests : RecordDecided(r, m) \/ RecordISR(r, m)

ProposeStep(n) == \E hash \in Offers[n] : Propose(n, hash)

LearnStep(n) == \E d \in decisions : Learn(n, d)

Next ==
    \/ \E w \in Worker : RunStep(w) \/ EndRun(w)
    \/ \E n \in NodeID : \/ ProposeStep(n)
                         \/ Recover(n)
                         \/ RecordStep(n)
                         \/ LearnStep(n)
                         \/ Restart(n)

Spec == Init /\ [][Next]_vars

\* runSlot goes on as soon as a quorum has answered, the recorders
\* that are up answer what they are sent, and RecoverThrough is called at start-up and for gaps.
FairSpec ==
    /\ Spec
    /\ \A w \in Worker : WF_vars(RunStep(w))
    /\ \A r \in Up : WF_vars(RecordStep(r))
    /\ \A n \in NodeID : WF_vars(Recover(n))

-----------------------------------------------------------------------------
\* The property RecoverThrough disables the fast path for (core.go, "so a
\* restarted leader cannot introduce a different highest-priority value for an
\* old slot"): all recorders that hold a highest-priority proposal in the first
\* step hold the same one.
UniqueHighest ==
    \A a, b \in summaries :
        /\ a.source = "isr" /\ a.step = 4 /\ a.first.priority = High
        /\ b.source = "isr" /\ b.step = 4 /\ b.first.priority = High
        => a.first = b.first

\* No two runs of the slot, fast or slow, decide different values: acceptDecision
\* never meets "already decided with another value".
Agreement == \A d1, d2 \in decisions : d1.proposal.hash = d2.proposal.hash

\* As long as the leader's fast path is used for one value only, no two runs
\* decide differently, whatever fails in between.
SafeAgreement == UniqueHighest => Agreement

\* Every decision runSlot returns passes the validation of every learner, also
\* when some of its summaries were made up by recorders that had already
\* accepted a decision.
CertificatesValid == \A d \in decisions : ValidDecision(d)

\* A restarted node gets through the slot it has to re-drive before it serves
\* again, as long as a quorum of recorders is up and nobody competes.
RecoveryCompletes == \A n \in NodeID : n \in recovering ~> Decided(n)

\* The shape of the state.
TypeOK ==
    /\ isr \in [NodeID -> ISR]
    /\ run \in [Worker -> [active : BOOLEAN, round : Nat, step : Nat,
                          proposal : OptProposal]]
    /\ \A w \in Worker : run[w].active => CurrentRequest(w) \in requests
    /\ reserved \subseteq NodeID
    /\ recovering \subseteq NodeID
    /\ requests \subseteq Request
    /\ summaries \subseteq Summary
    /\ decisions \subseteq Decision
    /\ decided \in [NodeID -> decisions \cup {NoDecision}]
    /\ logged \subseteq NodeID
    /\ cuts \in Nat
    /\ restarts \in [NodeID -> Nat]

=============================================================================
