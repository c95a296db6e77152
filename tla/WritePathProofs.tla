-------------------------- MODULE WritePathProofs ---------------------------
(***************************************************************************)
(* The write path of one server, for any number of calls, workers, limits, *)
(* cancellations and retries: a quiesced server proposes and applies       *)
(* nothing (QuiesceExcludes), and a call answered with a receipt took      *)
(* effect with its own payload (OkAnswersHold).                            *)
(*                                                                         *)
(* The first rests on the balance of the proposal permits: whoever is in   *)
(* an attempt or awaits the durability of a receipt holds one permit, and  *)
(* each way out returns it once.  The second rests on what the             *)
(* materializer has applied never being taken back.                        *)
(***************************************************************************)
EXTENDS WritePath, FiniteSetTheorems, TLAPS

Results == {"none", "ok", "error", "unknown"}

CallRecord == [pc : {"idle", "admitted", "locked", "durable", "queued", "calling",
                     "reread", "done"},
               res : Results, answer : Results \cup {"conflict"}]

ProposalRecord == [phase : {"attempt", "denied", "apply", "release", "finish"},
                   res : Results, leases : SUBSET Call, retried : BOOLEAN]

Types ==
    /\ setup \in Setups
    /\ call \in [Call -> CallRecord]
    /\ proposal \in [DOMAIN proposal -> ProposalRecord]
    /\ server \in [stage : {"open", "closing", "stopping", "closed"},
                   quiesce : {"open", "draining", "abandoned", "held", "stuck"},
                   failed : BOOLEAN]
    /\ log \in Seq(Elements(log))
    /\ appliedN \in 0..Len(log)

\* Where the log stands: what is being applied is in it.
Committed == \A v \in DOMAIN proposal : proposal[v].phase = "apply" => v \in Elements(log)

\* A permit for every attempt and for every receipt whose durability is awaited.
PermitsInv ==
    /\ IsFiniteSet(Running) /\ IsFiniteSet(lifecycle)
    /\ permits = Cardinality(Running) + Cardinality(lifecycle)
    /\ permits <= PermitLimit
    /\ \A c \in lifecycle : c \in Call /\ call[c].pc \in {"durable", "done"}
    /\ server.quiesce = "held" => permits = 0

\* Whoever was, or is about to be, answered with a receipt has one.
AnswersInv ==
    \A c \in Call : call[c].pc = "durable" \/ call[c].answer = "ok"
                        => Item(c) \in Effects(appliedN)

WriteInv == Types /\ Committed /\ PermitsInv /\ AnswersInv

-----------------------------------------------------------------------------
(* Operators *)

\* SetProposal changes one proposal, in the given fields.
LEMMA SetProposalIs ==
    ASSUME Types, NEW v \in DOMAIN proposal, NEW fields,
           SetProposal(v, fields), "phase" \in DOMAIN fields,
           \A f \in DOMAIN fields :
               f \in {"phase", "res", "retried"} /\ fields[f] \in
                  (IF f = "phase" THEN {"attempt", "denied", "apply", "release", "finish"}
                   ELSE IF f = "res" THEN Results ELSE BOOLEAN)
    PROVE  /\ DOMAIN proposal' = DOMAIN proposal
           /\ proposal' \in [DOMAIN proposal' -> ProposalRecord]
           /\ \A u \in DOMAIN proposal : u # v => proposal'[u] = proposal[u]
           /\ proposal'[v].phase = fields["phase"]
<1> DEFINE new == [f \in DOMAIN proposal[v] |->
                      IF f \in DOMAIN fields THEN fields[f] ELSE proposal[v][f]]
<1>1. proposal' = [proposal EXCEPT ![v] = new]
  BY DEF SetProposal
<1>2. proposal[v] \in ProposalRecord
  BY DEF Types
<1>3. DOMAIN proposal[v] = {"phase", "res", "leases", "retried"}
  BY <1>2 DEF ProposalRecord
<1>4. new = [phase |-> new.phase, res |-> new.res, leases |-> new.leases,
             retried |-> new.retried]
  BY <1>3
<1>5. /\ new.phase = fields["phase"]
      /\ new.phase \in {"attempt", "denied", "apply", "release", "finish"}
      /\ new.res \in Results
      /\ new.leases \subseteq Call
      /\ new.retried \in BOOLEAN
  BY <1>2, <1>3 DEF ProposalRecord
<1>6. new \in ProposalRecord
  BY <1>4, <1>5 DEF ProposalRecord
<1> HIDE DEF new
<1>7. QED
  BY <1>1, <1>5, <1>6 DEF Types

\* Only the call that answers moves.
LEMMA AnswerIs ==
    ASSUME Types, NEW c \in Call, NEW answer \in Results \cup {"conflict"}, Answer(c, answer)
    PROVE  /\ call' \in [Call -> CallRecord]
           /\ \A d \in Call : d # c => call'[d] = call[d]
           /\ call'[c].pc = "done" /\ call'[c].answer = answer
BY DEF Answer, Types, CallRecord, Results

\* A result that is sent moves no call.
LEMMA FinishIs ==
    ASSUME Types, NEW S, NEW res \in Results, FinishItems(S, res)
    PROVE  /\ call' \in [Call -> CallRecord]
           /\ \A c \in Call : call'[c].pc = call[c].pc /\ call'[c].answer = call[c].answer
BY DEF FinishItems, Types, CallRecord, Results

\* What a step may do to the calls.
CallMove(c) ==
    /\ call'[c].pc = "durable" => call[c].pc = "durable" \/ ReceiptMatches(c)
    /\ call'[c].answer = "ok" =>
          call[c].answer = "ok" \/ call[c].pc = "durable" \/ ReceiptMatches(c)
    /\ call[c].pc \in {"durable", "done"} => call'[c].pc \in {"durable", "done"}

CallMoves == call' \in [Call -> CallRecord] /\ \A c \in Call : CallMove(c)

\* The calls that do not move make no difference.
LEMMA OneMoves ==
    ASSUME Types, NEW c \in Call, call' \in [Call -> CallRecord],
           \A d \in Call : d # c => call'[d] = call[d], CallMove(c)
    PROVE  CallMoves
BY DEF CallMoves, CallMove

\* A step that moves no call.
LEMMA NoneMoves ==
    ASSUME Types, call' \in [Call -> CallRecord],
           \A c \in Call : call'[c].pc = call[c].pc /\ call'[c].answer = call[c].answer
    PROVE  CallMoves
BY DEF CallMoves, CallMove

\* A call that is not waiting for a receipt's durability answers as it likes,
\* short of "ok" without a receipt.
LEMMA AnswerMoves ==
    ASSUME Types, NEW c \in Call, NEW answer \in Results \cup {"conflict"}, Answer(c, answer),
           answer = "ok" => call[c].pc = "durable" \/ ReceiptMatches(c)
    PROVE  CallMoves
<1>1. /\ call' \in [Call -> CallRecord]
      /\ \A d \in Call : d # c => call'[d] = call[d]
      /\ call'[c].pc = "done" /\ call'[c].answer = answer
  BY AnswerIs
<1>2. CallMove(c)
  BY <1>1 DEF CallMove
<1>3. QED
  BY <1>1, <1>2, OneMoves

\* A call that goes on to its next stage.
LEMMA StepMoves ==
    ASSUME Types, NEW c \in Call,
           NEW pc \in {"admitted", "locked", "durable", "queued", "calling", "reread"},
           call[c].pc \notin {"durable", "done"}, pc = "durable" => ReceiptMatches(c),
           call' = [call EXCEPT ![c].pc = pc]
    PROVE  CallMoves
<1>1. /\ call' \in [Call -> CallRecord]
      /\ \A d \in Call : d # c => call'[d] = call[d]
      /\ call'[c].pc = pc /\ call'[c].answer = call[c].answer
  BY DEF Types, CallRecord
<1>2. CallMove(c)
  BY <1>1 DEF CallMove
<1>3. QED
  BY <1>1, <1>2, OneMoves

\* Results that are sent.
LEMMA FinishMoves ==
    ASSUME Types, NEW S, NEW res \in Results, FinishItems(S, res)
    PROVE  CallMoves
BY FinishIs, NoneMoves

\* The steps of the calls themselves.
LEMMA CallersMove ==
    ASSUME Types, NEW c \in Call,
           \/ AdmitMutation(c) \/ CallStep(c)
           \/ FinishLifecycle(c, TRUE) \/ FinishLifecycle(c, FALSE)
    PROVE  CallMoves
<1> USE DEF Results
<1>1. CASE AdmitMutation(c)
  BY <1>1, StepMoves, AnswerMoves DEF AdmitMutation
<1>2. CASE LockRequest(c)
  BY <1>2, StepMoves, AnswerMoves DEF LockRequest
<1>3. CASE AnswerReceipt(c)
  BY <1>3, StepMoves, AnswerMoves DEF AnswerReceipt
<1>4. CASE AwaitDurable(c)
  <2>1. call[c].res \in Results
    BY DEF Types, CallRecord
  <2>2. QED
    BY <1>4, <2>1, AnswerMoves DEF AwaitDurable
<1>5. CASE Submit(c)
  BY <1>5, StepMoves, AnswerMoves DEF Submit
<1>6. CASE AwaitResult(c)
  BY <1>6, StepMoves, AnswerMoves DEF AwaitResult
<1>7. CASE Reread(c)
  <2>1. CASE ReceiptMatches(c) /\ Answer(c, "ok")
    BY <2>1, AnswerMoves
  <2>2. CASE \E a \in {"unknown", "conflict", "error"} : Answer(c, a)
    BY <2>2, AnswerMoves
  <2>3. QED
    BY <1>7, <2>1, <2>2 DEF Reread
<1>8. CASE ProposeDirect(c)
  BY <1>8, StepMoves, AnswerMoves DEF ProposeDirect
<1>9. CASE AwaitProposal(c)
  BY <1>9, StepMoves, AnswerMoves DEF AwaitProposal
<1>10. ASSUME NEW ok \in BOOLEAN, FinishLifecycle(c, ok) PROVE CallMoves
  <2>1. /\ call' \in [Call -> CallRecord]
        /\ \A d \in Call : call'[d].pc = call[d].pc /\ call'[d].answer = call[d].answer
    BY <1>10 DEF FinishLifecycle, Types, CallRecord
  <2>2. QED
    BY <2>1, NoneMoves
<1>11. QED
  BY <1>1, <1>2, <1>3, <1>4, <1>5, <1>6, <1>7, <1>8, <1>9, <1>10 DEF CallStep

\* The batcher, its workers and the proposals send results.
LEMMA OthersMove ==
    ASSUME Types, WriteNext,
           ~ \E c \in Call : \/ AdmitMutation(c) \/ CallStep(c)
                            \/ FinishLifecycle(c, TRUE) \/ FinishLifecycle(c, FALSE)
    PROVE  CallMoves
<1> USE DEF Results
<1>1. CASE UNCHANGED call
  BY <1>1, NoneMoves DEF Types
<1>2. CASE BatchStep
  <2>1. CASE BatchNext
    BY <1>1, <2>1, FinishMoves DEF BatchNext, StopBatcher, callVars
  <2>2. CASE BatchCollect
    BY <1>1, <2>2, FinishMoves DEF BatchCollect, StopBatcher, callVars
  <2>3. CASE BatchDispatch
    BY <2>3, FinishMoves DEF BatchDispatch
  <2>4. CASE BatchPermit
    BY <1>1, <2>4, FinishMoves DEF BatchPermit, callVars
  <2>5. CASE BatchSend
    BY <1>1, <2>5, FinishMoves DEF BatchSend, callVars
  <2>6. QED
    BY <1>2, <2>1, <2>2, <2>3, <2>4, <2>5 DEF BatchStep
<1>3. ASSUME NEW w \in Worker, JobStep(w) PROVE CallMoves
  BY <1>1, <1>3, FinishMoves DEF JobStep, ProposeBatch, AbandonJob, EndJob, callVars
<1>4. ASSUME NEW v \in DOMAIN proposal, ProposalStep(v) PROVE CallMoves
  <2>1. CASE FinishProposal(v)
    <3>1. proposal[v].res \in Results
      BY DEF Types, ProposalRecord
    <3>2. \E S : FinishItems(S, proposal[v].res)
      BY <2>1 DEF FinishProposal
    <3>3. QED
      BY <3>1, <3>2, FinishMoves
  <2>2. QED
    BY <1>1, <1>4, <2>1 DEF ProposalStep, Attempt, Deny, Maintain, Apply, ReleaseAttempt, callVars
<1>5. QED
  BY <1>1, <1>2, <1>3, <1>4 DEF WriteNext, Cancel, CommitLate, Quiesce, Drained, AbandonQuiesce,
      Resume, Close, CloseBatcher, CloseReturns, callVars

\* Every step moves calls as CallMove says.
LEMMA CallsStep == ASSUME Types, WriteNext PROVE CallMoves
BY CallersMove, OthersMove

-----------------------------------------------------------------------------
(* Permits *)

\* The server's record keeps its shape, and it is held only once drained.
LEMMA ServerStep ==
    ASSUME Types, WriteNext
    PROVE  /\ setup' = setup
           /\ server' \in [stage : {"open", "closing", "stopping", "closed"},
                           quiesce : {"open", "draining", "abandoned", "held", "stuck"},
                           failed : BOOLEAN]
           /\ server'.quiesce = "held" => \/ server.quiesce = "held"
                                          \/ permits = 0 /\ permits' = permits
<1> USE DEF Types, SetQuiesce, otherVars, Disturb
<1>1. ASSUME NEW c \in Call, AdmitMutation(c) \/ CallStep(c) \/ Cancel(c)
      PROVE  UNCHANGED <<setup, server>>
  BY <1>1 DEF AdmitMutation, CallStep, Cancel, LockRequest, AnswerReceipt, AwaitDurable,
      Submit, AwaitResult, Reread, ProposeDirect, AwaitProposal
<1>2. ASSUME NEW c \in Call, NEW ok \in BOOLEAN, FinishLifecycle(c, ok)
      PROVE  setup' = setup /\ server' = [server EXCEPT !.failed = @ \/ ~ok]
  BY <1>2 DEF FinishLifecycle
<1>3. CASE BatchStep
  BY <1>3 DEF BatchStep, BatchNext, BatchCollect, BatchDispatch, BatchPermit, BatchSend
<1>4. ASSUME NEW w \in Worker, JobStep(w)
      PROVE  UNCHANGED <<setup, server>>
  BY <1>4 DEF JobStep, ProposeBatch, AbandonJob
<1>5. ASSUME NEW v \in DOMAIN proposal, ProposalStep(v)
      PROVE  setup' = setup /\ \E b \in BOOLEAN : server' = [server EXCEPT !.failed = b]
  <2>1. server = [server EXCEPT !.failed = server.failed] /\ server.failed \in BOOLEAN
    OBVIOUS
  <2>2. CASE Attempt(v) \/ Deny(v) \/ Apply(v) \/ FinishProposal(v)
    BY <2>1, <2>2 DEF Attempt, Deny, Apply, FinishProposal
  <2>3. CASE Maintain(v)
    BY <2>1, <2>3 DEF Maintain
  <2>4. CASE ReleaseAttempt(v)
    <3> DEFINE fails == Local /\ proposal[v].res # "ok"
    <3>1. server' = [server EXCEPT !.failed = @ \/ fails] /\ setup' = setup
      BY <2>4 DEF ReleaseAttempt
    <3>2. (server.failed \/ fails) \in BOOLEAN
      OBVIOUS
    <3> HIDE DEF fails
    <3>3. QED
      BY <3>1, <3>2
  <2>5. QED
    BY <1>5, <2>2, <2>3, <2>4 DEF ProposalStep
<1>6. ASSUME NEW v \in pending, CommitLate(v)
      PROVE  UNCHANGED <<setup, server>>
  BY <1>6 DEF CommitLate
<1>7. CASE Quiesce \/ Drained \/ AbandonQuiesce \/ Resume \/ Close \/ CloseBatcher \/ CloseReturns
  BY <1>7 DEF Quiesce, Drained, AbandonQuiesce, Resume, Close, CloseBatcher, CloseReturns
<1>8. QED
  BY <1>1, <1>2, <1>3, <1>4, <1>5, <1>6, <1>7 DEF WriteNext

\* What a step may do to the permits.
Unmoved == Running' = Running /\ lifecycle' = lifecycle /\ permits' = permits

Taken ==
    /\ Open /\ permits < PermitLimit /\ permits' = permits + 1
    /\ \/ /\ lifecycle' = lifecycle
          /\ \E v : v \notin Running /\ Running' = Running \cup {v}
       \/ /\ Running' = Running
          /\ \E c \in Call : /\ call[c].pc = "locked" /\ call'[c].pc = "durable"
                            /\ lifecycle' = lifecycle \cup {c}

Returned ==
    /\ permits' = permits - 1
    /\ \/ /\ lifecycle' = lifecycle
          /\ \E v \in Running : Running' = Running \ {v}
       \/ /\ Running' = Running
          /\ \E c \in lifecycle : lifecycle' = lifecycle \ {c}

ProposalMove ==
    /\ proposal' \in [DOMAIN proposal' -> ProposalRecord]
    /\ Unmoved \/ Taken \/ Returned

\* A proposal that stays where it was, in or out of an attempt.
LEMMA SameRunning ==
    ASSUME NEW v \in DOMAIN proposal, DOMAIN proposal' = DOMAIN proposal,
           \A u \in DOMAIN proposal : u # v => proposal'[u] = proposal[u],
           proposal[v].phase \in {"attempt", "apply", "release"} <=>
               proposal'[v].phase \in {"attempt", "apply", "release"}
    PROVE  Running' = Running
BY DEF Running

\* A proposal that comes to the end of an attempt.
LEMMA LessRunning ==
    ASSUME NEW v \in DOMAIN proposal, DOMAIN proposal' = DOMAIN proposal,
           \A u \in DOMAIN proposal : u # v => proposal'[u] = proposal[u],
           proposal[v].phase \in {"attempt", "apply", "release"},
           proposal'[v].phase \notin {"attempt", "apply", "release"}
    PROVE  v \in Running /\ Running' = Running \ {v}
BY DEF Running

\* A proposal that begins an attempt.
LEMMA MoreRunning ==
    ASSUME NEW v, DOMAIN proposal' = DOMAIN proposal \cup {v},
           \A u \in DOMAIN proposal : u # v => proposal'[u] = proposal[u],
           v \in DOMAIN proposal => proposal[v].phase \notin {"attempt", "apply", "release"},
           proposal'[v].phase = "attempt"
    PROVE  v \notin Running /\ Running' = Running \cup {v}
BY DEF Running

\* proposeWithAdmission joins a proposal or takes a permit for a new one.
LEMMA JoinMoves ==
    ASSUME Types, NEW value, NEW leases \in SUBSET Call, StartOrJoin(value, leases), Open,
           lifecycle' = lifecycle
    PROVE  ProposalMove
<1>1. CASE /\ value \in DOMAIN proposal
           /\ proposal' = [proposal EXCEPT ![value].leases = @ \cup leases]
           /\ UNCHANGED permits
  <2>1. /\ DOMAIN proposal' = DOMAIN proposal
        /\ \A u \in DOMAIN proposal : u # value => proposal'[u] = proposal[u]
        /\ proposal'[value] = [proposal[value] EXCEPT !.leases = @ \cup leases]
    BY <1>1 DEF Types
  <2>2. proposal[value] \in ProposalRecord
    BY <1>1 DEF Types
  <2>3. proposal'[value] \in ProposalRecord /\ proposal'[value].phase = proposal[value].phase
    BY <2>1, <2>2 DEF ProposalRecord
  <2>4. proposal' \in [DOMAIN proposal' -> ProposalRecord]
    BY <1>1, <2>3 DEF Types
  <2>5. Running' = Running
    BY <1>1, <2>1, <2>3, SameRunning
  <2>6. QED
    BY <1>1, <2>4, <2>5 DEF ProposalMove, Unmoved
<1>2. CASE /\ value \notin DOMAIN proposal
           /\ permits < PermitLimit
           /\ proposal' = [v \in DOMAIN proposal \cup {value} |->
                              IF v = value THEN NewProposal(leases) ELSE proposal[v]]
           /\ permits' = permits + 1
  <2>1. NewProposal(leases) \in ProposalRecord /\ NewProposal(leases).phase = "attempt"
    BY DEF NewProposal, ProposalRecord, Results
  <2>2. /\ proposal' \in [DOMAIN proposal' -> ProposalRecord]
        /\ DOMAIN proposal' = DOMAIN proposal \cup {value}
        /\ \A u \in DOMAIN proposal : u # value => proposal'[u] = proposal[u]
        /\ proposal'[value].phase = "attempt"
    BY <1>2, <2>1 DEF Types
  <2>3. value \notin Running /\ Running' = Running \cup {value}
    BY <1>2, <2>2, MoreRunning
  <2>4. QED
    BY <1>2, <2>2, <2>3 DEF ProposalMove, Taken
<1>3. QED
  BY <1>1, <1>2 DEF StartOrJoin

\* A step of a proposal that stays within its attempt.
LEMMA WithinAttempt ==
    ASSUME Types, NEW v \in DOMAIN proposal, proposal[v].phase \in {"attempt", "apply"},
           NEW to \in {"apply", "release"}, NEW res \in Results,
           SetProposal(v, [phase |-> to]) \/ SetProposal(v, [phase |-> to, res |-> res]),
           UNCHANGED <<permits, lifecycle>>
    PROVE  /\ ProposalMove
           /\ proposal'[v].phase = to /\ DOMAIN proposal' = DOMAIN proposal
           /\ \A u \in DOMAIN proposal : u # v => proposal'[u] = proposal[u]
<1>1. /\ DOMAIN proposal' = DOMAIN proposal
      /\ proposal' \in [DOMAIN proposal' -> ProposalRecord]
      /\ \A u \in DOMAIN proposal : u # v => proposal'[u] = proposal[u]
      /\ proposal'[v].phase = to
  <2>1. CASE SetProposal(v, [phase |-> to])
    BY <2>1, SetProposalIs
  <2>2. CASE SetProposal(v, [phase |-> to, res |-> res])
    BY <2>2, SetProposalIs
  <2>3. QED
    BY <2>1, <2>2
<1>2. Running' = Running
  BY <1>1, SameRunning
<1>3. QED
  BY <1>1, <1>2 DEF ProposalMove, Unmoved

\* A step that ends an attempt returns its permit.
LEMMA EndsAttempt ==
    ASSUME Types, NEW v \in DOMAIN proposal, proposal[v].phase \in {"attempt", "release"},
           NEW to \in {"denied", "finish"}, NEW res \in Results,
           SetProposal(v, [phase |-> to, res |-> res]),
           permits' = permits - 1, lifecycle' = lifecycle
    PROVE  ProposalMove
<1>1. /\ DOMAIN proposal' = DOMAIN proposal
      /\ proposal' \in [DOMAIN proposal' -> ProposalRecord]
      /\ \A u \in DOMAIN proposal : u # v => proposal'[u] = proposal[u]
      /\ proposal'[v].phase = to
  BY SetProposalIs
<1>2. v \in Running /\ Running' = Running \ {v}
  BY <1>1, LessRunning
<1>3. QED
  BY <1>1, <1>2 DEF ProposalMove, Returned

\* The steps of a proposal.
LEMMA ProposalsMove ==
    ASSUME Types, NEW v \in DOMAIN proposal, ProposalStep(v)
    PROVE  ProposalMove
<1> USE DEF Results, Failure
<1>1. CASE Attempt(v)
  BY <1>1, WithinAttempt DEF Attempt
<1>2. CASE Deny(v)
  BY <1>2, EndsAttempt DEF Deny
<1>3. CASE Maintain(v)
  <2>1. proposal[v].phase = "denied" /\ lifecycle' = lifecycle
    BY <1>3 DEF Maintain
  <2>2. CASE /\ \/ SetProposal(v, [phase |-> "finish"])
                \/ SetProposal(v, [phase |-> "finish", res |-> "unknown"])
             /\ UNCHANGED permits
    <3>1. /\ DOMAIN proposal' = DOMAIN proposal
          /\ proposal' \in [DOMAIN proposal' -> ProposalRecord]
          /\ \A u \in DOMAIN proposal : u # v => proposal'[u] = proposal[u]
          /\ proposal'[v].phase = "finish"
      <4>1. CASE SetProposal(v, [phase |-> "finish"])
        BY <4>1, SetProposalIs
      <4>2. CASE SetProposal(v, [phase |-> "finish", res |-> "unknown"])
        BY <4>2, SetProposalIs
      <4>3. QED
        BY <2>2, <4>1, <4>2
    <3>2. Running' = Running
      BY <2>1, <3>1, SameRunning
    <3>3. QED
      BY <2>1, <2>2, <3>1, <3>2 DEF ProposalMove, Unmoved
  <2>3. CASE /\ Open /\ permits < PermitLimit
             /\ SetProposal(v, [phase |-> "attempt", retried |-> TRUE, res |-> "none"])
             /\ permits' = permits + 1
    <3>1. /\ DOMAIN proposal' = DOMAIN proposal
          /\ proposal' \in [DOMAIN proposal' -> ProposalRecord]
          /\ \A u \in DOMAIN proposal : u # v => proposal'[u] = proposal[u]
          /\ proposal'[v].phase = "attempt"
      <4> DEFINE fields == [phase |-> "attempt", retried |-> TRUE, res |-> "none"]
      <4>1. /\ "phase" \in DOMAIN fields /\ fields["phase"] = "attempt"
            /\ \A f \in DOMAIN fields :
                  f \in {"phase", "res", "retried"} /\ fields[f] \in
                     (IF f = "phase" THEN {"attempt", "denied", "apply", "release", "finish"}
                      ELSE IF f = "res" THEN Results ELSE BOOLEAN)
        <5>1. DOMAIN fields = {"phase", "retried", "res"}
          OBVIOUS
        <5>2. fields["phase"] = "attempt" /\ fields["res"] = "none"
          OBVIOUS
        <5>3. fields["retried"] = TRUE
          OBVIOUS
        <5> HIDE DEF fields
        <5>4. QED
          BY <5>1, <5>2, <5>3
      <4>2. SetProposal(v, fields)
        BY <2>3
      <4> HIDE DEF fields
      <4>3. QED
        BY <4>1, <4>2, SetProposalIs
    <3>2. v \notin Running /\ Running' = Running \cup {v}
      BY <2>1, <3>1, MoreRunning
    <3>3. QED
      BY <2>1, <2>3, <3>1, <3>2 DEF ProposalMove, Taken
  <2>4. QED
    BY <1>3, <2>2, <2>3 DEF Maintain
<1>4. CASE Apply(v)
  BY <1>4, WithinAttempt DEF Apply
<1>5. CASE ReleaseAttempt(v)
  <2>1. proposal[v].res \in Results
    BY DEF Types, ProposalRecord
  <2>2. \E res \in Results : SetProposal(v, [phase |-> "finish", res |-> res])
    BY <1>5, <2>1 DEF ReleaseAttempt
  <2>3. QED
    BY <1>5, <2>2, EndsAttempt DEF ReleaseAttempt
<1>6. CASE FinishProposal(v)
  <2>1. /\ proposal[v].phase = "finish"
        /\ proposal' = [u \in DOMAIN proposal \ {v} |-> proposal[u]]
        /\ UNCHANGED <<permits, lifecycle>>
    BY <1>6 DEF FinishProposal
  <2>2. proposal' \in [DOMAIN proposal' -> ProposalRecord] /\ Running' = Running
    BY <2>1 DEF Types, Running
  <2>3. QED
    BY <2>1, <2>2 DEF ProposalMove, Unmoved
<1>7. QED
  BY <1>1, <1>2, <1>3, <1>4, <1>5, <1>6 DEF ProposalStep

\* Every step.
LEMMA PermitsMove == ASSUME Types, WriteNext PROVE ProposalMove
<1>1. CASE UNCHANGED <<proposal, permits, lifecycle>>
  BY <1>1 DEF ProposalMove, Unmoved, Types, Running
<1>2. ASSUME NEW c \in Call, AnswerReceipt(c) PROVE ProposalMove
  <2>1. UNCHANGED proposal /\ Running' = Running
    BY <1>2 DEF AnswerReceipt, Running
  <2>2. CASE /\ Open /\ permits < PermitLimit /\ permits' = permits + 1
             /\ lifecycle' = lifecycle \cup {c}
             /\ call' = [call EXCEPT ![c].pc = "durable"]
    <3>1. call[c].pc = "locked" /\ call'[c].pc = "durable"
      BY <1>2, <2>2 DEF AnswerReceipt, Types, CallRecord
    <3>2. QED
      BY <2>1, <2>2, <3>1 DEF ProposalMove, Taken, Types
  <2>3. QED
    BY <1>1, <1>2, <2>1, <2>2 DEF AnswerReceipt
<1>3. ASSUME NEW c \in Call, NEW ok \in BOOLEAN, FinishLifecycle(c, ok) PROVE ProposalMove
  BY <1>3 DEF FinishLifecycle, ProposalMove, Returned, Types, Running
<1>4. ASSUME NEW c \in Call, ProposeDirect(c) PROVE ProposalMove
  BY <1>1, <1>4, JoinMoves DEF ProposeDirect
<1>5. ASSUME NEW w \in Worker, ProposeBatch(w) PROVE ProposalMove
  BY <1>1, <1>5, JoinMoves DEF ProposeBatch
<1>6. ASSUME NEW c \in Call, AdmitMutation(c) \/ CallStep(c) \/ Cancel(c) PROVE ProposalMove
  BY <1>1, <1>2, <1>4, <1>6 DEF AdmitMutation, CallStep, Cancel, LockRequest, AwaitDurable,
      Submit, AwaitResult, Reread, AwaitProposal
<1>7. CASE BatchStep
  BY <1>1, <1>7 DEF BatchStep, BatchNext, BatchCollect, BatchDispatch, BatchPermit, BatchSend
<1>8. ASSUME NEW w \in Worker, JobStep(w) PROVE ProposalMove
  BY <1>1, <1>5, <1>8 DEF JobStep, AbandonJob
<1>9. ASSUME NEW v \in pending, CommitLate(v) PROVE ProposalMove
  BY <1>1, <1>9 DEF CommitLate
<1>10. CASE Quiesce \/ Drained \/ AbandonQuiesce \/ Resume \/ Close \/ CloseBatcher \/ CloseReturns
  BY <1>1, <1>10 DEF Quiesce, Drained, AbandonQuiesce, Resume, Close, CloseBatcher, CloseReturns
<1>11. QED
  BY <1>3, <1>6, <1>7, <1>8, <1>9, <1>10, ProposalsMove DEF WriteNext

\* The permits stay balanced: each is taken once, while the server is open, and
\* returned once.
LEMMA PermitsStep == ASSUME WriteInv, WriteNext PROVE PermitsInv'
<1>1. /\ setup' = setup
      /\ server'.quiesce = "held" => \/ server.quiesce = "held"
                                     \/ permits = 0 /\ permits' = permits
  BY ServerStep DEF WriteInv
<1>2. \A c \in Call : CallMove(c)
  BY CallsStep DEF WriteInv, CallMoves
<1>3. Unmoved \/ Taken \/ Returned
  BY PermitsMove DEF WriteInv, ProposalMove
<1>4. PermitLimit' = PermitLimit /\ PermitLimit \in Nat
  BY <1>1, WritePathAssumption DEF PermitLimit, Local
<1> DEFINE r == Cardinality(Running)
           l == Cardinality(lifecycle)
<1>5. /\ IsFiniteSet(Running) /\ IsFiniteSet(lifecycle) /\ r \in Nat /\ l \in Nat
      /\ permits = r + l /\ permits <= PermitLimit
      /\ \A c \in lifecycle : c \in Call /\ call[c].pc \in {"durable", "done"}
      /\ server.quiesce = "held" => permits = 0
  BY FS_CardinalityType DEF WriteInv, PermitsInv
<1>6. CASE Unmoved
  BY <1>1, <1>2, <1>4, <1>5, <1>6 DEF PermitsInv, Unmoved, CallMove
<1>7. CASE Taken
  <2>1. /\ server.quiesce = "open" /\ permits < PermitLimit /\ permits' = permits + 1
    BY <1>7 DEF Taken, Open
  <2>2. server'.quiesce # "held"
    BY <1>1, <1>5, <2>1
  <2>3. CASE /\ lifecycle' = lifecycle
             /\ \E v : v \notin Running /\ Running' = Running \cup {v}
    <3>1. IsFiniteSet(Running') /\ Cardinality(Running') = r + 1
      BY <1>5, <2>3, FS_AddElement
    <3>2. QED
      BY <1>2, <1>4, <1>5, <2>1, <2>2, <2>3, <3>1 DEF PermitsInv, CallMove
  <2>4. CASE /\ Running' = Running
             /\ \E c \in Call : /\ call[c].pc = "locked" /\ call'[c].pc = "durable"
                               /\ lifecycle' = lifecycle \cup {c}
    <3>1. PICK c \in Call : /\ call[c].pc = "locked" /\ call'[c].pc = "durable"
                           /\ lifecycle' = lifecycle \cup {c}
      BY <2>4
    <3>2. c \notin lifecycle
      BY <1>5, <3>1
    <3>3. IsFiniteSet(lifecycle') /\ Cardinality(lifecycle') = l + 1
      BY <1>5, <3>1, <3>2, FS_AddElement
    <3>4. \A d \in lifecycle' : d \in Call /\ call'[d].pc \in {"durable", "done"}
      BY <1>2, <1>5, <3>1 DEF CallMove
    <3>5. QED
      BY <1>4, <1>5, <2>1, <2>2, <2>4, <3>3, <3>4 DEF PermitsInv
  <2>5. QED
    BY <1>7, <2>3, <2>4 DEF Taken
<1>8. CASE Returned
  <2>1. permits' = permits - 1
    BY <1>8 DEF Returned
  <2>2. CASE lifecycle' = lifecycle /\ \E v \in Running : Running' = Running \ {v}
    <3>1. IsFiniteSet(Running') /\ Cardinality(Running') = r - 1 /\ r > 0
      BY <1>5, <2>2, FS_RemoveElement, FS_EmptySet
    <3>2. server'.quiesce # "held"
      BY <1>1, <1>5, <2>1, <3>1
    <3>3. QED
      BY <1>2, <1>4, <1>5, <2>1, <2>2, <3>1, <3>2 DEF PermitsInv, CallMove
  <2>3. CASE Running' = Running /\ \E c \in lifecycle : lifecycle' = lifecycle \ {c}
    <3>1. IsFiniteSet(lifecycle') /\ Cardinality(lifecycle') = l - 1 /\ l > 0
      BY <1>5, <2>3, FS_RemoveElement, FS_EmptySet
    <3>2. server'.quiesce # "held"
      BY <1>1, <1>5, <2>1, <3>1
    <3>3. QED
      BY <1>2, <1>4, <1>5, <2>1, <2>3, <3>1, <3>2 DEF PermitsInv, CallMove
  <2>4. QED
    BY <1>8, <2>2, <2>3 DEF Returned
<1>9. QED
  BY <1>3, <1>6, <1>7, <1>8

-----------------------------------------------------------------------------
(* The log and what has been applied of it *)

\* A log with one more value.
LEMMA AppendIs ==
    ASSUME log \in Seq(Elements(log)), NEW v, log' = Append(log, v)
    PROVE  /\ log' \in Seq(Elements(log')) /\ Len(log') = Len(log) + 1
           /\ \A s \in 1..Len(log) : log'[s] = log[s]
           /\ Elements(log') = Elements(log) \cup {v}
<1> DEFINE all == Elements(log) \cup {v}
<1>1. log \in Seq(all)
  <2>1. Len(log) \in Nat /\ log \in [1..Len(log) -> Elements(log)]
    OBVIOUS
  <2>2. log \in [1..Len(log) -> all]
    BY <2>1
  <2> HIDE DEF all
  <2>3. QED
    BY <2>1, <2>2
<1>2. v \in all
  OBVIOUS
<1> HIDE DEF all
<1>3. /\ log' \in Seq(all) /\ Len(log') = Len(log) + 1
      /\ \A s \in 1..Len(log) : log'[s] = log[s]
      /\ log'[Len(log) + 1] = v
  BY <1>1, <1>2
<1>4. DOMAIN log' = 1..(Len(log) + 1) /\ DOMAIN log = 1..Len(log) /\ Len(log) \in Nat
  BY <1>1, <1>3
<1>5. Elements(log') = all
  BY <1>3, <1>4 DEF Elements, all
<1>6. QED
  BY <1>3, <1>5 DEF all

\* The log only grows, and so does what has been applied of it.
LogMove ==
    /\ log' = log \/ \E v : log' = Append(log, v)
    /\ appliedN' \in appliedN..Len(log')

\* Every step.
LEMMA LogMoves == ASSUME Types, Committed, WriteNext PROVE LogMove
<1>1. appliedN \in Nat /\ Len(log) \in Nat /\ appliedN <= Len(log)
  BY DEF Types
<1>2. CASE UNCHANGED <<log, appliedN>>
  BY <1>1, <1>2 DEF LogMove
<1>3. ASSUME NEW v, log' = Append(log, v), appliedN' = appliedN PROVE LogMove
  <2>1. Len(log') = Len(log) + 1
    BY <1>3, AppendIs DEF Types
  <2>2. QED
    BY <1>1, <1>3, <2>1 DEF LogMove
<1>4. ASSUME NEW v \in DOMAIN proposal, Apply(v) PROVE LogMove
  <2>1. v \in Elements(log) /\ log' = log
    BY <1>4 DEF Apply, Committed
  <2>2. DOMAIN log = 1..Len(log)
    BY DEF Types
  <2>3. SlotOf(v) \in 1..Len(log)
    BY <2>1, <2>2 DEF SlotOf, Elements
  <2>4. appliedN' = appliedN \/ appliedN' = IF appliedN < SlotOf(v) THEN SlotOf(v) ELSE appliedN
    BY <1>4 DEF Apply
  <2>5. QED
    BY <1>1, <2>1, <2>3, <2>4 DEF LogMove
<1> USE DEF logVars
<1>5. ASSUME NEW v \in DOMAIN proposal, ProposalStep(v) PROVE LogMove
  BY <1>2, <1>3, <1>4, <1>5 DEF ProposalStep, Attempt, Deny, Maintain,
      ReleaseAttempt, FinishProposal
<1>6. ASSUME NEW c \in Call, \/ AdmitMutation(c) \/ CallStep(c) \/ Cancel(c)
                               \/ FinishLifecycle(c, TRUE) \/ FinishLifecycle(c, FALSE)
      PROVE  UNCHANGED <<log, appliedN>>
  BY <1>6 DEF AdmitMutation, CallStep, Cancel, LockRequest, AnswerReceipt, AwaitDurable,
      Submit, AwaitResult, Reread, ProposeDirect, AwaitProposal, FinishLifecycle
<1>7. CASE BatchStep
  BY <1>2, <1>7 DEF BatchStep, BatchNext, BatchCollect, BatchDispatch, BatchPermit, BatchSend
<1>8. ASSUME NEW w \in Worker, JobStep(w) PROVE UNCHANGED <<log, appliedN>>
  BY <1>8 DEF JobStep, ProposeBatch, AbandonJob
<1>9. ASSUME NEW v \in pending, CommitLate(v) PROVE LogMove
  BY <1>3, <1>9 DEF CommitLate
<1>10. CASE Quiesce \/ Drained \/ AbandonQuiesce \/ Resume \/ Close \/ CloseBatcher \/ CloseReturns
  BY <1>2, <1>10 DEF Quiesce, Drained, AbandonQuiesce, Resume, Close, CloseBatcher, CloseReturns
<1>11. QED
  BY <1>2, <1>5, <1>6, <1>7, <1>8, <1>9, <1>10 DEF WriteNext

\* What that means for the log.
LEMMA LogGrows ==
    ASSUME Types, LogMove
    PROVE  /\ log' \in Seq(Elements(log')) /\ appliedN' \in 0..Len(log')
           /\ Len(log) <= Len(log') /\ appliedN <= appliedN'
           /\ \A s \in 1..Len(log) : log'[s] = log[s]
           /\ Elements(log) \subseteq Elements(log')
<1>1. appliedN \in Nat /\ Len(log) \in Nat /\ appliedN <= Len(log)
  BY DEF Types
<1>2. CASE log' = log
  BY <1>1, <1>2 DEF Types, LogMove
<1>3. CASE \E v : log' = Append(log, v)
  <2>1. /\ log' \in Seq(Elements(log')) /\ Len(log') = Len(log) + 1
        /\ \A s \in 1..Len(log) : log'[s] = log[s]
        /\ Elements(log) \subseteq Elements(log')
    BY <1>3, AppendIs DEF Types
  <2>2. QED
    BY <1>1, <2>1 DEF LogMove
<1>4. QED
  BY <1>2, <1>3 DEF LogMove

\* A receipt stays: an item that took effect is the first with its request ID in
\* the applied slots, and later slots do not change that.
LEMMA EffectsStay ==
    ASSUME Types, LogMove, setup' = setup
    PROVE  \A c \in Call : /\ Item(c)' = Item(c)
                           /\ Item(c) \in Effects(appliedN) => Item(c) \in Effects(appliedN)'
<1>1. /\ appliedN \in Nat /\ Len(log) \in Nat /\ appliedN <= Len(log)
      /\ appliedN' \in Nat /\ appliedN <= appliedN'
      /\ \A s \in 1..Len(log) : log'[s] = log[s]
  BY LogGrows DEF Types
<1>2. ItemSet' = ItemSet /\ \A c \in Call : Item(c)' = Item(c)
  BY DEF ItemSet, Item
<1>3. ASSUME NEW i, i \in Effects(appliedN) PROVE i \in Effects(appliedN)'
  <2>1. PICK s \in 1..appliedN : \E k \in DOMAIN log[s] :
            /\ log[s][k] = i
            /\ \A t \in 1..s : \A l \in DOMAIN log[t] :
                   (t < s \/ l < k) => log[t][l].id # i.id
    BY <1>3 DEF Effects
  <2>2. s \in 1..appliedN' /\ log'[s] = log[s] /\ \A t \in 1..s : log'[t] = log[t]
    BY <1>1
  <2>3. \E k \in DOMAIN log'[s] :
            /\ log'[s][k] = i
            /\ \A t \in 1..s : \A l \in DOMAIN log'[t] :
                   (t < s \/ l < k) => log'[t][l].id # i.id
    BY <2>1, <2>2
  <2>4. i \in ItemSet
    BY <1>3 DEF Effects
  <2>5. QED
    BY <1>2, <2>2, <2>3, <2>4 DEF Effects
<1>4. QED
  BY <1>2, <1>3

\* Whoever was answered with a receipt keeps it.
LEMMA AnswersStep == ASSUME WriteInv, WriteNext PROVE AnswersInv'
<1>1. setup' = setup
  BY ServerStep DEF WriteInv
<1>2. LogMove
  BY LogMoves DEF WriteInv
<1>3. \A c \in Call : /\ Item(c)' = Item(c)
                      /\ Item(c) \in Effects(appliedN) => Item(c) \in Effects(appliedN)'
  BY <1>1, <1>2, EffectsStay DEF WriteInv
<1>4. \A c \in Call : CallMove(c)
  BY CallsStep DEF WriteInv, CallMoves
<1>5. QED
  BY <1>3, <1>4 DEF WriteInv, AnswersInv, CallMove, ReceiptMatches

\* A proposal is applied only when its value is in the log.
LEMMA CommittedStep == ASSUME WriteInv, WriteNext PROVE Committed'
<1>1. Elements(log) \subseteq Elements(log')
  BY LogMoves, LogGrows DEF WriteInv
<1>2. Types /\ \A v \in DOMAIN proposal : proposal[v].phase = "apply" => v \in Elements(log)
  BY DEF WriteInv, Committed
<1>3. CASE proposal' = proposal
  BY <1>1, <1>2, <1>3 DEF Committed
<1>4. ASSUME NEW value, NEW leases, StartOrJoin(value, leases) PROVE Committed'
  <2>1. \A u \in DOMAIN proposal' : proposal'[u].phase = "apply" =>
            u \in DOMAIN proposal /\ proposal[u].phase = "apply"
    <3>1. CASE proposal' = [proposal EXCEPT ![value].leases = @ \cup leases]
      BY <1>2, <3>1 DEF Types, ProposalRecord
    <3>2. CASE proposal' = [v \in DOMAIN proposal \cup {value} |->
                              IF v = value THEN NewProposal(leases) ELSE proposal[v]]
      BY <3>2 DEF NewProposal
    <3>3. QED
      BY <1>4, <3>1, <3>2 DEF StartOrJoin
  <2>2. QED
    BY <1>1, <1>2, <2>1 DEF Committed
<1>5. ASSUME NEW v \in DOMAIN proposal, ProposalStep(v) PROVE Committed'
  <2>1. ASSUME NEW fields, SetProposal(v, fields), "phase" \in DOMAIN fields,
               fields["phase"] # "apply"
        PROVE  Committed'
    <3>1. \A u \in DOMAIN proposal' : u \in DOMAIN proposal /\
              (u # v => proposal'[u] = proposal[u])
      BY <1>2, <2>1 DEF SetProposal, Types
    <3>2. proposal'[v].phase = fields["phase"]
      BY <1>2, <2>1 DEF SetProposal, Types, ProposalRecord
    <3>3. QED
      BY <1>1, <1>2, <2>1, <3>1, <3>2 DEF Committed
  <2>2. ASSUME SetProposal(v, [phase |-> "apply"]), v \in Elements(log')
        PROVE  Committed'
    <3>1. \A u \in DOMAIN proposal' : u \in DOMAIN proposal /\
              (u # v => proposal'[u] = proposal[u])
      BY <1>2, <2>2 DEF SetProposal, Types
    <3>2. QED
      BY <1>1, <1>2, <2>2, <3>1 DEF Committed
  <2>3. CASE Attempt(v)
    <3>1. CASE v \in Elements(log) /\ SetProposal(v, [phase |-> "apply"])
      BY <1>1, <2>2, <3>1
    <3>2. CASE log' = Append(log, v) /\ SetProposal(v, [phase |-> "apply"])
      BY <1>2, <2>2, <3>2, AppendIs DEF Types
    <3>3. CASE \E res : SetProposal(v, [phase |-> "release", res |-> res])
      BY <2>1, <3>3
    <3>4. QED
      BY <2>3, <3>1, <3>2, <3>3 DEF Attempt
  <2>4. CASE Deny(v)
    BY <2>1, <2>4 DEF Deny
  <2>5. CASE Maintain(v)
    <3>1. CASE SetProposal(v, [phase |-> "finish"])
      BY <2>1, <3>1
    <3>2. CASE SetProposal(v, [phase |-> "finish", res |-> "unknown"])
      BY <2>1, <3>2
    <3>3. CASE SetProposal(v, [phase |-> "attempt", retried |-> TRUE, res |-> "none"])
      BY <2>1, <3>3
    <3>4. QED
      BY <2>5, <3>1, <3>2, <3>3 DEF Maintain
  <2>6. CASE Apply(v)
    BY <2>1, <2>6 DEF Apply
  <2>7. CASE ReleaseAttempt(v)
    BY <2>1, <2>7 DEF ReleaseAttempt
  <2>8. CASE FinishProposal(v)
    <3>1. proposal' = [u \in DOMAIN proposal \ {v} |-> proposal[u]]
      BY <2>8 DEF FinishProposal
    <3>2. QED
      BY <1>1, <1>2, <3>1 DEF Committed
  <2>9. QED
    BY <1>5, <2>3, <2>4, <2>5, <2>6, <2>7, <2>8 DEF ProposalStep
<1>6. ASSUME NEW c \in Call, \/ AdmitMutation(c) \/ CallStep(c) \/ Cancel(c)
                               \/ FinishLifecycle(c, TRUE) \/ FinishLifecycle(c, FALSE)
      PROVE  Committed'
  BY <1>3, <1>4, <1>6 DEF AdmitMutation, CallStep, Cancel, LockRequest, AnswerReceipt, AwaitDurable,
      Submit, AwaitResult, Reread, ProposeDirect, AwaitProposal, FinishLifecycle
<1>7. CASE BatchStep
  BY <1>3, <1>7 DEF BatchStep, BatchNext, BatchCollect, BatchDispatch, BatchPermit, BatchSend
<1>8. ASSUME NEW w \in Worker, JobStep(w) PROVE Committed'
  BY <1>3, <1>4, <1>8 DEF JobStep, ProposeBatch, AbandonJob
<1>9. ASSUME NEW v \in pending, CommitLate(v) PROVE Committed'
  BY <1>3, <1>9 DEF CommitLate
<1>10. CASE Quiesce \/ Drained \/ AbandonQuiesce \/ Resume \/ Close \/ CloseBatcher \/ CloseReturns
  BY <1>3, <1>10 DEF Quiesce, Drained, AbandonQuiesce, Resume, Close, CloseBatcher, CloseReturns
<1>11. QED
  BY <1>5, <1>6, <1>7, <1>8, <1>9, <1>10 DEF WriteNext

-----------------------------------------------------------------------------
(* Theorems *)

\* The inductive invariant: permits are balanced, what is applied is committed,
\* and receipts are there.
THEOREM WriteInvariant == WriteSpec => []WriteInv
<1>1. WriteInit => WriteInv
  <2> SUFFICES ASSUME WriteInit PROVE WriteInv
    OBVIOUS
  <2>1. Running = {} /\ lifecycle = {} /\ permits = 0 /\ DOMAIN proposal = {}
    BY DEF WriteInit, Running
  <2>2. IsFiniteSet(Running) /\ Cardinality(Running) = 0
        /\ IsFiniteSet(lifecycle) /\ Cardinality(lifecycle) = 0
    BY <2>1, FS_EmptySet
  <2>3. PermitLimit \in Nat
    BY WritePathAssumption DEF PermitLimit
  <2>4. PermitsInv
    BY <2>1, <2>2, <2>3 DEF PermitsInv, WriteInit
  <2>5. log = <<>> /\ Elements(log) = {}
    BY DEF WriteInit, Elements
  <2>6. log \in Seq(Elements(log)) /\ Len(log) = 0 /\ appliedN \in 0..Len(log)
    BY <2>5 DEF WriteInit
  <2>7. proposal \in [DOMAIN proposal -> ProposalRecord]
    BY <2>1 DEF WriteInit
  <2>8. Types
    BY <2>6, <2>7 DEF Types, WriteInit, CallRecord, Results
  <2>9. QED
    BY <2>1, <2>4, <2>8 DEF WriteInv, Committed, AnswersInv, WriteInit
<1>2. WriteInv /\ [WriteNext]_writeVars => WriteInv'
  <2> SUFFICES ASSUME WriteInv, [WriteNext]_writeVars PROVE WriteInv'
    OBVIOUS
  <2>1. CASE WriteNext
    <3>1. call' \in [Call -> CallRecord]
      BY <2>1, CallsStep DEF WriteInv, CallMoves
    <3>2. proposal' \in [DOMAIN proposal' -> ProposalRecord]
      BY <2>1, PermitsMove DEF WriteInv, ProposalMove
    <3>3. log' \in Seq(Elements(log')) /\ appliedN' \in 0..Len(log')
      BY <2>1, LogMoves, LogGrows DEF WriteInv
    <3>4. Types'
      BY <2>1, <3>1, <3>2, <3>3, ServerStep DEF WriteInv, Types, Elements
    <3>5. QED
      BY <2>1, <3>4, PermitsStep, AnswersStep, CommittedStep DEF WriteInv
  <2>2. CASE UNCHANGED writeVars
    BY <2>2 DEF writeVars, WriteInv, Types, Elements, Committed, PermitsInv, Running, PermitLimit,
        Local, AnswersInv, Item, Effects, ItemSet
  <2>3. QED
    BY <2>1, <2>2
<1>3. QED
  BY <1>1, <1>2, PTL DEF WriteSpec

\* While Quiesce holds the server no proposal is in an attempt and no receipt's
\* durability is awaited, the retry of a denied local proposal included
\* (server.go, Quiesce, beginLocalRetry).
THEOREM QuiescedIsQuiet == WriteSpec => []QuiesceExcludes
<1>1. WriteInv => QuiesceExcludes
  <2> SUFFICES ASSUME WriteInv, server.quiesce = "held" PROVE Running = {} /\ lifecycle = {}
    BY DEF QuiesceExcludes
  <2>1. /\ IsFiniteSet(Running) /\ IsFiniteSet(lifecycle)
        /\ Cardinality(Running) + Cardinality(lifecycle) = 0
    BY DEF WriteInv, PermitsInv
  <2>2. Cardinality(Running) \in Nat /\ Cardinality(lifecycle) \in Nat
    BY <2>1, FS_CardinalityType
  <2>3. Cardinality(Running) = 0 /\ Cardinality(lifecycle) = 0
    BY <2>1, <2>2
  <2>4. QED
    BY <2>1, <2>3, FS_EmptySet
<1>2. QED
  BY <1>1, WriteInvariant, PTL

\* A call that was answered with a receipt took effect with its own payload and
\* request ID, and stays in effect.
THEOREM ReceiptsTrue == WriteSpec => []OkAnswersHold
<1>1. WriteInv => OkAnswersHold
  BY DEF WriteInv, AnswersInv, OkAnswersHold
<1>2. QED
  BY <1>1, WriteInvariant, PTL

\* Proposal permits are held exactly by the running attempts and the awaited
\* receipts, and there are never more than the limit.
THEOREM PermitsBalance ==
    WriteSpec => [](/\ permits = Cardinality(Running) + Cardinality(lifecycle)
                    /\ permits <= PermitLimit)
<1>1. WriteInv => /\ permits = Cardinality(Running) + Cardinality(lifecycle)
                  /\ permits <= PermitLimit
  BY DEF WriteInv, PermitsInv
<1>2. QED
  BY <1>1, WriteInvariant, PTL
=============================================================================
