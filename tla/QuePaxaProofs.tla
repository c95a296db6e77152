---------------------------- MODULE QuePaxaProofs ----------------------------
(***************************************************************************)
(* A slot, for every set of voters, every set of values and priorities,    *)
(* any number of runs, retries and restarts.                               *)
(*                                                                         *)
(* Certificates: every decision that runSlot returns passes the validation *)
(* of every learner, also when recorders that have decided answer from     *)
(* their certificate.                                                      *)
(*                                                                         *)
(* Agreement: as long as the leader's fast path is used for one value, no  *)
(* two runs of the slot decide differently, and a leader that has not      *)
(* restarted uses it for one value.  The invariant says where everything   *)
(* that is recorded, shown, sent or decided comes from; agreement then     *)
(* follows in one state, by induction over the steps of the slot from the  *)
(* earliest decision.                                                      *)
(***************************************************************************)
EXTENDS QuePaxa, FiniteSetTheorems, WellFoundedInduction, TLAPS

\* Only the leader proposes with the highest priority.
LegalProposal == {p \in Proposal : p.priority = High => p.proposerID = Leader}
LegalOrNil == LegalProposal \cup {NilProposal}

RunState == [active : BOOLEAN, round : Nat, step : Nat, proposal : OptProposal]

\* Whatever is recorded, answered or decided is a legal proposal, and no step
\* that was used is empty.
LegalRegisters ==
    \A n \in NodeID : /\ isr[n].first \in LegalOrNil
                      /\ isr[n].agg \in LegalOrNil
                      /\ isr[n].prior \in LegalOrNil
                      /\ isr[n].step > 0 => isr[n].first \in LegalProposal

LegalRequests == \A m \in requests : m.step > 0 /\ m.proposal \in LegalProposal

LegalSummaries ==
    \A a \in summaries : /\ a.step > 0
                         /\ a.first \in LegalProposal
                         /\ a.prior \in LegalOrNil

LegalDecisions == \A d \in decisions : d.step > 0 /\ d.proposal \in LegalProposal

\* A recorder answers a request once.
OneAnswer ==
    \A a, b \in summaries : a.recorder = b.recorder /\ a.request = b.request => a = b

IInv ==
    /\ TypeOK
    /\ LegalRegisters
    /\ LegalRequests
    /\ LegalSummaries
    /\ LegalDecisions
    /\ OneAnswer
    /\ CertificatesValid

-----------------------------------------------------------------------------
\* Of two legal proposals the larger one is legal.
LEMMA LargerLegal ==
    ASSUME NEW p \in LegalOrNil, NEW q \in LegalOrNil
    PROVE  Larger(p, q) \in LegalOrNil
BY DEF Larger

\* Legal proposals are proposals, nil is none of them.
LEMMA LegalTypes ==
    /\ LegalProposal \subseteq Proposal
    /\ LegalProposal \subseteq OptProposal
    /\ LegalOrNil \subseteq OptProposal
    /\ NilProposal \notin Proposal
    /\ NilProposal \in OptProposal
BY RegisterAssumption DEF LegalProposal, LegalOrNil, OptProposal, Proposal, Priority, NilProposal

\* A drawn priority is never the highest one.
LEMMA DrawLegal ==
    ASSUME NEW n \in NodeID, NEW h \in Hash, NEW reused,
           NEW p \in FirstPriorities(n, reused)
    PROVE  [priority |-> p, proposerID |-> n, hash |-> h] \in LegalProposal
BY RegisterAssumption DEF FirstPriorities, LegalProposal, Proposal, Priority

\* What a turn sends is legal when the proposal it starts from is.
LEMMA CandidatesLegal ==
    ASSUME NEW step \in Nat, NEW p \in LegalProposal, NEW c \in Candidates(step, p)
    PROVE  c \in LegalProposal
<1>1. CASE step % 4 = 0
  <2>1. PICK q \in RandomPriority : c = [p EXCEPT !.priority = q]
    BY <1>1 DEF Candidates
  <2>2. p \in [priority : Priority, proposerID : NodeID, hash : Hash]
    BY DEF LegalProposal, Proposal
  <2>3. c = [priority |-> q, proposerID |-> p.proposerID, hash |-> p.hash]
    BY <2>1, <2>2
  <2>4. q \in Priority /\ q # High
    BY RegisterAssumption DEF Priority
  <2>5. QED
    BY <2>2, <2>3, <2>4 DEF LegalProposal, Proposal
<1>2. CASE step % 4 # 0
  BY <1>2 DEF Candidates
<1>3. QED
  BY <1>1, <1>2

\* The register keeps legal proposals, and its first one is set once it is used.
LEMMA ISRRecordLegal ==
    ASSUME NEW st \in ISR, NEW step \in Nat, step > 0, NEW p \in LegalProposal,
           st.first \in LegalOrNil, st.agg \in LegalOrNil, st.prior \in LegalOrNil,
           st.step > 0 => st.first \in LegalProposal
    PROVE  LET next == ISRRecord(st, step, p)
           IN /\ next \in ISR
              /\ next.first \in LegalProposal
              /\ next.agg \in LegalOrNil
              /\ next.prior \in LegalOrNil
              /\ next.step > 0
<1>1. p \in LegalOrNil /\ p \in OptProposal /\ NilProposal \in LegalOrNil
  BY LegalTypes DEF LegalOrNil
<1>2. CASE step = st.step
  <2>1. Larger(st.agg, p) \in LegalOrNil
    BY <1>1, LargerLegal
  <2>2. ISRRecord(st, step, p) = [step |-> st.step, first |-> st.first,
                                  agg |-> Larger(st.agg, p), prior |-> st.prior]
    BY <1>2 DEF ISRRecord, ISR
  <2>3. QED
    BY <1>2, <2>1, <2>2, LegalTypes DEF ISR
<1>3. CASE step > st.step
  <2>1. ISRRecord(st, step, p) =
          [step |-> step, first |-> p, agg |-> p,
           prior |-> IF step = st.step + 1 THEN st.agg ELSE NilProposal]
    BY <1>3 DEF ISRRecord, ISR
  <2>2. QED
    BY <1>1, <1>3, <2>1, LegalTypes DEF ISR
<1>4. CASE step < st.step
  <2>1. ISRRecord(st, step, p) = st
    BY <1>4 DEF ISRRecord, ISR
  <2>2. QED
    BY <1>4, <2>1 DEF ISR
<1>5. QED
  BY <1>2, <1>3, <1>4 DEF ISR

-----------------------------------------------------------------------------
\* The parts of the type invariant that the steps of a run touch.
RunsTyped ==
    /\ run \in [Worker -> RunState]
    /\ \A w \in Worker : run[w].active => CurrentRequest(w) \in requests

\* A sent proposal is the run's current request.
LEMMA SendRecordInv ==
    ASSUME IInv, NEW w \in Worker, NEW round \in Nat, NEW step \in Nat, step > 0,
           NEW p \in LegalProposal, SendRecord(w, round, step, p)
    PROVE  RunsTyped' /\ requests' \subseteq Request /\ LegalRequests'
<1> DEFINE m == [from |-> w, round |-> round, step |-> step, proposal |-> p]
<1>1. /\ run \in [Worker -> RunState]
      /\ requests \subseteq Request
      /\ \A v \in Worker : run[v].active => CurrentRequest(v) \in requests
      /\ LegalRequests
  BY DEF IInv, TypeOK, RunState
<1>2. /\ run' = [run EXCEPT ![w] = [active |-> TRUE, round |-> round, step |-> step,
                                   proposal |-> p]]
      /\ requests' = requests \cup {m}
  BY DEF SendRecord
<1>3. m \in Request
  BY LegalTypes DEF Request
<1>4. run' \in [Worker -> RunState]
  BY <1>1, <1>2, LegalTypes DEF RunState
<1>5. ASSUME NEW v \in Worker, run'[v].active
      PROVE  CurrentRequest(v)' \in requests'
  <2>1. CASE v = w
    BY <1>1, <1>2, <2>1 DEF CurrentRequest
  <2>2. CASE v # w
    <3>1. run'[v] = run[v]
      BY <1>1, <1>2, <2>2
    <3>2. QED
      BY <1>1, <1>2, <1>5, <3>1 DEF CurrentRequest
  <2>3. QED
    BY <2>1, <2>2
<1>6. LegalRequests'
  BY <1>1, <1>2 DEF LegalRequests
<1>7. QED
  BY <1>1, <1>2, <1>3, <1>4, <1>5, <1>6 DEF RunsTyped

\* A run that ends has no current request.
LEMMA EndOfRunInv ==
    ASSUME IInv, NEW w \in Worker, EndOfRun(w), UNCHANGED requests
    PROVE  RunsTyped'
<1>1. /\ run \in [Worker -> RunState]
      /\ \A v \in Worker : run[v].active => CurrentRequest(v) \in requests
  BY DEF IInv, TypeOK, RunState
<1>2. run' = [run EXCEPT ![w] = [run[w] EXCEPT !.active = FALSE]]
  BY DEF EndOfRun
<1>3. [run[w] EXCEPT !.active = FALSE] \in RunState
  BY <1>1 DEF RunState
<1>4. run' \in [Worker -> RunState]
  BY <1>1, <1>2, <1>3
<1>5. ASSUME NEW v \in Worker, run'[v].active
      PROVE  CurrentRequest(v)' \in requests'
  <2>1. v # w
    BY <1>1, <1>2, <1>5 DEF RunState
  <2>2. run'[v] = run[v]
    BY <1>1, <1>2, <2>1
  <2>3. QED
    BY <1>1, <1>5, <2>2 DEF CurrentRequest
<1>6. QED
  BY <1>4, <1>5 DEF RunsTyped

\* A step that keeps the registers, the answers and the decisions, and types
\* its run and its requests, preserves the invariant.
LEMMA ProposerStepInv ==
    ASSUME IInv, RunsTyped', requests' \subseteq Request, LegalRequests',
           reserved' \subseteq NodeID, cuts' \in Nat,
           UNCHANGED <<isr, recovering, summaries, decisions, decided, logged, restarts>>
    PROVE  IInv'
<1>1. TypeOK'
  BY DEF IInv, TypeOK, RunsTyped, RunState
<1>2. LegalRegisters' /\ LegalSummaries' /\ LegalDecisions' /\ OneAnswer' /\ CertificatesValid'
  BY DEF IInv, LegalRegisters, LegalSummaries, LegalDecisions, OneAnswer, CertificatesValid
<1>3. QED
  BY <1>1, <1>2 DEF IInv

\* Another turn of a run.
LEMMA NextTurnInv ==
    ASSUME IInv, NEW w \in Worker, NEW step \in Nat, step > 0, NEW p \in LegalProposal,
           NextTurn(w, step, p)
    PROVE  IInv'
<1>1. reserved' \subseteq NodeID /\ cuts' \in Nat
  BY DEF IInv, TypeOK, NextTurn
<1>2. CASE EndOfRun(w) /\ UNCHANGED requests
  <2>1. RunsTyped'
    BY <1>2, EndOfRunInv
  <2>2. requests' \subseteq Request /\ LegalRequests'
    BY <1>2 DEF IInv, TypeOK, LegalRequests
  <2>3. QED
    BY <1>1, <2>1, <2>2, ProposerStepInv DEF NextTurn
<1>3. ASSUME NEW c \in Candidates(step, p), SendRecord(w, run[w].round, step, c)
      PROVE  IInv'
  <2>1. c \in LegalProposal
    BY CandidatesLegal
  <2>2. run[w].round \in Nat
    BY DEF IInv, TypeOK
  <2>3. RunsTyped' /\ requests' \subseteq Request /\ LegalRequests'
    BY <1>3, <2>1, <2>2, SendRecordInv
  <2>4. QED
    BY <1>1, <2>3, ProposerStepInv DEF NextTurn
<1>4. QED
  BY <1>2, <1>3 DEF NextTurn

\* Propose sends the leader's value with the highest priority or draws one.
LEMMA ProposeInv ==
    ASSUME IInv, NEW n \in NodeID, NEW hash \in Hash, Propose(n, hash) PROVE IInv'
<1> DEFINE w == <<n, "propose">>
<1>1. w \in Worker
  BY DEF Worker
<1>2. PICK p \in FirstPriorities(n, n \in reserved) :
         SendRecord(w, run[w].round + 1, 4, [priority |-> p, proposerID |-> n, hash |-> hash])
  BY DEF Propose
<1>3. [priority |-> p, proposerID |-> n, hash |-> hash] \in LegalProposal
  BY DrawLegal
<1>4. run[w].round + 1 \in Nat
  BY <1>1 DEF IInv, TypeOK
<1>5. RunsTyped' /\ requests' \subseteq Request /\ LegalRequests'
  BY <1>1, <1>2, <1>3, <1>4, SendRecordInv
<1>6. reserved' \subseteq NodeID /\ cuts' \in Nat
  BY DEF IInv, TypeOK, Propose
<1>7. QED
  BY <1>5, <1>6, ProposerStepInv DEF Propose

\* Recovery re-drives a value of the node's register or a read barrier.
LEMMA RecoverInv == ASSUME IInv, NEW n \in NodeID, Recover(n) PROVE IInv'
<1> DEFINE w == <<n, "recover">>
<1>1. w \in Worker
  BY DEF Worker
<1>2. PICK p \in FirstPriorities(n, TRUE) :
         SendRecord(w, run[w].round + 1, 4,
                    [priority |-> p, proposerID |-> n, hash |-> RecoveryValue(n)])
  BY DEF Recover
<1>3. RecoveryValue(n) \in Hash
  <2>1. isr[n].first \in OptProposal /\ isr[n].agg \in OptProposal /\ isr[n].prior \in OptProposal
    BY DEF IInv, TypeOK, ISR
  <2>2. \A q \in OptProposal : q = NilProposal \/ q.hash \in Hash
    BY DEF OptProposal, Proposal
  <2>3. Larger(Larger(isr[n].first, isr[n].agg), isr[n].prior) \in OptProposal
    BY <2>1 DEF Larger
  <2>4. QED
    BY <2>2, <2>3, QuePaxaAssumption DEF RecoveryValue
<1>4. [priority |-> p, proposerID |-> n, hash |-> RecoveryValue(n)] \in LegalProposal
  BY <1>3, DrawLegal
<1>5. run[w].round + 1 \in Nat
  BY <1>1 DEF IInv, TypeOK
<1>6. RunsTyped' /\ requests' \subseteq Request /\ LegalRequests'
  BY <1>1, <1>2, <1>4, <1>5, SendRecordInv
<1>7. reserved' \subseteq NodeID /\ cuts' \in Nat
  BY DEF IInv, TypeOK, Recover
<1>8. QED
  BY <1>6, <1>7, ProposerStepInv DEF Recover

\* A run that is cut short or that meets two highest-priority proposals.
LEMMA EndRunInv ==
    ASSUME IInv, NEW w \in Worker,
           EndRun(w) \/ \E S \in AnswerSets(w) : Conflict(w, S)
    PROVE  IInv'
<1>1. /\ EndOfRun(w)
      /\ UNCHANGED <<isr, reserved, recovering, requests, summaries, decisions, decided,
                     logged, restarts>>
      /\ cuts' \in {cuts, cuts + 1}
  BY DEF EndRun, Conflict
<1>2. RunsTyped'
  BY <1>1, EndOfRunInv
<1>3. requests' \subseteq Request /\ LegalRequests' /\ reserved' \subseteq NodeID /\ cuts' \in Nat
  BY <1>1 DEF IInv, TypeOK, LegalRequests
<1>4. QED
  BY <1>1, <1>2, <1>3, ProposerStepInv

\* What an active run and the answers it takes look like.
LEMMA AnswersLegal ==
    ASSUME IInv, NEW w \in Worker, run[w].active, NEW S \in AnswerSets(w)
    PROVE  /\ S \subseteq summaries
           /\ {a.recorder : a \in S} \in Quorum
           /\ run[w].step \in Nat /\ run[w].step > 0
           /\ run[w].proposal \in LegalProposal
           /\ \A a \in S : /\ a \in Summary
                           /\ a.step \in Nat /\ a.step > 0
                           /\ a.first \in LegalProposal
                           /\ a.prior \in LegalOrNil
           /\ \A a, b \in S : a.recorder = b.recorder => a = b
<1>1. /\ S \subseteq summaries
      /\ \A a \in S : a.request = CurrentRequest(w)
      /\ {a.recorder : a \in S} \in Quorum
  BY DEF AnswerSets, SmallestQuorum
<1>2. /\ CurrentRequest(w) \in requests
      /\ requests \subseteq Request
      /\ summaries \subseteq Summary
  BY DEF IInv, TypeOK
<1>3. /\ CurrentRequest(w).step = run[w].step
      /\ CurrentRequest(w).proposal = run[w].proposal
  BY DEF CurrentRequest
<1>4. run[w].step \in Nat /\ run[w].step > 0 /\ run[w].proposal \in LegalProposal
  BY <1>2, <1>3 DEF IInv, LegalRequests, Request
<1>5. \A a \in S : /\ a \in Summary
                   /\ a.step \in Nat /\ a.step > 0
                   /\ a.first \in LegalProposal
                   /\ a.prior \in LegalOrNil
  BY <1>1, <1>2 DEF IInv, LegalSummaries, Summary
<1>6. \A a, b \in S : a.recorder = b.recorder => a = b
  BY <1>1 DEF IInv, OneAnswer
<1>7. QED
  BY <1>1, <1>4, <1>5, <1>6

\* The turns that continue a run.
LEMMA TurnInv ==
    ASSUME IInv, NEW w \in Worker, run[w].active, NEW S \in AnswerSets(w),
           \/ CatchUp(w, S)
           \/ Phase0(w, S)
           \/ Phase1(w, S)
           \/ Phase2(w, S)
           \/ Phase3(w, S)
    PROVE  IInv'
<1>0. /\ run[w].step \in Nat
      /\ run[w].proposal \in LegalProposal
      /\ \A a \in S : /\ a.step \in Nat /\ a.step > 0
                      /\ a.first \in LegalProposal
                      /\ a.prior \in LegalOrNil
  BY AnswersLegal, Zenon
<1>1. run[w].step + 1 \in Nat /\ run[w].step + 1 > 0
  BY <1>0
<1>2. CASE CatchUp(w, S)
  <2>1. PICK a \in S : NextTurn(w, a.step, a.first)
    BY <1>2 DEF CatchUp
  <2>2. QED
    BY <1>0, <1>1, <2>1, NextTurnInv
<1>3. CASE Phase0(w, S)
  <2>1. PICK a \in S : NextTurn(w, run[w].step + 1, a.first)
    BY <1>3 DEF Phase0, Firsts
  <2>2. QED
    BY <1>0, <1>1, <2>1, NextTurnInv
<1>4. CASE Phase1(w, S) \/ Phase2(w, S)
  <2>1. NextTurn(w, run[w].step + 1, run[w].proposal)
    BY <1>4 DEF Phase1, Phase2
  <2>2. QED
    BY <1>0, <1>1, <2>1, NextTurnInv
<1>5. CASE Phase3(w, S)
  <2>1. PICK a \in S : a.prior # NilProposal /\ NextTurn(w, run[w].step + 1, a.prior)
    BY <1>5 DEF Phase3, Priors
  <2>2. a.prior \in LegalProposal
    BY <1>0, <1>1, <2>1 DEF LegalOrNil
  <2>3. QED
    BY <1>0, <1>1, <2>1, <2>2, NextTurnInv
<1>6. QED
  BY <1>2, <1>3, <1>4, <1>5

\* A node accepts a decision that it has not been told of before, or keeps the
\* one it has.
LEMMA DecideInv ==
    ASSUME IInv, NEW w \in Worker, NEW d \in Decision, d.step > 0,
           d.proposal \in LegalProposal, ValidDecision(d), Decide(w, d)
    PROVE  IInv'
<1> DEFINE n == w[1]
<1>1. n \in NodeID
  BY DEF Worker
<1>2. /\ decisions' = decisions \cup {d}
      /\ decided' \in {decided, [decided EXCEPT ![n] = d]}
      /\ logged' \in {logged, logged \cup {n}}
      /\ recovering' \in {recovering, recovering \ {n}}
      /\ EndOfRun(w)
      /\ UNCHANGED <<isr, reserved, requests, summaries, cuts, restarts>>
  BY DEF Decide
<1> HIDE DEF n
<1>3. RunsTyped'
  BY <1>2, EndOfRunInv
<1>4. TypeOK'
  <2>1. decided' \in [NodeID -> decisions' \cup {NoDecision}]
    BY <1>1, <1>2 DEF IInv, TypeOK
  <2>2. decisions' \subseteq Decision /\ logged' \subseteq NodeID /\ recovering' \subseteq NodeID
    BY <1>1, <1>2 DEF IInv, TypeOK
  <2>3. QED
    BY <1>2, <1>3, <2>1, <2>2 DEF IInv, TypeOK, RunsTyped, RunState
<1>5. LegalRegisters' /\ LegalRequests' /\ LegalSummaries' /\ OneAnswer'
  BY <1>2 DEF IInv, LegalRegisters, LegalRequests, LegalSummaries, OneAnswer
<1>6. LegalDecisions'
  BY <1>2 DEF IInv, LegalDecisions
<1>7. CertificatesValid'
  BY <1>2 DEF IInv, CertificatesValid
<1>8. QED
  BY <1>4, <1>5, <1>6, <1>7 DEF IInv

\* All answers in step 4 carry one highest-priority proposal of the leader.
LEMMA DecideFastInv ==
    ASSUME IInv, NEW w \in Worker, run[w].active, NEW S \in AnswerSets(w), DecideFast(w, S)
    PROVE  IInv'
<1>1. /\ S \subseteq summaries
      /\ {a.recorder : a \in S} \in Quorum
      /\ \A a \in S : a \in Summary /\ a.first \in LegalProposal
      /\ \A a, b \in S : a.recorder = b.recorder => a = b
  BY AnswersLegal
<1>2. PICK e \in S : Decide(w, [step |-> 4, proposal |-> e.first, summaries |-> S])
  BY DEF DecideFast, Firsts
<1> DEFINE d == [step |-> 4, proposal |-> e.first, summaries |-> S]
<1>3. d \in Decision
  BY <1>1, <1>2, LegalTypes DEF Decision
<1>4. \A a \in S : a.first = e.first /\ a.step = 4
  BY <1>2 DEF DecideFast, AllCurrent, FastCandidate, ConflictingHighest
<1>5. e.first.priority = High
  BY <1>2 DEF DecideFast, FastCandidate, Highest
<1>6. e.first.proposerID = Leader
  BY <1>1, <1>2, <1>5 DEF LegalProposal
<1>7. ValidDecision(d)
  BY <1>1, <1>4, <1>5, <1>6 DEF ValidDecision
<1>8. QED
  BY <1>1, <1>2, <1>3, <1>7, DecideInv

\* The proposal is the largest one a quorum saw in the step before.
LEMMA DecideSlowInv ==
    ASSUME IInv, NEW w \in Worker, run[w].active, NEW S \in AnswerSets(w), DecideSlow(w, S)
    PROVE  IInv'
<1>1. /\ S \subseteq summaries
      /\ {a.recorder : a \in S} \in Quorum
      /\ run[w].step \in Nat /\ run[w].step > 0
      /\ run[w].proposal \in LegalProposal
      /\ \A a \in S : a \in Summary
      /\ \A a, b \in S : a.recorder = b.recorder => a = b
  BY AnswersLegal
<1> DEFINE d == [step |-> run[w].step, proposal |-> run[w].proposal, summaries |-> S]
<1>2. d \in Decision
  BY <1>1, LegalTypes DEF Decision
<1>3. Decide(w, d)
  BY DEF DecideSlow
<1>4. ValidDecision(d)
  BY <1>1 DEF DecideSlow, AllCurrent, ValidDecision
<1>5. QED
  BY <1>1, <1>2, <1>3, <1>4, DecideInv

-----------------------------------------------------------------------------
\* A new answer to a request that was not answered before.
LEMMA AnswerInv ==
    ASSUME IInv, NEW r \in NodeID, NEW m \in requests, Unanswered(r, m), NEW a \in Summary,
           a.recorder = r, a.request = m, a.step > 0,
           a.first \in LegalProposal, a.prior \in LegalOrNil,
           summaries' = summaries \cup {a}
    PROVE  summaries' \subseteq Summary /\ LegalSummaries' /\ OneAnswer'
<1>1. summaries' \subseteq Summary
  BY DEF IInv, TypeOK
<1>2. LegalSummaries'
  BY DEF IInv, LegalSummaries
<1>3. OneAnswer'
  BY DEF IInv, OneAnswer, Unanswered
<1>4. QED
  BY <1>1, <1>2, <1>3

\* The answer of a decided slot repeats the decision.
LEMMA RecordDecidedInv ==
    ASSUME IInv, NEW r \in NodeID, NEW m \in requests, RecordDecided(r, m) PROVE IInv'
<1>1. decided[r] \in decisions
  BY DEF RecordDecided, Decided, IInv, TypeOK
<1>2. /\ decided[r].step \in Nat /\ decided[r].step > 0
      /\ decided[r].proposal \in LegalProposal
  BY <1>1 DEF IInv, TypeOK, LegalDecisions, Decision
<1>3. m \in Request /\ m.step \in Nat
  BY DEF IInv, TypeOK, Request
<1> DEFINE step == IF m.step > decided[r].step THEN m.step ELSE decided[r].step
<1>4. step \in Nat /\ step > 0
  BY <1>2, <1>3
<1>5. DecidedSummary(r, m) = [recorder |-> r, request |-> m, step |-> step,
                              first |-> decided[r].proposal, prior |-> decided[r].proposal,
                              source |-> "decision"]
  BY DEF DecidedSummary
<1> HIDE DEF step
<1>6. DecidedSummary(r, m) \in Summary
  BY <1>2, <1>3, <1>4, <1>5, LegalTypes DEF Summary
<1>7. summaries' \subseteq Summary /\ LegalSummaries' /\ OneAnswer'
  <2>1. decided[r].proposal \in LegalOrNil
    BY <1>2 DEF LegalOrNil
  <2>2. QED
    BY <1>2, <1>4, <1>5, <1>6, <2>1, AnswerInv DEF RecordDecided
<1>8. /\ logged' = logged \cup {r}
      /\ UNCHANGED <<isr, run, reserved, recovering, requests, decisions, decided, cuts, restarts>>
  BY DEF RecordDecided
<1>9. TypeOK'
  BY <1>7, <1>8 DEF IInv, TypeOK, CurrentRequest
<1>10. LegalRegisters' /\ LegalRequests' /\ LegalDecisions' /\ CertificatesValid'
  BY <1>8 DEF IInv, LegalRegisters, LegalRequests, LegalDecisions, CertificatesValid
<1>11. QED
  BY <1>7, <1>9, <1>10 DEF IInv

\* The answer of an undecided slot shows the register.
LEMMA RecordISRInv ==
    ASSUME IInv, NEW r \in NodeID, NEW m \in requests, RecordISR(r, m) PROVE IInv'
<1> DEFINE next == ISRRecord(isr[r], m.step, m.proposal)
<1>1. /\ m \in Request /\ m.step \in Nat /\ m.step > 0
      /\ m.proposal \in LegalProposal
      /\ isr \in [NodeID -> ISR]
  BY DEF IInv, TypeOK, LegalRequests, Request
<1>2. /\ next \in ISR
      /\ next.first \in LegalProposal
      /\ next.agg \in LegalOrNil
      /\ next.prior \in LegalOrNil
      /\ next.step > 0
  BY <1>1, ISRRecordLegal DEF IInv, LegalRegisters
<1>3. /\ Unanswered(r, m)
      /\ isr' = [isr EXCEPT ![r] = next]
      /\ summaries' = summaries \cup {ISRSummary(r, m, next)}
      /\ UNCHANGED <<run, reserved, recovering, requests, decisions, decided, logged,
                     cuts, restarts>>
  BY DEF RecordISR
<1> HIDE DEF next
<1>4. ISRSummary(r, m, next) = [recorder |-> r, request |-> m, step |-> next.step,
                                first |-> next.first, prior |-> next.prior, source |-> "isr"]
  BY DEF ISRSummary
<1>5. ISRSummary(r, m, next) \in Summary
  BY <1>1, <1>2, <1>4, LegalTypes DEF Summary, ISR
<1>6. summaries' \subseteq Summary /\ LegalSummaries' /\ OneAnswer'
  BY <1>2, <1>3, <1>4, <1>5, AnswerInv
<1>7. TypeOK'
  BY <1>1, <1>2, <1>3, <1>6 DEF IInv, TypeOK, CurrentRequest
<1>8. LegalRegisters'
  <2>1. \A n \in NodeID : isr'[n] = IF n = r THEN next ELSE isr[n]
    BY <1>1, <1>3
  <2>2. next.first \in LegalOrNil
    BY <1>2 DEF LegalOrNil
  <2>3. QED
    BY <1>2, <2>1, <2>2 DEF IInv, LegalRegisters
<1>9. LegalRequests' /\ LegalDecisions' /\ CertificatesValid'
  BY <1>3 DEF IInv, LegalRequests, LegalDecisions, CertificatesValid
<1>10. QED
  BY <1>6, <1>7, <1>8, <1>9 DEF IInv

\* A step that keeps the registers, requests, answers and decisions.
LEMMA LocalStepInv ==
    ASSUME IInv, RunsTyped', UNCHANGED <<isr, requests, summaries, decisions, cuts>>,
           decided' \in [NodeID -> decisions \cup {NoDecision}],
           reserved' \subseteq NodeID, recovering' \subseteq NodeID, logged' \subseteq NodeID,
           restarts' \in [NodeID -> Nat]
    PROVE  IInv'
<1>1. TypeOK'
  BY DEF IInv, TypeOK, RunsTyped, RunState
<1>2. LegalRegisters' /\ LegalSummaries' /\ LegalDecisions' /\ OneAnswer' /\ CertificatesValid'
  BY DEF IInv, LegalRegisters, LegalSummaries, LegalDecisions, OneAnswer, CertificatesValid
<1>3. LegalRequests'
  BY DEF IInv, LegalRequests
<1>4. QED
  BY <1>1, <1>2, <1>3 DEF IInv

\* A learner takes over a decision that was returned by some run.
LEMMA LearnInv == ASSUME IInv, NEW n \in NodeID, NEW d \in decisions, Learn(n, d) PROVE IInv'
<1>1. RunsTyped'
  BY DEF IInv, TypeOK, Learn, RunsTyped, RunState, CurrentRequest
<1>2. decided' \in [NodeID -> decisions \cup {NoDecision}]
  BY DEF IInv, TypeOK, Learn
<1>3. /\ reserved' \subseteq NodeID
      /\ recovering' \subseteq NodeID
      /\ logged' \subseteq NodeID
      /\ restarts' \in [NodeID -> Nat]
  BY DEF IInv, TypeOK, Learn
<1>4. QED
  BY <1>1, <1>2, <1>3, LocalStepInv DEF Learn

\* A restart ends the node's runs and may take its decision from it.
LEMMA RestartInv == ASSUME IInv, NEW n \in NodeID, Restart(n) PROVE IInv'
<1> DEFINE p == <<n, "propose">>
           q == <<n, "recover">>
<1>1. /\ run \in [Worker -> RunState]
      /\ \A v \in Worker : run[v].active => CurrentRequest(v) \in requests
      /\ UNCHANGED <<isr, requests, summaries, decisions, cuts>>
  BY DEF IInv, TypeOK, RunState, Restart
<1>2. p \in Worker /\ q \in Worker /\ p # q
  BY DEF Worker
<1>3. run' = [run EXCEPT ![p] = [run[p] EXCEPT !.active = FALSE],
                         ![q] = [run[q] EXCEPT !.active = FALSE]]
  BY <1>1, <1>2 DEF Restart
<1> HIDE DEF p, q
<1>4. RunsTyped'
  <2>1. \A v \in Worker : [run[v] EXCEPT !.active = FALSE] \in RunState
    BY <1>1 DEF RunState
  <2>2. run' \in [Worker -> RunState]
    BY <1>1, <1>2, <1>3, <2>1
  <2>3. ASSUME NEW v \in Worker, run'[v].active
        PROVE  CurrentRequest(v)' \in requests'
    <3>1. v # p /\ v # q
      BY <1>1, <1>2, <1>3, <2>3 DEF RunState
    <3>2. run'[v] = run[v]
      BY <1>1, <1>3, <3>1
    <3>3. QED
      BY <1>1, <2>3, <3>2 DEF CurrentRequest
  <2>4. QED
    BY <2>2, <2>3 DEF RunsTyped
<1>5. decided' \in [NodeID -> decisions \cup {NoDecision}]
  BY DEF IInv, TypeOK, Restart
<1>6. /\ reserved' \subseteq NodeID
      /\ recovering' \subseteq NodeID
      /\ logged' \subseteq NodeID
      /\ restarts' \in [NodeID -> Nat]
  BY DEF IInv, TypeOK, Restart
<1>7. QED
  BY <1>1, <1>4, <1>5, <1>6, LocalStepInv

-----------------------------------------------------------------------------
\* A slot nobody has touched.
LEMMA InitInv == Init => IInv
<1>1. SUFFICES ASSUME Init PROVE IInv
  OBVIOUS
<1>2. EmptyISR \in ISR /\ IdleRun \in RunState
  BY LegalTypes DEF EmptyISR, ISR, IdleRun, RunState
<1>3. TypeOK
  BY <1>1, <1>2 DEF Init, TypeOK, RunState, IdleRun
<1>4. LegalRegisters
  <2>1. \A n \in NodeID : isr[n] = EmptyISR
    BY <1>1 DEF Init
  <2>2. NilProposal \in LegalOrNil
    BY DEF LegalOrNil
  <2>3. /\ EmptyISR.first = NilProposal
        /\ EmptyISR.agg = NilProposal
        /\ EmptyISR.prior = NilProposal
        /\ ~(EmptyISR.step > 0)
    BY DEF EmptyISR
  <2>4. QED
    BY <2>1, <2>2, <2>3, Zenon DEF LegalRegisters
<1>5. QED
  BY <1>1, <1>3, <1>4 DEF Init, IInv, LegalRequests, LegalSummaries, LegalDecisions,
     OneAnswer, CertificatesValid

\* Every step of a run, a recorder, a learner or a restart preserves the invariant.
LEMMA StepInv == ASSUME IInv, [Next]_vars PROVE IInv'
<1>1. CASE UNCHANGED vars
  <2>1. UNCHANGED <<isr, run, reserved, recovering, requests, summaries, decisions,
                    decided, logged, cuts, restarts>>
    BY <1>1 DEF vars
  <2>2. RunsTyped'
    BY <2>1 DEF IInv, TypeOK, RunsTyped, RunState, CurrentRequest
  <2>3. QED
    BY <2>1, <2>2, LocalStepInv DEF IInv, TypeOK
<1>2. ASSUME NEW w \in Worker, RunStep(w) PROVE IInv'
  BY <1>2, TurnInv, EndRunInv, DecideFastInv, DecideSlowInv DEF RunStep
<1>3. ASSUME NEW w \in Worker, EndRun(w) PROVE IInv'
  BY <1>3, EndRunInv
<1>4. ASSUME NEW n \in NodeID, ProposeStep(n) PROVE IInv'
  BY <1>4, ProposeInv, QuePaxaAssumption DEF ProposeStep
<1>5. ASSUME NEW n \in NodeID, RecordStep(n) PROVE IInv'
  BY <1>5, RecordDecidedInv, RecordISRInv DEF RecordStep
<1>6. ASSUME NEW n \in NodeID, LearnStep(n) PROVE IInv'
  BY <1>6, LearnInv DEF LearnStep
<1>7. QED
  BY <1>1, <1>2, <1>3, <1>4, <1>5, <1>6, RecoverInv, RestartInv DEF Next

\* The invariant of a slot.
THEOREM Invariant == Spec => []IInv
<1>1. Init => IInv
  BY InitInv
<1>2. IInv /\ [Next]_vars => IInv'
  BY StepInv
<1>3. QED
  BY <1>1, <1>2, PTL DEF Spec

\* The state keeps its shape: in particular no run ever continues from a nil
\* proposal, which runSlot reports as "invalid QuePaxa catch-up".
THEOREM TypeCorrect == Spec => []TypeOK
<1>1. IInv => TypeOK
  BY DEF IInv
<1>2. QED
  BY <1>1, Invariant, PTL

\* Every decision runSlot returns passes validateDecision at every learner: its
\* summaries come from a quorum, one per recorder and all of its step, and they
\* carry the leader's proposal or the largest proposal of the step before.
THEOREM DecisionsAreCertified == Spec => []CertificatesValid
<1>1. IInv => CertificatesValid
  BY DEF IInv
<1>2. QED
  BY <1>1, Invariant, PTL

-----------------------------------------------------------------------------
(* Agreement. *)

\* Some run has sent the proposal in a step.
Sent(step, p) == \E m \in requests : m.step = step /\ m.proposal = p

\* A slot starts in step 4.
StepsFromFour == \A m \in requests : m.step >= 4

\* What a register holds was sent in its step, or in the one before.
RegistersSent ==
    \A n \in NodeID :
        /\ isr[n].step > 0 => /\ isr[n].step >= 4
                              /\ Sent(isr[n].step, isr[n].first)
                              /\ Sent(isr[n].step, isr[n].agg)
        /\ isr[n].prior # NilProposal => Sent(isr[n].step - 1, isr[n].prior)

\* Answers belong to requests, and those read from a register show what was
\* sent; the register has not gone back since.
ShownSent ==
    \A a \in summaries :
        /\ a.request \in requests /\ a.request.step <= a.step
        /\ a.source = "isr" =>
              /\ a.step <= isr[a.recorder].step
              /\ Sent(a.step, a.first)
              /\ a.prior # NilProposal => Sent(a.step - 1, a.prior)

\* A register that is still in the step of an answer shows the same first
\* proposal, and its aggregate, in the next step its prior, covers what was
\* recorded with that answer.
RegistersKept ==
    \A a \in summaries : a.source = "isr" =>
        LET c == isr[a.recorder]
        IN /\ c.step = a.step =>
                /\ a.first = c.first
                /\ a.request.step = a.step => Leq(a.request.proposal, c.agg)
           /\ c.step = a.step + 1 /\ a.request.step = a.step =>
                Leq(a.request.proposal, c.prior)

\* The same between the answers of a recorder.
AnswersKept ==
    \A a, b \in summaries :
        a.source = "isr" /\ b.source = "isr" /\ a.recorder = b.recorder =>
            /\ a.step = b.step => a.first = b.first
            /\ a.request.step = a.step /\ b.step = a.step + 1 =>
                 Leq(a.request.proposal, b.prior)

\* The other answers repeat a decision, in its step or in the one asked for.
AnswersDecided ==
    \A a \in summaries : a.source = "decision" =>
        \E d \in decisions :
            /\ a.first = d.proposal /\ a.prior = d.proposal
            /\ d.step <= a.step
            /\ a.step = a.request.step \/ a.step = d.step

\* The answers of a quorum that let a run, or one it caught up with, send the
\* proposal in a step after the first.
Justifies(S, step, p) ==
    /\ {a.recorder : a \in S} \in Quorum
    /\ \A a \in S : a.step = step - 1 /\ a.request.step = step - 1
    /\ step % 4 = 1 => \E a \in S : a.first = p /\ \A b \in S : Leq(b.first, p)
    /\ step % 4 = 2 \/ step % 4 = 3 => \A a \in S : a.request.proposal = p
    /\ step % 4 = 0 => \E a \in S : /\ a.prior # NilProposal
                                    /\ a.prior.hash = p.hash
                                    /\ \A b \in S : Leq(b.prior, a.prior)

Justified(step, p) == \E S \in SUBSET summaries : Justifies(S, step, p)

RequestsJustified == \A m \in requests : m.step > 4 => Justified(m.step, m.proposal)

\* A decision none of whose summaries repeats another one.
Original(d) == \A a \in d.summaries : a.source = "isr"

\* e comes before d, or decides no more than d in the same step.
Precedes(e, d) == e.step < d.step \/ (e.step = d.step /\ Leq(e.proposal, d.proposal))

\* A decision rests on the answers to one request of its step, and an original
\* one precedes it.
DecisionsFounded ==
    \A d \in decisions :
        /\ d.summaries \subseteq summaries
        /\ \A a \in d.summaries : a.request.step = d.step
        /\ d.step = 4 \/ (d.step > 4 /\ d.step % 4 = 2)
        /\ d.step > 4 => /\ Sent(d.step, d.proposal)
                         /\ \A a \in d.summaries : a.request.proposal = d.proposal
        /\ d.step = 4 => \E a \in summaries : /\ a.source = "isr" /\ a.step = 4
                                              /\ a.first = d.proposal
        /\ \E e \in decisions : Original(e) /\ Precedes(e, d)

History ==
    /\ StepsFromFour
    /\ RegistersSent
    /\ ShownSent
    /\ RegistersKept
    /\ AnswersKept
    /\ AnswersDecided
    /\ RequestsJustified
    /\ DecisionsFounded

-----------------------------------------------------------------------------
\* Every set of naturals that is not empty has a least element.
LEMMA LeastNatural ==
    ASSUME NEW T, T \subseteq Nat, T # {}
    PROVE  \E x \in T : \A y \in T : x <= y
<1> DEFINE R == OpToRel(<, Nat)
<1>1. IsWellFoundedOn(R, Nat)
  BY NatLessThanWellFounded
<1>2. \A p \in Nat \X Nat : p \in R <=> p[1] < p[2]
  BY DEF OpToRel
<1> HIDE DEF R
<1>3. PICK x \in T : \A y \in T : ~(<<y, x>> \in R)
  BY <1>1, WFMin
<1>4. \A y \in T : ~(y < x)
  BY <1>2, <1>3
<1>5. QED
  BY <1>3, <1>4

\* compareProposal is a total order in which nil is the smallest.
LEMMA LeqOrder ==
    /\ \A p \in OptProposal : Leq(p, p)
    /\ \A p, q \in OptProposal : Leq(p, q) \/ Leq(q, p)
    /\ \A p, q \in OptProposal : Leq(p, q) /\ Leq(q, p) => p = q
    /\ \A p, q, r \in OptProposal : Leq(p, q) /\ Leq(q, r) => Leq(p, r)
    /\ \A p \in OptProposal : Leq(NilProposal, p)
    /\ \A p, q \in OptProposal : Leq(p, q) => p.priority <= q.priority
    /\ \A p \in OptProposal : p.priority \in Int /\ p.priority <= High
<1>0. \A x \in Priority : x \in Nat /\ x <= High
  BY RegisterAssumption DEF Priority
<1>1. \A p \in OptProposal : /\ p.priority \in Int /\ p.proposerID \in Int /\ p.hash \in Int
                             /\ p.priority <= High
                             /\ p = [priority |-> p.priority, proposerID |-> p.proposerID,
                                     hash |-> p.hash]
  <2>1. ASSUME NEW p \in Proposal
        PROVE  /\ p.priority \in Int /\ p.proposerID \in Int /\ p.hash \in Int
               /\ p.priority <= High
               /\ p = [priority |-> p.priority, proposerID |-> p.proposerID,
                       hash |-> p.hash]
    <3>1. p.priority \in Priority /\ p.proposerID \in NodeID /\ p.hash \in Hash
      BY DEF Proposal
    <3>2. p.proposerID \in Nat /\ p.hash \in Nat
      BY <3>1, RegisterAssumption
    <3>3. p = [priority |-> p.priority, proposerID |-> p.proposerID, hash |-> p.hash]
      BY DEF Proposal
    <3>4. QED
      BY <1>0, <3>1, <3>2, <3>3
  <2>2. /\ NilProposal.priority = -1 /\ NilProposal.proposerID = 0 /\ NilProposal.hash = 0
        /\ NilProposal.priority <= High
    BY RegisterAssumption DEF NilProposal
  <2>3. NilProposal = [priority |-> NilProposal.priority,
                       proposerID |-> NilProposal.proposerID, hash |-> NilProposal.hash]
    BY DEF NilProposal
  <2>4. QED
    BY <2>1, <2>2, <2>3 DEF OptProposal
<1>2. \A p \in Proposal : 0 <= p.priority
  BY <1>0 DEF Proposal
<1>3. \A p \in OptProposal : Leq(p, p)
  BY <1>1 DEF Leq
<1>4. \A p, q \in OptProposal : Leq(p, q) \/ Leq(q, p)
  BY <1>1 DEF Leq
<1>5. \A p, q \in OptProposal : Leq(p, q) /\ Leq(q, p) => p = q
  <2>1. SUFFICES ASSUME NEW p \in OptProposal, NEW q \in OptProposal, Leq(p, q), Leq(q, p)
                 PROVE  p = q
    OBVIOUS
  <2>2. p.priority = q.priority /\ p.proposerID = q.proposerID /\ p.hash = q.hash
    BY <1>1, <2>1 DEF Leq
  <2>3. QED
    BY <1>1, <2>2
<1>6. \A p, q, r \in OptProposal : Leq(p, q) /\ Leq(q, r) => Leq(p, r)
  BY <1>1 DEF Leq
<1>7. \A p \in OptProposal : Leq(NilProposal, p)
  <2>1. NilProposal.priority = -1
    BY DEF NilProposal
  <2>2. ASSUME NEW p \in Proposal PROVE Leq(NilProposal, p)
    BY <1>1, <1>2, <2>1 DEF Leq, OptProposal
  <2>3. QED
    BY <1>3, <2>2 DEF OptProposal
<1>8. \A p, q \in OptProposal : Leq(p, q) => p.priority <= q.priority
  BY <1>1 DEF Leq
<1>9. QED
  BY <1>1, <1>3, <1>4, <1>5, <1>6, <1>7, <1>8

\* The answers of two quorums have a recorder in common.
LEMMA CommonRecorder ==
    ASSUME NEW S, NEW T, {a.recorder : a \in S} \in Quorum, {b.recorder : b \in T} \in Quorum
    PROVE  \E a \in S, b \in T : a.recorder = b.recorder
<1> DEFINE P == {a.recorder : a \in S}
           Q == {b.recorder : b \in T}
<1>1. P \in Quorum /\ Q \in Quorum
  OBVIOUS
<1>2. /\ P \subseteq NodeID /\ Q \subseteq NodeID
      /\ 2 * Cardinality(P) > Cardinality(NodeID)
      /\ 2 * Cardinality(Q) > Cardinality(NodeID)
      /\ IsFiniteSet(NodeID)
  BY <1>1, QuePaxaAssumption DEF Quorum
<1> HIDE DEF P, Q
<1>3. P \cap Q # {}
  <2>1. Cardinality(P) \in Nat /\ Cardinality(Q) \in Nat /\ Cardinality(NodeID) \in Nat
    BY <1>2, FS_Subset, FS_CardinalityType
  <2>2. Cardinality(P) + Cardinality(Q) > Cardinality(NodeID)
    BY <1>2, <2>1
  <2>3. QED
    BY <1>2, <2>2, FS_MajoritiesIntersect
<1>4. QED
  BY <1>3 DEF P, Q

-----------------------------------------------------------------------------
\* What the type invariant says of answers, requests and decisions.
LEMMA HistoryTypes ==
    ASSUME IInv
    PROVE  /\ \A a \in summaries : /\ a.step \in Nat /\ a.recorder \in NodeID
                                   /\ a.source = "isr" \/ a.source = "decision"
                                   /\ a.first \in Proposal /\ a.first \in OptProposal
                                   /\ a.prior \in OptProposal
           /\ \A m \in requests : m.step \in Nat /\ m.proposal \in OptProposal
           /\ \A d \in decisions : d.step \in Nat /\ d.proposal \in OptProposal
<1>1. /\ summaries \subseteq Summary /\ requests \subseteq Request /\ decisions \subseteq Decision
      /\ LegalSummaries
  BY DEF IInv, TypeOK
<1>2. \A a \in summaries : a.first \in Proposal
  BY <1>1, LegalTypes DEF LegalSummaries
<1>3. QED
  BY <1>1, <1>2 DEF Summary, Request, Decision, OptProposal

\* The earliest decision may be taken to be an original one.
First(d) == /\ d \in decisions /\ Original(d)
            /\ \A e \in decisions : d.step <= e.step

LEMMA FirstExists == ASSUME IInv, DecisionsFounded, decisions # {} PROVE \E d \in decisions : First(d)
<1> DEFINE T == {d.step : d \in {x \in decisions : Original(x)}}
<1>1. \A d \in decisions : d.step \in Nat
  BY HistoryTypes
<1>2. \A d \in decisions : \E e \in decisions : Original(e) /\ e.step <= d.step
  BY <1>1 DEF DecisionsFounded, Precedes
<1>3. T \subseteq Nat /\ T # {}
  BY <1>1, <1>2
<1>4. PICK x \in T : \A y \in T : x <= y
  BY <1>3, LeastNatural
<1>5. PICK d \in decisions : Original(d) /\ d.step = x
  BY <1>4
<1>6. ASSUME NEW e \in decisions PROVE d.step <= e.step
  <2>1. PICK o \in decisions : Original(o) /\ o.step <= e.step
    BY <1>2
  <2>2. x <= o.step
    BY <1>4, <2>1
  <2>3. QED
    BY <1>1, <1>5, <2>1, <2>2
<1>7. QED
  BY <1>5, <1>6 DEF First

\* Below a first decision no answer repeats one.
LEMMA EarlierAnswers ==
    ASSUME IInv, History, NEW d, First(d), NEW a \in summaries, a.step < d.step
    PROVE  a.source = "isr"
<1>1. a.step \in Nat /\ d.step \in Nat /\ (a.source = "isr" \/ a.source = "decision")
  BY HistoryTypes DEF First
<1>2. ASSUME a.source = "decision" PROVE FALSE
  <2>1. PICK e \in decisions : e.step <= a.step
    BY <1>2 DEF History, AnswersDecided
  <2>2. d.step <= e.step /\ e.step \in Nat
    BY HistoryTypes DEF First
  <2>3. QED
    BY <1>1, <2>1, <2>2
<1>3. QED
  BY <1>1, <1>2

\* A first slow decision is the largest proposal of its step: whoever sends one
\* in that step had it recorded by a quorum in the step before, which meets the
\* quorum of the decision.
LEMMA SlowLargest ==
    ASSUME IInv, History, NEW d, First(d), d.step > 4, NEW m \in requests, m.step = d.step
    PROVE  Leq(m.proposal, d.proposal)
<1>1. /\ d \in decisions /\ d.step \in Nat /\ d.step % 4 = 2
      /\ d.summaries \subseteq summaries
      /\ \A a \in d.summaries : a.source = "isr"
  BY HistoryTypes DEF First, Original, History, DecisionsFounded
<1>2. /\ {a.recorder : a \in d.summaries} \in Quorum
      /\ \A a \in d.summaries : a.step = d.step /\ Leq(a.prior, d.proposal)
  <2>1. ValidDecision(d)
    BY <1>1 DEF IInv, CertificatesValid
  <2>2. QED
    BY <1>1, <2>1 DEF ValidDecision, IsLargest, Priors
<1>3. PICK S \in SUBSET summaries : Justifies(S, d.step, m.proposal)
  BY <1>1 DEF History, RequestsJustified, Justified
<1>4. PICK a \in S, b \in d.summaries : a.recorder = b.recorder
  BY <1>2, <1>3, CommonRecorder DEF Justifies
<1>5. /\ a \in summaries /\ a.step = d.step - 1 /\ a.request.step = a.step
      /\ a.request.proposal = m.proposal
  BY <1>1, <1>3, <1>4 DEF Justifies
<1>6. a.source = "isr"
  BY <1>1, <1>5, EarlierAnswers
<1>7. b \in summaries /\ b.source = "isr" /\ b.step = a.step + 1 /\ Leq(b.prior, d.proposal)
  BY <1>1, <1>2, <1>4, <1>5
<1>8. Leq(m.proposal, b.prior)
  BY <1>4, <1>5, <1>6, <1>7 DEF History, AnswersKept
<1>9. m.proposal \in OptProposal /\ b.prior \in OptProposal /\ d.proposal \in OptProposal
  BY <1>1, <1>7, HistoryTypes
<1>10. QED
  BY <1>7, <1>8, <1>9, LeqOrder

\* Two first decisions in a slow step decide the same proposal.
LEMMA FirstSlowEqual ==
    ASSUME IInv, History, NEW d, First(d), NEW e, First(e), d.step > 4
    PROVE  d.step = e.step /\ d.proposal = e.proposal
<1>1. /\ d \in decisions /\ e \in decisions /\ d.step \in Nat /\ e.step \in Nat
      /\ d.step <= e.step /\ e.step <= d.step
      /\ d.proposal \in OptProposal /\ e.proposal \in OptProposal
  BY HistoryTypes DEF First
<1>2. d.step = e.step
  BY <1>1
<1>3. Sent(d.step, d.proposal) /\ Sent(d.step, e.proposal)
  BY <1>1, <1>2 DEF History, DecisionsFounded
<1>4. Leq(d.proposal, e.proposal) /\ Leq(e.proposal, d.proposal)
  BY <1>1, <1>2, <1>3, SlowLargest DEF Sent
<1>5. QED
  BY <1>1, <1>2, <1>4, LeqOrder

\* Whatever is decided in the step of a first decision is the same proposal.
LEMMA SameStep ==
    ASSUME IInv, History, UniqueHighest, NEW d, First(d), NEW e \in decisions, e.step = d.step
    PROVE  e.proposal = d.proposal
<1>1. d \in decisions /\ d.step \in Nat /\ (d.step = 4 \/ d.step > 4)
  BY HistoryTypes DEF First, History, DecisionsFounded
<1>2. CASE d.step = 4
  <2>1. ASSUME NEW x \in decisions, x.step = 4
        PROVE  x.proposal.priority = High
    <3>1. ValidDecision(x)
      BY DEF IInv, CertificatesValid
    <3>2. 4 % 4 # 2
      OBVIOUS
    <3>3. QED
      BY <2>1, <3>1, <3>2 DEF ValidDecision
  <2>2. ASSUME NEW x \in decisions, x.step = 4
        PROVE  \E a \in summaries : a.source = "isr" /\ a.step = 4 /\ a.first = x.proposal
    BY <2>2 DEF History, DecisionsFounded
  <2>3. QED
    BY <1>1, <1>2, <2>1, <2>2 DEF UniqueHighest
<1>3. CASE d.step > 4
  <2>1. PICK o \in decisions : Original(o) /\ Precedes(o, e)
    BY DEF History, DecisionsFounded
  <2>2. d.step <= o.step /\ o.step \in Nat
    BY HistoryTypes DEF First
  <2>3. o.step = d.step /\ Leq(o.proposal, e.proposal)
    BY <1>1, <2>1, <2>2 DEF Precedes
  <2>4. First(o)
    BY <2>1, <2>3 DEF First
  <2>5. o.proposal = d.proposal
    BY <1>3, <2>4, FirstSlowEqual
  <2>6. Sent(d.step, e.proposal)
    BY <1>3 DEF History, DecisionsFounded
  <2>7. Leq(e.proposal, d.proposal)
    BY <1>3, <2>6, SlowLargest DEF Sent
  <2>8. QED
    BY <1>1, <2>3, <2>5, <2>7, HistoryTypes, LeqOrder
<1>4. QED
  BY <1>1, <1>2, <1>3

-----------------------------------------------------------------------------
\* The steps in which a first decision leaves no choice: the rounds after a slow
\* one, everything after a fast one.
Later(d, step) == step >= d.step + 2 \/ (d.step = 4 /\ step >= 5)

\* In the steps below t all requests carry the decided value.
CarriedBelow(d, t) ==
    \A m \in requests : Later(d, m.step) /\ m.step < t => m.proposal.hash = d.proposal.hash

\* Then so do the answers in the step before t that repeat a decision.
LEMMA RepeatsCarry ==
    ASSUME IInv, History, UniqueHighest, NEW d, First(d), NEW t \in Nat, CarriedBelow(d, t),
           NEW a \in summaries, a.source = "decision", a.step = t - 1
    PROVE  /\ a.first.hash = d.proposal.hash /\ a.prior.hash = d.proposal.hash
           /\ t <= d.step + 2 => a.first = d.proposal /\ a.prior = d.proposal
<1>1. PICK e \in decisions : a.first = e.proposal /\ a.prior = e.proposal /\ e.step <= a.step
  BY DEF History, AnswersDecided
<1>2. /\ d.step \in Nat /\ e.step \in Nat /\ d.step <= e.step
      /\ d.step = 4 \/ (d.step > 4 /\ d.step % 4 = 2)
      /\ e.step = 4 \/ (e.step > 4 /\ e.step % 4 = 2)
      /\ e.step > 4 => Sent(e.step, e.proposal)
  BY HistoryTypes DEF First, History, DecisionsFounded
<1>3. CASE e.step = d.step
  BY <1>1, <1>3, SameStep
<1>4. CASE e.step # d.step
  <2>1. Later(d, e.step) /\ e.step < t /\ e.step > 4
    BY <1>1, <1>2, <1>4 DEF Later
  <2>2. e.proposal.hash = d.proposal.hash
    BY <1>2, <2>1 DEF Sent, CarriedBelow
  <2>3. ~(t <= d.step + 2)
    BY <1>1, <1>2, <1>4
  <2>4. QED
    BY <1>1, <2>2, <2>3
<1>5. QED
  BY <1>3, <1>4

\* The first step after a slow decision that starts a round: all priors are at
\* most the decided proposal, and one of a common recorder is at least that.
LEMMA CarryRound ==
    ASSUME IInv, History, UniqueHighest, NEW d, First(d), d.step > 4,
           NEW m \in requests, m.step = d.step + 2, CarriedBelow(d, m.step)
    PROVE  m.proposal.hash = d.proposal.hash
<1>1. /\ d \in decisions /\ d.step \in Nat /\ d.step % 4 = 2
      /\ d.proposal \in OptProposal
      /\ d.summaries \subseteq summaries
      /\ \A b \in d.summaries : /\ b.source = "isr"
                                /\ b.request.step = d.step /\ b.request.proposal = d.proposal
  BY HistoryTypes DEF First, Original, History, DecisionsFounded
<1>2. /\ {b.recorder : b \in d.summaries} \in Quorum
      /\ \A b \in d.summaries : b.step = d.step
  BY <1>1 DEF IInv, CertificatesValid, ValidDecision
<1>3. m.step \in Nat /\ m.step > 4 /\ m.step % 4 = 0 /\ m.step - 1 = d.step + 1
  BY <1>1
<1>4. PICK S \in SUBSET summaries : Justifies(S, m.step, m.proposal)
  BY <1>3 DEF History, RequestsJustified, Justified
<1>5. PICK a \in S : /\ a.prior # NilProposal /\ a.prior.hash = m.proposal.hash
                     /\ \A b \in S : Leq(b.prior, a.prior)
  BY <1>3, <1>4 DEF Justifies
<1>6. \A b \in S : b \in summaries /\ b.step = d.step + 1 /\ b.prior \in OptProposal
  BY <1>3, <1>4, HistoryTypes DEF Justifies
<1>7. ASSUME NEW b \in S PROVE Leq(b.prior, d.proposal)
  <2>1. CASE b.source = "decision"
    <3>1. b.prior = d.proposal
      BY <1>3, <1>6, <2>1, RepeatsCarry
    <3>2. QED
      BY <1>1, <3>1, LeqOrder
  <2>2. CASE b.source = "isr" /\ b.prior # NilProposal
    <3>1. Sent(d.step, b.prior)
      BY <1>1, <1>6, <2>2 DEF History, ShownSent
    <3>2. QED
      BY <1>1, <3>1, SlowLargest DEF Sent
  <2>3. CASE b.prior = NilProposal
    BY <1>1, <2>3, LeqOrder
  <2>4. QED
    BY <1>6, <2>1, <2>2, <2>3, HistoryTypes
<1>8. \E b \in S : Leq(d.proposal, b.prior)
  <2>1. PICK b \in S, c \in d.summaries : b.recorder = c.recorder
    BY <1>2, <1>4, CommonRecorder DEF Justifies
  <2>2. CASE b.source = "decision"
    <3>1. b.prior = d.proposal
      BY <1>3, <1>6, <2>2, RepeatsCarry
    <3>2. QED
      BY <1>1, <2>1, <3>1, LeqOrder
  <2>3. CASE b.source = "isr"
    <3>1. c \in summaries /\ b \in summaries /\ b.step = c.step + 1 /\ c.request.step = c.step
      BY <1>1, <1>2, <1>6, <2>1
    <3>2. Leq(c.request.proposal, b.prior)
      BY <1>1, <2>1, <2>3, <3>1 DEF History, AnswersKept
    <3>3. QED
      BY <1>1, <2>1, <3>2
  <2>4. QED
    BY <1>6, <2>1, <2>2, <2>3, HistoryTypes
<1>9. a.prior = d.proposal
  <2>1. PICK b \in S : Leq(d.proposal, b.prior)
    BY <1>8
  <2>2. Leq(b.prior, a.prior) /\ Leq(a.prior, d.proposal)
    BY <1>5, <1>7
  <2>3. Leq(d.proposal, a.prior)
    BY <1>1, <1>6, <2>1, <2>2, LeqOrder
  <2>4. QED
    BY <1>1, <1>6, <2>2, <2>3, LeqOrder
<1>10. QED
  BY <1>5, <1>9

\* The step after a fast decision: a common recorder shows the decided proposal,
\* and no other one has its priority.
LEMMA CarryFast ==
    ASSUME IInv, History, UniqueHighest, NEW d, First(d), d.step = 4,
           NEW m \in requests, m.step = 5, CarriedBelow(d, m.step)
    PROVE  m.proposal.hash = d.proposal.hash
<1>1. /\ d \in decisions
      /\ d.proposal \in OptProposal
      /\ d.summaries \subseteq summaries
      /\ \A b \in d.summaries : b.source = "isr"
  BY HistoryTypes DEF First, Original, History, DecisionsFounded
<1>2. /\ {b.recorder : b \in d.summaries} \in Quorum
      /\ \A b \in d.summaries : b.step = 4 /\ b.first = d.proposal
      /\ d.proposal.priority = High
  <2>1. ValidDecision(d) /\ 4 % 4 # 2
    BY <1>1 DEF IInv, CertificatesValid
  <2>2. QED
    BY <1>1, <2>1 DEF ValidDecision
<1>3. m.step % 4 = 1 /\ m.step > 4 /\ m.step - 1 = 4
  OBVIOUS
<1>4. PICK S \in SUBSET summaries : Justifies(S, m.step, m.proposal)
  BY <1>3 DEF History, RequestsJustified, Justified
<1>5. PICK a \in S : a.first = m.proposal /\ \A b \in S : Leq(b.first, m.proposal)
  BY <1>3, <1>4 DEF Justifies
<1>6. \A b \in S : b \in summaries /\ b.step = 4 /\ b.first \in OptProposal
  BY <1>3, <1>4, HistoryTypes DEF Justifies
<1>7. \A b \in S : b.source = "decision" => b.first = d.proposal
  BY <1>6, RepeatsCarry
<1>8. \E b \in S : b.first = d.proposal
  <2>1. PICK b \in S, c \in d.summaries : b.recorder = c.recorder
    BY <1>2, <1>4, CommonRecorder DEF Justifies
  <2>2. CASE b.source = "isr"
    BY <1>1, <1>2, <1>6, <2>1, <2>2 DEF History, AnswersKept
  <2>3. QED
    BY <1>6, <1>7, <2>1, <2>2, HistoryTypes
<1>9. Leq(d.proposal, a.first)
  BY <1>5, <1>8
<1>10. a.first.priority = High
  <2>1. High <= a.first.priority /\ a.first.priority <= High
    BY <1>1, <1>2, <1>6, <1>9, LeqOrder
  <2>2. a.first.priority \in Int /\ High \in Int
    BY <1>6, LeqOrder, RegisterAssumption
  <2>3. QED
    BY <2>1, <2>2
<1>11. CASE a.source = "isr"
  <2>1. PICK c \in d.summaries : TRUE
    <3>1. \E b \in S, c \in d.summaries : b.recorder = c.recorder
      BY <1>2, <1>4, CommonRecorder DEF Justifies
    <3>2. QED
      BY <3>1
  <2>2. a.first = c.first
    BY <1>1, <1>2, <1>6, <1>10, <1>11, <2>1 DEF UniqueHighest
  <2>3. QED
    BY <1>2, <1>5, <2>1, <2>2
<1>12. QED
  BY <1>5, <1>6, <1>7, <1>11, HistoryTypes

\* Every later step: what a quorum showed was sent in a step that carries the
\* decided value already.
LEMMA CarryOn ==
    ASSUME IInv, History, UniqueHighest, NEW d, First(d),
           NEW m \in requests, CarriedBelow(d, m.step), Later(d, m.step - 1),
           m.step % 4 = 0 => Later(d, m.step - 2)
    PROVE  m.proposal.hash = d.proposal.hash
<1>1. m.step \in Nat /\ m.step > 4 /\ d.step \in Nat /\ d.step >= 4
  BY HistoryTypes DEF First, History, DecisionsFounded, Later
<1>2. PICK S \in SUBSET summaries : Justifies(S, m.step, m.proposal)
  BY <1>1 DEF History, RequestsJustified, Justified
<1>3. \A a \in S : a \in summaries /\ a.step = m.step - 1 /\ a.request.step = m.step - 1
  BY <1>2 DEF Justifies
<1>4. ASSUME NEW p, Sent(m.step - 1, p) PROVE p.hash = d.proposal.hash
  BY <1>1, <1>4 DEF Sent, CarriedBelow
<1>5. CASE m.step % 4 = 1
  <2>1. PICK a \in S : a.first = m.proposal
    BY <1>2, <1>5 DEF Justifies
  <2>2. CASE a.source = "isr"
    BY <1>3, <1>4, <2>1, <2>2 DEF History, ShownSent
  <2>3. CASE a.source = "decision"
    BY <1>1, <1>3, <2>1, <2>3, RepeatsCarry
  <2>4. QED
    BY <1>3, <2>1, <2>2, <2>3, HistoryTypes
<1>6. CASE m.step % 4 = 2 \/ m.step % 4 = 3
  <2>1. PICK a \in S : a.request.proposal = m.proposal
    <3>1. \E a \in S, b \in S : a.recorder = b.recorder
      BY <1>2, CommonRecorder DEF Justifies
    <3>2. QED
      BY <1>2, <1>6, <3>1 DEF Justifies
  <2>2. Sent(m.step - 1, m.proposal)
    BY <1>3, <2>1 DEF History, ShownSent, Sent
  <2>3. QED
    BY <1>4, <2>2
<1>7. CASE m.step % 4 = 0
  <2>1. PICK a \in S : a.prior # NilProposal /\ a.prior.hash = m.proposal.hash
    BY <1>2, <1>7 DEF Justifies
  <2>2. CASE a.source = "isr"
    <3>1. Sent(m.step - 2, a.prior)
      <4>1. Sent(a.step - 1, a.prior)
        BY <1>3, <2>1, <2>2 DEF History, ShownSent
      <4>2. a.step - 1 = m.step - 2
        BY <1>1, <1>3
      <4>3. QED
        BY <4>1, <4>2
    <3>2. a.prior.hash = d.proposal.hash
      BY <1>1, <1>7, <3>1 DEF Sent, CarriedBelow
    <3>3. QED
      BY <2>1, <3>2
  <2>3. CASE a.source = "decision"
    BY <1>1, <1>3, <2>1, <2>3, RepeatsCarry
  <2>4. QED
    BY <1>3, <2>1, <2>2, <2>3, HistoryTypes
<1>8. QED
  BY <1>1, <1>5, <1>6, <1>7

\* After a first decision every later request carries its value: the least step
\* in which one did not would contradict the lemmas above.
LEMMA Carry ==
    ASSUME IInv, History, UniqueHighest, NEW d, First(d),
           NEW m \in requests, Later(d, m.step)
    PROVE  m.proposal.hash = d.proposal.hash
<1> DEFINE Bad == {x \in requests : Later(d, x.step) /\ x.proposal.hash # d.proposal.hash}
           T == {x.step : x \in Bad}
<1>1. SUFFICES ASSUME T # {} PROVE FALSE
  OBVIOUS
<1>2. T \subseteq Nat
  BY HistoryTypes
<1>3. PICK t \in T : \A y \in T : t <= y
  BY <1>1, <1>2, LeastNatural
<1>4. PICK x \in requests : /\ x.step = t /\ Later(d, t)
                            /\ x.proposal.hash # d.proposal.hash
  BY <1>3
<1>5. t \in Nat /\ d.step \in Nat /\ (d.step = 4 \/ (d.step > 4 /\ d.step % 4 = 2))
  BY <1>2, <1>3, HistoryTypes DEF First, History, DecisionsFounded
<1>6. CarriedBelow(d, t)
  <2>1. ASSUME NEW y \in requests, Later(d, y.step), y.step < t,
               y.proposal.hash # d.proposal.hash
        PROVE  FALSE
    <3>1. y.step \in T
      BY <2>1
    <3>2. t <= y.step /\ y.step \in Nat
      BY <1>2, <1>3, <3>1
    <3>3. QED
      BY <1>5, <2>1, <3>2
  <2>2. QED
    BY <2>1 DEF CarriedBelow
<1> HIDE DEF T, Bad
<1>7. CASE d.step = 4 /\ t = 5
  BY <1>4, <1>6, <1>7, CarryFast
<1>8. CASE d.step > 4 /\ t = d.step + 2
  BY <1>4, <1>6, <1>8, CarryRound
<1>9. CASE ~(d.step = 4 /\ t = 5) /\ ~(d.step > 4 /\ t = d.step + 2)
  <2>1. Later(d, t - 1)
    BY <1>4, <1>5, <1>9 DEF Later
  <2>2. t % 4 = 0 => Later(d, t - 2)
    BY <1>4, <1>5, <1>9 DEF Later
  <2>3. QED
    BY <1>4, <1>6, <2>1, <2>2, CarryOn
<1>10. QED
  BY <1>5, <1>7, <1>8, <1>9

\* In a state with this history, decisions can only differ if two proposals with
\* the highest priority were recorded.
LEMMA HistoryAgrees == ASSUME IInv, History PROVE SafeAgreement
<1>1. SUFFICES ASSUME UniqueHighest, NEW d1 \in decisions, NEW d2 \in decisions
               PROVE  d1.proposal.hash = d2.proposal.hash
  BY DEF SafeAgreement, Agreement
<1>2. PICK d \in decisions : First(d)
  BY <1>1, FirstExists DEF History
<1>3. ASSUME NEW e \in decisions PROVE e.proposal.hash = d.proposal.hash
  <2>1. /\ d.step \in Nat /\ e.step \in Nat /\ d.step <= e.step
        /\ d.step = 4 \/ (d.step > 4 /\ d.step % 4 = 2)
        /\ e.step = 4 \/ (e.step > 4 /\ e.step % 4 = 2)
        /\ e.step > 4 => Sent(e.step, e.proposal)
    BY <1>2, HistoryTypes DEF First, History, DecisionsFounded
  <2>2. CASE e.step = d.step
    BY <1>1, <1>2, <2>2, SameStep
  <2>3. CASE e.step # d.step
    <3>1. Later(d, e.step) /\ e.step > 4
      BY <2>1, <2>3 DEF Later
    <3>2. QED
      BY <1>1, <1>2, <2>1, <3>1, Carry DEF Sent
  <2>4. QED
    BY <2>2, <2>3
<1>4. QED
  BY <1>3

-----------------------------------------------------------------------------
\* A step that only sends requests, each of them in step 4 or justified, keeps
\* the history.
LEMMA SendHistory ==
    ASSUME IInv, History, requests \subseteq requests',
           \A m \in requests' \ requests : /\ m.step \in Nat /\ m.step >= 4
                                           /\ m.step > 4 => Justified(m.step, m.proposal),
           UNCHANGED <<isr, summaries, decisions>>
    PROVE  History'
<1>1. \A step, p : Sent(step, p) => Sent(step, p)'
  BY DEF Sent
<1>2. \A step, p : Justified(step, p) => Justified(step, p)'
  BY DEF Justified, Justifies
<1>3. StepsFromFour' /\ RequestsJustified'
  BY <1>2 DEF History, StepsFromFour, RequestsJustified
<1>4. RegistersSent'
  BY <1>1 DEF History, RegistersSent
<1>5. ShownSent'
  BY <1>1 DEF History, ShownSent
<1>6. RegistersKept' /\ AnswersKept' /\ AnswersDecided'
  BY DEF History, RegistersKept, AnswersKept, AnswersDecided
<1>7. DecisionsFounded'
  BY <1>1 DEF History, DecisionsFounded, Original, Precedes
<1>8. QED
  BY <1>3, <1>4, <1>5, <1>6, <1>7 DEF History

\* So does a step that leaves all of it alone.
LEMMA QuietHistory ==
    ASSUME IInv, History, UNCHANGED <<isr, requests, summaries, decisions>>
    PROVE  History'
BY SendHistory

\* Another turn of a run sends what a quorum justifies, or the copy of what was
\* sent in that step before.
LEMMA TurnHistory ==
    ASSUME IInv, History, NEW w \in Worker, NEW step \in Nat, step > 4, NEW p \in Proposal,
           \E q \in Proposal : q.hash = p.hash /\ (step % 4 # 0 => q = p) /\ Justified(step, q),
           NextTurn(w, step, p)
    PROVE  History'
<1>1. CASE requests' = requests
  BY <1>1, QuietHistory DEF NextTurn
<1>2. ASSUME NEW c \in Candidates(step, p), SendRecord(w, run[w].round, step, c)
      PROVE  History'
  <2>1. PICK q \in Proposal : q.hash = p.hash /\ (step % 4 # 0 => q = p) /\ Justified(step, q)
    OBVIOUS
  <2>2. c.hash = p.hash /\ (step % 4 # 0 => c = p)
    BY DEF Candidates, Proposal
  <2>3. Justified(step, c)
    <3>1. CASE step % 4 = 0
      <4>1. PICK S \in SUBSET summaries : Justifies(S, step, q)
        BY <2>1 DEF Justified
      <4>2. step % 4 # 1 /\ step % 4 # 2 /\ step % 4 # 3
        BY <3>1
      <4>3. PICK a \in S : /\ a.prior # NilProposal /\ a.prior.hash = c.hash
                           /\ \A b \in S : Leq(b.prior, a.prior)
        BY <2>1, <2>2, <3>1, <4>1 DEF Justifies
      <4>4. Justifies(S, step, c)
        BY <4>1, <4>2, <4>3 DEF Justifies
      <4>5. QED
        BY <4>4 DEF Justified
    <3>2. CASE step % 4 # 0
      BY <2>1, <2>2, <3>2
    <3>3. QED
      BY <3>1, <3>2
  <2>4. requests' = requests \cup {[from |-> w, round |-> run[w].round, step |-> step,
                                    proposal |-> c]}
    BY <1>2 DEF SendRecord
  <2>5. QED
    BY <2>3, <2>4, SendHistory DEF NextTurn
<1>3. QED
  BY <1>1, <1>2 DEF NextTurn

\* What a run in flight and its answers are.
LEMMA RunFacts ==
    ASSUME IInv, History, NEW w \in Worker, run[w].active, NEW S \in AnswerSets(w)
    PROVE  /\ S \in SUBSET summaries
           /\ {a.recorder : a \in S} \in Quorum
           /\ run[w].step \in Nat /\ run[w].step >= 4
           /\ run[w].proposal \in Proposal
           /\ Sent(run[w].step, run[w].proposal)
           /\ \A a \in S : a.request.step = run[w].step /\ a.request.proposal = run[w].proposal
<1>1. /\ S \subseteq summaries
      /\ \A a \in S : a.request = CurrentRequest(w)
      /\ {a.recorder : a \in S} \in Quorum
  BY DEF AnswerSets, SmallestQuorum
<1>2. CurrentRequest(w) \in requests
  BY DEF IInv, TypeOK
<1>3. CurrentRequest(w).step = run[w].step /\ CurrentRequest(w).proposal = run[w].proposal
  BY DEF CurrentRequest
<1>4. run[w].step \in Nat /\ run[w].step >= 4 /\ run[w].proposal \in Proposal
  BY <1>2, <1>3, LegalTypes, HistoryTypes DEF IInv, LegalRequests, History, StepsFromFour
<1>5. QED
  BY <1>1, <1>2, <1>3, <1>4 DEF Sent

\* A run that catches up repeats what was sent in the step it jumps to, whether
\* the answer shows a register or a decision.
LEMMA CatchUpHistory ==
    ASSUME IInv, History, NEW w \in Worker, run[w].active, NEW S \in AnswerSets(w), CatchUp(w, S)
    PROVE  History'
<1>1. PICK a \in S : a.step > run[w].step /\ NextTurn(w, a.step, a.first)
  BY DEF CatchUp
<1>2. /\ a \in summaries /\ a.step \in Nat /\ a.step > 4 /\ a.first \in Proposal
      /\ a.request.step # a.step
      /\ a.source = "isr" \/ a.source = "decision"
  <2>1. /\ a \in summaries /\ run[w].step \in Nat /\ run[w].step >= 4
        /\ a.request.step = run[w].step
    BY <1>1, RunFacts
  <2>2. a.step \in Nat /\ a.first \in Proposal /\ (a.source = "isr" \/ a.source = "decision")
    BY <2>1, HistoryTypes
  <2>3. QED
    BY <1>1, <2>1, <2>2
<1>3. Sent(a.step, a.first)
  <2>1. CASE a.source = "isr"
    BY <1>2, <2>1 DEF History, ShownSent
  <2>2. CASE a.source = "decision"
    <3>1. PICK d \in decisions : a.first = d.proposal /\ a.step = d.step
      BY <1>2, <2>2 DEF History, AnswersDecided
    <3>2. QED
      BY <1>2, <3>1 DEF History, DecisionsFounded
  <2>3. QED
    BY <1>2, <2>1, <2>2
<1>4. Justified(a.step, a.first)
  BY <1>2, <1>3 DEF Sent, History, RequestsJustified
<1>5. QED
  BY <1>1, <1>2, <1>4, TurnHistory

\* The turns that go on to the next step are justified by their answers.
LEMMA PhaseHistory ==
    ASSUME IInv, History, NEW w \in Worker, run[w].active, NEW S \in AnswerSets(w),
           Phase0(w, S) \/ Phase1(w, S) \/ Phase2(w, S) \/ Phase3(w, S)
    PROVE  History'
<1> DEFINE s == run[w].step
           t == s + 1
<1>1. /\ S \in SUBSET summaries /\ {a.recorder : a \in S} \in Quorum
      /\ s \in Nat /\ s >= 4 /\ run[w].proposal \in Proposal
      /\ \A a \in S : a.request.step = s /\ a.request.proposal = run[w].proposal
      /\ \A a \in S : a.first \in Proposal /\ a.prior \in OptProposal
  BY RunFacts, HistoryTypes
<1>2. \A a \in S : a.step = s
  BY DEF Phase0, Phase1, Phase2, Phase3, AllCurrent
<1>3. t \in Nat /\ t > 4 /\ t - 1 = s
  BY <1>1
<1>4. CASE Phase0(w, S)
  <2>1. PICK a \in S : IsLargest(a.first, Firsts(S)) /\ NextTurn(w, t, a.first)
    BY <1>4 DEF Phase0, Firsts
  <2>2. t % 4 = 1
    BY <1>1, <1>4 DEF Phase0
  <2>3. t % 4 # 2 /\ t % 4 # 3 /\ t % 4 # 0 /\ \A b \in S : Leq(b.first, a.first)
    BY <2>1, <2>2 DEF IsLargest, Firsts
  <2>6. Justifies(S, t, a.first)
    BY <1>1, <1>2, <1>3, <2>3 DEF Justifies
  <2>4. Justified(t, a.first)
    BY <1>1, <2>6 DEF Justified
  <2>5. QED
    BY <1>1, <1>3, <2>1, <2>4, TurnHistory
<1>5. CASE Phase1(w, S) \/ Phase2(w, S)
  <2>1. NextTurn(w, t, run[w].proposal)
    BY <1>5 DEF Phase1, Phase2
  <2>2. t % 4 = 2 \/ t % 4 = 3
    BY <1>1, <1>5 DEF Phase1, Phase2
  <2>3. Justifies(S, t, run[w].proposal)
    BY <1>1, <1>2, <1>3, <2>2 DEF Justifies
  <2>4. Justified(t, run[w].proposal)
    BY <1>1, <2>3 DEF Justified
  <2>5. QED
    BY <1>1, <1>3, <2>1, <2>4, TurnHistory
<1>6. CASE Phase3(w, S)
  <2>1. PICK a \in S : /\ IsLargest(a.prior, Priors(S)) /\ a.prior # NilProposal
                       /\ NextTurn(w, t, a.prior)
    BY <1>6 DEF Phase3, Priors
  <2>2. t % 4 = 0 /\ a.prior \in Proposal
    BY <1>1, <1>6, <2>1 DEF Phase3, OptProposal
  <2>3. Justifies(S, t, a.prior)
    BY <1>1, <1>2, <1>3, <2>1, <2>2 DEF Justifies, IsLargest, Priors
  <2>4. Justified(t, a.prior)
    BY <1>1, <2>3 DEF Justified
  <2>5. QED
    BY <1>3, <2>1, <2>2, <2>4, TurnHistory
<1>7. QED
  BY <1>4, <1>5, <1>6

\* A slot is entered in step 4.
LEMMA StartHistory ==
    ASSUME IInv, History, NEW w, NEW round, NEW p, SendRecord(w, round, 4, p),
           UNCHANGED <<isr, summaries, decisions>>
    PROVE  History'
<1>1. requests' = requests \cup {[from |-> w, round |-> round, step |-> 4, proposal |-> p]}
  BY DEF SendRecord
<1>2. QED
  BY <1>1, SendHistory

-----------------------------------------------------------------------------
\* What is recorded in a register, and what that keeps of what it held.
LEMMA ISRRecordKeeps ==
    ASSUME NEW st \in ISR, NEW step \in Nat, step > 0, NEW p \in OptProposal
    PROVE  LET next == ISRRecord(st, step, p)
           IN /\ next.step \in Nat /\ st.step <= next.step /\ step <= next.step
              /\ next.step = st.step =>
                    /\ next.first = st.first /\ next.prior = st.prior
                    /\ Leq(st.agg, next.agg)
                    /\ next.agg = st.agg \/ (next.agg = p /\ next.step = step)
              /\ next.step # st.step =>
                    /\ next.step = step /\ next.first = p /\ next.agg = p
                    /\ next.step = st.step + 1 => next.prior = st.agg
                    /\ next.step # st.step + 1 => next.prior = NilProposal
              /\ next.step = step => Leq(p, next.agg)
<1>1. st.step \in Nat /\ st.agg \in OptProposal
  BY DEF ISR
<1>2. Leq(p, p) /\ Leq(st.agg, st.agg) /\ (Leq(p, st.agg) \/ Leq(st.agg, p))
  BY <1>1, LeqOrder
<1>3. CASE step = st.step
  <2>1. ISRRecord(st, step, p) = [st EXCEPT !.agg = Larger(st.agg, p)]
    BY <1>3 DEF ISRRecord
  <2>2. /\ ISRRecord(st, step, p).step = st.step
        /\ ISRRecord(st, step, p).first = st.first
        /\ ISRRecord(st, step, p).prior = st.prior
        /\ ISRRecord(st, step, p).agg = Larger(st.agg, p)
    BY <2>1 DEF ISR
  <2>3. /\ Leq(st.agg, Larger(st.agg, p)) /\ Leq(p, Larger(st.agg, p))
        /\ Larger(st.agg, p) = st.agg \/ Larger(st.agg, p) = p
    BY <1>2 DEF Larger
  <2>4. QED
    BY <1>1, <1>3, <2>2, <2>3
<1>4. CASE step > st.step
  <2>1. /\ ISRRecord(st, step, p).step = step
        /\ ISRRecord(st, step, p).first = p
        /\ ISRRecord(st, step, p).agg = p
        /\ step = st.step + 1 => ISRRecord(st, step, p).prior = st.agg
        /\ step # st.step + 1 => ISRRecord(st, step, p).prior = NilProposal
    BY <1>1, <1>4 DEF ISRRecord
  <2>2. QED
    BY <1>1, <1>2, <1>4, <2>1
<1>5. CASE step < st.step
  <2>1. ISRRecord(st, step, p) = st
    BY <1>1, <1>5 DEF ISRRecord
  <2>2. QED
    BY <1>1, <1>2, <1>5, <2>1
<1>6. QED
  BY <1>1, <1>3, <1>4, <1>5

\* A new answer, whatever it is read from, leaves what was founded on the others.
LEMMA AnswerHistory ==
    ASSUME IInv, History, summaries \subseteq summaries', UNCHANGED <<requests, decisions>>
    PROVE  StepsFromFour' /\ RequestsJustified' /\ DecisionsFounded'
<1>1. \A step, p : Justified(step, p) => Justified(step, p)'
  BY DEF Justified, Justifies
<1>2. StepsFromFour' /\ RequestsJustified'
  BY <1>1 DEF History, StepsFromFour, RequestsJustified
<1>3. \A step, p : Sent(step, p) => Sent(step, p)'
  BY DEF Sent
<1>4. \A d : Original(d) => Original(d)'
  BY DEF Original
<1>5. DecisionsFounded'
  BY <1>3, <1>4 DEF History, DecisionsFounded, Precedes
<1>6. QED
  BY <1>2, <1>5

\* An open slot is answered from its register, which only grows.
LEMMA RecordISRHistory ==
    ASSUME IInv, History, NEW r \in NodeID, NEW m \in requests, RecordISR(r, m)
    PROVE  History'
<1> DEFINE next == ISRRecord(isr[r], m.step, m.proposal)
           x == ISRSummary(r, m, next)
<1>1. /\ isr' = [isr EXCEPT ![r] = next] /\ summaries' = summaries \cup {x}
      /\ UNCHANGED <<requests, decisions>>
  BY DEF RecordISR
<1>2. /\ isr \in [NodeID -> ISR] /\ isr[r] \in ISR /\ isr[r].step \in Nat
      /\ m.step \in Nat /\ m.step > 0 /\ m.step >= 4 /\ m.proposal \in OptProposal
      /\ isr[r].agg \in OptProposal
  BY HistoryTypes DEF IInv, TypeOK, LegalRequests, ISR, History, StepsFromFour
<1>3. /\ next.step \in Nat /\ isr[r].step <= next.step /\ m.step <= next.step
      /\ next.step = isr[r].step =>
            /\ next.first = isr[r].first /\ next.prior = isr[r].prior
            /\ Leq(isr[r].agg, next.agg)
            /\ next.agg = isr[r].agg \/ (next.agg = m.proposal /\ next.step = m.step)
      /\ next.step # isr[r].step =>
            /\ next.step = m.step /\ next.first = m.proposal /\ next.agg = m.proposal
            /\ next.step = isr[r].step + 1 => next.prior = isr[r].agg
            /\ next.step # isr[r].step + 1 => next.prior = NilProposal
      /\ next.step = m.step => Leq(m.proposal, next.agg)
  BY <1>2, ISRRecordKeeps
<1>4. /\ x.recorder = r /\ x.request = m /\ x.step = next.step /\ x.first = next.first
      /\ x.prior = next.prior /\ x.source = "isr"
  BY DEF ISRSummary
<1>5. isr'[r] = next /\ \A n \in NodeID : n # r => isr'[n] = isr[n]
  BY <1>1, <1>2
<1>6. isr'[r].agg \in OptProposal
  <2>1. next.agg = isr[r].agg \/ next.agg = m.proposal
    BY <1>3
  <2>2. QED
    BY <1>2, <1>5, <2>1
<1>7. \A a \in summaries : /\ a.recorder \in NodeID /\ a.step \in Nat
                           /\ a.request \in requests /\ a.request.step \in Nat
                           /\ a.request.proposal \in OptProposal
  BY HistoryTypes DEF History, ShownSent
<1> HIDE DEF next, x
<1>8. Sent(next.step, next.first) /\ Sent(next.step, next.agg)
  <2>1. CASE next.step = isr[r].step
    <3>1. isr[r].step > 0
      BY <1>2, <1>3, <2>1
    <3>2. Sent(next.step, isr[r].first) /\ Sent(next.step, isr[r].agg)
      BY <2>1, <3>1 DEF History, RegistersSent
    <3>3. QED
      BY <1>3, <2>1, <3>2 DEF Sent
  <2>2. CASE next.step # isr[r].step
    BY <1>3, <2>2 DEF Sent
  <2>3. QED
    BY <2>1, <2>2
<1>9. next.prior # NilProposal => Sent(next.step - 1, next.prior)
  <2>1. CASE next.step = isr[r].step
    BY <1>3, <2>1 DEF History, RegistersSent
  <2>2. CASE next.step # isr[r].step
    <3>1. ASSUME next.prior # NilProposal PROVE Sent(next.step - 1, next.prior)
      <4>1. next.step = isr[r].step + 1 /\ next.prior = isr[r].agg /\ next.step >= 4
        BY <1>2, <1>3, <2>2, <3>1
      <4>2. isr[r].step > 0 /\ next.step - 1 = isr[r].step
        BY <1>2, <4>1
      <4>3. QED
        BY <4>1, <4>2 DEF History, RegistersSent
    <3>2. QED
      BY <3>1
  <2>3. QED
    BY <2>1, <2>2
<1>10. \A step, p : Sent(step, p) => Sent(step, p)'
  BY <1>1 DEF Sent
<1>11. StepsFromFour' /\ RequestsJustified' /\ DecisionsFounded'
  BY <1>1, AnswerHistory
<1>12. RegistersSent'
  <2>1. SUFFICES ASSUME NEW n \in NodeID
        PROVE  /\ isr'[n].step > 0 => /\ isr'[n].step >= 4
                                      /\ Sent(isr'[n].step, isr'[n].first)
                                      /\ Sent(isr'[n].step, isr'[n].agg)
               /\ isr'[n].prior # NilProposal => Sent(isr'[n].step - 1, isr'[n].prior)
    BY <1>1 DEF RegistersSent, Sent
  <2>2. CASE n = r
    BY <1>2, <1>3, <1>5, <1>8, <1>9, <2>2
  <2>3. CASE n # r
    BY <1>5, <2>3 DEF History, RegistersSent
  <2>4. QED
    BY <2>2, <2>3
<1>13. ShownSent'
  <2>1. SUFFICES ASSUME NEW a \in summaries'
        PROVE  /\ a.request \in requests' /\ a.request.step <= a.step
               /\ a.source = "isr" =>
                     /\ a.step <= isr'[a.recorder].step
                     /\ Sent(a.step, a.first)'
                     /\ a.prior # NilProposal => Sent(a.step - 1, a.prior)'
    BY DEF ShownSent, Sent
  <2>2. CASE a = x
    BY <1>1, <1>3, <1>4, <1>5, <1>8, <1>9, <1>10, <2>2
  <2>3. CASE a \in summaries
    <3>1. /\ a.request \in requests /\ a.request.step <= a.step
          /\ a.source = "isr" =>
                /\ a.step <= isr[a.recorder].step
                /\ Sent(a.step, a.first)
                /\ a.prior # NilProposal => Sent(a.step - 1, a.prior)
      BY <2>3 DEF History, ShownSent
    <3>2. isr[a.recorder].step \in Nat /\ isr'[a.recorder].step \in Nat
          /\ isr[a.recorder].step <= isr'[a.recorder].step
      BY <1>2, <1>3, <1>5, <1>7, <2>3 DEF ISR
    <3>3. QED
      BY <1>1, <1>7, <1>10, <2>3, <3>1, <3>2
  <2>4. QED
    BY <1>1, <2>2, <2>3
<1>14. RegistersKept'
  <2>1. SUFFICES ASSUME NEW a \in summaries', a.source = "isr"
        PROVE  /\ isr'[a.recorder].step = a.step =>
                     /\ a.first = isr'[a.recorder].first
                     /\ a.request.step = a.step =>
                          Leq(a.request.proposal, isr'[a.recorder].agg)
               /\ isr'[a.recorder].step = a.step + 1 /\ a.request.step = a.step =>
                     Leq(a.request.proposal, isr'[a.recorder].prior)
    BY DEF RegistersKept
  <2>2. CASE a = x
    BY <1>3, <1>4, <1>5, <2>2
  <2>3. CASE a \in summaries
    <3>1. /\ isr[a.recorder].step = a.step =>
                /\ a.first = isr[a.recorder].first
                /\ a.request.step = a.step => Leq(a.request.proposal, isr[a.recorder].agg)
          /\ isr[a.recorder].step = a.step + 1 /\ a.request.step = a.step =>
                Leq(a.request.proposal, isr[a.recorder].prior)
      BY <2>1, <2>3 DEF History, RegistersKept
    <3>2. CASE a.recorder # r
      BY <1>5, <1>7, <2>3, <3>1, <3>2
    <3>3. CASE a.recorder = r /\ next.step = isr[r].step
      <4>1. ASSUME a.request.step = a.step, isr[r].step = a.step
            PROVE  Leq(a.request.proposal, next.agg)
        <5>1. Leq(a.request.proposal, isr[r].agg) /\ Leq(isr[r].agg, next.agg)
          BY <1>3, <3>1, <3>3, <4>1
        <5>2. QED
          BY <1>2, <1>5, <1>6, <1>7, <2>3, <5>1, LeqOrder
      <4>2. QED
        BY <1>3, <1>5, <3>1, <3>3, <4>1
    <3>4. CASE a.recorder = r /\ next.step # isr[r].step
      <4>1. a.step <= isr[r].step
        BY <2>1, <2>3, <3>4 DEF History, ShownSent
      <4>2. next.step # a.step /\ (next.step = a.step + 1 => isr[r].step = a.step)
        BY <1>2, <1>3, <1>7, <2>3, <3>4, <4>1
      <4>3. QED
        BY <1>3, <1>5, <3>1, <3>4, <4>2
    <3>5. QED
      BY <3>2, <3>3, <3>4
  <2>4. QED
    BY <1>1, <2>2, <2>3
<1>15. AnswersKept'
  <2>1. SUFFICES ASSUME NEW a \in summaries', NEW b \in summaries', a.source = "isr",
                        b.source = "isr", a.recorder = b.recorder
        PROVE  /\ a.step = b.step => a.first = b.first
               /\ a.request.step = a.step /\ b.step = a.step + 1 =>
                    Leq(a.request.proposal, b.prior)
    BY DEF AnswersKept
  <2>2. CASE a \in summaries /\ b \in summaries
    BY <2>1, <2>2 DEF History, AnswersKept
  <2>3. CASE a \in summaries /\ b = x
    BY <1>4, <1>5, <1>14, <2>1, <2>3 DEF RegistersKept
  <2>4. CASE a = x /\ b \in summaries
    <3>1. b.step <= next.step
      BY <1>3, <1>2, <1>4, <1>7, <2>1, <2>4 DEF History, ShownSent
    <3>2. a.step = b.step => a.first = b.first
      BY <1>4, <1>5, <1>14, <2>1, <2>4 DEF RegistersKept
    <3>3. b.step # a.step + 1
      BY <1>3, <1>4, <1>7, <2>4, <3>1
    <3>4. QED
      BY <3>2, <3>3
  <2>5. CASE a = x /\ b = x
    BY <1>3, <1>4, <2>5
  <2>6. QED
    BY <1>1, <2>2, <2>3, <2>4, <2>5
<1>16. AnswersDecided'
  BY <1>1, <1>4 DEF History, AnswersDecided
<1>17. QED
  BY <1>11, <1>12, <1>13, <1>14, <1>15, <1>16 DEF History

\* A decided slot is answered from its decision.
LEMMA RecordDecidedHistory ==
    ASSUME IInv, History, NEW r \in NodeID, NEW m \in requests, RecordDecided(r, m)
    PROVE  History'
<1> DEFINE x == DecidedSummary(r, m)
<1>1. summaries' = summaries \cup {x} /\ UNCHANGED <<isr, requests, decisions>>
  BY DEF RecordDecided
<1>2. decided[r] \in decisions
  BY DEF RecordDecided, Decided, IInv, TypeOK
<1>3. decided[r].step \in Nat /\ m.step \in Nat
  BY <1>2, HistoryTypes
<1>4. /\ x.request = m /\ x.source = "decision"
      /\ x.first = decided[r].proposal /\ x.prior = decided[r].proposal
      /\ x.step = IF m.step > decided[r].step THEN m.step ELSE decided[r].step
  BY DEF DecidedSummary
<1> HIDE DEF x
<1>5. /\ decided[r].step <= x.step /\ m.step <= x.step
      /\ x.step = x.request.step \/ x.step = decided[r].step
  BY <1>3, <1>4
<1>6. \A step, p : Sent(step, p) => Sent(step, p)'
  BY <1>1 DEF Sent
<1>7. StepsFromFour' /\ RequestsJustified' /\ DecisionsFounded'
  BY <1>1, AnswerHistory
<1>8. x.source # "isr"
  BY <1>4
<1>9. RegistersSent'
  BY <1>1, <1>6 DEF History, RegistersSent
<1>10. ShownSent'
  BY <1>1, <1>4, <1>5, <1>6, <1>8 DEF History, ShownSent
<1>11. RegistersKept' /\ AnswersKept'
  BY <1>1, <1>8 DEF History, RegistersKept, AnswersKept
<1>12. AnswersDecided'
  <2>1. ASSUME NEW a \in summaries', a.source = "decision"
        PROVE  \E d \in decisions' : /\ a.first = d.proposal /\ a.prior = d.proposal
                                     /\ d.step <= a.step
                                     /\ a.step = a.request.step \/ a.step = d.step
    <3>1. CASE a = x
      BY <1>1, <1>2, <1>4, <1>5, <3>1
    <3>2. CASE a \in summaries
      BY <1>1, <2>1, <3>2 DEF History, AnswersDecided
    <3>3. QED
      BY <1>1, <3>1, <3>2
  <2>2. QED
    BY <2>1 DEF AnswersDecided
<1>13. QED
  BY <1>7, <1>9, <1>10, <1>11, <1>12 DEF History

-----------------------------------------------------------------------------
\* A decision that rests on answers to its own step keeps the history when an
\* original one precedes it.
LEMMA DecideHistory ==
    ASSUME IInv, History, NEW d, decisions' = decisions \cup {d},
           UNCHANGED <<isr, requests, summaries>>,
           d.summaries \subseteq summaries,
           \A a \in d.summaries : a.request.step = d.step,
           d.step = 4 \/ (d.step > 4 /\ d.step % 4 = 2),
           d.step > 4 => /\ Sent(d.step, d.proposal)
                         /\ \A a \in d.summaries : a.request.proposal = d.proposal,
           d.step = 4 => \E a \in summaries : /\ a.source = "isr" /\ a.step = 4
                                              /\ a.first = d.proposal,
           \E e \in decisions \cup {d} : Original(e) /\ Precedes(e, d)
    PROVE  History'
<1>1. \A step, p : Sent(step, p) => Sent(step, p)'
  BY DEF Sent
<1>2. \A step, p : Justified(step, p) => Justified(step, p)'
  BY DEF Justified, Justifies
<1>3. StepsFromFour' /\ RequestsJustified'
  BY <1>2 DEF History, StepsFromFour, RequestsJustified
<1>4. RegistersSent' /\ ShownSent'
  BY <1>1 DEF History, RegistersSent, ShownSent
<1>5. RegistersKept' /\ AnswersKept'
  BY DEF History, RegistersKept, AnswersKept
<1>6. AnswersDecided'
  BY DEF History, AnswersDecided
<1>7. DecisionsFounded'
  <2>1. SUFFICES ASSUME NEW x \in decisions'
        PROVE  /\ x.summaries \subseteq summaries'
               /\ \A a \in x.summaries : a.request.step = x.step
               /\ x.step = 4 \/ (x.step > 4 /\ x.step % 4 = 2)
               /\ x.step > 4 => /\ Sent(x.step, x.proposal)'
                                /\ \A a \in x.summaries : a.request.proposal = x.proposal
               /\ x.step = 4 => \E a \in summaries' : /\ a.source = "isr" /\ a.step = 4
                                                      /\ a.first = x.proposal
               /\ \E e \in decisions' : Original(e) /\ Precedes(e, x)
    BY DEF DecisionsFounded, Sent, Original, Precedes
  <2>2. CASE x = d
    BY <1>1, <2>2
  <2>3. CASE x \in decisions
    BY <1>1, <2>3 DEF History, DecisionsFounded
  <2>4. QED
    BY <2>2, <2>3
<1>8. QED
  BY <1>3, <1>4, <1>5, <1>6, <1>7 DEF History

\* A fast decision takes over what it shares with the decisions it repeats.
LEMMA DecideFastHistory ==
    ASSUME IInv, History, NEW w \in Worker, run[w].active, NEW S \in AnswerSets(w),
           DecideFast(w, S)
    PROVE  History'
<1>1. PICK p \in Firsts(S) : Decide(w, [step |-> 4, proposal |-> p, summaries |-> S])
  BY DEF DecideFast
<1> DEFINE d == [step |-> 4, proposal |-> p, summaries |-> S]
<1>2. /\ S \in SUBSET summaries /\ run[w].step = 4
      /\ \A a \in S : a.request.step = 4 /\ a.step = 4
  BY RunFacts DEF DecideFast, FastCandidate, AllCurrent
<1>3. \A a \in S : a.first = p
  <2>1. \A a \in S : Highest(a)
    BY DEF DecideFast, FastCandidate
  <2>2. PICK b \in S : b.first = p
    BY <1>1 DEF Firsts
  <2>3. ASSUME NEW a \in S, a.first # b.first PROVE FALSE
    BY <1>2, <2>1, <2>3 DEF DecideFast, ConflictingHighest
  <2>4. QED
    BY <2>2, <2>3
<1>4. \A a \in S : a.source = "decision" =>
         \E e \in decisions : e.step = 4 /\ e.proposal = p
  <2>1. ASSUME NEW a \in S, a.source = "decision"
        PROVE  \E e \in decisions : e.step = 4 /\ e.proposal = p
    <3>1. PICK e \in decisions : a.first = e.proposal /\ e.step <= a.step
      BY <1>2, <2>1 DEF History, AnswersDecided
    <3>2. e.step \in Nat /\ (e.step = 4 \/ e.step > 4)
      BY HistoryTypes DEF History, DecisionsFounded
    <3>3. QED
      BY <1>2, <1>3, <2>1, <3>1, <3>2
  <2>2. QED
    BY <2>1
<1>5. \A a \in S : a.source = "isr" \/ a.source = "decision"
  BY <1>2, HistoryTypes
<1>6. PICK b \in S : b.first = p
  BY <1>1 DEF Firsts
<1>7. p \in OptProposal
  BY <1>2, <1>6, HistoryTypes
<1>8. d.step = 4 /\ d.proposal = p /\ d.summaries = S
  OBVIOUS
<1>9. decisions' = decisions \cup {d} /\ UNCHANGED <<isr, requests, summaries>>
  BY <1>1 DEF Decide
<1> HIDE DEF d
<1>10. \E a \in summaries : a.source = "isr" /\ a.step = 4 /\ a.first = p
  <2>1. CASE b.source = "isr"
    BY <1>2, <1>6, <2>1
  <2>2. CASE b.source = "decision"
    <3>1. PICK e \in decisions : e.step = 4 /\ e.proposal = p
      BY <1>4, <1>6, <2>2
    <3>2. QED
      BY <3>1 DEF History, DecisionsFounded
  <2>3. QED
    BY <1>5, <2>1, <2>2
<1>11. \E e \in decisions \cup {d} : Original(e) /\ Precedes(e, d)
  <2>1. CASE \A a \in S : a.source = "isr"
    BY <1>7, <1>8, <2>1, LeqOrder DEF Original, Precedes
  <2>2. CASE \E a \in S : a.source = "decision"
    <3>1. PICK e \in decisions : e.step = 4 /\ e.proposal = p
      BY <1>4, <2>2
    <3>2. PICK o \in decisions : Original(o) /\ Precedes(o, e)
      BY DEF History, DecisionsFounded
    <3>3. Precedes(o, d)
      BY <1>8, <3>1, <3>2 DEF Precedes
    <3>4. QED
      BY <3>2, <3>3
  <2>3. QED
    BY <1>5, <2>1, <2>2
<1>12. QED
  BY <1>2, <1>8, <1>9, <1>10, <1>11, DecideHistory

\* A slow decision is at least what it repeats of its own step.
LEMMA DecideSlowHistory ==
    ASSUME IInv, History, NEW w \in Worker, run[w].active, NEW S \in AnswerSets(w),
           DecideSlow(w, S)
    PROVE  History'
<1> DEFINE s == run[w].step
           p == run[w].proposal
           d == [step |-> s, proposal |-> p, summaries |-> S]
<1>1. /\ S \in SUBSET summaries /\ s \in Nat /\ s >= 4 /\ p \in Proposal /\ Sent(s, p)
      /\ \A a \in S : a.request.step = s /\ a.request.proposal = p
  BY RunFacts
<1>2. /\ \A a \in S : a.step = s /\ Leq(a.prior, p)
      /\ s % 4 = 2
  BY DEF DecideSlow, AllCurrent, IsLargest, Priors
<1>3. s > 4
  BY <1>1, <1>2
<1>4. d.step = s /\ d.proposal = p /\ d.summaries = S
  OBVIOUS
<1>5. decisions' = decisions \cup {d} /\ UNCHANGED <<isr, requests, summaries>>
  BY DEF DecideSlow, Decide
<1>6. p \in OptProposal /\ \A a \in S : a.source = "isr" \/ a.source = "decision"
  BY <1>1, HistoryTypes DEF OptProposal
<1> HIDE DEF d, s, p
<1>7. \E e \in decisions \cup {d} : Original(e) /\ Precedes(e, d)
  <2>1. CASE \A a \in S : a.source = "isr"
    BY <1>4, <1>6, <2>1, LeqOrder DEF Original, Precedes
  <2>2. CASE \E a \in S : a.source = "decision"
    <3>1. PICK a \in S : a.source = "decision"
      BY <2>2
    <3>2. PICK e \in decisions : a.prior = e.proposal /\ e.step <= a.step
      BY <1>1, <3>1 DEF History, AnswersDecided
    <3>3. PICK o \in decisions : Original(o) /\ Precedes(o, e)
      BY DEF History, DecisionsFounded
    <3>4. /\ e.step \in Nat /\ o.step \in Nat
          /\ e.proposal \in OptProposal /\ o.proposal \in OptProposal
      BY HistoryTypes
    <3>5. e.step <= s /\ Leq(e.proposal, p)
      BY <1>2, <3>1, <3>2
    <3>6. Precedes(o, d)
      <4>1. CASE o.step < s
        BY <1>4, <4>1 DEF Precedes
      <4>2. CASE ~(o.step < s)
        <5>1. o.step = e.step /\ e.step = s /\ Leq(o.proposal, e.proposal)
          BY <1>1, <3>3, <3>4, <3>5, <4>2 DEF Precedes
        <5>2. Leq(o.proposal, p)
          BY <1>6, <3>4, <3>5, <5>1, LeqOrder
        <5>3. QED
          BY <1>4, <5>1, <5>2 DEF Precedes
      <4>3. QED
        BY <4>1, <4>2
    <3>7. QED
      BY <3>3, <3>6
  <2>3. QED
    BY <1>6, <2>1, <2>2
<1>8. QED
  BY <1>1, <1>2, <1>3, <1>4, <1>5, <1>7, DecideHistory

-----------------------------------------------------------------------------
\* Nothing has happened at first, and every step adds to the history.
LEMMA InitHistory == Init => History
<1>1. SUFFICES ASSUME Init PROVE History
  OBVIOUS
<1>2. \A n \in NodeID : ~(isr[n].step > 0) /\ isr[n].prior = NilProposal
  <2>1. \A n \in NodeID : isr[n] = EmptyISR
    BY <1>1 DEF Init
  <2>2. EmptyISR.step = 0 /\ EmptyISR.prior = NilProposal /\ ~(0 > 0)
    BY DEF EmptyISR
  <2>3. QED
    BY <2>1, <2>2
<1>3. RegistersSent
  BY <1>2 DEF RegistersSent
<1>4. StepsFromFour /\ RequestsJustified
  BY <1>1 DEF Init, StepsFromFour, RequestsJustified
<1>5. ShownSent /\ RegistersKept /\ AnswersKept /\ AnswersDecided
  BY <1>1 DEF Init, ShownSent, RegistersKept, AnswersKept, AnswersDecided
<1>6. DecisionsFounded
  BY <1>1 DEF Init, DecisionsFounded
<1>7. QED
  BY <1>3, <1>4, <1>5, <1>6 DEF History

LEMMA StepHistory == ASSUME IInv, History, [Next]_vars PROVE History'
<1>1. CASE UNCHANGED vars
  BY <1>1, QuietHistory DEF vars
<1>2. ASSUME NEW w \in Worker, RunStep(w) PROVE History'
  <2>1. PICK S \in AnswerSets(w) : \/ CatchUp(w, S) \/ Conflict(w, S)
                                   \/ Phase0(w, S) \/ Phase1(w, S)
                                   \/ Phase2(w, S) \/ Phase3(w, S)
                                   \/ DecideFast(w, S) \/ DecideSlow(w, S)
    BY <1>2 DEF RunStep
  <2>2. run[w].active
    BY <1>2 DEF RunStep
  <2>3. CASE Conflict(w, S)
    BY <2>3, QuietHistory DEF Conflict
  <2>4. QED
    BY <2>1, <2>2, <2>3, CatchUpHistory, PhaseHistory, DecideFastHistory, DecideSlowHistory
<1>3. ASSUME NEW w \in Worker, EndRun(w) PROVE History'
  BY <1>3, QuietHistory DEF EndRun
<1>4. ASSUME NEW n \in NodeID, ProposeStep(n) PROVE History'
  <2>1. PICK hash \in Offers[n] : Propose(n, hash)
    BY <1>4 DEF ProposeStep
  <2>2. QED
    BY <2>1, StartHistory DEF Propose
<1>5. ASSUME NEW n \in NodeID, Recover(n) PROVE History'
  BY <1>5, StartHistory DEF Recover
<1>6. ASSUME NEW n \in NodeID, RecordStep(n) PROVE History'
  BY <1>6, RecordDecidedHistory, RecordISRHistory DEF RecordStep
<1>7. ASSUME NEW n \in NodeID, LearnStep(n) \/ Restart(n) PROVE History'
  BY <1>7, QuietHistory DEF LearnStep, Learn, Restart
<1>8. QED
  BY <1>1, <1>2, <1>3, <1>4, <1>5, <1>6, <1>7 DEF Next

\* The history is an invariant together with IInv.
LEMMA HistoryInvariant == Spec => [](IInv /\ History)
<1>1. Init => IInv /\ History
  BY InitInv, InitHistory
<1>2. IInv /\ History /\ [Next]_vars => (IInv /\ History)'
  BY StepInv, StepHistory
<1>3. QED
  BY <1>1, <1>2, PTL DEF Spec

\* No two runs of a slot decide differently as long as the highest priority was
\* recorded for one proposal only: whatever the number of voters, however many
\* proposers compete, are cut short, catch up or restart, and although recorders
\* that have decided answer with made-up summaries.
THEOREM AgreementUnlessTwoHighest == Spec => []SafeAgreement
<1>1. IInv /\ History => SafeAgreement
  BY HistoryAgrees
<1>2. QED
  BY <1>1, HistoryInvariant, PTL

-----------------------------------------------------------------------------
\* A leader that has not restarted has opened the slot with the highest priority
\* at most once, and then its slot counts as reused.
HighestOnce ==
    restarts[Leader] = 0 =>
        \A m \in requests : m.step = 4 /\ m.proposal.priority = High =>
            /\ Leader \in reserved
            /\ \A k \in requests : k.step = 4 /\ k.proposal.priority = High =>
                  k.proposal = m.proposal

\* Requests of another kind do not matter, nor does what the others do.
LEMMA QuietHighest ==
    ASSUME HighestOnce, UNCHANGED restarts, reserved \subseteq reserved',
           \A m \in requests' : m.step = 4 /\ m.proposal.priority = High => m \in requests
    PROVE  HighestOnce'
BY DEF HighestOnce

\* The turns of a run leave step 4 behind.
LEMMA TurnHighest ==
    ASSUME IInv, History, HighestOnce, NEW w \in Worker, run[w].active, NEW S \in AnswerSets(w),
           CatchUp(w, S) \/ Phase0(w, S) \/ Phase1(w, S) \/ Phase2(w, S) \/ Phase3(w, S)
    PROVE  HighestOnce'
<1>1. /\ S \in SUBSET summaries /\ run[w].step \in Nat /\ run[w].step >= 4
  BY RunFacts
<1>2. \E step, p : step \in Nat /\ step > 4 /\ NextTurn(w, step, p)
  <2>1. CASE CatchUp(w, S)
    <3>1. PICK a \in S : a.step > run[w].step /\ NextTurn(w, a.step, a.first)
      BY <2>1 DEF CatchUp
    <3>2. a.step \in Nat /\ a.step > 4
      BY <1>1, <3>1, HistoryTypes
    <3>3. QED
      BY <3>1, <3>2
  <2>2. CASE Phase0(w, S) \/ Phase1(w, S) \/ Phase2(w, S) \/ Phase3(w, S)
    <3>1. \E p : NextTurn(w, run[w].step + 1, p)
      BY <2>2 DEF Phase0, Phase1, Phase2, Phase3
    <3>2. run[w].step + 1 \in Nat /\ run[w].step + 1 > 4
      BY <1>1
    <3>3. QED
      BY <3>1, <3>2
  <2>3. QED
    BY <2>1, <2>2
<1>3. PICK step, p : step \in Nat /\ step > 4 /\ NextTurn(w, step, p)
  BY <1>2
<1>4. \A m \in requests' : m.step = 4 => m \in requests
  <2>1. CASE requests' = requests
    BY <2>1
  <2>2. ASSUME NEW c, SendRecord(w, run[w].round, step, c)
        PROVE  \A m \in requests' : m.step = 4 => m \in requests
    BY <1>3, <2>2 DEF SendRecord
  <2>3. QED
    BY <1>3, <2>1, <2>2 DEF NextTurn
<1>5. QED
  BY <1>3, <1>4, QuietHighest DEF NextTurn

\* Propose takes the fast path only for a slot the leader had not reserved.
LEMMA ProposeHighest ==
    ASSUME IInv, HighestOnce, NEW n \in NodeID, NEW hash, Propose(n, hash)
    PROVE  HighestOnce'
<1>1. PICK p \in FirstPriorities(n, n \in reserved) :
         SendRecord(<<n, "propose">>, run[<<n, "propose">>].round + 1, 4,
                    [priority |-> p, proposerID |-> n, hash |-> hash])
  BY DEF Propose
<1> DEFINE x == [from |-> <<n, "propose">>, round |-> run[<<n, "propose">>].round + 1,
                 step |-> 4, proposal |-> [priority |-> p, proposerID |-> n, hash |-> hash]]
<1>2. /\ requests' = requests \cup {x} /\ reserved' = reserved \cup {n}
      /\ UNCHANGED restarts
  BY <1>1 DEF SendRecord, Propose
<1>3. x.step = 4 /\ x.proposal.priority = p
  OBVIOUS
<1> HIDE DEF x
<1>4. CASE p # High
  BY <1>2, <1>3, <1>4, QuietHighest
<1>5. CASE p = High
  <2>1. n = Leader /\ Leader \notin reserved
    BY <1>1, <1>5, RegisterAssumption DEF FirstPriorities
  <2>2. QED
    BY <1>2, <1>3, <2>1 DEF HighestOnce
<1>6. QED
  BY <1>4, <1>5

\* Recovery draws a priority, a restart of the leader ends the promise.
LEMMA StepHighest == ASSUME IInv, History, HighestOnce, [Next]_vars PROVE HighestOnce'
<1>1. CASE UNCHANGED <<requests, restarts, reserved>>
  BY <1>1, QuietHighest
<1>2. ASSUME NEW w \in Worker, RunStep(w) PROVE HighestOnce'
  <2>1. PICK S \in AnswerSets(w) : \/ CatchUp(w, S) \/ Conflict(w, S)
                                   \/ Phase0(w, S) \/ Phase1(w, S)
                                   \/ Phase2(w, S) \/ Phase3(w, S)
                                   \/ DecideFast(w, S) \/ DecideSlow(w, S)
    BY <1>2 DEF RunStep
  <2>2. run[w].active
    BY <1>2 DEF RunStep
  <2>3. CASE Conflict(w, S) \/ DecideFast(w, S) \/ DecideSlow(w, S)
    BY <1>1, <2>3 DEF Conflict, DecideFast, DecideSlow, Decide
  <2>4. QED
    BY <2>1, <2>2, <2>3, TurnHighest
<1>3. ASSUME NEW n \in NodeID, ProposeStep(n) PROVE HighestOnce'
  BY <1>3, ProposeHighest DEF ProposeStep
<1>4. ASSUME NEW n \in NodeID, Recover(n) PROVE HighestOnce'
  <2>1. PICK p \in RandomPriority :
          SendRecord(<<n, "recover">>, run[<<n, "recover">>].round + 1, 4,
                     [priority |-> p, proposerID |-> n, hash |-> RecoveryValue(n)])
    BY <1>4 DEF Recover, FirstPriorities
  <2>2. p # High
    BY RegisterAssumption
  <2>3. \A m \in requests' : m.step = 4 /\ m.proposal.priority = High => m \in requests
    BY <2>1, <2>2 DEF SendRecord
  <2>4. QED
    BY <1>4, <2>3, QuietHighest DEF Recover
<1>5. ASSUME NEW n \in NodeID, Restart(n) PROVE HighestOnce'
  <2>1. /\ restarts \in [NodeID -> Nat] /\ restarts' = [restarts EXCEPT ![n] = @ + 1]
        /\ reserved' = reserved \ {n} /\ requests' = requests
    BY <1>5 DEF IInv, TypeOK, Restart
  <2>2. CASE n = Leader
    <3>1. restarts'[Leader] # 0
      BY <2>1, <2>2
    <3>2. QED
      BY <3>1 DEF HighestOnce
  <2>3. CASE n # Leader
    BY <2>1, <2>3, QuePaxaAssumption DEF HighestOnce
  <2>4. QED
    BY <2>2, <2>3
<1>6. ASSUME NEW n \in NodeID, RecordStep(n) \/ LearnStep(n) PROVE HighestOnce'
  BY <1>1, <1>6 DEF RecordStep, RecordDecided, RecordISR, LearnStep, Learn
<1>7. QED
  BY <1>1, <1>2, <1>3, <1>4, <1>5, <1>6 DEF Next, EndRun, vars

LEMMA HighestInvariant == Spec => [](IInv /\ History /\ HighestOnce)
<1>1. Init => HighestOnce
  BY DEF Init, HighestOnce
<1>2. IInv /\ History /\ HighestOnce /\ [Next]_vars => HighestOnce'
  BY StepHighest
<1>3. QED
  BY <1>1, <1>2, HistoryInvariant, PTL DEF Spec

\* Until the leader restarts, all recorders that hold a highest-priority proposal
\* in the first step hold the same one: retries of its own slot, and recovery,
\* draw a priority.
THEOREM HighestUnique == Spec => [](restarts[Leader] = 0 => UniqueHighest)
<1>1. ASSUME History, HighestOnce, restarts[Leader] = 0 PROVE UniqueHighest
  <2>1. ASSUME NEW a \in summaries, a.source = "isr", a.step = 4, a.first.priority = High
        PROVE  \E m \in requests : /\ m.step = 4 /\ m.proposal.priority = High
                                   /\ m.proposal = a.first
    BY <1>1, <2>1 DEF History, ShownSent, Sent
  <2>2. QED
    BY <1>1, <2>1 DEF HighestOnce, UniqueHighest
<1>2. QED
  BY <1>1, HighestInvariant, PTL

\* Until the leader restarts, no two runs of the slot decide differently, however
\* many other nodes restart, retry, catch up and compete.
THEOREM AgreementHolds == Spec => [](restarts[Leader] = 0 => Agreement)
<1>1. SafeAgreement /\ (restarts[Leader] = 0 => UniqueHighest)
        => (restarts[Leader] = 0 => Agreement)
  BY DEF SafeAgreement
<1>2. QED
  BY <1>1, AgreementUnlessTwoHighest, HighestUnique, PTL

=============================================================================
