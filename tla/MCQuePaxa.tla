----------------------------- MODULE MCQuePaxa ------------------------------
(* QuePaxa with constants for TLC. *)
EXTENDS QuePaxa, TLC

\* Every node falls back to the read barrier of hash 1.
MCBarrier == [n \in NodeID |-> 1]

NoRestarts == [n \in NodeID |-> 0]
LeaderRestarts == [NoRestarts EXCEPT ![Leader] = 1]

LeaderOffers(hashes) == [n \in NodeID |-> IF n = Leader THEN hashes ELSE {}]
OneOffer == LeaderOffers({2})
TwoOffers == LeaderOffers({2, 3})

Once(workers) == [w \in Worker |-> IF w \in workers THEN 1 ELSE 0]

\* The leader and node 2 contend for the slot; or runs of the leader are cut
\* short and the slot is handed to the next client, whatever it wants.
ContentionOffers == [TwoOffers EXCEPT ![2] = {1}]
ContentionRuns == [Once({<<2, "propose">>}) EXCEPT ![<<Leader, "propose">>] = 3]
Contention ==
    /\ cuts = 0 /\ run[<<Leader, "propose">>].round <= 1
    /\ \A m \in requests : m.proposal.hash # 3
Retries ==
    /\ run[<<2, "propose">>].round = 0
    /\ \A w \in Worker : run[w].step <= 4
ContentionOrRetries == Contention \/ Retries

\* The leader proposes and re-drives the slot after its restart; node 3 answers
\* as a recorder and learns nothing meanwhile.
LateLearner == ~ Decided(3)
RecoveryRuns == Once({<<Leader, "propose">>, <<Leader, "recover">>})

\* Five nodes: node 1 contends with a leader that restarts.  Only the answers
\* that matter are followed, to keep the search short: the leader's first value
\* reaches recorder 3 alone, its second one 2, 4 and 5, node 1's 1, 3 and 4.
EquivocationOffers == [TwoOffers EXCEPT ![1] = {1}]
EquivocationRuns == [Once({<<1, "propose">>}) EXCEPT ![<<Leader, "propose">>] = 2]
EquivocationAnswers ==
    \A a \in summaries :
        a.recorder \in CASE a.request.from[1] = 1 -> {1, 3, 4}
                         [] a.request.round = 1 -> {3}
                         [] OTHER -> {2, 4, 5}

(***************************************************************************)
(* What the future of a state and the invariants depend on.  Left out:     *)
(*  - summaries no run waits for, but for the highest-priority proposals   *)
(*    they report: a recorder that answers a request again changes         *)
(*    nothing, its register contains the request or is past it;            *)
(*  - requests of earlier turns that no register would record any more: an *)
(*    answer to one may still log a decision, but a restart may find the   *)
(*    decision logged in any case;                                         *)
(*  - what a certificate holds beyond its decision, its validity and the   *)
(*    recorders it names;                                                  *)
(*  - where an ended run stopped;                                          *)
(*  - reservations of other nodes, which never use the fast path;          *)
(*  - what only a restart reads, at nodes that will not restart again.      *)
(***************************************************************************)
Recorders(d) == {a.recorder : a \in d.summaries}

View ==
    LET restartable == {n \in NodeID : restarts[n] < MaxRestarts[n]}
        open == {m \in requests :
                    \/ run[m.from].active /\ m = CurrentRequest(m.from)
                    \/ \E r \in NodeID : ISRRecord(isr[r], m.step, m.proposal) # isr[r]}
    IN <<isr, open, Leader \in reserved, recovering, cuts, restarts,
         [w \in Worker |-> IF run[w].active THEN run[w]
                           ELSE [IdleRun EXCEPT !.round = run[w].round]],
         {a \in summaries : /\ run[a.request.from].active
                            /\ a.request = CurrentRequest(a.request.from)},
         {<<d.step, d.proposal, ValidDecision(d), Recorders(d) \cap restartable>> :
              d \in decisions},
         [n \in NodeID |-> <<decided[n].step, decided[n].proposal>>],
         {a.first : a \in {b \in summaries : /\ b.source = "isr"
                                             /\ b.step = 4 /\ Highest(b)}},
         logged \cap restartable>>

=============================================================================
