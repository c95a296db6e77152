------------------------------ MODULE Register ------------------------------
(***************************************************************************)
(* Proposals and the interval summary register of pkg/quepaxa/protocol.go. *)
(*                                                                         *)
(* A proposal is ordered by its priority, then its proposer, then the hash *)
(* of its value.  Priorities are 32 random bytes, node names and hashes    *)
(* byte strings; only their order matters, so all three are integers here. *)
(* A value is identified with its hash.                                    *)
(***************************************************************************)
EXTENDS Integers

CONSTANTS
    NodeID,          \* the voters, as integers in the order of their names
    Hash,            \* the values that may be proposed, as hashes
    RandomPriority,  \* the priorities randomPriority() may draw
    High             \* highestPriority, reserved for the leader's fast path

ASSUME RegisterAssumption ==
    /\ NodeID \subseteq Nat
    /\ Hash \subseteq Nat
    /\ RandomPriority \subseteq Nat
    /\ High \in Nat
    /\ \A p \in RandomPriority : p < High

Priority == RandomPriority \cup {High}

Proposal == [priority : Priority, proposerID : NodeID, hash : Hash]

\* A nil *Proposal: smaller than every proposal in compareProposal.
NilProposal == [priority |-> -1, proposerID |-> 0, hash |-> 0]

OptProposal == Proposal \cup {NilProposal}

\* compareProposal(p, q) <= 0.
Leq(p, q) ==
    \/ p.priority < q.priority
    \/ p.priority = q.priority /\ p.proposerID < q.proposerID
    \/ p.priority = q.priority /\ p.proposerID = q.proposerID /\ p.hash <= q.hash

\* maxProposal of two proposals; the first one wins a tie.
Larger(p, q) == IF Leq(q, p) THEN p ELSE q

\* maxProposal over a set, as maxFirst and maxPrior compute it.
IsLargest(p, S) == p \in S /\ \A q \in S : Leq(q, p)

-----------------------------------------------------------------------------
ISR == [step : Nat, first : OptProposal, agg : OptProposal, prior : OptProposal]

\* The register of a slot nothing has been recorded for.
EmptyISR == [step |-> 0, first |-> NilProposal, agg |-> NilProposal, prior |-> NilProposal]

\* A request of the register's step joins the aggregate, one of a later step
\* starts a new interval, a stale one changes nothing.  The closed interval's
\* aggregate is only kept when no step was skipped.
ISRRecord(state, step, p) ==
    IF step = state.step THEN [state EXCEPT !.agg = Larger(state.agg, p)]
    ELSE IF step > state.step
         THEN [step |-> step, first |-> p, agg |-> p,
               prior |-> IF step = state.step + 1 THEN state.agg ELSE NilProposal]
         ELSE state

=============================================================================
