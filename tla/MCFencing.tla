----------------------------- MODULE MCFencing ------------------------------
(***************************************************************************)
(* Fencing with constants for TLC: two nodes, the first of which can get a *)
(* second Pod, and two launches in any of the Pods: a restarted container, *)
(* a replaced Pod or two nodes.                                            *)
(***************************************************************************)
EXTENDS Fencing, TLC

CONSTANTS n1, n2, p1, p2, p3, voter, generation

MCNodeOfPod == (p1 :> n1) @@ (p2 :> n1) @@ (p3 :> n2)
MCOpID == (voter :> 1) @@ (generation :> 2)
MCTargets == (voter :> {n1}) @@ (generation :> {})

\* The launches and the logs are interchangeable.
Symmetry == Permutations(Run) \cup Permutations(WAL)

=============================================================================
