---------------------------- MODULE MCWritePath -----------------------------
(* WritePath with constants for TLC. *)
EXTENDS WritePath, TLC

CONSTANTS c1, c2, c3

Request(id, body) == [id |-> id, body |-> body]

\* The second call repeats the first, contradicts it or has nothing to do with it.
Repeated == (c1 :> Request("a", "x")) @@ (c2 :> Request("a", "x")) @@ (c3 :> Request("b", "z"))
Contradicted == [Repeated EXCEPT ![c2] = Request("a", "y")]
Unrelated == [Repeated EXCEPT ![c2] = Request("b", "y")]

Small == [c \in Call |-> 1]

Setup(n, local, calls, direct, item, size) ==
    [maxDisturbances |-> n, local |-> local, calls |-> calls, direct |-> direct,
     item |-> item, size |-> size]

\* Two calls of the same kind, in local mode or not; and three of which two do
\* not fit into one batch.
MCSetups ==
    {Setup(2, local, {c1, c2}, direct, item, Small) :
         local \in BOOLEAN, direct \in {{}, {c1, c2}}, item \in {Repeated, Contradicted}}
    \cup {Setup(1, FALSE, Call, {}, Unrelated, [Small EXCEPT ![c2] = 2])}

NotifySetups == {Setup(1, FALSE, {c1}, {c1}, Repeated, Small)}

=============================================================================
