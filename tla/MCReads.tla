------------------------------ MODULE MCReads ------------------------------
(***************************************************************************)
(* What a read shows: the log up to the index a quorum reports (ReadIndex), *)
(* the state made of it (Materializer), and how a voter gets both back      *)
(* (NodeCatchUp), with constants for TLC.  They are independent: `part'     *)
(* says which of them a behaviour is about, and the others rest in their    *)
(* initial states.                                                          *)
(***************************************************************************)
EXTENDS ReadIndex, Materializer, NodeCatchUp, TLC

VARIABLE part

CONSTANTS a, b, c

Item(id) == [id |-> id, body |-> 1, size |-> 1, fails |-> FALSE]
Large(id) == [Item(id) EXCEPT !.size = 2]
Failing(id) == [Item(id) EXCEPT !.fails = TRUE]
Entry(kind, items) == [kind |-> kind, items |-> items]

\* Requests repeated inside and after their window, in one page and in two;
\* results that do not fit; graph slots of two commands.
ThreeHistories ==
  { << Entry("sql", <<Item("a"), Large("b")>>), Entry("graph", <<Item("g")>>),
       Entry("sql", <<Item("a")>>), Entry("graph", <<Item("g"), Item("h")>>) >>,
    << Entry("graph", <<Failing("g"), Item("h")>>), Entry("graph", <<Item("h")>>),
       Entry("kv", <<Item("a")>>), Entry("graph", <<Item("h")>>),
       Entry("kv", <<Item("a")>>) >>,
    << Entry("notify", <<Item("a")>>), Entry("sql", <<Failing("a"), Item("a")>>),
       Entry("control", <<>>), Entry("notify", <<Item("a")>>),
       Entry("sql", <<Item("a")>>) >> }

\* Two checkpoints, each sealed in the slot after the one it covers.
TwoSeals == 2 :> 1 @@ 3 :> 2

MCInit ==
  /\ part \in {"log", "state", "catchup"} /\ Init /\ MatInit /\ CatchUpInit
  /\ part # "state" => decisions = CHOOSE h \in Histories : TRUE

LogPart == part = "log" /\ Next /\ UNCHANGED <<part, matVars, catchUpVars>>
StatePart == part = "state" /\ MatNext /\ UNCHANGED <<part, vars, catchUpVars>>
CatchUpPart == part = "catchup" /\ CatchUpNext /\ UNCHANGED <<part, vars, matVars>>
MCNext == LogPart \/ StatePart \/ CatchUpPart

MCSpec == MCInit /\ [][MCNext]_<<part, vars, matVars, catchUpVars>>

(***************************************************************************)
(* What the future of a state and the properties depend on: the variables  *)
(* of its part, but for                                                    *)
(*  - the slots that reads have shown, which only ReadsMonotone is about;   *)
(*  - n.ready, which no step of NodeCatchUp reads, and CURRENT as a start   *)
(*    has loaded it, once it is compared.                                  *)
(***************************************************************************)
View ==
  CASE part = "log" ->
         << part, started, sent, nodeVars, ready, write, completed, restarts,
            [n \in NodeID |-> [read[n] EXCEPT !.shown = 0]] >>
    [] part = "state" -> << part, matVars >>
    [] part = "catchup" ->
         << part, archiveVars, pin, logVars, matTip, phase, restore, job, nodeStops,
            IF phase \in {"loaded", "pinned", "based"} THEN seen ELSE 0 >>

=============================================================================
