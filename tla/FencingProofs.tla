---------------------------- MODULE FencingProofs ---------------------------
(***************************************************************************)
(* A fence proof is true and a node has one writer, for every set of       *)
(* nodes, Pods, launches and fence requests.                               *)
(*                                                                         *)
(* The argument for the fence: the ledger says that a run exited only      *)
(* after its namespace was empty for good, and that it drained only after  *)
(* its last mutation had a known outcome.  A run that was never bound has  *)
(* not written.  When the runs of a scope are all like that and the scope  *)
(* is closed, no other run can register.  The argument for the writer: a   *)
(* run ends cleanly only in a closed scope, so the runs a node ever        *)
(* registers are all in one Pod, where containers follow each other.       *)
(***************************************************************************)
EXTENDS Fencing, TLAPS

Closed(n) == closedBy # None \/ closedNodes[n] # None

\* The supervisor has seen its namespace empty, or is gone with it.
Ended(r) == sup[r] \in {"exiting", "leaving", "done", "dead"}

\* The ledger knows nothing of a run it has not registered, and no child runs.
UnregisteredIdle(r) ==
    r \notin registered =>
        /\ sup[r] \in {"new", "registering", "dead"}
        /\ wal[r] = None /\ stop[r] = None
        /\ r \notin exited /\ r \notin drained

\* Which processes there are in which phase of the supervisor.
ProcessesInPhase(r) ==
    /\ "child" \in procs[r] => sup[r] \in {"up", "stopping", "killing"}
    /\ procs[r] # {} => sup[r] \in {"up", "stopping", "killing", "clearing", "unbound"}
    /\ engine[r] \notin {"off", "gone"} => "child" \in procs[r]

\* An engine runs on the log its run is bound to, and only such a run writes.
WritesAreBound(r) ==
    /\ <<"bind", r>> \in net => log[r] # None
    /\ bound[r] # None => wal[r] = bound[r]
    /\ engine[r] \in {"open", "draining", "drained"} => bound[r] # None
    /\ store[r] # "quiet" => wal[r] # None

\* A drain receipt, wherever it is by now, is of an engine that has closed with
\* all outcomes known.
DrainsAreClean(r) ==
    /\ engine[r] = "drained" => store[r] = "quiet"
    /\ sup[r] = "stopping" => r \in acked
    /\ r \in acked \cup drained \/ <<"drain", r>> \in net
          => store[r] = "quiet" /\ engine[r] \in {"drained", "gone"}

\* A report of an exit, wherever it is by now, comes after the exit.
ExitsAreTrue(r) ==
    /\ r \in exited \/ <<"exit", r>> \in net \/ <<"never", r>> \in net => Ended(r)
    /\ r \in exited => stop[r] # None

StoppedIsClosed(r) == stop[r] # None => Closed(NodeOf(r))

RunInv ==
    \A r \in Run : /\ UnregisteredIdle(r) /\ ProcessesInPhase(r) /\ WritesAreBound(r)
                   /\ DrainsAreClean(r) /\ ExitsAreTrue(r) /\ StoppedIsClosed(r)

\* The registered runs of a node are in one Pod.
OnePod(r, s) ==
    r \in registered /\ s \in registered /\ NodeOf(r) = NodeOf(s) => podOf[r] = podOf[s]

\* The containers of a Pod follow each other.
OneContainer(r, s) == podOf[r] = podOf[s] /\ Live(r) /\ Live(s) => r = s

\* The runs of a node are bound to one log.
OneLog(r, s) ==
    NodeOf(r) = NodeOf(s) /\ wal[r] # None /\ wal[s] # None => wal[r] = wal[s]

PairInv == \A r, s \in Run : OnePod(r, s) /\ OneContainer(r, s) /\ OneLog(r, s)

\* A run that has ended with nothing left to happen.
Settled(r) == r \in exited /\ stop[r] # None /\ (wal[r] = None \/ r \in drained)

\* What a complete ledger shows of the scope of a request, and stays so.
Sealed(f) ==
    f \in proven \/ evidence[f] # {} =>
        /\ \A n \in Scope(f) : Closed(n)
        /\ \A r \in registered : NodeOf(r) \in Scope(f) => Settled(r)

FenceInv == \A f \in Fence : Sealed(f)

IInv == TypeOK /\ RunInv /\ PairInv /\ FenceInv

-----------------------------------------------------------------------------
\* Every step keeps the types.
LEMMA TypeStep ==
    TypeOK /\ [Next]_vars => TypeOK'
<1> SUFFICES ASSUME TypeOK, [Next]_vars
             PROVE  TypeOK'
  OBVIOUS
<1>1. ASSUME NEW r \in Run, Launch(r)
      PROVE  TypeOK'
  BY <1>1 DEF TypeOK, Launch, Kind, Phase, ledger, closure, child, control
<1>2. ASSUME NEW r \in Run, RegisterAnswered(r)
      PROVE  TypeOK'
  BY <1>2 DEF TypeOK, RegisterAnswered, Applied, Register, Phase, child, control,
      closure
<1>3. ASSUME NEW r \in Run, FinishDrain(r)
      PROVE  TypeOK'
  BY <1>3 DEF TypeOK, FinishDrain, Phase, ledger, closure, child, control
<1>4. ASSUME NEW r \in Run, NeverBoundStop(r)
      PROVE  TypeOK'
  BY <1>4 DEF TypeOK, NeverBoundStop, Phase, child, ledger, closure, control
<1>5. ASSUME NEW r \in Run, Send(r)
      PROVE  TypeOK'
  BY <1>5 DEF TypeOK, Send, Kind, ledger, closure, child, supervisor, control
<1>6. ASSUME NEW r \in Run, DrainAnswered(r)
      PROVE  TypeOK'
  BY <1>6 DEF TypeOK, DrainAnswered, Applied, RecordDrain, Phase, child, control,
      closure
<1>7. ASSUME NEW r \in Run, KillChild(r)
      PROVE  TypeOK'
  BY <1>7 DEF TypeOK, KillChild, Abandoned, Phase, child, ledger, closure, control
<1>8. ASSUME NEW r \in Run, TerminateNamespace(r)
      PROVE  TypeOK'
  BY <1>8 DEF TypeOK, TerminateNamespace, Phase, ledger, closure, control
<1>9. ASSUME NEW r \in Run, ExitAnswered(r)
      PROVE  TypeOK'
  BY <1>9 DEF TypeOK, ExitAnswered, Applied, RecordExit, Phase, child, control, closure
<1>10. ASSUME NEW r \in Run, NeverBoundAnswered(r)
      PROVE  TypeOK'
  BY <1>10 DEF TypeOK, NeverBoundAnswered, Applied, RecordNeverBoundExit, Phase, child,
      control, closure
<1>11. ASSUME NEW r \in Run, SupervisorDies(r)
      PROVE  TypeOK'
  BY <1>11 DEF TypeOK, SupervisorDies, Abandoned, Phase, ledger, closure, control
<1>12. ASSUME NEW r \in Run, ApplyLate(r)
      PROVE  TypeOK'
  BY <1>12 DEF TypeOK, ApplyLate, Applied, Register, Bind, RecordDrain, RecordExit,
      RecordNeverBoundExit, child, supervisor, control, closure
<1>13. ASSUME NEW r \in Run, Connect(r)
      PROVE  TypeOK'
  BY <1>13 DEF TypeOK, Connect, ledger, closure, supervisor, control
<1>14. ASSUME NEW r \in Run, BindAnswered(r)
      PROVE  TypeOK'
  BY <1>14 DEF TypeOK, BindAnswered, Applied, Bind, control, closure
<1>15. ASSUME NEW r \in Run, BindFails(r)
      PROVE  TypeOK'
  BY <1>15 DEF TypeOK, BindFails, ledger, closure, control
<1>16. ASSUME NEW r \in Run, EngineFails(r)
      PROVE  TypeOK'
  BY <1>16 DEF TypeOK, EngineFails, ledger, closure, supervisor, control
<1>17. ASSUME NEW r \in Run, BeginMutation(r)
      PROVE  TypeOK'
  BY <1>17 DEF TypeOK, BeginMutation, ledger, closure, supervisor, control
<1>18. ASSUME NEW r \in Run, EndMutation(r)
      PROVE  TypeOK'
  BY <1>18 DEF TypeOK, EndMutation, ledger, closure, supervisor, control
<1>19. ASSUME NEW r \in Run, WaitStop(r)
      PROVE  TypeOK'
  BY <1>19 DEF TypeOK, WaitStop, ledger, closure, control
<1>20. ASSUME NEW r \in Run, DrainMutations(r)
      PROVE  TypeOK'
  BY <1>20 DEF TypeOK, DrainMutations, ledger, closure, supervisor, control
<1>21. ASSUME NEW r \in Run, AcknowledgeDrain(r)
      PROVE  TypeOK'
  BY <1>21 DEF TypeOK, AcknowledgeDrain, ledger, closure, child, control
<1>22. ASSUME NEW r \in Run, Fork(r)
      PROVE  TypeOK'
  BY <1>22 DEF TypeOK, Fork, ledger, closure, supervisor, control
<1>23. ASSUME NEW r \in Run, ChildExits(r)
      PROVE  TypeOK'
  BY <1>23 DEF TypeOK, ChildExits, Abandoned, child, ledger, closure, supervisor,
      control
<1>24. ASSUME NEW r \in Run, NEW w \in WAL, BindWAL(r, w)
      PROVE  TypeOK'
  BY <1>24 DEF TypeOK, BindWAL, Kind, ledger, closure, control
<1>25. ASSUME NEW f \in Fence, Reconcile(f)
      PROVE  TypeOK'
  <2>1. ASSUME NEW nodes, StopRuns(f, nodes)
        PROVE  stop' \in [Run -> StopRequest \cup {None}]
    BY <2>1 DEF TypeOK, StopRuns, StopRequest
  <2>2. stop' \in [Run -> StopRequest \cup {None}]
    BY <1>25, <2>1 DEF TypeOK, Reconcile, Close, CloseNodes, ledger
  <2>3. evidence' \in [Fence -> SUBSET Pod]
    <3>1. RunsIn(f)' \subseteq Run
      BY <1>25 DEF TypeOK, Reconcile, Close, CloseNodes, ledger, RunsIn
    <3>2. podOf \in [Run -> Pod] /\ podOf' = podOf
      BY <1>25 DEF TypeOK, Reconcile
    <3>3. {podOf[r] : r \in RunsIn(f)'} \subseteq Pod
      BY <3>1, <3>2
    <3>4. QED
      BY <1>25, <3>2, <3>3 DEF TypeOK, Reconcile
  <2>4. closedBy' \in Fence \cup {None} /\ closedNodes' \in [Node -> Fence \cup {None}]
    BY <1>25 DEF TypeOK, Reconcile, Close, CloseNodes, closure
  <2>5. QED
    BY <1>25, <2>2, <2>3, <2>4
    DEF TypeOK, Reconcile, Close, CloseNodes, ledger, child, supervisor
<1>26. ASSUME NEW f \in Fence, Prove(f)
      PROVE  TypeOK'
  BY <1>26 DEF TypeOK, Prove, ledger, closure, child, supervisor
<1>27. ASSUME NEW p \in Pod, CreatePod(p)
      PROVE  TypeOK'
  BY <1>27 DEF TypeOK, CreatePod, ledger, closure, child, supervisor
<1>28. ASSUME NEW p \in Pod, DeletePod(p)
      PROVE  TypeOK'
  BY <1>28 DEF TypeOK, DeletePod, ledger, closure, child, supervisor
<1>29. CASE UNCHANGED vars
  BY <1>29 DEF TypeOK, vars, ledger, closure, child, supervisor, control
<1>30. QED
  BY <1>1, <1>2, <1>3, <1>4, <1>5, <1>6, <1>7, <1>8, <1>9, <1>10, <1>11, <1>12, <1>13, <1>14,
      <1>15, <1>16, <1>17, <1>18, <1>19, <1>20, <1>21, <1>22, <1>23, <1>24, <1>25, <1>26,
      <1>27, <1>28, <1>29
  DEF Next

-----------------------------------------------------------------------------
\* Ledger transitions but the first require the registration; so do the children.
LEMMA UnregisteredIdleStep ==
    ASSUME NEW q \in Run, TypeOK, RunInv, [Next]_vars
    PROVE  UnregisteredIdle(q)'
<1>0. UnregisteredIdle(q)
  BY DEF RunInv
<1>1. ASSUME NEW r \in Run, Launch(r)
      PROVE  UnregisteredIdle(q)'
  BY <1>0, <1>1 DEF TypeOK, UnregisteredIdle, Launch, ledger
<1>2. ASSUME NEW r \in Run, RegisterAnswered(r)
      PROVE  UnregisteredIdle(q)'
  BY <1>0, <1>2 DEF TypeOK, UnregisteredIdle, RegisterAnswered, Applied, Register
<1>3. ASSUME NEW r \in Run, FinishDrain(r)
      PROVE  UnregisteredIdle(q)'
  BY <1>0, <1>3 DEF TypeOK, UnregisteredIdle, FinishDrain, ledger
<1>4. ASSUME NEW r \in Run, NeverBoundStop(r)
      PROVE  UnregisteredIdle(q)'
  BY <1>0, <1>4 DEF TypeOK, UnregisteredIdle, NeverBoundStop, ledger
<1>5. ASSUME NEW r \in Run, DrainAnswered(r)
      PROVE  UnregisteredIdle(q)'
  BY <1>0, <1>5 DEF TypeOK, UnregisteredIdle, DrainAnswered, Applied, RecordDrain
<1>6. ASSUME NEW r \in Run, KillChild(r)
      PROVE  UnregisteredIdle(q)'
  BY <1>0, <1>6 DEF TypeOK, UnregisteredIdle, KillChild, Abandoned, ledger
<1>7. ASSUME NEW r \in Run, TerminateNamespace(r)
      PROVE  UnregisteredIdle(q)'
  BY <1>0, <1>7 DEF TypeOK, UnregisteredIdle, TerminateNamespace, ledger
<1>8. ASSUME NEW r \in Run, ExitAnswered(r)
      PROVE  UnregisteredIdle(q)'
  BY <1>0, <1>8 DEF TypeOK, UnregisteredIdle, ExitAnswered, Applied, RecordExit
<1>9. ASSUME NEW r \in Run, NeverBoundAnswered(r)
      PROVE  UnregisteredIdle(q)'
  BY <1>0, <1>9 DEF TypeOK, UnregisteredIdle, NeverBoundAnswered, Applied,
      RecordNeverBoundExit
<1>10. ASSUME NEW r \in Run, SupervisorDies(r)
      PROVE  UnregisteredIdle(q)'
  BY <1>0, <1>10 DEF TypeOK, UnregisteredIdle, SupervisorDies, Abandoned, ledger
<1>11. ASSUME NEW r \in Run, ApplyLate(r)
      PROVE  UnregisteredIdle(q)'
  BY <1>0, <1>11 DEF TypeOK, UnregisteredIdle, ApplyLate, Applied, Register, Bind,
      RecordDrain, RecordExit, RecordNeverBoundExit, supervisor
<1>12. ASSUME NEW r \in Run, BindAnswered(r)
      PROVE  UnregisteredIdle(q)'
  BY <1>0, <1>12 DEF TypeOK, UnregisteredIdle, BindAnswered, Applied, Bind
<1>13. ASSUME NEW f \in Fence, Reconcile(f)
      PROVE  UnregisteredIdle(q)'
  BY <1>0, <1>13 DEF TypeOK, UnregisteredIdle, Reconcile, Close, CloseNodes, StopRuns,
      supervisor, ledger
<1>14. CASE UNCHANGED <<registered, sup, wal, stop, exited, drained>>
  BY <1>0, <1>14 DEF UnregisteredIdle
<1>15. QED
  BY <1>1, <1>2, <1>3, <1>4, <1>5, <1>6, <1>7, <1>8, <1>9, <1>10, <1>11, <1>12, <1>13,
      <1>14
  DEF Next, vars, ledger, supervisor, Send, Connect, BindFails, EngineFails,
      BeginMutation, EndMutation, WaitStop, DrainMutations, AcknowledgeDrain, Fork,
      ChildExits, BindWAL, Prove, CreatePod, DeletePod

\* A child is ended before its supervisor goes on to the namespace.
LEMMA ProcessesInPhaseStep ==
    ASSUME NEW q \in Run, TypeOK, RunInv, [Next]_vars
    PROVE  ProcessesInPhase(q)'
<1>0. ProcessesInPhase(q)
  BY DEF RunInv
<1>1. ASSUME NEW r \in Run, Launch(r)
      PROVE  ProcessesInPhase(q)'
  BY <1>0, <1>1 DEF TypeOK, ProcessesInPhase, Launch, child
<1>2. ASSUME NEW r \in Run, RegisterAnswered(r)
      PROVE  ProcessesInPhase(q)'
  BY <1>0, <1>2 DEF TypeOK, ProcessesInPhase, RegisterAnswered, Applied, Register, child
<1>3. ASSUME NEW r \in Run, FinishDrain(r)
      PROVE  ProcessesInPhase(q)'
  BY <1>0, <1>3 DEF TypeOK, ProcessesInPhase, FinishDrain, child
<1>4. ASSUME NEW r \in Run, NeverBoundStop(r)
      PROVE  ProcessesInPhase(q)'
  BY <1>0, <1>4 DEF TypeOK, ProcessesInPhase, NeverBoundStop, child
<1>5. ASSUME NEW r \in Run, DrainAnswered(r)
      PROVE  ProcessesInPhase(q)'
  BY <1>0, <1>5 DEF TypeOK, ProcessesInPhase, DrainAnswered, Applied, RecordDrain, child
<1>6. ASSUME NEW r \in Run, KillChild(r)
      PROVE  ProcessesInPhase(q)'
  BY <1>0, <1>6 DEF TypeOK, ProcessesInPhase, KillChild, Abandoned, child
<1>7. ASSUME NEW r \in Run, TerminateNamespace(r)
      PROVE  ProcessesInPhase(q)'
  BY <1>0, <1>7 DEF TypeOK, ProcessesInPhase, TerminateNamespace
<1>8. ASSUME NEW r \in Run, ExitAnswered(r)
      PROVE  ProcessesInPhase(q)'
  BY <1>0, <1>8 DEF TypeOK, ProcessesInPhase, ExitAnswered, Applied, RecordExit, child
<1>9. ASSUME NEW r \in Run, NeverBoundAnswered(r)
      PROVE  ProcessesInPhase(q)'
  BY <1>0, <1>9 DEF TypeOK, ProcessesInPhase, NeverBoundAnswered, Applied,
      RecordNeverBoundExit, child
<1>10. ASSUME NEW r \in Run, SupervisorDies(r)
      PROVE  ProcessesInPhase(q)'
  BY <1>0, <1>10 DEF TypeOK, ProcessesInPhase, SupervisorDies, Abandoned
<1>11. ASSUME NEW r \in Run, Connect(r)
      PROVE  ProcessesInPhase(q)'
  BY <1>0, <1>11 DEF TypeOK, ProcessesInPhase, Alive, Connect, supervisor
<1>12. ASSUME NEW r \in Run, BindAnswered(r)
      PROVE  ProcessesInPhase(q)'
  BY <1>0, <1>12 DEF TypeOK, ProcessesInPhase, BindAnswered, Applied, Bind
<1>13. ASSUME NEW r \in Run, BindFails(r)
      PROVE  ProcessesInPhase(q)'
  BY <1>0, <1>13 DEF TypeOK, ProcessesInPhase, BindFails
<1>14. ASSUME NEW r \in Run, EngineFails(r)
      PROVE  ProcessesInPhase(q)'
  BY <1>0, <1>14 DEF TypeOK, ProcessesInPhase, Alive, EngineFails, supervisor
<1>15. ASSUME NEW r \in Run, WaitStop(r)
      PROVE  ProcessesInPhase(q)'
  BY <1>0, <1>15 DEF TypeOK, ProcessesInPhase, Alive, WaitStop
<1>16. ASSUME NEW r \in Run, DrainMutations(r)
      PROVE  ProcessesInPhase(q)'
  BY <1>0, <1>16 DEF TypeOK, ProcessesInPhase, Alive, DrainMutations, supervisor
<1>17. ASSUME NEW r \in Run, Fork(r)
      PROVE  ProcessesInPhase(q)'
  BY <1>0, <1>17 DEF TypeOK, ProcessesInPhase, Alive, Fork, supervisor
<1>18. ASSUME NEW r \in Run, ChildExits(r)
      PROVE  ProcessesInPhase(q)'
  BY <1>0, <1>18 DEF TypeOK, ProcessesInPhase, Alive, ChildExits, Abandoned, child,
      supervisor
<1>19. ASSUME NEW r \in Run, NEW w \in WAL, BindWAL(r, w)
      PROVE  ProcessesInPhase(q)'
  BY <1>0, <1>19 DEF TypeOK, ProcessesInPhase, Alive, BindWAL
<1>20. CASE UNCHANGED <<procs, sup, engine>>
  BY <1>0, <1>20 DEF ProcessesInPhase
<1>21. ASSUME NEW r \in Run, ApplyLate(r)
      PROVE  UNCHANGED <<procs, sup, engine>>
  BY <1>21 DEF ApplyLate, Register, Bind, RecordDrain, RecordExit, RecordNeverBoundExit,
      child, supervisor
<1>22. QED
  BY <1>1, <1>2, <1>3, <1>4, <1>5, <1>6, <1>7, <1>8, <1>9, <1>10, <1>11, <1>12, <1>13,
      <1>14, <1>15, <1>16, <1>17, <1>18, <1>19, <1>20, <1>21
  DEF Next, vars, child, supervisor, Send, BeginMutation, EndMutation, AcknowledgeDrain,
      Reconcile, Close, CloseNodes, StopRuns, Prove, CreatePod, DeletePod

\* A bind that is answered has bound the run; a late one changes no binding.
LEMMA WritesAreBoundStep ==
    ASSUME NEW q \in Run, TypeOK, RunInv, [Next]_vars
    PROVE  WritesAreBound(q)'
<1>0. WritesAreBound(q)
  BY DEF RunInv
<1>1. ASSUME NEW r \in Run, Launch(r)
      PROVE  WritesAreBound(q)'
  BY <1>0, <1>1 DEF TypeOK, WritesAreBound, Launch, ledger, child
<1>2. ASSUME NEW r \in Run, RegisterAnswered(r)
      PROVE  WritesAreBound(q)'
  BY <1>0, <1>2 DEF TypeOK, WritesAreBound, RegisterAnswered, Applied, Register, child
<1>3. ASSUME NEW r \in Run, Send(r)
      PROVE  WritesAreBound(q)'
  BY <1>0, <1>3 DEF TypeOK, WritesAreBound, Send, ledger, child, supervisor
<1>4. ASSUME NEW r \in Run, DrainAnswered(r)
      PROVE  WritesAreBound(q)'
  BY <1>0, <1>4 DEF TypeOK, WritesAreBound, DrainAnswered, Applied, RecordDrain, child
<1>5. ASSUME NEW r \in Run, KillChild(r)
      PROVE  WritesAreBound(q)'
  BY <1>0, <1>5 DEF TypeOK, WritesAreBound, KillChild, Abandoned, child, ledger
<1>6. ASSUME NEW r \in Run, ExitAnswered(r)
      PROVE  WritesAreBound(q)'
  BY <1>0, <1>6 DEF TypeOK, WritesAreBound, ExitAnswered, Applied, RecordExit, child
<1>7. ASSUME NEW r \in Run, NeverBoundAnswered(r)
      PROVE  WritesAreBound(q)'
  BY <1>0, <1>7 DEF TypeOK, WritesAreBound, NeverBoundAnswered, Applied,
      RecordNeverBoundExit, child
<1>8. ASSUME NEW r \in Run, SupervisorDies(r)
      PROVE  WritesAreBound(q)'
  BY <1>0, <1>8 DEF TypeOK, WritesAreBound, SupervisorDies, Abandoned, ledger
<1>9. ASSUME NEW r \in Run, ApplyLate(r)
      PROVE  WritesAreBound(q)'
  BY <1>0, <1>9 DEF TypeOK, WritesAreBound, ApplyLate, Applied, Register, Bind,
      RecordDrain, RecordExit, RecordNeverBoundExit, child, supervisor
<1>10. ASSUME NEW r \in Run, Connect(r)
      PROVE  WritesAreBound(q)'
  BY <1>0, <1>10 DEF TypeOK, WritesAreBound, Connect, ledger, supervisor
<1>11. ASSUME NEW r \in Run, BindAnswered(r)
      PROVE  WritesAreBound(q)'
  BY <1>0, <1>11 DEF TypeOK, WritesAreBound, BindAnswered, Applied, Bind
<1>12. ASSUME NEW r \in Run, BindFails(r)
      PROVE  WritesAreBound(q)'
  BY <1>0, <1>12 DEF TypeOK, WritesAreBound, BindFails, ledger
<1>13. ASSUME NEW r \in Run, EngineFails(r)
      PROVE  WritesAreBound(q)'
  BY <1>0, <1>13 DEF TypeOK, WritesAreBound, EngineFails, ledger, supervisor
<1>14. ASSUME NEW r \in Run, BeginMutation(r)
      PROVE  WritesAreBound(q)'
  BY <1>0, <1>14 DEF TypeOK, WritesAreBound, BeginMutation, ledger, supervisor
<1>15. ASSUME NEW r \in Run, EndMutation(r)
      PROVE  WritesAreBound(q)'
  BY <1>0, <1>15 DEF TypeOK, WritesAreBound, EndMutation, ledger, supervisor
<1>16. ASSUME NEW r \in Run, WaitStop(r)
      PROVE  WritesAreBound(q)'
  BY <1>0, <1>16 DEF TypeOK, WritesAreBound, WaitStop, ledger
<1>17. ASSUME NEW r \in Run, DrainMutations(r)
      PROVE  WritesAreBound(q)'
  BY <1>0, <1>17 DEF TypeOK, WritesAreBound, DrainMutations, ledger, supervisor
<1>18. ASSUME NEW r \in Run, ChildExits(r)
      PROVE  WritesAreBound(q)'
  BY <1>0, <1>18 DEF TypeOK, WritesAreBound, ChildExits, Abandoned, child, ledger,
      supervisor
<1>19. ASSUME NEW r \in Run, NEW w \in WAL, BindWAL(r, w)
      PROVE  WritesAreBound(q)'
  BY <1>0, <1>19, FencingAssumption DEF TypeOK, WritesAreBound, BindWAL, ledger
<1>20. CASE UNCHANGED <<net, log, bound, wal, engine, store>>
  BY <1>0, <1>20 DEF WritesAreBound
<1>21. QED
  BY <1>1, <1>2, <1>3, <1>4, <1>5, <1>6, <1>7, <1>8, <1>9, <1>10, <1>11, <1>12, <1>13,
      <1>14, <1>15, <1>16, <1>17, <1>18, <1>19, <1>20
  DEF Next, vars, ledger, child, supervisor, FinishDrain, NeverBoundStop,
      TerminateNamespace, AcknowledgeDrain, Fork, Reconcile, Close, CloseNodes, StopRuns,
      Prove, CreatePod, DeletePod, Abandoned

\* An engine that has drained does not write again.
LEMMA DrainsAreCleanStep ==
    ASSUME NEW q \in Run, TypeOK, RunInv, [Next]_vars
    PROVE  DrainsAreClean(q)'
<1>0. DrainsAreClean(q)
  BY DEF RunInv
<1>1. ASSUME NEW r \in Run, Launch(r)
      PROVE  DrainsAreClean(q)'
  BY <1>0, <1>1 DEF TypeOK, DrainsAreClean, Launch, ledger, child
<1>2. ASSUME NEW r \in Run, RegisterAnswered(r)
      PROVE  DrainsAreClean(q)'
  BY <1>0, <1>2 DEF TypeOK, DrainsAreClean, RegisterAnswered, Applied, Register, child
<1>3. ASSUME NEW r \in Run, FinishDrain(r)
      PROVE  DrainsAreClean(q)'
  BY <1>0, <1>3 DEF TypeOK, DrainsAreClean, FinishDrain, ledger, child
<1>4. ASSUME NEW r \in Run, NeverBoundStop(r)
      PROVE  DrainsAreClean(q)'
  BY <1>0, <1>4 DEF TypeOK, DrainsAreClean, NeverBoundStop, child, ledger
<1>5. ASSUME NEW r \in Run, Send(r)
      PROVE  DrainsAreClean(q)'
  BY <1>0, <1>5 DEF TypeOK, DrainsAreClean, Send, ledger, child, supervisor
<1>6. ASSUME NEW r \in Run, DrainAnswered(r)
      PROVE  DrainsAreClean(q)'
  BY <1>0, <1>6 DEF TypeOK, DrainsAreClean, DrainAnswered, Applied, RecordDrain, child
<1>7. ASSUME NEW r \in Run, KillChild(r)
      PROVE  DrainsAreClean(q)'
  BY <1>0, <1>7 DEF TypeOK, DrainsAreClean, KillChild, Abandoned, child, ledger
<1>8. ASSUME NEW r \in Run, TerminateNamespace(r)
      PROVE  DrainsAreClean(q)'
  BY <1>0, <1>8 DEF TypeOK, DrainsAreClean, TerminateNamespace, ledger
<1>9. ASSUME NEW r \in Run, ExitAnswered(r)
      PROVE  DrainsAreClean(q)'
  BY <1>0, <1>9 DEF TypeOK, DrainsAreClean, ExitAnswered, Applied, RecordExit, child
<1>10. ASSUME NEW r \in Run, NeverBoundAnswered(r)
      PROVE  DrainsAreClean(q)'
  BY <1>0, <1>10 DEF TypeOK, DrainsAreClean, NeverBoundAnswered, Applied,
      RecordNeverBoundExit, child
<1>11. ASSUME NEW r \in Run, SupervisorDies(r)
      PROVE  DrainsAreClean(q)'
  BY <1>0, <1>11 DEF TypeOK, DrainsAreClean, SupervisorDies, Abandoned, ledger
<1>12. ASSUME NEW r \in Run, ApplyLate(r)
      PROVE  DrainsAreClean(q)'
  BY <1>0, <1>12 DEF TypeOK, DrainsAreClean, ApplyLate, Applied, Register, Bind,
      RecordDrain, RecordExit, RecordNeverBoundExit, child, supervisor
<1>13. ASSUME NEW r \in Run, Connect(r)
      PROVE  DrainsAreClean(q)'
  BY <1>0, <1>13 DEF TypeOK, DrainsAreClean, Connect, ledger, supervisor
<1>14. ASSUME NEW r \in Run, BindAnswered(r)
      PROVE  DrainsAreClean(q)'
  BY <1>0, <1>14 DEF TypeOK, DrainsAreClean, BindAnswered, Applied, Bind
<1>15. ASSUME NEW r \in Run, BindFails(r)
      PROVE  DrainsAreClean(q)'
  BY <1>0, <1>15 DEF TypeOK, DrainsAreClean, BindFails, ledger
<1>16. ASSUME NEW r \in Run, EngineFails(r)
      PROVE  DrainsAreClean(q)'
  BY <1>0, <1>16 DEF TypeOK, DrainsAreClean, EngineFails, ledger, supervisor
<1>17. ASSUME NEW r \in Run, BeginMutation(r)
      PROVE  DrainsAreClean(q)'
  BY <1>0, <1>17 DEF TypeOK, DrainsAreClean, BeginMutation, ledger, supervisor
<1>18. ASSUME NEW r \in Run, EndMutation(r)
      PROVE  DrainsAreClean(q)'
  BY <1>0, <1>18 DEF TypeOK, DrainsAreClean, EndMutation, ledger, supervisor
<1>19. ASSUME NEW r \in Run, WaitStop(r)
      PROVE  DrainsAreClean(q)'
  BY <1>0, <1>19 DEF TypeOK, DrainsAreClean, WaitStop, ledger
<1>20. ASSUME NEW r \in Run, DrainMutations(r)
      PROVE  DrainsAreClean(q)'
  BY <1>0, <1>20 DEF TypeOK, DrainsAreClean, DrainMutations, ledger, supervisor
<1>21. ASSUME NEW r \in Run, AcknowledgeDrain(r)
      PROVE  DrainsAreClean(q)'
  BY <1>0, <1>21 DEF TypeOK, DrainsAreClean, AcknowledgeDrain, ledger, child
<1>22. ASSUME NEW r \in Run, ChildExits(r)
      PROVE  DrainsAreClean(q)'
  BY <1>0, <1>22 DEF TypeOK, DrainsAreClean, ChildExits, Abandoned, child, ledger,
      supervisor
<1>23. ASSUME NEW r \in Run, NEW w \in WAL, BindWAL(r, w)
      PROVE  DrainsAreClean(q)'
  BY <1>0, <1>23 DEF TypeOK, DrainsAreClean, BindWAL, ledger
<1>24. CASE UNCHANGED <<engine, store, sup, acked, drained, net>>
  BY <1>0, <1>24 DEF DrainsAreClean
<1>25. QED
  BY <1>1, <1>2, <1>3, <1>4, <1>5, <1>6, <1>7, <1>8, <1>9, <1>10, <1>11, <1>12, <1>13,
      <1>14, <1>15, <1>16, <1>17, <1>18, <1>19, <1>20, <1>21, <1>22, <1>23, <1>24
  DEF Next, vars, ledger, child, supervisor, Fork, Reconcile, Close, CloseNodes,
      StopRuns, Prove, CreatePod, DeletePod, Abandoned

\* An exit is sent from an empty namespace, where nothing starts again.
LEMMA ExitsAreTrueStep ==
    ASSUME NEW q \in Run, TypeOK, RunInv, [Next]_vars
    PROVE  ExitsAreTrue(q)'
<1>0. ExitsAreTrue(q)
  BY DEF RunInv
<1>1. ASSUME NEW r \in Run, Launch(r)
      PROVE  ExitsAreTrue(q)'
  BY <1>0, <1>1 DEF TypeOK, ExitsAreTrue, Ended, Live, Launch, ledger
<1>2. ASSUME NEW r \in Run, RegisterAnswered(r)
      PROVE  ExitsAreTrue(q)'
  BY <1>0, <1>2 DEF TypeOK, ExitsAreTrue, Ended, RegisterAnswered, Applied, Register
<1>3. ASSUME NEW r \in Run, FinishDrain(r)
      PROVE  ExitsAreTrue(q)'
  BY <1>0, <1>3 DEF TypeOK, ExitsAreTrue, Ended, FinishDrain, ledger
<1>4. ASSUME NEW r \in Run, NeverBoundStop(r)
      PROVE  ExitsAreTrue(q)'
  BY <1>0, <1>4 DEF TypeOK, ExitsAreTrue, Ended, NeverBoundStop, ledger
<1>5. ASSUME NEW r \in Run, Send(r)
      PROVE  ExitsAreTrue(q)'
  BY <1>0, <1>5 DEF TypeOK, ExitsAreTrue, Ended, Send, ledger, supervisor
<1>6. ASSUME NEW r \in Run, DrainAnswered(r)
      PROVE  ExitsAreTrue(q)'
  BY <1>0, <1>6 DEF TypeOK, ExitsAreTrue, Ended, DrainAnswered, Applied, RecordDrain
<1>7. ASSUME NEW r \in Run, KillChild(r)
      PROVE  ExitsAreTrue(q)'
  BY <1>0, <1>7 DEF TypeOK, ExitsAreTrue, Ended, KillChild, Abandoned, ledger
<1>8. ASSUME NEW r \in Run, TerminateNamespace(r)
      PROVE  ExitsAreTrue(q)'
  BY <1>0, <1>8 DEF TypeOK, ExitsAreTrue, Ended, TerminateNamespace, ledger
<1>9. ASSUME NEW r \in Run, ExitAnswered(r)
      PROVE  ExitsAreTrue(q)'
  BY <1>0, <1>9 DEF TypeOK, ExitsAreTrue, Ended, ExitAnswered, Applied, RecordExit
<1>10. ASSUME NEW r \in Run, NeverBoundAnswered(r)
      PROVE  ExitsAreTrue(q)'
  BY <1>0, <1>10 DEF TypeOK, ExitsAreTrue, Ended, NeverBoundAnswered, Applied,
      RecordNeverBoundExit
<1>11. ASSUME NEW r \in Run, SupervisorDies(r)
      PROVE  ExitsAreTrue(q)'
  BY <1>0, <1>11 DEF TypeOK, ExitsAreTrue, Ended, Live, SupervisorDies, Abandoned,
      ledger
<1>12. ASSUME NEW r \in Run, ApplyLate(r)
      PROVE  ExitsAreTrue(q)'
  BY <1>0, <1>12 DEF TypeOK, ExitsAreTrue, Ended, ApplyLate, Applied, Register, Bind,
      RecordDrain, RecordExit, RecordNeverBoundExit, supervisor
<1>13. ASSUME NEW r \in Run, BindAnswered(r)
      PROVE  ExitsAreTrue(q)'
  BY <1>0, <1>13 DEF TypeOK, ExitsAreTrue, Ended, BindAnswered, Applied, Bind
<1>14. ASSUME NEW r \in Run, NEW w \in WAL, BindWAL(r, w)
      PROVE  ExitsAreTrue(q)'
  BY <1>0, <1>14 DEF TypeOK, ExitsAreTrue, Ended, BindWAL, ledger
<1>15. ASSUME NEW f \in Fence, Reconcile(f)
      PROVE  ExitsAreTrue(q)'
  BY <1>0, <1>15 DEF TypeOK, ExitsAreTrue, Ended, Reconcile, Close, CloseNodes, StopRuns,
      supervisor, ledger
<1>16. CASE UNCHANGED <<exited, net, sup, stop>>
  BY <1>0, <1>16 DEF ExitsAreTrue, Ended, Live
<1>17. QED
  BY <1>1, <1>2, <1>3, <1>4, <1>5, <1>6, <1>7, <1>8, <1>9, <1>10, <1>11, <1>12, <1>13,
      <1>14, <1>15, <1>16
  DEF Next, vars, ledger, supervisor, Connect, BindFails, EngineFails, BeginMutation,
      EndMutation, WaitStop, DrainMutations, AcknowledgeDrain, Fork, ChildExits, Prove,
      CreatePod, DeletePod

\* Stop requests come with a closure, and closures stay.
LEMMA StoppedIsClosedStep ==
    ASSUME NEW q \in Run, TypeOK, RunInv, [Next]_vars
    PROVE  StoppedIsClosed(q)'
<1>0. StoppedIsClosed(q)
  BY DEF RunInv
<1>1. ASSUME NEW f \in Fence, Reconcile(f)
      PROVE  StoppedIsClosed(q)'
  BY <1>0, <1>1, FencingAssumption DEF TypeOK, StoppedIsClosed, Closed, NodeOf,
      Reconcile, Close, CloseNodes, StopRuns, ledger, closure
<1>2. ASSUME NEW r \in Run,
             \/ RegisterAnswered(r) \/ BindAnswered(r) \/ DrainAnswered(r)
             \/ ExitAnswered(r) \/ NeverBoundAnswered(r) \/ ApplyLate(r)
      PROVE  UNCHANGED <<stop, closedBy, closedNodes, podOf>>
  BY <1>2 DEF RegisterAnswered, DrainAnswered, ExitAnswered, NeverBoundAnswered,
      ApplyLate, BindAnswered, Register, Bind, RecordDrain, RecordExit,
      RecordNeverBoundExit, closure, control
<1>3. CASE UNCHANGED <<stop, closedBy, closedNodes, podOf>>
  BY <1>0, <1>3 DEF StoppedIsClosed, Closed, NodeOf
<1>4. QED
  BY <1>1, <1>2, <1>3
  DEF Next, vars, ledger, closure, control, Launch, FinishDrain, NeverBoundStop, Send,
      KillChild, TerminateNamespace, SupervisorDies, Connect, BindFails, EngineFails,
      BeginMutation, EndMutation, WaitStop, DrainMutations, AcknowledgeDrain, Fork,
      ChildExits, BindWAL, Prove, CreatePod, DeletePod

-----------------------------------------------------------------------------
\* A clean end means a closed node, where nothing registers.
LEMMA OnePodStep ==
    ASSUME NEW q \in Run, NEW t \in Run, IInv, [Next]_vars
    PROVE  OnePod(q, t)'
<1>0. OnePod(q, t) /\ \A s \in Run : OnePod(q, s)
  BY DEF IInv, PairInv
<1>00. \A s \in Run : s \in exited => Closed(NodeOf(s))
  BY DEF IInv, RunInv, StoppedIsClosed, ExitsAreTrue
<1> TypeOK
  BY DEF IInv
<1>1. ASSUME NEW r \in Run, RegisterAnswered(r)
      PROVE  OnePod(q, t)'
  BY <1>0, <1>1, <1>00 DEF TypeOK, OnePod, NodeOf, Closed, RegisterAnswered, Applied,
      Register, control
<1>2. ASSUME NEW r \in Run, ApplyLate(r)
      PROVE  OnePod(q, t)'
  BY <1>0, <1>2, <1>00 DEF TypeOK, OnePod, NodeOf, Closed, ApplyLate, Applied, Register,
      Bind, RecordDrain, RecordExit, RecordNeverBoundExit, control
<1>3. CASE UNCHANGED <<registered, podOf>>
  BY <1>0, <1>3 DEF OnePod, NodeOf, Closed
<1>4. ASSUME NEW r \in Run,
             \/ DrainAnswered(r) \/ ExitAnswered(r) \/ NeverBoundAnswered(r)
             \/ BindAnswered(r)
      PROVE  UNCHANGED <<registered, podOf>>
  BY <1>4 DEF DrainAnswered, ExitAnswered, NeverBoundAnswered, BindAnswered, RecordDrain,
      RecordExit, RecordNeverBoundExit, Bind, control
<1>5. QED
  BY <1>1, <1>2, <1>3, <1>4
  DEF Next, vars, ledger, control, Launch, FinishDrain, NeverBoundStop, Send, KillChild,
      TerminateNamespace, SupervisorDies, Connect, BindFails, EngineFails, BeginMutation,
      EndMutation, WaitStop, DrainMutations, AcknowledgeDrain, Fork, ChildExits, BindWAL,
      Reconcile, Close, CloseNodes, StopRuns, Prove, CreatePod, DeletePod

\* A container starts in a Pod that has none.
LEMMA OneContainerStep ==
    ASSUME NEW q \in Run, NEW t \in Run, IInv, [Next]_vars
    PROVE  OneContainer(q, t)'
<1>0. OneContainer(q, t)
  BY DEF IInv, PairInv
<1> TypeOK
  BY DEF IInv
<1>1. ASSUME NEW r \in Run, Launch(r)
      PROVE  OneContainer(q, t)'
  BY <1>0, <1>1 DEF TypeOK, OneContainer, Live, Launch, control
<1>2. ASSUME NEW r \in Run, RegisterAnswered(r)
      PROVE  OneContainer(q, t)'
  BY <1>0, <1>2 DEF TypeOK, OneContainer, Live, RegisterAnswered, Applied, Register,
      control
<1>3. ASSUME NEW r \in Run, FinishDrain(r)
      PROVE  OneContainer(q, t)'
  BY <1>0, <1>3 DEF TypeOK, OneContainer, Live, FinishDrain, control
<1>4. ASSUME NEW r \in Run, NeverBoundStop(r)
      PROVE  OneContainer(q, t)'
  BY <1>0, <1>4 DEF TypeOK, OneContainer, Live, NeverBoundStop, control
<1>5. ASSUME NEW r \in Run, DrainAnswered(r)
      PROVE  OneContainer(q, t)'
  BY <1>0, <1>5 DEF TypeOK, OneContainer, Live, DrainAnswered, Applied, RecordDrain,
      control
<1>6. ASSUME NEW r \in Run, KillChild(r)
      PROVE  OneContainer(q, t)'
  BY <1>0, <1>6 DEF TypeOK, OneContainer, Live, KillChild, Abandoned, control
<1>7. ASSUME NEW r \in Run, TerminateNamespace(r)
      PROVE  OneContainer(q, t)'
  BY <1>0, <1>7 DEF TypeOK, OneContainer, Live, TerminateNamespace, control
<1>8. ASSUME NEW r \in Run, ExitAnswered(r)
      PROVE  OneContainer(q, t)'
  BY <1>0, <1>8 DEF TypeOK, OneContainer, Live, ExitAnswered, Applied, RecordExit,
      control
<1>9. ASSUME NEW r \in Run, NeverBoundAnswered(r)
      PROVE  OneContainer(q, t)'
  BY <1>0, <1>9 DEF TypeOK, OneContainer, Live, NeverBoundAnswered, Applied,
      RecordNeverBoundExit, control
<1>10. ASSUME NEW r \in Run, SupervisorDies(r)
      PROVE  OneContainer(q, t)'
  BY <1>0, <1>10 DEF TypeOK, OneContainer, Live, SupervisorDies, Abandoned, control
<1>11. CASE UNCHANGED <<sup, podOf>>
  BY <1>0, <1>11 DEF OneContainer, Live
<1>12. ASSUME NEW r \in Run,
             \/ ApplyLate(r) \/ BindAnswered(r)
      PROVE  UNCHANGED <<sup, podOf>>
  BY <1>12 DEF ApplyLate, BindAnswered, Register, Bind, RecordDrain, RecordExit,
      RecordNeverBoundExit, control, supervisor
<1>13. QED
  BY <1>1, <1>2, <1>3, <1>4, <1>5, <1>6, <1>7, <1>8, <1>9, <1>10, <1>11, <1>12
  DEF Next, vars, supervisor, control, Send, Connect, BindFails, EngineFails,
      BeginMutation, EndMutation, WaitStop, DrainMutations, AcknowledgeDrain, Fork,
      ChildExits, BindWAL, Reconcile, Close, CloseNodes, StopRuns, Prove, CreatePod,
      DeletePod

\* Bind compares the log with those of all registered runs.
LEMMA OneLogStep ==
    ASSUME NEW q \in Run, NEW t \in Run, IInv, [Next]_vars
    PROVE  OneLog(q, t)'
<1>0. OneLog(q, t) /\ UnregisteredIdle(q) /\ UnregisteredIdle(t)
  BY DEF IInv, PairInv, RunInv
<1> TypeOK
  BY DEF IInv
<1>1. ASSUME NEW r \in Run, ApplyLate(r)
      PROVE  OneLog(q, t)'
  BY <1>0, <1>1 DEF TypeOK, OneLog, NodeOf, UnregisteredIdle, ApplyLate, Applied,
      Register, Bind, RecordDrain, RecordExit, RecordNeverBoundExit, control
<1>2. ASSUME NEW r \in Run, BindAnswered(r)
      PROVE  OneLog(q, t)'
  BY <1>0, <1>2 DEF TypeOK, OneLog, NodeOf, UnregisteredIdle, BindAnswered, Applied,
      Bind, control
<1>3. CASE UNCHANGED <<wal, podOf>>
  BY <1>0, <1>3 DEF OneLog, NodeOf, UnregisteredIdle
<1>4. ASSUME NEW r \in Run,
             \/ RegisterAnswered(r) \/ DrainAnswered(r) \/ ExitAnswered(r)
             \/ NeverBoundAnswered(r)
      PROVE  UNCHANGED <<wal, podOf>>
  BY <1>4 DEF RegisterAnswered, DrainAnswered, ExitAnswered, NeverBoundAnswered,
      Register, RecordDrain, RecordExit, RecordNeverBoundExit, control
<1>5. QED
  BY <1>1, <1>2, <1>3, <1>4
  DEF Next, vars, ledger, control, Launch, FinishDrain, NeverBoundStop, Send, KillChild,
      TerminateNamespace, SupervisorDies, Connect, BindFails, EngineFails, BeginMutation,
      EndMutation, WaitStop, DrainMutations, AcknowledgeDrain, Fork, ChildExits, BindWAL,
      Reconcile, Close, CloseNodes, StopRuns, Prove, CreatePod, DeletePod

\* A sealed scope admits no run and its runs have their evidence for good.
LEMMA SealedStep ==
    ASSUME NEW q \in Fence, TypeOK, FenceInv, [Next]_vars
    PROVE  Sealed(q)'
<1>0. Sealed(q)
  BY DEF FenceInv
<1>1. ASSUME NEW r \in Run, RegisterAnswered(r)
      PROVE  Sealed(q)'
  BY <1>0, <1>1 DEF TypeOK, Sealed, Settled, Closed, NodeOf, RegisterAnswered, Applied,
      Register, control, closure
<1>2. ASSUME NEW r \in Run, DrainAnswered(r)
      PROVE  Sealed(q)'
  BY <1>0, <1>2 DEF TypeOK, Sealed, Settled, Closed, NodeOf, DrainAnswered, Applied,
      RecordDrain, control, closure
<1>3. ASSUME NEW r \in Run, ExitAnswered(r)
      PROVE  Sealed(q)'
  BY <1>0, <1>3 DEF TypeOK, Sealed, Settled, Closed, NodeOf, ExitAnswered, Applied,
      RecordExit, control, closure
<1>4. ASSUME NEW r \in Run, NeverBoundAnswered(r)
      PROVE  Sealed(q)'
  BY <1>0, <1>4 DEF TypeOK, Sealed, Settled, Closed, NodeOf, NeverBoundAnswered, Applied,
      RecordNeverBoundExit, control, closure
<1>5. ASSUME NEW r \in Run, ApplyLate(r)
      PROVE  Sealed(q)'
  BY <1>0, <1>5 DEF TypeOK, Sealed, Settled, Closed, NodeOf, ApplyLate, Applied,
      Register, Bind, RecordDrain, RecordExit, RecordNeverBoundExit, control, closure
<1>6. ASSUME NEW r \in Run, BindAnswered(r)
      PROVE  Sealed(q)'
  BY <1>0, <1>6 DEF TypeOK, Sealed, Settled, Closed, NodeOf, BindAnswered, Applied, Bind,
      control, closure
<1>7. ASSUME NEW f \in Fence, Reconcile(f)
      PROVE  Sealed(q)'
  <2>1. ASSUME NEW n \in Node, Closed(n)
        PROVE  Closed(n)'
    BY <1>7, <2>1, FencingAssumption DEF TypeOK, Reconcile, Close, CloseNodes, closure, Closed
  <2>2. ASSUME NEW r \in Run, Settled(r)
        PROVE  Settled(r)'
    BY <1>7, <2>2 DEF TypeOK, Reconcile, Close, CloseNodes, StopRuns, ledger, Settled
  <2>3. CASE q # f
    <3>1. Scope(q) \subseteq Node
      BY FencingAssumption DEF Scope
    <3>2. evidence'[q] = evidence[q] /\ UNCHANGED <<proven, podOf, registered>>
      BY <1>7, <2>3 DEF TypeOK, Reconcile, Close, CloseNodes, ledger
    <3>3. QED
      BY <1>0, <2>1, <2>2, <3>1, <3>2 DEF TypeOK, Sealed, NodeOf
  <2>4. CASE q = f
    <3>1. q \notin proven' /\ (evidence'[q] # {} => LedgerComplete(q)')
      BY <1>7, <2>4 DEF TypeOK, Reconcile
    <3>2. ASSUME LedgerComplete(q)', NEW n \in Scope(q)
          PROVE  Closed(n)'
      BY <3>2, FencingAssumption DEF LedgerComplete, Scope, Closed
    <3>3. ASSUME LedgerComplete(q)', NEW r \in registered', NodeOf(r)' \in Scope(q)
          PROVE  Settled(r)'
      BY <3>3 DEF LedgerComplete, RunsIn, RunComplete, Settled
    <3>4. QED
      BY <3>1, <3>2, <3>3 DEF Sealed
  <2>5. QED
    BY <2>3, <2>4
<1>8. ASSUME NEW f \in Fence, Prove(f)
      PROVE  Sealed(q)'
  BY <1>0, <1>8 DEF TypeOK, Sealed, Settled, Closed, NodeOf, Prove, ledger, closure
<1>9. CASE UNCHANGED <<registered, wal, stop, exited, drained, closedBy, closedNodes, podOf, evidence, proven>>
  BY <1>0, <1>9 DEF Sealed, Settled, Closed, NodeOf
<1>10. QED
  BY <1>1, <1>2, <1>3, <1>4, <1>5, <1>6, <1>7, <1>8, <1>9
  DEF Next, vars, ledger, closure, control, Launch, FinishDrain, NeverBoundStop, Send,
      KillChild, TerminateNamespace, SupervisorDies, Connect, BindFails, EngineFails,
      BeginMutation, EndMutation, WaitStop, DrainMutations, AcknowledgeDrain, Fork,
      ChildExits, BindWAL, CreatePod, DeletePod

-----------------------------------------------------------------------------
LEMMA InitIInv == Init => IInv
<1> SUFFICES ASSUME Init PROVE IInv
  OBVIOUS
<1>1. TypeOK
  BY DEF Init, TypeOK, Phase
<1>2. RunInv
  BY DEF Init, RunInv, UnregisteredIdle, ProcessesInPhase, WritesAreBound, DrainsAreClean,
      ExitsAreTrue, StoppedIsClosed
<1>3. PairInv
  BY DEF Init, PairInv, OnePod, OneContainer, OneLog, Live
<1>4. FenceInv
  BY DEF Init, FenceInv, Sealed
<1>5. QED
  BY <1>1, <1>2, <1>3, <1>4 DEF IInv

LEMMA NextIInv == IInv /\ [Next]_vars => IInv'
<1> SUFFICES ASSUME IInv, [Next]_vars PROVE IInv'
  OBVIOUS
<1>1. TypeOK /\ RunInv /\ FenceInv
  BY DEF IInv
<1>2. TypeOK'
  BY <1>1, TypeStep
<1>3. RunInv'
  BY <1>1, UnregisteredIdleStep, ProcessesInPhaseStep, WritesAreBoundStep,
     DrainsAreCleanStep, ExitsAreTrueStep, StoppedIsClosedStep DEF RunInv
<1>4. PairInv'
  BY OnePodStep, OneContainerStep, OneLogStep DEF PairInv
<1>5. FenceInv'
  BY <1>1, SealedStep DEF FenceInv
<1>6. QED
  BY <1>2, <1>3, <1>4, <1>5 DEF IInv

\* The inductive invariant holds in every state of the fencing protocol.
THEOREM Invariance == Spec => []IInv
  BY InitIInv, NextIInv, PTL DEF Spec

\* Every state of the ledger, the supervisors and their children has its type.
THEOREM TypeCorrect == Spec => []TypeOK
<1>1. IInv => TypeOK
  BY DEF IInv
<1>2. QED
  BY <1>1, Invariance, PTL

\* When reconcileFence has published a proof, no process of the fenced nodes is
\* left, none will start, and no mutation of theirs can still take effect.
THEOREM FenceProofsAreTrue == Spec => []FenceProofHolds
<1>1. ASSUME IInv
      PROVE  FenceProofHolds
  <2> SUFFICES ASSUME NEW f \in proven, NEW r \in Run, NodeOf(r) \in Scope(f)
               PROVE  procs[r] = {} /\ store[r] = "quiet"
    BY DEF FenceProofHolds
  <2>1. /\ UnregisteredIdle(r) /\ ProcessesInPhase(r) /\ WritesAreBound(r)
        /\ DrainsAreClean(r) /\ ExitsAreTrue(r)
    BY <1>1 DEF IInv, RunInv
  <2>2. r \in registered => Settled(r)
    BY <1>1 DEF IInv, TypeOK, FenceInv, Sealed
  <2>3. CASE r \in registered
    BY <2>1, <2>2, <2>3
    DEF Settled, ProcessesInPhase, WritesAreBound, DrainsAreClean, ExitsAreTrue, Ended
  <2>4. CASE r \notin registered
    BY <2>1, <2>4 DEF UnregisteredIdle, ProcessesInPhase, WritesAreBound
  <2>5. QED
    BY <2>3, <2>4
<1>2. QED
  BY <1>1, Invariance, PTL

\* Register and the container runtime admit one writing engine per node.
THEOREM OneWriterPerNode == Spec => []OneWriter
<1>1. ASSUME IInv
      PROVE  OneWriter
  <2> SUFFICES ASSUME NEW r \in Run, NEW s \in Run, NodeOf(r) = NodeOf(s),
                      engine[r] \in {"open", "draining"}, engine[s] \in {"open", "draining"}
               PROVE  r = s
    BY DEF OneWriter
  <2>1. ASSUME NEW q \in Run, engine[q] \in {"open", "draining"}
        PROVE  Live(q) /\ q \in registered
    BY <1>1, <2>1 DEF IInv, RunInv, ProcessesInPhase, UnregisteredIdle, Live
  <2>2. QED
    BY <1>1, <2>1 DEF IInv, PairInv, OnePod, OneContainer
<1>2. QED
  BY <1>1, Invariance, PTL

\* The engines of a node all run on the log the first of them was bound to.
THEOREM OneHistoryPerNode == Spec => []OneHistory
<1>1. ASSUME IInv
      PROVE  OneHistory
  BY <1>1 DEF IInv, RunInv, PairInv, WritesAreBound, OneLog, OneHistory
<1>2. QED
  BY <1>1, Invariance, PTL

=============================================================================
