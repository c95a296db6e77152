------------------------------- MODULE Fencing ------------------------------
(***************************************************************************)
(* Cooperative fencing: before a voter is replaced or a generation is      *)
(* abandoned, its processes must be known to have ended and its object     *)
(* store mutations to have finished.                                       *)
(*                                                                         *)
(* Every launch of a supervised process is a run.  Its supervisor, PID 1   *)
(* of the container, registers the run with the authority, starts the      *)
(* child, binds the child's log identity, and reports the drain and the    *)
(* exit.  The authority keeps one ledger, changed by compare-and-swap, so  *)
(* each transition is atomic.  The identity of a run is its Pod, its node  *)
(* and, once bound, its log.                                               *)
(*                                                                         *)
(* A call to the authority is authenticated when it is made and changes    *)
(* the ledger later, if at all: the caller can be answered, can give up or *)
(* die, and its Pod can be replaced in between.  A lost call is one that   *)
(* is never applied; a refused one would be refused again, so it has no    *)
(* action.  Reading a stop request changes nothing and is one step.        *)
(***************************************************************************)
EXTENDS FiniteSets

CONSTANTS
    Node,      \* the voter slots
    Pod,       \* the Pods there will be, each with a UID of its own
    Run,       \* the launches there will be, each with a random run ID
    WAL,       \* log identities
    Fence,     \* fence requests: an operation ID with the hash of its request
    NodeOfPod, \* the node a Pod is named after
    OpID,      \* the operation ID of a request
    Targets,   \* the nodes of a request with voter scope; {} is the generation
    None

StopRequest == [fence : Fence, wal : WAL \cup {None}]

ASSUME FencingAssumption ==
    /\ NodeOfPod \in [Pod -> Node]
    /\ Targets \in [Fence -> SUBSET Node]
    /\ DOMAIN OpID = Fence
    /\ None \notin WAL \cup Fence \cup StopRequest

VARIABLES
    \* the ledger
    registered,  \* the runs in the ledger
    wal,         \* wal[r]: the log the run is bound to
    stop,        \* stop[r]: its stop request
    drained,     \* runs with a clean drain receipt
    exited,      \* runs recorded as exited
    neverBound,  \* those recorded as exited without having been bound
    closedBy,    \* the request that closed the generation
    closedNodes, \* closedNodes[n]: the request that last closed node n
    \* the supervisors and their children
    sup,         \* sup[r]: what the supervisor of r is doing
    bound,       \* bound[r]: the log identity the supervisor knows
    calling,     \* the supervisors with a bind call out
    request,     \* request[r]: the stop request the run is carrying out
    acked,       \* runs whose supervisor accepted a drain receipt
    procs,       \* procs[r]: processes in the run's namespace, PID 1 aside
    engine,      \* engine[r]: the node engine in the child
    log,         \* log[r]: the log identity in the child's data directory
    store,       \* store[r]: what is known of the run's object store mutations
    \* around them
    podOf,       \* podOf[r]: the Pod run r is launched in
    net,         \* authenticated calls that have not changed the ledger yet
    pods,        \* the Pods as the API server lists them
    evidence,    \* evidence[f]: the Pods of the ledger, when the last reconcile of f
                 \* found it complete
    proven       \* fence requests with a proof

ledger == <<registered, wal, stop, drained, exited, neverBound>>
closure == <<closedBy, closedNodes>>
child == <<procs, engine, log, store>>
supervisor == <<sup, bound, calling, request, acked>>
control == <<podOf, pods, evidence, proven>>
vars == <<ledger, closure, child, supervisor, net, control>>

Phase == {"new", "registering", "up", "stopping", "killing", "clearing",
          "exiting", "unbound", "leaving", "done", "dead"}
Kind == {"register", "bind", "drain", "exit", "never"}

NodeOf(r) == NodeOfPod[podOf[r]]

\* The nodes a request fences.
Scope(f) == IF Targets[f] = {} THEN Node ELSE Targets[f]

Init ==
    /\ registered = {} /\ drained = {} /\ exited = {} /\ neverBound = {}
    /\ wal = [r \in Run |-> None]
    /\ stop = [r \in Run |-> None]
    /\ closedBy = None
    /\ closedNodes = [n \in Node |-> None]
    /\ sup = [r \in Run |-> "new"]
    /\ bound = [r \in Run |-> None]
    /\ calling = {} /\ acked = {}
    /\ request = [r \in Run |-> None]
    /\ procs = [r \in Run |-> {}]
    /\ engine = [r \in Run |-> "off"]
    /\ log = [r \in Run |-> None]
    /\ store = [r \in Run |-> "quiet"]
    /\ net = {}
    /\ podOf \in [Run -> Pod]
    /\ pods = [p \in Pod |-> "none"]
    /\ evidence = [f \in Fence |-> {}]
    /\ proven = {}

-----------------------------------------------------------------------------
(* The ledger's transitions.                                               *)

\* Mutant: the runs in other Pods of the node are not looked at.
RegisterAnyPod(r) ==
    /\ closedBy = None /\ closedNodes[NodeOf(r)] = None
    /\ r \in registered => wal[r] = None /\ stop[r] = None
    /\ registered' = registered \cup {r}
    /\ UNCHANGED <<wal, stop, drained, exited, neverBound, closure>>

\* A run in another Pod of the node must have ended cleanly.
Register(r) ==
    /\ closedBy = None /\ closedNodes[NodeOf(r)] = None
    /\ IF r \in registered
       THEN wal[r] = None /\ stop[r] = None
       ELSE \A s \in registered :
              NodeOf(s) = NodeOf(r) /\ podOf[s] # podOf[r] => s \in exited \cap drained
    /\ registered' = registered \cup {r}
    /\ UNCHANGED <<wal, stop, drained, exited, neverBound, closure>>

\* Mutant: the run is compared with itself only.
BindOwn(r, w) ==
    /\ r \in registered
    /\ wal[r] \in {None, w}
    /\ closedBy = None /\ stop[r] = None
    /\ wal' = [wal EXCEPT ![r] = w]
    /\ UNCHANGED <<registered, stop, drained, exited, neverBound, closure>>

\* All runs of a node are bound to one log.
Bind(r, w) ==
    /\ r \in registered
    /\ wal[r] \in {None, w}
    /\ closedBy = None /\ stop[r] = None
    /\ \A s \in registered \ {r} : NodeOf(s) = NodeOf(r) => wal[s] \in {None, w}
    /\ wal' = [wal EXCEPT ![r] = w]
    /\ UNCHANGED <<registered, stop, drained, exited, neverBound, closure>>

RecordDrain(r) ==
    /\ r \in registered
    /\ stop[r] # None /\ stop[r] = request[r]
    /\ r \notin neverBound
    /\ drained' = drained \cup {r}
    /\ UNCHANGED <<registered, wal, stop, exited, neverBound, closure>>

RecordExit(r) ==
    /\ r \in registered
    /\ wal[r] # None
    /\ stop[r] # None /\ stop[r] = request[r]
    /\ r \in drained
    /\ exited' = exited \cup {r}
    /\ UNCHANGED <<registered, wal, stop, drained, neverBound, closure>>

RecordNeverBoundExit(r) ==
    /\ r \in registered
    /\ wal[r] = None
    /\ r \notin drained
    /\ stop[r] # None /\ stop[r] = request[r] /\ request[r].wal = wal[r]
    /\ closedBy # None \/ closedNodes[NodeOf(r)] # None
    /\ exited' = exited \cup {r}
    /\ neverBound' = neverBound \cup {r}
    /\ UNCHANGED <<registered, wal, stop, drained, closure>>

\* Runs that have a stop request keep it.
StopRuns(f, nodes) ==
    stop' = [r \in Run |-> IF r \in registered /\ NodeOf(r) \in nodes /\ stop[r] = None
                           THEN [fence |-> f, wal |-> wal[r]]
                           ELSE stop[r]]

\* A second request cannot take over a closed generation.
Close(f) ==
    /\ Targets[f] = {}
    /\ closedBy \in {None, f}
    /\ closedBy' = f
    /\ StopRuns(f, Node)
    /\ UNCHANGED <<registered, wal, drained, exited, neverBound, closedNodes>>

\* Once the generation is closed, only a request that had closed all of its
\* nodes goes on.
CloseNodes(f) ==
    /\ Targets[f] # {}
    /\ \/ /\ closedBy # None
          /\ \A n \in Targets[f] : closedNodes[n] = f
          /\ UNCHANGED <<ledger, closure>>
       \/ /\ closedBy = None
          /\ \A n \in Targets[f] :
               closedNodes[n] # None /\ closedNodes[n] # f => OpID[closedNodes[n]] # OpID[f]
          /\ closedNodes' = [n \in Node |-> IF n \in Targets[f] THEN f ELSE closedNodes[n]]
          /\ StopRuns(f, Targets[f])
          /\ UNCHANGED <<registered, wal, drained, exited, neverBound, closedBy>>

\* The part of CompleteNodes that is about the ledger.
RunComplete(r) ==
    /\ stop[r] # None /\ stop[r].wal = wal[r]
    /\ r \in exited
    /\ IF r \in neverBound THEN wal[r] = None /\ r \notin drained
                           ELSE wal[r] # None /\ r \in drained

RunsIn(f) == {r \in registered : NodeOf(r) \in Scope(f)}

LedgerComplete(f) ==
    /\ registered # {}
    /\ IF Targets[f] = {} THEN closedBy = f ELSE \A n \in Targets[f] : closedNodes[n] = f
    /\ \A r \in RunsIn(f) : RunComplete(r)
    /\ \A n \in Targets[f] : \E r \in registered : NodeOf(r) = n

-----------------------------------------------------------------------------
(* The supervisor's calls.  The authority accepts a call for a Pod that is  *)
(* listed and not being deleted.                                           *)

Auth(r) == pods[podOf[r]] = "live"

\* A call leaves the net and changes the ledger.
Applied(k, r) == <<k, r>> \in net /\ net' = net \ {<<k, r>>}

\* The authority reads the stop request of the identity the supervisor knows.
ReadStop(r) ==
    /\ Auth(r)
    /\ r \in registered /\ wal[r] = bound[r]

Live(r) == sup[r] \notin {"new", "done", "dead"}

\* A process that ends leaves its open mutations without a known outcome.
Abandoned(r) == store' = [store EXCEPT ![r] = IF @ = "pending" THEN "unknown" ELSE @]

\* A container starts after the one before it in its Pod has ended.
Launch(r) ==
    /\ sup[r] = "new"
    /\ \A s \in Run : podOf[s] = podOf[r] => ~Live(s)
    /\ Auth(r)
    /\ sup' = [sup EXCEPT ![r] = "registering"]
    /\ net' = net \cup {<<"register", r>>}
    /\ UNCHANGED <<ledger, closure, child, bound, calling, request, acked, control>>

\* The child is started only when the registration is confirmed.
RegisterAnswered(r) ==
    /\ sup[r] = "registering"
    /\ Applied("register", r) /\ Register(r)
    /\ sup' = [sup EXCEPT ![r] = "up"]
    /\ procs' = [procs EXCEPT ![r] = {"child"}]
    /\ UNCHANGED <<engine, log, store, bound, calling, request, acked, control>>

\* finishDrain, to the match of the receipt with the stop request.  The child
\* may have exited or not.
FinishDrain(r) ==
    /\ sup[r] = "up" /\ r \in acked /\ r \notin calling
    /\ bound[r] # None /\ request[r].wal = bound[r]
    /\ ReadStop(r) /\ stop[r] = request[r]
    /\ sup' = [sup EXCEPT ![r] = "stopping"]
    /\ UNCHANGED <<ledger, closure, child, bound, calling, request, acked, net, control>>

\* recordNeverBoundExit, to the stop request.
NeverBoundStop(r) ==
    /\ sup[r] = "up" /\ "child" \notin procs[r]
    /\ r \notin acked /\ r \notin calling
    /\ bound[r] = None
    /\ ReadStop(r) /\ stop[r] # None /\ stop[r].wal = None
    /\ request' = [request EXCEPT ![r] = stop[r]]
    /\ sup' = [sup EXCEPT ![r] = "unbound"]
    /\ UNCHANGED <<ledger, closure, child, bound, calling, acked, net, control>>

\* Drain, Exit and NeverBoundExit are sent, and sent again until answered.
Send(r) ==
    /\ Auth(r)
    /\ \/ sup[r] = "stopping" /\ net' = net \cup {<<"drain", r>>}
       \/ sup[r] = "exiting"  /\ net' = net \cup {<<"exit", r>>}
       \/ sup[r] = "leaving"  /\ net' = net \cup {<<"never", r>>}
    /\ UNCHANGED <<ledger, closure, child, supervisor, control>>

DrainAnswered(r) ==
    /\ sup[r] = "stopping"
    /\ Applied("drain", r) /\ RecordDrain(r)
    /\ sup' = [sup EXCEPT ![r] = "killing"]
    /\ UNCHANGED <<child, bound, calling, request, acked, control>>

KillChild(r) ==
    /\ sup[r] = "killing"
    /\ procs' = [procs EXCEPT ![r] = @ \ {"child"}]
    /\ engine' = [engine EXCEPT ![r] = "gone"]
    /\ Abandoned(r)
    /\ sup' = [sup EXCEPT ![r] = "clearing"]
    /\ UNCHANGED <<ledger, closure, log, bound, calling, request, acked, net, control>>

\* Mutant: only the process group of the child is ended.
TerminateGroup(r) ==
    /\ sup[r] \in {"clearing", "unbound"}
    /\ procs' = [procs EXCEPT ![r] = @ \ {"child"}]
    /\ sup' = [sup EXCEPT ![r] = IF @ = "clearing" THEN "exiting" ELSE "leaving"]
    /\ UNCHANGED <<ledger, closure, engine, log, store, bound, calling, request, acked,
                   net, control>>

\* terminatePrivateNamespace: no process but PID 1 is left.
TerminateNamespace(r) ==
    /\ sup[r] \in {"clearing", "unbound"}
    /\ procs' = [procs EXCEPT ![r] = {}]
    /\ sup' = [sup EXCEPT ![r] = IF @ = "clearing" THEN "exiting" ELSE "leaving"]
    /\ UNCHANGED <<ledger, closure, engine, log, store, bound, calling, request, acked,
                   net, control>>

ExitAnswered(r) ==
    /\ sup[r] = "exiting"
    /\ Applied("exit", r) /\ RecordExit(r)
    /\ sup' = [sup EXCEPT ![r] = "done"]
    /\ UNCHANGED <<child, bound, calling, request, acked, control>>

NeverBoundAnswered(r) ==
    /\ sup[r] = "leaving"
    /\ Applied("never", r) /\ RecordNeverBoundExit(r)
    /\ sup' = [sup EXCEPT ![r] = "done"]
    /\ UNCHANGED <<child, bound, calling, request, acked, control>>

\* Run returns an error, or the container is killed: with PID 1 the kernel
\* ends every process of the namespace.
SupervisorDies(r) ==
    /\ Live(r)
    /\ sup' = [sup EXCEPT ![r] = "dead"]
    /\ calling' = calling \ {r}
    /\ procs' = [procs EXCEPT ![r] = {}]
    /\ engine' = [engine EXCEPT ![r] = "gone"]
    /\ Abandoned(r)
    /\ UNCHANGED <<ledger, closure, log, bound, request, acked, net, control>>

\* A call changes the ledger, but its answer is lost or comes too late.
ApplyLate(r) ==
    /\ \/ Applied("register", r) /\ Register(r)
       \/ Applied("bind", r) /\ Bind(r, log[r])
       \/ Applied("drain", r) /\ RecordDrain(r)
       \/ Applied("exit", r) /\ RecordExit(r)
       \/ Applied("never", r) /\ RecordNeverBoundExit(r)
    /\ UNCHANGED <<child, supervisor, control>>

-----------------------------------------------------------------------------
(* The child.                                                              *)

Alive(r) == "child" \in procs[r]

\* connectFenceSession, at the beginning of Open: the run must not be stopped,
\* and must not have been bound by an Open before this one.
Connect(r) ==
    /\ sup[r] = "up" /\ Alive(r) /\ engine[r] \in {"off", "failed"}
    /\ r \notin calling
    /\ ReadStop(r) /\ stop[r] = None
    /\ bound[r] = None
    /\ engine' = [engine EXCEPT ![r] = "connected"]
    /\ UNCHANGED <<ledger, closure, procs, log, store, supervisor, net, control>>

\* BindWAL: the identity in the data directory is what it is; the supervisor
\* keeps its lock for the duration of the call.
BindWAL(r, w) ==
    /\ sup[r] = "up" /\ Alive(r) /\ engine[r] = "connected"
    /\ r \notin calling
    /\ log[r] \in {None, w}
    /\ Auth(r)
    /\ log' = [log EXCEPT ![r] = w]
    /\ engine' = [engine EXCEPT ![r] = "binding"]
    /\ calling' = calling \cup {r}
    /\ net' = net \cup {<<"bind", r>>}
    /\ UNCHANGED <<ledger, closure, procs, store, sup, bound, request, acked, control>>

\* The supervisor has the answer; so does the child, unless it gave up.
BindAnswered(r) ==
    /\ r \in calling
    /\ Applied("bind", r) /\ Bind(r, log[r])
    /\ bound' = [bound EXCEPT ![r] = log[r]]
    /\ calling' = calling \ {r}
    /\ engine' = [engine EXCEPT ![r] = IF @ = "binding" THEN "open" ELSE @]
    /\ UNCHANGED <<procs, log, store, sup, request, acked, control>>

\* The bind call fails at the supervisor, and Open with it.
BindFails(r) ==
    /\ r \in calling
    /\ calling' = calling \ {r}
    /\ engine' = [engine EXCEPT ![r] = IF @ = "binding" THEN "failed" ELSE @]
    /\ UNCHANGED <<ledger, closure, procs, log, store, sup, bound, request, acked, net, control>>

\* Open fails, or the engine is shut down without a terminal drain.
EngineFails(r) ==
    /\ Alive(r) /\ engine[r] \in {"connected", "binding", "open", "draining"}
    /\ engine' = [engine EXCEPT ![r] = "failed"]
    /\ UNCHANGED <<ledger, closure, procs, log, store, supervisor, net, control>>

\* The engine writes until its shutdown has joined the writers.
BeginMutation(r) ==
    /\ Alive(r) /\ engine[r] \in {"open", "draining"}
    /\ store[r] = "quiet"
    /\ store' = [store EXCEPT ![r] = "pending"]
    /\ UNCHANGED <<ledger, closure, procs, engine, log, supervisor, net, control>>

EndMutation(r) ==
    /\ Alive(r) /\ store[r] = "pending"
    /\ \E outcome \in {"quiet", "unknown"} : store' = [store EXCEPT ![r] = outcome]
    /\ UNCHANGED <<ledger, closure, procs, engine, log, supervisor, net, control>>

\* The fence watcher gets the stop request of the run and starts TerminalDrain.
WaitStop(r) ==
    /\ sup[r] = "up" /\ Alive(r) /\ engine[r] = "open"
    /\ r \notin calling
    /\ bound[r] = log[r] /\ ReadStop(r)
    /\ stop[r] # None /\ stop[r].wal = log[r]
    /\ request' = [request EXCEPT ![r] = stop[r]]
    /\ engine' = [engine EXCEPT ![r] = "draining"]
    /\ UNCHANGED <<ledger, closure, procs, log, store, sup, bound, calling, acked, net, control>>

\* DrainMutations joins the open mutations; an unknown outcome is not clean.
DrainMutations(r) ==
    /\ Alive(r) /\ engine[r] = "draining"
    /\ store[r] # "pending"
    /\ engine' = [engine EXCEPT ![r] = IF store[r] = "quiet" THEN "drained" ELSE "failed"]
    /\ UNCHANGED <<ledger, closure, procs, log, store, supervisor, net, control>>

AcknowledgeDrain(r) ==
    /\ sup[r] = "up" /\ Alive(r) /\ engine[r] = "drained"
    /\ ReadStop(r) /\ stop[r] = request[r]
    /\ acked' = acked \cup {r}
    /\ UNCHANGED <<ledger, closure, child, sup, bound, calling, request, net, control>>

\* The application may have processes of its own, which outlive it.
Fork(r) ==
    /\ Alive(r)
    /\ procs' = [procs EXCEPT ![r] = @ \cup {"other"}]
    /\ UNCHANGED <<ledger, closure, engine, log, store, supervisor, net, control>>

ChildExits(r) ==
    /\ Alive(r)
    /\ procs' = [procs EXCEPT ![r] = @ \ {"child"}]
    /\ engine' = [engine EXCEPT ![r] = "gone"]
    /\ Abandoned(r)
    /\ UNCHANGED <<ledger, closure, log, supervisor, net, control>>

-----------------------------------------------------------------------------
(* The fencing executor and the Pods.                                      *)

\* reconcileFence, first part: close, and keep the ledger as it then is.
Reconcile(f) ==
    /\ f \notin proven
    /\ Close(f) \/ CloseNodes(f)
    /\ UNCHANGED <<child, supervisor, net, podOf, pods, proven>>
    /\ evidence' = [evidence EXCEPT ![f] =
                      IF LedgerComplete(f)' THEN {podOf[r] : r \in RunsIn(f)'} ELSE {}]

\* Second part: every Pod listed by now must be one of the ledger's.
Prove(f) ==
    /\ evidence[f] # {}
    /\ evidence' = [evidence EXCEPT ![f] = {}]
    /\ proven' = IF \A p \in Pod : pods[p] = "live" /\ NodeOfPod[p] \in Scope(f)
                                      => p \in evidence[f]
                 THEN proven \cup {f} ELSE proven
    /\ UNCHANGED <<ledger, closure, child, supervisor, net, podOf, pods>>

CreatePod(p) ==
    /\ pods[p] = "none"
    /\ \A q \in Pod : NodeOfPod[q] = NodeOfPod[p] => pods[q] # "live"
    /\ pods' = [pods EXCEPT ![p] = "live"]
    /\ UNCHANGED <<ledger, closure, child, supervisor, net, podOf, evidence, proven>>

\* The API server forgets the Pod, also when its processes still run.
DeletePod(p) ==
    /\ pods[p] = "live"
    /\ pods' = [pods EXCEPT ![p] = "gone"]
    /\ UNCHANGED <<ledger, closure, child, supervisor, net, podOf, evidence, proven>>

Next ==
    \/ \E r \in Run :
         \/ Launch(r) \/ RegisterAnswered(r) \/ FinishDrain(r) \/ NeverBoundStop(r)
         \/ Send(r) \/ DrainAnswered(r) \/ KillChild(r) \/ TerminateNamespace(r)
         \/ ExitAnswered(r) \/ NeverBoundAnswered(r) \/ SupervisorDies(r) \/ ApplyLate(r)
         \/ Connect(r) \/ BindAnswered(r) \/ BindFails(r) \/ EngineFails(r)
         \/ BeginMutation(r) \/ EndMutation(r) \/ WaitStop(r) \/ DrainMutations(r)
         \/ AcknowledgeDrain(r) \/ Fork(r) \/ ChildExits(r)
         \/ \E w \in WAL : BindWAL(r, w)
    \/ \E f \in Fence : Reconcile(f) \/ Prove(f)
    \/ \E p \in Pod : CreatePod(p) \/ DeletePod(p)

Spec == Init /\ [][Next]_vars

-----------------------------------------------------------------------------
(* Properties.                                                             *)

\* The state has its types, the stop requests of the ledger among them.
TypeOK ==
    /\ registered \subseteq Run /\ drained \subseteq Run
    /\ exited \subseteq Run /\ neverBound \subseteq Run
    /\ wal \in [Run -> WAL \cup {None}]
    /\ stop \in [Run -> StopRequest \cup {None}]
    /\ closedBy \in Fence \cup {None}
    /\ closedNodes \in [Node -> Fence \cup {None}]
    /\ sup \in [Run -> Phase]
    /\ bound \in [Run -> WAL \cup {None}]
    /\ calling \subseteq Run /\ acked \subseteq Run
    /\ request \in [Run -> StopRequest \cup {None}]
    /\ procs \in [Run -> SUBSET {"child", "other"}]
    /\ engine \in [Run -> {"off", "connected", "binding", "open", "draining",
                           "drained", "failed", "gone"}]
    /\ log \in [Run -> WAL \cup {None}]
    /\ store \in [Run -> {"quiet", "pending", "unknown"}]
    /\ net \subseteq Kind \X Run
    /\ podOf \in [Run -> Pod]
    /\ pods \in [Pod -> {"none", "live", "gone"}]
    /\ evidence \in [Fence -> SUBSET Pod]
    /\ proven \subseteq Fence

\* What a proof of reconcileFence claims (ProcessesTerminated, StorageQuiesced,
\* RecreationBlocked): from then on no run of the fenced nodes has a process,
\* and none has an object store mutation that may still take effect.
FenceProofHolds ==
    \A f \in proven, r \in Run :
        NodeOf(r) \in Scope(f) => procs[r] = {} /\ store[r] = "quiet"

\* Never two engines writing for one node, whatever Pods the API server has
\* replaced and whatever calls of dead supervisors still arrive (the check of
\* earlier incarnations in Register).
OneWriter ==
    \A r, s \in Run :
        /\ NodeOf(r) = NodeOf(s)
        /\ engine[r] \in {"open", "draining"} /\ engine[s] \in {"open", "draining"}
        => r = s

\* All engines a node ever ran used one log (the check of the historical WAL
\* in Bind).
OneHistory ==
    \A r, s \in Run :
        NodeOf(r) = NodeOf(s) /\ bound[r] # None /\ bound[s] # None => bound[r] = bound[s]

=============================================================================
