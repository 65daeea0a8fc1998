---------------------------- MODULE PortForwards ----------------------------
(***************************************************************************)
(* Port forwards: the rows of port_forwards, the tasks that stand for them *)
(* on an access node, the handlers that create, start, stop and delete     *)
(* them, the handlers that close every forward of a device before changing *)
(* or deleting it, and the sweep that releases expired ones                *)
(* (src/backend/internal/api/api.go, store/port_forwards.go,               *)
(* nodeadapter/adapter.go, lifecycle/manager.go).                          *)
(*                                                                         *)
(* Every statement on the store is one action, and so is every call to the *)
(* node.  A call that fails, because its client hung up or its time was up *)
(* or its answer was lost, may take effect at any later time, even after   *)
(* the platform has restarted; a statement under the request's context may *)
(* fail when the client hangs up.  One node and its port pool; rows and    *)
(* tasks are numbered in the order in which they are made, and numbers are *)
(* not used twice.                                                         *)
(***************************************************************************)
EXTENDS Integers

CONSTANTS
    Handlers,    \* requests a behaviour may contain
    Sweeper,     \* the goroutine of lifecycle.Manager
    Endpoints,   \* endpoints of devices that can be forwarded to
    Targets,     \* host:port values an endpoint can have
    Ports,       \* the node's port pool
    Nobody,      \* resourceMu is free
    Gone,        \* the endpoint has been deleted
    MaxForwards, \* bound: rows made
    MaxTasks,    \* bound: tasks the node makes
    MaxRestarts  \* bound: restarts of the process

ASSUME SizeAssumption ==
    /\ MaxForwards \in Nat \ {0}
    /\ MaxTasks \in Nat
    /\ MaxRestarts \in Nat

ASSUME NameAssumption ==
    /\ Endpoints # {} /\ Targets # {} /\ Ports # {}
    /\ Sweeper \notin Handlers
    /\ Nobody \notin Handlers
    /\ Gone \notin Targets

VARIABLES
    made,       \* how many rows have been made
    status,     \* port_forwards.status, "none" when there is no such row
    endpoint,   \* port_forwards.endpoint_id
    port,       \* port_forwards.server_port
    task,       \* port_forwards.node_task_id, or NoTask
    expiry,     \* expires_at: absent, in the future, or passed
    target,     \* host and port of each endpoint
    issued,     \* node: how many tasks it has made
    up,         \* node: whether a task is there and runs
    taskPort,   \* node: the port a task listens on
    taskTarget, \* node: where it forwards to
    late,       \* calls given up by each process, as <<task, state it asks for>>
    lateAdds,   \* the same of /index/add/, as <<port, target>>
    mutex,      \* server.resourceMu
    pc,         \* where each handler and the sweep is
    cur,        \* the forward it works on
    ref,        \* the task reference it read or was given; while it verifies,
                \* the task the node has made for it
    queue,      \* rows still to release, as <<forward, task reference>>
    scope,      \* the endpoints of the device (or project) being closed
    goal,       \* running or stopped, for a start or stop request
    lost,       \* history: tasks a failure of the node or a restart cost
    stray,      \* history: tasks that the node made after the call was given up
    restarts    \* how often the process has restarted

rowVars == <<made, status, endpoint, port, task, expiry>>
nodeVars == <<issued, up, taskPort, taskTarget>>
lateVars == <<late, lateAdds, stray>>
localVars == <<cur, ref, queue, scope, goal>>
procVars == <<mutex, pc, localVars>>
vars == <<rowVars, target, nodeVars, lateVars, procVars, lost, restarts>>

Forwards == 1..MaxForwards
Tasks == 1..MaxTasks
NoTask == 0
Procs == Handlers \cup {Sweeper}

Calls == Tasks \X {"running", "stopped", "absent"}

Stage == {"free", "reserved", "adding", "verifying", "starting", "created", "release",
          "rollback", "unreserve", "setting", "recording", "next", "task", "row",
          "answered"}

TypeOK ==
    /\ made \in 0..MaxForwards
    /\ status \in [Forwards -> {"none", "provisioning", "running", "stopped", "cleanup_failed"}]
    /\ endpoint \in [Forwards -> Endpoints]
    /\ port \in [Forwards -> Ports]
    /\ task \in [Forwards -> Tasks \cup {NoTask}]
    /\ expiry \in [Forwards -> {"never", "pending", "past"}]
    /\ target \in [Endpoints -> Targets \cup {Gone}]
    /\ issued \in 0..MaxTasks
    /\ up \in [Tasks -> {"absent", "stopped", "running"}]
    /\ taskPort \in [Tasks -> Ports]
    /\ taskTarget \in [Tasks -> Targets]
    /\ late \in [Procs -> SUBSET Calls]
    /\ lateAdds \in [Handlers -> SUBSET (Ports \X Targets)]
    /\ mutex \in Handlers \cup {Nobody}
    /\ pc \in [Procs -> Stage]
    /\ cur \in [Procs -> Forwards]
    /\ ref \in [Procs -> Tasks \cup {NoTask}]
    /\ queue \in [Procs -> SUBSET (Forwards \X (Tasks \cup {NoTask}))]
    /\ scope \in [Handlers -> SUBSET Endpoints]
    /\ goal \in [Handlers -> {"running", "stopped"}]
    /\ lost \in SUBSET Tasks
    /\ stray \in SUBSET Tasks
    /\ restarts \in 0..MaxRestarts

Init ==
    /\ made = 0
    /\ status = [f \in Forwards |-> "none"]
    /\ endpoint = [f \in Forwards |-> CHOOSE e \in Endpoints : TRUE]
    /\ port = [f \in Forwards |-> CHOOSE p \in Ports : TRUE]
    /\ task = [f \in Forwards |-> NoTask]
    /\ expiry = [f \in Forwards |-> "never"]
    /\ target \in [Endpoints -> Targets]
    /\ issued = 0
    /\ up = [t \in Tasks |-> "absent"]
    /\ taskPort = [t \in Tasks |-> CHOOSE p \in Ports : TRUE]
    /\ taskTarget = [t \in Tasks |-> CHOOSE g \in Targets : TRUE]
    /\ late = [p \in Procs |-> {}]
    /\ lateAdds = [h \in Handlers |-> {}]
    /\ stray = {}
    /\ mutex = Nobody
    /\ pc = [p \in Procs |-> "free"]
    /\ cur = [p \in Procs |-> 1]
    /\ ref = [p \in Procs |-> NoTask]
    /\ queue = [p \in Procs |-> {}]
    /\ scope = [h \in Handlers |-> {}]
    /\ goal = [h \in Handlers |-> "running"]
    /\ lost = {}
    /\ restarts = 0

-----------------------------------------------------------------------------
Row(f) == status[f] # "none"
OnNode(t) == up[t] # "absent"

\* Mistake: the port alone is compared.
FitsPort(t, f) == taskPort[t] = port[f]

\* What CreatePortForward compares: port, target and client of a task.
Fits(t, f) == taskPort[t] = port[f] /\ taskTarget[t] = target[endpoint[f]]

\* Mistake: the handler goes on without the lock.
SkipsMutex(h) == UNCHANGED mutex

\* resourceMu.Lock at the top of a handler.
TakesMutex(h) == mutex = Nobody /\ mutex' = h

\* The handler answers, releases the mutex if it has it, and its variables go
\* with it.
Answers(h) ==
    /\ pc' = [pc EXCEPT ![h] = "answered"]
    /\ mutex' = IF mutex = h THEN Nobody ELSE mutex
    /\ cur' = [cur EXCEPT ![h] = 1]
    /\ ref' = [ref EXCEPT ![h] = NoTask]
    /\ queue' = [queue EXCEPT ![h] = {}]
    /\ scope' = [scope EXCEPT ![h] = {}]
    /\ goal' = [goal EXCEPT ![h] = "running"]

Moves(p, stage) == pc' = [pc EXCEPT ![p] = stage] /\ UNCHANGED mutex

Goes(p, stage) == Moves(p, stage) /\ UNCHANGED localVars

RowGoes(f) == status' = [status EXCEPT ![f] = "none"]

\* A call to set a task to a state, or to delete it, fails.
GivesUp(p, t, state) == late' = [late EXCEPT ![p] = @ \cup {<<t, state>>}]

-----------------------------------------------------------------------------
(* createPortForward: reserve a row, have the node make the task, activate. *)

\* ReservePortForward: the unique indexes of port_forwards leave one row per
\* endpoint and one per port; the port is asked for or the first free one.
Reserve(h, e, p, x) ==
    /\ pc[h] = "free"
    /\ TakesMutex(h)
    /\ made < MaxForwards
    /\ target[e] # Gone
    /\ \A f \in Forwards : Row(f) => endpoint[f] # e /\ port[f] # p
    /\ made' = made + 1
    /\ status' = [status EXCEPT ![made'] = "provisioning"]
    /\ endpoint' = [endpoint EXCEPT ![made'] = e]
    /\ port' = [port EXCEPT ![made'] = p]
    /\ expiry' = [expiry EXCEPT ![made'] = x]
    /\ pc' = [pc EXCEPT ![h] = "reserved"]
    /\ cur' = [cur EXCEPT ![h] = made']
    /\ UNCHANGED <<task, target, nodeVars, lateVars, ref, queue, scope, goal, lost, restarts>>

\* Adapter.CreatePortForward, the inspection: a task on the port is adopted
\* when it fits, and an error when it does not; the query itself may fail.
CreateLooks(h) ==
    /\ pc[h] = "reserved"
    /\ \/ \E t \in Tasks :
            /\ OnNode(t) /\ Fits(t, cur[h])
            /\ ref' = [ref EXCEPT ![h] = t]
            /\ Moves(h, IF up[t] = "running" THEN "created" ELSE "starting")
       \/ /\ \A t \in Tasks : OnNode(t) => taskPort[t] # port[cur[h]]
          /\ Moves(h, "adding")
          /\ UNCHANGED ref
       \/ Moves(h, "release") /\ UNCHANGED ref
    /\ UNCHANGED <<rowVars, target, nodeVars, lateVars, cur, queue, scope, goal, lost, restarts>>

\* /index/add/: the node makes the task, in either state, or the call fails.
CreateAdds(h) ==
    /\ pc[h] = "adding"
    /\ \/ /\ issued < MaxTasks
          /\ issued' = issued + 1
          /\ taskPort' = [taskPort EXCEPT ![issued'] = port[cur[h]]]
          /\ taskTarget' = [taskTarget EXCEPT ![issued'] = target[endpoint[cur[h]]]]
          /\ \E state \in {"stopped", "running"} : up' = [up EXCEPT ![issued'] = state]
          /\ ref' = [ref EXCEPT ![h] = issued']
          /\ Moves(h, "verifying")
          /\ UNCHANGED lateAdds
       \/ /\ lateAdds' = [lateAdds EXCEPT
                            ![h] = @ \cup {<<port[cur[h]], target[endpoint[cur[h]]]>>}]
          /\ Moves(h, "release")
          /\ UNCHANGED <<nodeVars, ref>>
    /\ UNCHANGED <<rowVars, target, late, stray, cur, queue, scope, goal, lost, restarts>>

\* The query for the task just made takes the first one that fits, or fails.
CreateVerifies(h) ==
    /\ pc[h] = "verifying"
    /\ \/ \E t \in Tasks :
            /\ OnNode(t) /\ Fits(t, cur[h])
            /\ ref' = [ref EXCEPT ![h] = t]
            /\ lost' = lost \cup ({ref[h]} \ {t})
            /\ Moves(h, IF up[t] = "running" THEN "created" ELSE "starting")
       \/ Moves(h, "release") /\ lost' = lost \cup {ref[h]} /\ UNCHANGED ref
    /\ UNCHANGED <<rowVars, target, nodeVars, lateVars, cur, queue, scope, goal, restarts>>

\* SetPortForward(true): a task that cannot be started, or seen to run within
\* stateWait, stays on the node.
CreateStarts(h) ==
    /\ pc[h] = "starting"
    /\ \/ /\ OnNode(ref[h])
          /\ up' = [up EXCEPT ![ref[h]] = "running"]
          /\ Goes(h, "created")
          /\ UNCHANGED <<late, lost>>
       \/ /\ GivesUp(h, ref[h], "running")
          /\ lost' = lost \cup {ref[h]}
          /\ Goes(h, "release")
          /\ UNCHANGED up
    /\ UNCHANGED <<rowVars, target, issued, taskPort, taskTarget, lateAdds, stray, restarts>>

\* The node failed: the reservation goes, if it is still there.  The handler
\* ignores an error of the store.
Release(h) ==
    /\ pc[h] = "release"
    /\ RowGoes(cur[h]) \/ UNCHANGED status
    /\ Answers(h)
    /\ UNCHANGED <<made, endpoint, port, task, expiry, target, nodeVars, lateVars, lost,
                   restarts>>

\* ActivatePortForward: fails when the row is no longer there (or the client is
\* gone), and then the handler rolls back.
Activate(h) ==
    /\ pc[h] = "created"
    /\ \/ /\ status[cur[h]] = "provisioning"
          /\ status' = [status EXCEPT ![cur[h]] = "running"]
          /\ task' = [task EXCEPT ![cur[h]] = ref[h]]
          /\ Answers(h)
       \/ Goes(h, "rollback") /\ UNCHANGED <<status, task>>
    /\ UNCHANGED <<made, endpoint, port, expiry, target, nodeVars, lateVars, lost, restarts>>

\* Mistake: only the row is rolled back.
RollbackRowOnly(h) ==
    /\ pc[h] = "rollback"
    /\ Goes(h, "unreserve")
    /\ UNCHANGED <<rowVars, target, nodeVars, lateVars, lost, restarts>>

\* The node is asked to delete the task; the handler ignores the answer.
Rollback(h) ==
    /\ pc[h] = "rollback"
    /\ \/ up' = [up EXCEPT ![ref[h]] = "absent"] /\ UNCHANGED <<late, lost>>
       \/ /\ GivesUp(h, ref[h], "absent")
          /\ lost' = lost \cup {ref[h]}
          /\ UNCHANGED up
    /\ Goes(h, "unreserve")
    /\ UNCHANGED <<rowVars, target, issued, taskPort, taskTarget, lateAdds, stray, restarts>>

\* Its error is ignored as well.
Unreserve(h) ==
    /\ pc[h] = "unreserve"
    /\ RowGoes(cur[h]) \/ UNCHANGED status
    /\ Answers(h)
    /\ UNCHANGED <<made, endpoint, port, task, expiry, target, nodeVars, lateVars, lost,
                   restarts>>

-----------------------------------------------------------------------------
(* setPortForward: start or stop.  It does not take resourceMu. *)

SetReads(h, f, g) ==
    /\ pc[h] = "free"
    /\ Row(f) /\ task[f] # NoTask
    /\ cur' = [cur EXCEPT ![h] = f]
    /\ ref' = [ref EXCEPT ![h] = task[f]]
    /\ goal' = [goal EXCEPT ![h] = g]
    /\ Moves(h, "setting")
    /\ UNCHANGED <<rowVars, target, nodeVars, lateVars, queue, scope, lost, restarts>>

SetOnNode(h) ==
    /\ pc[h] = "setting"
    /\ \/ /\ OnNode(ref[h])
          /\ up' = [up EXCEPT ![ref[h]] = goal[h]]
          /\ Goes(h, "recording")
          /\ UNCHANGED late
       \/ GivesUp(h, ref[h], goal[h]) /\ Answers(h) /\ UNCHANGED up
    /\ UNCHANGED <<rowVars, target, issued, taskPort, taskTarget, lateAdds, stray, lost,
                   restarts>>

\* SetPortForwardStatus: whatever the status has become meanwhile.
SetRecords(h) ==
    /\ pc[h] = "recording"
    /\ \/ /\ Row(cur[h])
          /\ status' = [status EXCEPT ![cur[h]] = goal[h]]
          /\ Answers(h)
       \/ Answers(h) /\ UNCHANGED status
    /\ UNCHANGED <<made, endpoint, port, task, expiry, target, nodeVars, lateVars, lost, restarts>>

-----------------------------------------------------------------------------
(* Releasing forwards: one (deletePortForward, without resourceMu), those of  *)
(* a device (closeResourceSessions, with it) or the expired ones (Sweep,      *)
(* without it).  Each reads the rows first and works from what it has read.   *)

DeleteReads(h, f) ==
    /\ pc[h] = "free"
    /\ Row(f)
    /\ cur' = [cur EXCEPT ![h] = f]
    /\ ref' = [ref EXCEPT ![h] = task[f]]
    /\ Moves(h, IF task[f] = NoTask THEN "row" ELSE "task")
    /\ UNCHANGED <<rowVars, target, nodeVars, lateVars, queue, scope, goal, lost, restarts>>

CloseReads(h, E) ==
    /\ pc[h] = "free"
    /\ TakesMutex(h)
    /\ E # {} /\ \A e \in E : target[e] # Gone
    /\ pc' = [pc EXCEPT ![h] = "next"]
    /\ scope' = [scope EXCEPT ![h] = E]
    /\ queue' = [queue EXCEPT
                   ![h] = {<<f, task[f]>> : f \in {g \in Forwards : Row(g) /\ endpoint[g] \in E}}]
    /\ UNCHANGED <<rowVars, target, nodeVars, lateVars, cur, ref, goal, lost, restarts>>

\* Mistake: a forward whose cleanup failed is not listed again.
ExpiredOnce ==
    {f \in Forwards : status[f] \in {"provisioning", "running", "stopped"} /\ expiry[f] = "past"}

\* ListExpiredPortForwards lists the rows of every status.
Expired == {f \in Forwards : Row(f) /\ expiry[f] = "past"}

SweepReads ==
    /\ pc[Sweeper] = "free"
    /\ Expired # {}
    /\ queue' = [queue EXCEPT ![Sweeper] = {<<f, task[f]>> : f \in Expired}]
    /\ Moves(Sweeper, "next")
    /\ UNCHANGED <<rowVars, target, nodeVars, lateVars, cur, ref, scope, goal, lost, restarts>>

\* The loop of closeResourceSessions or Sweep takes the next row it has read.
TakeNext(p) ==
    /\ pc[p] = "next"
    /\ \E item \in queue[p] :
         /\ cur' = [cur EXCEPT ![p] = item[1]]
         /\ ref' = [ref EXCEPT ![p] = item[2]]
         /\ queue' = [queue EXCEPT ![p] = @ \ {item}]
         /\ Moves(p, IF item[2] = NoTask THEN "row" ELSE "task")
    /\ UNCHANGED <<rowVars, target, nodeVars, lateVars, scope, goal, lost, restarts>>

\* The node deletes the task, or answers so of a task it does not have.
TaskDeleted(p) ==
    /\ pc[p] = "task"
    /\ up' = [up EXCEPT ![ref[p]] = "absent"]
    /\ Goes(p, "row")
    /\ UNCHANGED <<rowVars, target, issued, taskPort, taskTarget, lateVars, lost, restarts>>

\* Mistake: the row goes although the node failed.
TaskKeptRowGoes(p) ==
    /\ pc[p] = "task"
    /\ Goes(p, "row")
    /\ UNCHANGED <<rowVars, target, nodeVars, lateVars, lost, restarts>>

\* Mistake: the row gets a status that the sweep does not look for.
MarksFailed(f) ==
    status' = IF Row(f) THEN [status EXCEPT ![f] = "failed"] ELSE status

MarksCleanupFailed(f) ==
    status' = IF Row(f) THEN [status EXCEPT ![f] = "cleanup_failed"] ELSE status

\* The node fails, or the answer is lost: a handler stops there, the sweep
\* marks the row and goes on to the next.
TaskKept(p) ==
    /\ pc[p] = "task"
    /\ GivesUp(p, ref[p], "absent")
    /\ IF p \in Handlers
         THEN Answers(p) /\ UNCHANGED status
         ELSE Goes(p, "next") /\ MarksCleanupFailed(cur[p])
    /\ UNCHANGED <<made, endpoint, port, task, expiry, target, nodeVars, lateAdds, stray,
                   lost, restarts>>

\* Store.DeletePortForward by identifier, whatever the row has become since it
\* was read.  A row that is gone is an error to a handler and not to the sweep.
RowDeleted(p) ==
    /\ pc[p] = "row"
    /\ \/ /\ Row(cur[p])
          /\ RowGoes(cur[p])
          /\ IF p \in Handlers /\ scope[p] = {} THEN Answers(p) ELSE Goes(p, "next")
       \/ /\ p \in Handlers
          /\ Answers(p)
          /\ UNCHANGED status
       \/ /\ p = Sweeper /\ ~Row(cur[p])
          /\ Goes(p, "next")
          /\ UNCHANGED status
    /\ UNCHANGED <<made, endpoint, port, task, expiry, target, nodeVars, lateVars, lost, restarts>>

\* updateDevice gives the device another address, deleteDevice (or
\* deleteProject) deletes its endpoints unless a forward refers to one.
CloseApplies(h) ==
    /\ pc[h] = "next" /\ queue[h] = {}
    /\ \/ /\ \E g \in Targets :
               target' = [e \in Endpoints |-> IF e \in scope[h] THEN g ELSE target[e]]
          /\ Answers(h)
       \/ /\ \A f \in Forwards : Row(f) => endpoint[f] \notin scope[h]
          /\ target' = [e \in Endpoints |-> IF e \in scope[h] THEN Gone ELSE target[e]]
          /\ Answers(h)
       \/ Answers(h) /\ UNCHANGED target
    /\ UNCHANGED <<rowVars, nodeVars, lateVars, lost, restarts>>

SweepEnds ==
    /\ pc[Sweeper] = "next" /\ queue[Sweeper] = {}
    /\ Goes(Sweeper, "free")
    /\ UNCHANGED <<rowVars, target, nodeVars, lateVars, lost, restarts>>

-----------------------------------------------------------------------------
Expires(f) ==
    /\ Row(f)
    /\ expiry[f] = "pending"
    /\ expiry' = [expiry EXCEPT ![f] = "past"]
    /\ UNCHANGED <<made, status, endpoint, port, task, target, nodeVars, lateVars, procVars,
                   lost, restarts>>

\* A call that was given up takes effect.
LateCall(p) ==
    /\ \E c \in late[p] :
         /\ OnNode(c[1])
         /\ up' = [up EXCEPT ![c[1]] = c[2]]
         /\ late' = [late EXCEPT ![p] = @ \ {c}]
    /\ UNCHANGED <<rowVars, target, issued, taskPort, taskTarget, lateAdds, stray, procVars,
                   lost, restarts>>

\* The node makes a task that nobody waits for any more.
LateAdd(h) ==
    /\ issued < MaxTasks
    /\ issued' = issued + 1
    /\ \E add \in lateAdds[h] :
         /\ taskPort' = [taskPort EXCEPT ![issued'] = add[1]]
         /\ taskTarget' = [taskTarget EXCEPT ![issued'] = add[2]]
         /\ lateAdds' = [lateAdds EXCEPT ![h] = @ \ {add}]
    /\ \E state \in {"stopped", "running"} : up' = [up EXCEPT ![issued'] = state]
    /\ lost' = lost \cup {issued'}
    /\ stray' = stray \cup {issued'}
    /\ UNCHANGED <<rowVars, target, late, procVars, restarts>>

\* Tasks that a handler creating a forward has been given and no row has yet.
Held(t) == \E h \in Handlers : ref[h] = t /\ pc[h] \in {"verifying", "starting", "created", "rollback"}

\* The process stops, handlers unanswered, and starts again: rows and node stay.
Restart ==
    /\ restarts < MaxRestarts
    /\ restarts' = restarts + 1
    /\ lost' = lost \cup {t \in Tasks : Held(t)}
    /\ pc' = [p \in Procs |-> IF p = Sweeper \/ pc[p] = "free" THEN "free"
                               ELSE "answered"]
    /\ mutex' = Nobody
    /\ cur' = [p \in Procs |-> 1]
    /\ ref' = [p \in Procs |-> NoTask]
    /\ queue' = [p \in Procs |-> {}]
    /\ scope' = [h \in Handlers |-> {}]
    /\ goal' = [h \in Handlers |-> "running"]
    /\ UNCHANGED <<rowVars, target, nodeVars, lateVars>>

Next ==
    \/ \E h \in Handlers :
         \/ \E e \in Endpoints, p \in Ports, x \in {"never", "pending"} : Reserve(h, e, p, x)
         \/ CreateLooks(h)
         \/ CreateAdds(h)
         \/ CreateVerifies(h)
         \/ CreateStarts(h)
         \/ Release(h)
         \/ Activate(h)
         \/ Rollback(h)
         \/ Unreserve(h)
         \/ \E f \in Forwards, g \in {"running", "stopped"} : SetReads(h, f, g)
         \/ SetOnNode(h)
         \/ SetRecords(h)
         \/ \E f \in Forwards : DeleteReads(h, f)
         \/ \E E \in SUBSET Endpoints : CloseReads(h, E)
         \/ CloseApplies(h)
         \/ LateAdd(h)
    \/ SweepReads
    \/ SweepEnds
    \/ \E p \in Procs : TakeNext(p) \/ TaskDeleted(p) \/ TaskKept(p) \/ RowDeleted(p) \/ LateCall(p)
    \/ \E f \in Forwards : Expires(f)
    \/ Restart

Spec == Init /\ [][Next]_vars

\* The sweep's ticker and loop go on; the node, asked again and again for the
\* deletion of the same task, some day answers that it is done.
Fairness ==
    /\ WF_vars(SweepReads) /\ WF_vars(SweepEnds)
    /\ WF_vars(TakeNext(Sweeper)) /\ WF_vars(RowDeleted(Sweeper))
    /\ WF_vars(TaskDeleted(Sweeper) \/ TaskKept(Sweeper))
    /\ \A f \in Forwards : SF_vars(cur[Sweeper] = f /\ TaskDeleted(Sweeper))

FairSpec == Spec /\ Fairness

-----------------------------------------------------------------------------
(* Properties. *)

\* A row's reference is right whenever the node has the task: it listens on
\* the row's port and forwards to the endpoint's present address, though
\* devices are re-addressed and tasks adopted; and a row has no reference only
\* while it is provisioning.
ReferencesAreRight ==
    \A f \in Forwards : Row(f) =>
        /\ task[f] = NoTask <=> status[f] = "provisioning"
        /\ task[f] # NoTask /\ OnNode(task[f])
             => taskPort[task[f]] = port[f] /\ taskTarget[task[f]] = target[endpoint[f]]

\* Two tasks listen on one port only when one of them is the late effect of a
\* call that was given up: the handlers themselves never make a second, although
\* rows are deleted, and their ports given out again, while a create is under way.
OneTaskPerPort ==
    \A t, u \in Tasks :
        OnNode(t) /\ OnNode(u) /\ taskPort[t] = taskPort[u]
          => t = u \/ t \in stray \/ u \in stray

\* A task nobody answers for comes from a failed call to the node, a restart,
\* or the deletion of an activated row: nothing else in the handlers leaks one.
OrphansAreExplained ==
    \A t \in Tasks : OnNode(t) =>
        Held(t) \/ t \in lost \/ \E f \in Forwards : task[f] = t

\* An activated row goes while its task stays on the node only when whoever
\* deletes it had read the row before it was activated.
CleanupComesFirst ==
    [][\A f \in Forwards :
         Row(f) /\ ~Row(f)' /\ task[f] # NoTask /\ OnNode(task[f])
           => \E p \in Procs : pc[p] = "row" /\ cur[p] = f /\ ref[p] = NoTask]_vars

\* What the sweep's test says of it, and the change log of every cleanup: a
\* forward that had a task is released with its task, or kept.
ReleasedWithTheTask ==
    \A f \in Forwards :
        ~Row(f) /\ task[f] # NoTask /\ OnNode(task[f])
          => Held(task[f]) \/ \E g \in Forwards : Row(g) /\ task[g] = task[f]

\* An expired forward is released in the end, although deletions fail, their
\* answers are lost, and users start, stop and delete it meanwhile.
ExpiredIsReleased ==
    \A f \in Forwards : (Row(f) /\ expiry[f] = "past") ~> ~Row(f)

=============================================================================
