----------------------------- MODULE Discovery ------------------------------
(***************************************************************************)
(* Scans of a project and the project's deletion: discovery.Manager with   *)
(* one goroutine per job (src/backend/internal/discovery/manager.go), the  *)
(* rows of discovery_jobs, and the handlers that create and cancel jobs,   *)
(* use the project's SOCKS tunnel and delete the project                   *)
(* (src/backend/internal/api/api.go).                                      *)
(*                                                                         *)
(* Every statement on the store, every call to the node and every critical *)
(* section of Manager.mu is one action.  A call that fails, or is cut      *)
(* short by a cancellation, may take effect at any later time.  One        *)
(* project; jobs are numbered in the order in which they are created; a    *)
(* scan consists of Probes results, each consumed and saved in one step.   *)
(***************************************************************************)
EXTENDS Integers

CONSTANTS
    Handlers,   \* requests a behaviour may contain
    Nobody,     \* resourceMu is free
    Probes,     \* results a full scan has
    MaxJobs,    \* bound: jobs created
    MaxRestarts \* bound: restarts of the process

ASSUME SizeAssumption ==
    /\ Probes \in Nat \ {0}
    /\ MaxJobs \in Nat \ {0}
    /\ MaxRestarts \in Nat

ASSUME NobodyAssumption == Nobody \notin Handlers

VARIABLES
    project,   \* the row of the project is there
    made,      \* how many jobs have been created
    status,    \* discovery_jobs.status, "none" when there is no such row
    done,      \* results of each job consumed so far
    stage,     \* where the goroutine of each job is
    listed,    \* Manager.cancels and Manager.finished have the job
    cancelled, \* the context of the job's goroutine is cancelled
    tunnel,    \* node: who started the SOCKS tunnel that runs, or Down
    late,      \* node: calls given up, as the value they would give to tunnel
    mutex,     \* server.resourceMu
    pc,        \* where each handler is
    cur,       \* the job it works on
    queue,     \* deleteProject: jobs still to cancel
    missed,    \* history: jobs a cancel request looked for and did not find
    stranded,  \* history: live jobs a restart or an abandoned cancellation left
    restarts   \* how often the process has restarted

jobVars == <<made, status, done>>
managerVars == <<stage, listed, cancelled>>
nodeVars == <<tunnel, late>>
handlerVars == <<mutex, pc, cur, queue>>
vars == <<project, jobVars, managerVars, nodeVars, handlerVars, missed, stranded, restarts>>

Jobs == 1..MaxJobs

\* The tunnel does not run; or what else than a job at work has started it: an
\* operator, a request, or a start that a request or a job had given up.
Down == 0
Operator == -1
Visitor == -2
LateVisit == -3
LateScan == -4

Live == {"queued", "running"}
Ended == {"completed", "failed", "canceled"}

TypeOK ==
    /\ project \in BOOLEAN
    /\ made \in 0..MaxJobs
    /\ status \in [Jobs -> {"none"} \cup Live \cup Ended]
    /\ done \in [Jobs -> 0..Probes]
    /\ stage \in [Jobs -> {"none", "begin", "tunnel", "starting", "failing", "probing", "canceling",
                           "completing", "exit"}]
    /\ listed \in [Jobs -> BOOLEAN]
    /\ cancelled \in [Jobs -> BOOLEAN]
    /\ tunnel \in {Down, Operator, Visitor, LateVisit, LateScan} \cup Jobs
    /\ late \in SUBSET {Down, LateVisit, LateScan}
    /\ mutex \in Handlers \cup {Nobody}
    /\ pc \in [Handlers -> {"free", "queued", "opening", "starting", "signal", "waiting", "marking",
                            "next", "stopping", "deleting",
                            "answered", "canceled", "cancelfailed"}]
    /\ cur \in [Handlers -> Jobs]
    /\ queue \in [Handlers -> SUBSET Jobs]
    /\ missed \in SUBSET Jobs
    /\ stranded \in SUBSET Jobs
    /\ restarts \in 0..MaxRestarts

Init ==
    /\ project = TRUE
    /\ made = 0
    /\ status = [j \in Jobs |-> "none"]
    /\ done = [j \in Jobs |-> 0]
    /\ stage = [j \in Jobs |-> "none"]
    /\ listed = [j \in Jobs |-> FALSE]
    /\ cancelled = [j \in Jobs |-> FALSE]
    /\ tunnel = Down
    /\ late = {}
    /\ mutex = Nobody
    /\ pc = [h \in Handlers |-> "free"]
    /\ cur = [h \in Handlers |-> 1]
    /\ queue = [h \in Handlers |-> {}]
    /\ missed = {}
    /\ stranded = {}
    /\ restarts = 0

-----------------------------------------------------------------------------
\* The handler answers; resourceMu is released when it has it.
Answers(h, result) ==
    /\ pc' = [pc EXCEPT ![h] = result]
    /\ mutex' = IF mutex = h THEN Nobody ELSE mutex
    /\ queue' = [queue EXCEPT ![h] = {}]
    /\ UNCHANGED cur

Goes(h, place) == pc' = [pc EXCEPT ![h] = place] /\ UNCHANGED <<mutex, cur, queue>>

\* resourceMu.Lock at the top of a handler.
Locks(h, place) ==
    /\ pc[h] = "free" /\ mutex = Nobody
    /\ pc' = [pc EXCEPT ![h] = place]
    /\ mutex' = h

\* Mistake: the guard on the present status is missing.
WritesAnyState(j, new) == status' = [status EXCEPT ![j] = new]

\* SetDiscoveryJobState changes jobs that are queued or running; that there is
\* no such row is an error, which some callers look at.
WritesState(j, new) ==
    status' = IF status[j] \in Live THEN [status EXCEPT ![j] = new] ELSE status

\* The node starts the tunnel, for whom.
StartedBy(who) == tunnel' = IF tunnel = Down THEN who ELSE tunnel

\* A call to start or stop it fails, for now without effect.
GivesUp(effect) == late' = late \cup {effect} /\ UNCHANGED tunnel

Continues(j, place) == stage' = [stage EXCEPT ![j] = place] /\ UNCHANGED <<listed, cancelled>>

-----------------------------------------------------------------------------
(* createDiscoveryJob: CreateDiscoveryJob, then Manager.Start. *)

CreatesJob(h) ==
    /\ Locks(h, "queued")
    /\ project
    /\ made < MaxJobs
    /\ made' = made + 1
    /\ status' = [status EXCEPT ![made'] = "queued"]
    /\ cur' = [cur EXCEPT ![h] = made']
    /\ UNCHANGED <<project, done, managerVars, nodeVars, queue, missed, stranded, restarts>>

\* Start registers the job and its goroutine, or finds the scope too large.
Starts(h) ==
    /\ pc[h] = "queued"
    /\ Answers(h, "answered")
    /\ \/ /\ stage' = [stage EXCEPT ![cur[h]] = "begin"]
          /\ listed' = [listed EXCEPT ![cur[h]] = TRUE]
          /\ UNCHANGED <<cancelled, status>>
       \/ WritesState(cur[h], "failed") /\ UNCHANGED managerVars
    /\ UNCHANGED <<project, made, done, nodeVars, missed, stranded, restarts>>

-----------------------------------------------------------------------------
(* Manager.run, the goroutine of a job. *)

\* Mistake: the early return passes the deferred cleanup by.
BeginsUncleaned(j) ==
    /\ stage[j] = "begin"
    /\ IF cancelled[j] \/ status[j] \notin Live
         THEN Continues(j, "none") /\ UNCHANGED status
         ELSE Continues(j, "tunnel") /\ WritesState(j, "running")
    /\ UNCHANGED <<project, made, done, nodeVars, handlerVars, missed, stranded, restarts>>

\* The first write is under the job's context: nothing is written when it is
\* cancelled, and the goroutine ends then as when the row is no longer live.
Begins(j) ==
    /\ stage[j] = "begin"
    /\ IF cancelled[j] \/ status[j] \notin Live
         THEN Continues(j, "exit") /\ UNCHANGED status
         ELSE Continues(j, "tunnel") /\ WritesState(j, "running")
    /\ UNCHANGED <<project, made, done, nodeVars, handlerVars, missed, stranded, restarts>>

\* SetManagedTunnel(true) asks for the state first: there is nothing to start
\* when the tunnel runs.  The calls before and after it may fail as well.
InspectsTunnel(j) ==
    /\ stage[j] = "tunnel"
    /\ \/ ~cancelled[j] /\ Continues(j, IF tunnel = Down THEN "starting" ELSE "probing")
       \/ Continues(j, "failing")
    /\ UNCHANGED <<project, jobVars, nodeVars, handlerVars, missed, stranded, restarts>>

\* The call that starts the tunnel, and SOCKSRoute.  It may fail, or be cut short
\* by the cancellation, before or after the node has acted on it.
OpensTunnel(j) ==
    /\ stage[j] = "starting"
    /\ \/ ~cancelled[j] /\ StartedBy(j) /\ Continues(j, "probing") /\ UNCHANGED late
       \/ StartedBy(j) /\ Continues(j, "failing") /\ UNCHANGED late
       \/ GivesUp(LateScan) /\ Continues(j, "failing")
    /\ UNCHANGED <<project, jobVars, handlerVars, missed, stranded, restarts>>

Fails(j) ==
    /\ stage[j] = "failing"
    /\ WritesState(j, "failed")
    /\ Continues(j, "exit")
    /\ UNCHANGED <<project, made, done, nodeVars, handlerVars, missed, stranded, restarts>>

\* Mistake: a host of the scope is counted twice.
TakesTooMany(j) ==
    /\ stage[j] = "probing" /\ done[j] <= Probes
    /\ done' = [done EXCEPT ![j] = @ + 1]
    /\ WritesState(j, "running")
    /\ UNCHANGED <<project, made, managerVars, nodeVars, handlerVars, missed, stranded, restarts>>

\* A result is saved, and the progress with it; results that probes had already
\* sent are still consumed after the cancellation.
TakesResult(j) ==
    /\ stage[j] = "probing" /\ done[j] < Probes
    /\ done' = [done EXCEPT ![j] = @ + 1]
    /\ WritesState(j, "running")
    /\ UNCHANGED <<project, made, managerVars, nodeVars, handlerVars, missed, stranded, restarts>>

\* Mistake: that the results are closed is taken for a full scan.
EndsUnchecked(j) ==
    /\ stage[j] = "probing"
    /\ done[j] = Probes \/ cancelled[j]
    /\ Continues(j, "completing")
    /\ UNCHANGED <<project, jobVars, nodeVars, handlerVars, missed, stranded, restarts>>

\* The channel of results is closed when every probe is done or, after the
\* cancellation, earlier; the context is looked at before the last write.
EndsProbing(j) ==
    /\ stage[j] = "probing"
    /\ done[j] = Probes \/ cancelled[j]
    /\ Continues(j, IF cancelled[j] THEN "canceling" ELSE "completing")
    /\ UNCHANGED <<project, jobVars, nodeVars, handlerVars, missed, stranded, restarts>>

WritesEnd(j) ==
    /\ \/ stage[j] = "canceling" /\ WritesState(j, "canceled")
       \/ stage[j] = "completing" /\ WritesState(j, "completed")
    /\ Continues(j, "exit")
    /\ UNCHANGED <<project, made, done, nodeVars, handlerVars, missed, stranded, restarts>>

\* The deferred cleanup: the job leaves the maps, and who waits for it goes on.
Exits(j) ==
    /\ stage[j] = "exit"
    /\ stage' = [stage EXCEPT ![j] = "none"]
    /\ listed' = [listed EXCEPT ![j] = FALSE]
    /\ UNCHANGED <<project, jobVars, cancelled, nodeVars, handlerVars, missed, stranded, restarts>>

-----------------------------------------------------------------------------
(* Manager.Cancel, then SetDiscoveryJobState(canceled): cancelDiscoveryJob does *)
(* so for one job and without resourceMu, deleteProject with it, for each of    *)
(* the jobs it has read as live.                                                *)

Deletes(h) == mutex = h

CancelReads(h, j) ==
    /\ pc[h] = "free"
    /\ status[j] # "none"
    /\ pc' = [pc EXCEPT ![h] = "signal"]
    /\ cur' = [cur EXCEPT ![h] = j]
    /\ UNCHANGED <<project, jobVars, managerVars, nodeVars, mutex, queue, missed, stranded, restarts>>

\* Mistake: the handler does not wait for the goroutine.
SignalsOnly(h) ==
    /\ pc[h] = "signal"
    /\ cancelled' = [cancelled EXCEPT ![cur[h]] = listed[cur[h]]]
    /\ Goes(h, "marking")
    /\ UNCHANGED <<project, jobVars, stage, listed, nodeVars, missed, stranded, restarts>>

\* A job that is not listed is not waited for, whatever the reason.
Signals(h) ==
    /\ pc[h] = "signal"
    /\ IF listed[cur[h]]
         THEN /\ cancelled' = [cancelled EXCEPT ![cur[h]] = TRUE]
              /\ Goes(h, "waiting")
              /\ UNCHANGED missed
         ELSE /\ Goes(h, "marking")
              /\ missed' = IF Deletes(h) THEN missed ELSE missed \cup {cur[h]}
              /\ UNCHANGED cancelled
    /\ UNCHANGED <<project, jobVars, stage, listed, nodeVars, stranded, restarts>>

Waits(h) ==
    /\ pc[h] = "waiting"
    /\ ~listed[cur[h]]
    /\ Goes(h, "marking")
    /\ UNCHANGED <<project, jobVars, managerVars, nodeVars, missed, stranded, restarts>>

\* Mistake: no error is looked at.
MarksUnchecked(h) ==
    /\ pc[h] = "marking"
    /\ WritesState(cur[h], "canceled") \/ UNCHANGED status
    /\ IF Deletes(h) THEN Goes(h, "next") ELSE Answers(h, "canceled")
    /\ UNCHANGED <<project, made, done, managerVars, nodeVars, missed, stranded, restarts>>

\* cancelDiscoveryJob ignores that the row is no longer live, deleteProject
\* answers an error then.  The statement fails when the client has hung up.
Marks(h) ==
    /\ pc[h] = "marking"
    /\ \/ /\ WritesState(cur[h], "canceled")
          /\ IF ~Deletes(h) THEN Answers(h, "canceled")
             ELSE IF status[cur[h]] \in Live THEN Goes(h, "next")
             ELSE Answers(h, "cancelfailed")
          /\ UNCHANGED stranded
       \/ /\ Answers(h, "answered")
          /\ stranded' = stranded \cup ({cur[h]} \cap {j \in Jobs : status[j] \in Live})
          /\ UNCHANGED status
    /\ UNCHANGED <<project, made, done, managerVars, nodeVars, missed, restarts>>

-----------------------------------------------------------------------------
(* deleteProject *)

DeleteReads(h) ==
    /\ Locks(h, "next")
    /\ project
    /\ queue' = [queue EXCEPT ![h] = {j \in Jobs : status[j] \in Live}]
    /\ UNCHANGED <<project, jobVars, managerVars, nodeVars, cur, missed, stranded, restarts>>

TakesJob(h) ==
    /\ pc[h] = "next"
    /\ \E j \in queue[h] :
         /\ cur' = [cur EXCEPT ![h] = j]
         /\ queue' = [queue EXCEPT ![h] = @ \ {j}]
    /\ pc' = [pc EXCEPT ![h] = "signal"]
    /\ UNCHANGED <<project, jobVars, managerVars, nodeVars, mutex, missed, stranded, restarts>>

\* SetManagedTunnel(false) asks for the state first, too.
StopInspects(h) ==
    /\ pc[h] = "next" /\ queue[h] = {}
    /\ \/ Goes(h, IF tunnel = Down THEN "deleting" ELSE "stopping")
       \/ Answers(h, "answered")
    /\ UNCHANGED <<project, jobVars, managerVars, nodeVars, missed, stranded, restarts>>

\* Mistake: the project goes although its tunnel may run.
StopsUnchecked(h) ==
    /\ pc[h] = "stopping"
    /\ Goes(h, "deleting")
    /\ tunnel' = Down \/ UNCHANGED tunnel
    /\ UNCHANGED <<project, jobVars, managerVars, late, missed, stranded, restarts>>

Stops(h) ==
    /\ pc[h] = "stopping"
    /\ \/ Goes(h, "deleting") /\ tunnel' = Down /\ UNCHANGED late
       \/ Answers(h, "answered") /\ tunnel' = Down /\ UNCHANGED late
       \/ Answers(h, "answered") /\ GivesUp(Down)
    /\ UNCHANGED <<project, jobVars, managerVars, missed, stranded, restarts>>

\* Store.DeleteProject: not with a live job; the jobs go with the project.
DeletesProject(h) ==
    /\ pc[h] = "deleting"
    /\ \/ /\ \A j \in Jobs : status[j] \notin Live
          /\ project' = FALSE
          /\ status' = [j \in Jobs |-> "none"]
       \/ UNCHANGED <<project, status>>
    /\ Answers(h, "answered")
    /\ UNCHANGED <<made, done, managerVars, nodeVars, missed, stranded, restarts>>

-----------------------------------------------------------------------------
(* Others who start or stop the tunnel. *)

\* createAccessSession and verifyDevice start it for a project that is there.
UsesProject(h) ==
    /\ Locks(h, "opening")
    /\ project
    /\ UNCHANGED <<project, jobVars, managerVars, nodeVars, cur, queue, missed, stranded, restarts>>

VisitInspects(h) ==
    /\ pc[h] = "opening"
    /\ \/ tunnel = Down /\ Goes(h, "starting")
       \/ Answers(h, "answered")
    /\ UNCHANGED <<project, jobVars, managerVars, nodeVars, missed, stranded, restarts>>

UsesTunnel(h) ==
    /\ pc[h] = "starting"
    /\ \/ StartedBy(Visitor) /\ UNCHANGED late
       \/ GivesUp(LateVisit)
    /\ Answers(h, "answered")
    /\ UNCHANGED <<project, jobVars, managerVars, missed, stranded, restarts>>

\* setManagedTunnel: any client of the node, at any time.
OperatesTunnel ==
    /\ StartedBy(Operator) \/ tunnel' = Down
    /\ UNCHANGED <<project, jobVars, managerVars, late, handlerVars, missed, stranded, restarts>>

\* A call that was given up takes effect.
LateCall ==
    /\ \E effect \in late :
         /\ late' = late \ {effect}
         /\ IF effect = Down THEN tunnel' = Down ELSE StartedBy(effect)
    /\ UNCHANGED <<project, jobVars, managerVars, handlerVars, missed, stranded, restarts>>

\* The process stops and starts again: nothing takes the live rows up.
Restart ==
    /\ restarts < MaxRestarts
    /\ restarts' = restarts + 1
    /\ stage' = [j \in Jobs |-> "none"]
    /\ listed' = [j \in Jobs |-> FALSE]
    /\ cancelled' = [j \in Jobs |-> FALSE]
    /\ mutex' = Nobody
    /\ pc' = [h \in Handlers |-> IF pc[h] \in {"free", "canceled", "cancelfailed"}
                                 THEN pc[h] ELSE "answered"]
    /\ queue' = [h \in Handlers |-> {}]
    /\ stranded' = stranded \cup {j \in Jobs : status[j] \in Live}
    /\ UNCHANGED <<project, jobVars, nodeVars, cur, missed>>

Worker(j) ==
    Begins(j) \/ InspectsTunnel(j) \/ OpensTunnel(j) \/ Fails(j) \/ TakesResult(j) \/ EndsProbing(j) \/ WritesEnd(j)
      \/ Exits(j)

\* What a handler does once it has begun.
Handler(h) ==
    Starts(h) \/ Signals(h) \/ Waits(h) \/ Marks(h) \/ TakesJob(h) \/ StopInspects(h)
      \/ Stops(h) \/ DeletesProject(h) \/ VisitInspects(h) \/ UsesTunnel(h)

Next ==
    \/ \E j \in Jobs : Worker(j)
    \/ \E h \in Handlers :
         \/ Handler(h)
         \/ CreatesJob(h)
         \/ \E j \in Jobs : CancelReads(h, j)
         \/ DeleteReads(h)
         \/ UsesProject(h)
    \/ OperatesTunnel
    \/ LateCall
    \/ Restart

Spec == Init /\ [][Next]_vars

\* Goroutines run; calls to the store and the node and probes have deadlines.
Fairness ==
    /\ \A j \in Jobs : WF_vars(Worker(j))
    /\ \A h \in Handlers : WF_vars(Handler(h))

FairSpec == Spec /\ Fairness

-----------------------------------------------------------------------------
(* Properties. *)

\* The goroutine of the job can still start the tunnel or save results.
Active(j) == stage[j] \in {"tunnel", "starting", "probing"}

\* Once the project is deleted no scan of it is at work; the one exception is a
\* scan that was being created while a request cancelled it.
DeletionWaitsForScans == \A j \in Jobs : ~project /\ Active(j) => j \in missed

\* The tunnel of a deleted project runs only if an operator or such a scan has
\* started it, or the node has acted late on a start that was given up: the
\* deletion does not end while anybody else's start is still to be undone.
TunnelStaysDown ==
    ~project => tunnel \in {Down, Operator, LateVisit, LateScan} \cup missed

\* A job is completed only with all its results, however late it is cancelled.
CompletedMeansScanned == \A j \in Jobs : status[j] = "completed" => done[j] = Probes

\* Once a request has been told that its job is canceled the job is never live
\* again, whatever its goroutine still writes, and the goroutine is at its end.
CancelEnds ==
    \A h \in Handlers : pc[h] = "canceled" =>
        status[cur[h]] \notin Live /\ (Active(cur[h]) => cur[h] \in missed)

\* The comment in Manager.Cancel, for every scan.
DeletionWaitsForEveryScan == ~project => \A j \in Jobs : ~Active(j)

\* deleteProject says that it could not cancel a scan only when the scan goes on.
DeletionCancelsScans ==
    \A h \in Handlers : pc[h] = "cancelfailed" => status[cur[h]] \in Live

\* A job ends, unless a restart or an abandoned cancellation leaves it behind.
ScansEnd == \A j \in Jobs : status[j] \in Live ~> status[j] \notin Live \/ j \in stranded

\* resourceMu is not held for ever, although its holder waits for scans.
MutexIsReleased == \A h \in Handlers : mutex = h ~> mutex # h

=============================================================================
