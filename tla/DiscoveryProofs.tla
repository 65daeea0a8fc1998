--------------------------- MODULE DiscoveryProofs ----------------------------
(***************************************************************************)
(* Theorems about Discovery, for any set of requests and any number of     *)
(* jobs, results and restarts.                                             *)
(***************************************************************************)
EXTENDS Discovery, TLAPS

-----------------------------------------------------------------------------
(* The inductive invariant. *)

\* Jobs are numbered as they are made, and whoever works on one works on one
\* that was made.
Numbered ==
    /\ \A j \in Jobs : j > made => status[j] = "none" /\ stage[j] = "none"
    /\ \A h \in Handlers :
          /\ pc[h] \in {"queued", "signal", "waiting", "marking", "canceled"}
               => cur[h] <= made
          /\ \A j \in queue[h] : j <= made

\* A job is in the maps of the manager exactly while its goroutine is there.
ListedHasGoroutine == \A j \in Jobs : listed[j] <=> stage[j] # "none"

\* No handler is about to start the goroutine of the job.
NotStarting(j) == \A h \in Handlers : pc[h] = "queued" => cur[h] # j

\* The handlers that have resourceMu, and what its holder relies on.
Holds(h) ==
    /\ pc[h] \in {"queued", "opening", "starting", "next", "stopping", "deleting"}
         => mutex = h
    /\ mutex = h => project /\ pc[h] \in {"queued", "opening", "starting", "next",
                                          "signal", "waiting", "marking",
                                          "stopping", "deleting"}
    /\ pc[h] = "queued" => stage[cur[h]] = "none"

\* A cancellation that has found the job waits for its goroutine, of which
\* there is only one; one that has not found it makes the job a missed one,
\* unless it holds resourceMu and the job cannot start any more.
Cancels(h) ==
    /\ pc[h] = "waiting" => NotStarting(cur[h])
    /\ pc[h] = "marking" =>
          cur[h] \in missed \/ (stage[cur[h]] = "none" /\ NotStarting(cur[h]))

\* The deletion of the project cancels the live jobs one after another.
Deletion(h) ==
    mutex = h =>
       /\ pc[h] = "next" => \A j \in Jobs : status[j] \in Live => j \in queue[h]
       /\ pc[h] \in {"signal", "waiting", "marking"} =>
             \A j \in Jobs : status[j] \in Live => j \in queue[h] \cup {cur[h]}
       /\ pc[h] \in {"stopping", "deleting"} => \A j \in Jobs : status[j] \notin Live
       /\ pc[h] = "deleting" =>
             tunnel \in {Down, Operator, LateVisit, LateScan} \cup missed

\* A goroutine at work whose job has been ended by somebody else was missed.
WorkIsLive == \A j \in Jobs : Active(j) /\ status[j] \notin Live => j \in missed

\* The jobs go with the project.
NoJobs == ~project => \A j \in Jobs : status[j] = "none"

\* A request that was told that its job is canceled.
Canceled(h) ==
    pc[h] = "canceled" =>
        status[cur[h]] \notin Live /\ (Active(cur[h]) => cur[h] \in missed)

CompletingIsScanned == \A j \in Jobs : stage[j] = "completing" => done[j] = Probes

IInv ==
    /\ TypeOK /\ Numbered /\ ListedHasGoroutine
    /\ \A h \in Handlers : Holds(h) /\ Cancels(h) /\ Deletion(h)
    /\ WorkIsLive /\ NoJobs /\ CompletingIsScanned
    /\ DeletionWaitsForScans /\ TunnelStaysDown /\ CompletedMeansScanned /\ CancelEnds

-----------------------------------------------------------------------------
(* Type correctness. *)

LEMMA Numbers ==
    /\ Jobs \subseteq Nat \ {0} /\ 1 \in Jobs /\ MaxJobs \in Nat /\ Probes \in Nat
    /\ \A n \in Nat : n < MaxJobs => n + 1 \in Jobs
    /\ Nobody \notin Handlers
    /\ Live = {"queued", "running"} /\ Ended = {"completed", "failed", "canceled"}
  BY SizeAssumption, NobodyAssumption DEF Jobs, Live, Ended

LEMMA WorkerTypes ==
    ASSUME TypeOK, NEW j \in Jobs, Worker(j)
    PROVE  TypeOK'
<1> USE Numbers
    DEF Worker, WritesState, Continues, StartedBy, GivesUp, handlerVars, jobVars,
        managerVars, nodeVars
<1>1. status' \in [Jobs -> {"none"} \cup Live \cup Ended]
  BY DEF TypeOK, Begins, InspectsTunnel, OpensTunnel, Fails, TakesResult, EndsProbing, WritesEnd,
     Exits
<1>2. done' \in [Jobs -> 0..Probes]
  BY DEF TypeOK, Begins, InspectsTunnel, OpensTunnel, Fails, TakesResult, EndsProbing, WritesEnd,
     Exits
<1>3. stage' \in [Jobs -> {"none", "begin", "tunnel", "starting", "failing",
                           "probing", "canceling", "completing", "exit"}]
  BY DEF TypeOK, Begins, InspectsTunnel, OpensTunnel, Fails, TakesResult, EndsProbing, WritesEnd,
     Exits
<1>4. listed' \in [Jobs -> BOOLEAN] /\ cancelled' \in [Jobs -> BOOLEAN]
  BY DEF TypeOK, Begins, InspectsTunnel, OpensTunnel, Fails, TakesResult, EndsProbing, WritesEnd,
     Exits
<1>5. /\ tunnel' \in {Down, Operator, Visitor, LateVisit, LateScan} \cup Jobs
      /\ late' \in SUBSET {Down, LateVisit, LateScan}
  BY DEF TypeOK, Begins, InspectsTunnel, OpensTunnel, Fails, TakesResult, EndsProbing, WritesEnd,
     Exits
<1>6. UNCHANGED <<project, made, handlerVars, missed, stranded, restarts>>
  BY DEF Begins, InspectsTunnel, OpensTunnel, Fails, TakesResult, EndsProbing, WritesEnd, Exits
<1> QED BY <1>1, <1>2, <1>3, <1>4, <1>5, <1>6 DEF TypeOK

Places == {"free", "queued", "opening", "starting", "signal", "waiting", "marking",
           "next", "stopping", "deleting", "answered", "canceled", "cancelfailed"}

\* A step of a handler that has begun, or its first one.
HandlerNext(h) ==
    \/ Handler(h)
    \/ CreatesJob(h)
    \/ \E j \in Jobs : CancelReads(h, j)
    \/ DeleteReads(h)
    \/ UsesProject(h)

LEMMA AnswersFacts ==
    ASSUME TypeOK, NEW h \in Handlers, NEW result \in Places, Answers(h, result)
    PROVE  /\ pc' \in [Handlers -> Places] /\ queue' \in [Handlers -> SUBSET Jobs]
           /\ mutex' \in Handlers \cup {Nobody} /\ cur' = cur
           /\ pc'[h] = result /\ queue'[h] = {}
           /\ mutex' = IF mutex = h THEN Nobody ELSE mutex
           /\ \A g \in Handlers \ {h} : pc'[g] = pc[g] /\ queue'[g] = queue[g]
  BY DEF TypeOK, Answers, Places

LEMMA GoesFacts ==
    ASSUME TypeOK, NEW h \in Handlers, NEW place \in Places, Goes(h, place)
    PROVE  /\ pc' \in [Handlers -> Places] /\ UNCHANGED <<mutex, cur, queue>>
           /\ pc'[h] = place
           /\ \A g \in Handlers \ {h} : pc'[g] = pc[g]
  BY DEF TypeOK, Goes, Places

LEMMA LocksFacts ==
    ASSUME TypeOK, NEW h \in Handlers, NEW place \in Places, Locks(h, place)
    PROVE  /\ pc' \in [Handlers -> Places] /\ mutex' = h
           /\ mutex = Nobody /\ pc[h] = "free" /\ pc'[h] = place
           /\ \A g \in Handlers \ {h} : pc'[g] = pc[g]
  BY DEF TypeOK, Locks, Places

LEMMA HandlerTypes ==
    ASSUME TypeOK, NEW h \in Handlers, HandlerNext(h)
    PROVE  TypeOK'
<1> USE Numbers, AnswersFacts, GoesFacts, LocksFacts
    DEF jobVars, managerVars, nodeVars, StartedBy, GivesUp
<1>0. ASSUME NEW j \in Jobs, NEW new \in Ended, WritesState(j, new)
      PROVE  status' \in [Jobs -> {"none"} \cup Live \cup Ended]
  BY <1>0 DEF WritesState, TypeOK
<1>1. CASE CreatesJob(h)
  <2>1. made' \in Jobs /\ made' \in 0..MaxJobs
    BY <1>1 DEF CreatesJob, TypeOK, Jobs
  <2> QED BY <1>1, <2>1 DEF CreatesJob, TypeOK, Places
<1>2. CASE Starts(h)
  <2>1. cur[h] \in Jobs /\ Answers(h, "answered") /\ "answered" \in Places
    BY <1>2 DEF Starts, TypeOK, Places
  <2>2. /\ pc' \in [Handlers -> Places] /\ queue' \in [Handlers -> SUBSET Jobs]
        /\ mutex' \in Handlers \cup {Nobody} /\ cur' = cur
    BY <2>1
  <2>3. CASE UNCHANGED <<cancelled, status>>
    <3>1. \/ /\ stage' = [stage EXCEPT ![cur[h]] = "begin"]
             /\ listed' = [listed EXCEPT ![cur[h]] = TRUE]
          \/ stage' = stage /\ listed' = listed
      BY <1>2 DEF Starts
    <3>2. stage' \in [Jobs -> {"none", "begin", "tunnel", "starting", "failing",
                               "probing", "canceling", "completing", "exit"}]
      BY <2>1, <3>1 DEF TypeOK
    <3>3. listed' \in [Jobs -> BOOLEAN]
      BY <2>1, <3>1 DEF TypeOK
    <3> QED BY <1>2, <2>2, <2>3, <3>2, <3>3 DEF Starts, TypeOK, Places
  <2>4. CASE WritesState(cur[h], "failed") /\ UNCHANGED managerVars
    <3>1. status' \in [Jobs -> {"none"} \cup Live \cup Ended]
      BY <1>0, <2>1, <2>4
    <3> QED BY <1>2, <2>2, <2>4, <3>1 DEF Starts, TypeOK, Places
  <2> QED BY <1>2, <2>3, <2>4 DEF Starts
<1>3. CASE DeleteReads(h)
  BY <1>3 DEF DeleteReads, TypeOK, Places
<1>4. CASE UsesProject(h)
  BY <1>4 DEF UsesProject, TypeOK, Places
<1>5. ASSUME NEW j \in Jobs, CancelReads(h, j) PROVE TypeOK'
  BY <1>5 DEF CancelReads, TypeOK, Places
<1>6. CASE Signals(h)
  <2>1. cur[h] \in Jobs /\ {"waiting", "marking"} \subseteq Places
    BY DEF TypeOK, Places
  <2>2. pc' \in [Handlers -> Places] /\ UNCHANGED <<mutex, cur, queue>>
    BY <1>6, <2>1 DEF Signals
  <2>3. cancelled' \in [Jobs -> BOOLEAN] /\ missed' \in SUBSET Jobs
    <3>1. /\ \/ cancelled' = [cancelled EXCEPT ![cur[h]] = TRUE]
             \/ cancelled' = cancelled
          /\ missed' = missed \/ missed' = missed \cup {cur[h]}
      BY <1>6 DEF Signals
    <3>2. cancelled' \in [Jobs -> BOOLEAN]
      BY <3>1 DEF TypeOK
    <3>3. missed' \in SUBSET Jobs
      <4>1. missed \in SUBSET Jobs
        BY DEF TypeOK
      <4> QED BY <2>1, <3>1, <4>1
    <3> QED BY <3>2, <3>3
  <2> QED BY <1>6, <2>2, <2>3 DEF Signals, TypeOK, Places
<1>7. CASE Waits(h)
  BY <1>7 DEF Waits, TypeOK, Places
<1>8. CASE Marks(h)
  <2>1. cur[h] \in Jobs /\ {"canceled", "next", "cancelfailed", "answered"} \subseteq Places
    BY DEF TypeOK, Places
  <2>2. /\ pc' \in [Handlers -> Places] /\ cur' = cur
        /\ mutex' \in Handlers \cup {Nobody} /\ queue' \in [Handlers -> SUBSET Jobs]
    <3>1. \/ \E result \in Places : Answers(h, result)
          \/ \E place \in Places : Goes(h, place)
      BY <1>8, <2>1 DEF Marks
    <3>2. mutex \in Handlers \cup {Nobody} /\ queue \in [Handlers -> SUBSET Jobs]
      BY DEF TypeOK
    <3> QED BY <3>1, <3>2
  <2>3. status' \in [Jobs -> {"none"} \cup Live \cup Ended]
    <3>1. status \in [Jobs -> {"none"} \cup Live \cup Ended]
      BY DEF TypeOK
    <3> QED BY <1>0, <1>8, <2>1, <3>1 DEF Marks
  <2>4. stranded' \in SUBSET Jobs
    <3>1. stranded' = stranded
          \/ stranded' = stranded \cup ({cur[h]} \cap {j \in Jobs : status[j] \in Live})
      BY <1>8 DEF Marks
    <3>2. stranded \in SUBSET Jobs
      BY DEF TypeOK
    <3> QED BY <3>1, <3>2
  <2> QED BY <1>8, <2>2, <2>3, <2>4 DEF Marks, TypeOK, Places
<1>9. CASE TakesJob(h)
  BY <1>9 DEF TakesJob, TypeOK, Places
<1>10. CASE Stops(h)
  BY <1>10 DEF Stops, TypeOK, Places
<1>11. CASE DeletesProject(h)
  <2>1. project' \in BOOLEAN /\ status' \in [Jobs -> {"none"} \cup Live \cup Ended]
    <3>1. project \in BOOLEAN /\ (project' = project \/ project' = FALSE)
      BY <1>11 DEF DeletesProject, TypeOK
    <3>2. status' = status \/ status' = [j \in Jobs |-> "none"]
      BY <1>11 DEF DeletesProject
    <3>3. status' \in [Jobs -> {"none"} \cup Live \cup Ended]
      BY <3>2 DEF TypeOK
    <3> QED BY <3>1, <3>3
  <2>2. /\ pc' \in [Handlers -> Places] /\ queue' \in [Handlers -> SUBSET Jobs]
        /\ mutex' \in Handlers \cup {Nobody} /\ cur' = cur
    BY <1>11 DEF DeletesProject, Places
  <2> QED BY <1>11, <2>1, <2>2 DEF DeletesProject, TypeOK, Places
<1>12. CASE UsesTunnel(h)
  BY <1>12 DEF UsesTunnel, TypeOK, Places
<1>13. CASE StopInspects(h)
  BY <1>13 DEF StopInspects, TypeOK, Places
<1>14. CASE VisitInspects(h)
  BY <1>14 DEF VisitInspects, TypeOK, Places
<1> QED
  BY <1>1, <1>2, <1>3, <1>4, <1>5, <1>6, <1>7, <1>8, <1>9, <1>10, <1>11, <1>12,
     <1>13, <1>14
  DEF HandlerNext, Handler

LEMMA AloneTypes ==
    ASSUME TypeOK, OperatesTunnel \/ LateCall \/ Restart \/ UNCHANGED vars
    PROVE  TypeOK'
<1>1. CASE OperatesTunnel
  BY <1>1 DEF OperatesTunnel, StartedBy, TypeOK, jobVars, managerVars, handlerVars
<1>4. CASE LateCall
  BY <1>4 DEF LateCall, StartedBy, TypeOK, jobVars, managerVars, handlerVars
<1>2. CASE Restart
  <2>1. pc' \in [Handlers -> Places] /\ stranded' \in SUBSET Jobs
    BY <1>2 DEF Restart, TypeOK, Places
  <2> QED
    BY <1>2, <2>1, SizeAssumption DEF Restart, TypeOK, Places, jobVars, nodeVars
<1>3. CASE UNCHANGED vars
  BY <1>3 DEF vars, TypeOK, jobVars, managerVars, nodeVars, handlerVars
<1> QED BY <1>1, <1>2, <1>3, <1>4

LEMMA NextCases ==
    ASSUME [Next]_vars
    PROVE  \/ \E j \in Jobs : Worker(j)
           \/ \E h \in Handlers : HandlerNext(h)
           \/ OperatesTunnel \/ LateCall \/ Restart \/ UNCHANGED vars
  BY DEF Next, HandlerNext

LEMMA TypeStep == TypeOK /\ [Next]_vars => TypeOK'
  BY NextCases, WorkerTypes, HandlerTypes, AloneTypes

-----------------------------------------------------------------------------
(* What the goroutine of a job does. *)

WorkerStep(j) ==
    /\ UNCHANGED <<project, made, mutex, pc, cur, queue, missed>>
    /\ \A i \in Jobs \ {j} : /\ status'[i] = status[i] /\ done'[i] = done[i]
                             /\ stage'[i] = stage[i] /\ listed'[i] = listed[i]
    /\ stage[j] # "none" /\ (stage'[j] = "none" => ~listed'[j])
    /\ stage'[j] # "none" => listed'[j] = listed[j]
    /\ status'[j] = status[j] \/ (status[j] \in Live /\ status'[j] # "none")
    /\ status'[j] = "completed" => status[j] = "completed"
                                   \/ stage[j] = "completing"
    /\ \/ done'[j] = done[j]
       \/ done[j] < Probes /\ stage[j] = "probing" /\ stage'[j] = "probing"
    /\ stage'[j] = "completing" => done'[j] = Probes
    /\ Active(j)' => status'[j] \in Live \/ (Active(j) /\ status[j] \notin Live)
    /\ Active(j)' => Active(j) \/ status[j] \in Live
    /\ tunnel' = tunnel \/ (Active(j) /\ tunnel' = j)

LEMMA WorkerFacts ==
    ASSUME TypeOK, NEW j \in Jobs, Worker(j)
    PROVE  WorkerStep(j)
<1> USE Numbers
    DEF WritesState, Continues, StartedBy, GivesUp, handlerVars, jobVars, managerVars,
        nodeVars, WorkerStep, Active
<1>1. CASE Begins(j)
  BY <1>1 DEF Begins, TypeOK
<1>2. CASE OpensTunnel(j)
  BY <1>2 DEF OpensTunnel, TypeOK
<1>8. CASE InspectsTunnel(j)
  BY <1>8 DEF InspectsTunnel, TypeOK
<1>3. CASE Fails(j)
  BY <1>3 DEF Fails, TypeOK
<1>4. CASE TakesResult(j)
  BY <1>4 DEF TakesResult, TypeOK
<1>5. CASE EndsProbing(j)
  BY <1>5 DEF EndsProbing, TypeOK
<1>6. CASE WritesEnd(j)
  BY <1>6 DEF WritesEnd, TypeOK
<1>7. CASE Exits(j)
  BY <1>7 DEF Exits, TypeOK
<1> QED BY <1>1, <1>2, <1>3, <1>4, <1>5, <1>6, <1>7, <1>8 DEF Worker

-----------------------------------------------------------------------------
(* What a handler does. *)

HandlerStep(h) ==
    /\ made' \in {made, made + 1} /\ missed \subseteq missed' /\ done' = done
    /\ \A g \in Handlers \ {h} : pc'[g] = pc[g] /\ cur'[g] = cur[g]
                                 /\ queue'[g] = queue[g]
    /\ \/ mutex' = mutex
       \/ mutex = Nobody /\ mutex' = h
       \/ mutex = h /\ mutex' = Nobody
    /\ project' = project \/ (mutex = h /\ pc[h] = "deleting" /\ tunnel' = tunnel
                              /\ \A j \in Jobs : status'[j] = "none")
    /\ tunnel' = tunnel \/ (mutex = h /\ pc[h] # "deleting")
    /\ \A j \in Jobs :
          \/ stage'[j] = stage[j] /\ listed'[j] = listed[j]
          \/ /\ pc[h] = "queued" /\ pc'[h] # "queued" /\ cur[h] = j
             /\ stage'[j] = "begin" /\ listed'[j]
    /\ \A j \in Jobs :
          \/ status'[j] = status[j]
          \/ status'[j] = "queued" /\ j = made + 1 /\ made' = j /\ mutex = Nobody /\ project
          \/ status'[j] = "failed" /\ pc[h] = "queued" /\ cur[h] = j
             /\ status[j] \in Live
          \/ status'[j] = "canceled" /\ pc[h] = "marking" /\ cur[h] = j
             /\ status[j] \in Live
          \/ status'[j] = "none" /\ status[j] \notin Live
    /\ pc'[h] = "queued" => cur'[h] = made + 1 /\ made' = made + 1

LEMMA HandlerFacts ==
    ASSUME IInv, NEW h \in Handlers, HandlerNext(h)
    PROVE  HandlerStep(h)
<1>0. TypeOK /\ Holds(h) /\ cur[h] \in Jobs
  BY DEF IInv, TypeOK
<1> USE <1>0, Numbers, AnswersFacts, GoesFacts, LocksFacts
    DEF jobVars, managerVars, nodeVars, WritesState, StartedBy, HandlerStep
<1>1. CASE CreatesJob(h)
  <2>1. made' = made + 1 /\ made' \in Jobs
    BY <1>1 DEF CreatesJob, TypeOK, Jobs
  <2> QED BY <1>1, <2>1 DEF CreatesJob, TypeOK, Places
<1>2. CASE Starts(h)
  <2>1. /\ pc[h] = "queued" /\ pc'[h] = "answered" /\ cur' = cur
        /\ mutex' = IF mutex = h THEN Nobody ELSE mutex
        /\ \A g \in Handlers \ {h} : pc'[g] = pc[g] /\ queue'[g] = queue[g]
        /\ UNCHANGED <<project, made, done, tunnel, missed>>
    BY <1>2 DEF Starts, Places
  <2>2. \A j \in Jobs :
          \/ stage'[j] = stage[j] /\ listed'[j] = listed[j]
          \/ cur[h] = j /\ stage'[j] = "begin" /\ listed'[j]
    <3>1. \/ /\ stage' = [stage EXCEPT ![cur[h]] = "begin"]
             /\ listed' = [listed EXCEPT ![cur[h]] = TRUE]
          \/ stage' = stage /\ listed' = listed
      BY <1>2 DEF Starts
    <3> QED BY <3>1 DEF TypeOK
  <2>3. \A j \in Jobs :
          \/ status'[j] = status[j]
          \/ status'[j] = "failed" /\ cur[h] = j /\ status[j] \in Live
    <3>1. status' = status \/ WritesState(cur[h], "failed")
      BY <1>2 DEF Starts
    <3> QED BY <3>1 DEF TypeOK
  <2> QED BY <2>1, <2>2, <2>3
<1>3. CASE DeleteReads(h)
  BY <1>3 DEF DeleteReads, TypeOK, Places
<1>4. CASE UsesProject(h)
  BY <1>4 DEF UsesProject, TypeOK, Places
<1>5. ASSUME NEW j \in Jobs, CancelReads(h, j) PROVE HandlerStep(h)
  BY <1>5 DEF CancelReads, TypeOK, Places
<1>6. CASE Signals(h)
  <2>1. /\ pc'[h] \in {"waiting", "marking"} /\ UNCHANGED <<mutex, cur, queue>>
        /\ \A g \in Handlers \ {h} : pc'[g] = pc[g]
        /\ missed \subseteq missed'
    BY <1>6 DEF Signals, Places
  <2> QED BY <1>6, <2>1 DEF Signals
<1>7. CASE Waits(h)
  BY <1>7 DEF Waits, Places
<1>8. CASE Marks(h)
  <2>1. /\ pc'[h] \in {"canceled", "next", "cancelfailed", "answered"} /\ cur' = cur
        /\ \A g \in Handlers \ {h} : pc'[g] = pc[g] /\ queue'[g] = queue[g]
        /\ mutex' = mutex \/ (mutex = h /\ mutex' = Nobody)
    BY <1>8 DEF Marks, Places
  <2>2. \A j \in Jobs :
          \/ status'[j] = status[j]
          \/ status'[j] = "canceled" /\ cur[h] = j /\ status[j] \in Live
    BY <1>8 DEF Marks, TypeOK
  <2> QED BY <1>8, <2>1, <2>2 DEF Marks
<1>9. CASE TakesJob(h)
  BY <1>9 DEF TakesJob, TypeOK, Places
<1>10. CASE Stops(h)
  BY <1>10 DEF Stops, Places, Holds
<1>13. CASE StopInspects(h)
  BY <1>13 DEF StopInspects, Places, Holds
<1>14. CASE VisitInspects(h)
  BY <1>14 DEF VisitInspects, Places, Holds
<1>11. CASE DeletesProject(h)
  <2>1. /\ pc[h] = "deleting" /\ mutex = h /\ pc'[h] = "answered" /\ cur' = cur
        /\ mutex' = Nobody
        /\ \A g \in Handlers \ {h} : pc'[g] = pc[g] /\ queue'[g] = queue[g]
        /\ UNCHANGED <<made, done, stage, listed, tunnel, missed>>
    BY <1>11 DEF DeletesProject, Places, Holds
  <2>2. \/ /\ \A j \in Jobs : status[j] \notin Live
           /\ \A j \in Jobs : status'[j] = "none"
        \/ UNCHANGED <<project, status>>
    BY <1>11 DEF DeletesProject
  <2> QED BY <2>1, <2>2
<1>12. CASE UsesTunnel(h)
  BY <1>12 DEF UsesTunnel, Places, Holds
<1> QED
  BY <1>1, <1>2, <1>3, <1>4, <1>5, <1>6, <1>7, <1>8, <1>9, <1>10, <1>11, <1>12,
     <1>13, <1>14
  DEF HandlerNext, Handler

-----------------------------------------------------------------------------
(* Every step keeps the invariant. *)

\* The conjuncts beside the types, with CancelEnds taken apart.
Kept ==
    /\ Numbered /\ ListedHasGoroutine
    /\ \A h \in Handlers : Holds(h) /\ Cancels(h) /\ Deletion(h) /\ Canceled(h)
    /\ WorkIsLive /\ NoJobs /\ CompletingIsScanned /\ TunnelStaysDown
    /\ CompletedMeansScanned

LEMMA KeptSuffices ==
    /\ TypeOK /\ Kept <=> IInv
    /\ (TypeOK /\ Kept)' <=> IInv'
<1>1. TypeOK /\ Kept => DeletionWaitsForScans
  BY Numbers DEF Kept, NoJobs, WorkIsLive, DeletionWaitsForScans
<1>2. TypeOK /\ Kept <=> IInv
  BY <1>1 DEF Kept, IInv, Canceled, CancelEnds
<1> QED BY <1>2, PTL

LEMMA WorkerKeeps ==
    ASSUME IInv, TypeOK', NEW j \in Jobs, WorkerStep(j)
    PROVE  Kept'
<1>0. TypeOK /\ Kept /\ WorkerStep(j) /\ \A h \in Handlers : cur[h] \in Jobs
  BY KeptSuffices DEF TypeOK
<1>1. Numbered'
  <2>1. \A i \in Jobs : i > made => status'[i] = "none" /\ stage'[i] = "none"
    BY <1>0, Numbers DEF WorkerStep, Kept, Numbered
  <2> QED BY <1>0, <2>1 DEF WorkerStep, Kept, Numbered
<1>2. ListedHasGoroutine'
  BY <1>0 DEF WorkerStep, Kept, ListedHasGoroutine
<1>3. WorkIsLive'
  BY <1>0 DEF WorkerStep, Kept, WorkIsLive, Active
<1>4. NoJobs'
  BY <1>0, Numbers DEF WorkerStep, Kept, NoJobs
<1>5. CompletingIsScanned' /\ CompletedMeansScanned'
  BY <1>0, Numbers
  DEF WorkerStep, Kept, CompletingIsScanned, CompletedMeansScanned, TypeOK
<1>6. TunnelStaysDown'
  BY <1>0, Numbers DEF WorkerStep, Kept, NoJobs, WorkIsLive, TunnelStaysDown
<1>7. ASSUME NEW h \in Handlers
      PROVE  Holds(h)' /\ Cancels(h)' /\ Deletion(h)' /\ Canceled(h)'
  <2>1. Holds(h)'
    BY <1>0 DEF WorkerStep, Kept, Holds
  <2>2. Cancels(h)'
    BY <1>0 DEF WorkerStep, Kept, Cancels, NotStarting
  <2>3. Deletion(h)'
    <3>1. \A i \in Jobs : status'[i] \in Live => status[i] \in Live
      BY <1>0 DEF WorkerStep
    <3>2. (\A i \in Jobs : status[i] \notin Live)
             => tunnel' = tunnel \/ tunnel' \in missed
      BY <1>0 DEF WorkerStep, Kept, WorkIsLive
    <3> QED BY <1>0, <3>1, <3>2 DEF WorkerStep, Kept, Deletion
  <2>4. Canceled(h)'
    BY <1>0 DEF WorkerStep, Kept, Canceled, Active
  <2> QED BY <2>1, <2>2, <2>3, <2>4
<1> QED BY <1>1, <1>2, <1>3, <1>4, <1>5, <1>6, <1>7 DEF Kept

\* What the step of a handler leaves to the others.
LEMMA OthersKeep ==
    ASSUME IInv, TypeOK', NEW h \in Handlers, HandlerStep(h),
           NEW g \in Handlers \ {h}
    PROVE  Holds(g)' /\ Cancels(g)' /\ Deletion(g)' /\ Canceled(g)'
<1>0. /\ TypeOK /\ Kept /\ HandlerStep(h) /\ cur[g] \in Jobs /\ cur[h] \in Jobs
      /\ made \in Nat /\ pc'[g] = pc[g] /\ cur'[g] = cur[g] /\ queue'[g] = queue[g]
      /\ Holds(g) /\ Cancels(g) /\ Deletion(g) /\ Canceled(g) /\ Holds(h)
  <2>1. TypeOK /\ Kept
    BY KeptSuffices
  <2> QED BY <2>1, Numbers DEF TypeOK, HandlerStep, Kept
<1>1. mutex = g <=> mutex' = g
  BY <1>0, Numbers DEF HandlerStep
<1>2. Holds(g)'
  <2>1. mutex = g => stage'[cur[g]] = stage[cur[g]] /\ project' = project
    BY <1>0 DEF HandlerStep, Holds
  <2> QED BY <1>0, <1>1, <2>1 DEF Holds
<1>3. ASSUME NotStarting(cur[g]), cur[g] <= made
      PROVE  NotStarting(cur[g])'
  BY <1>0, <1>3 DEF NotStarting, HandlerStep
<1>4. Cancels(g)'
  <2>1. pc[g] \in {"waiting", "marking"} => cur[g] <= made
    BY <1>0 DEF Kept, Numbered
  <2>2. /\ stage[cur[g]] = "none" /\ NotStarting(cur[g])
        => stage'[cur[g]] = "none"
    BY <1>0 DEF HandlerStep, NotStarting
  <2> QED BY <1>0, <1>3, <2>1, <2>2 DEF Cancels, HandlerStep
<1>5. Deletion(g)'
  <2>1. mutex = g => /\ tunnel' = tunnel
                     /\ \A j \in Jobs : status'[j] \in Live => status[j] \in Live
    BY <1>0, Numbers DEF HandlerStep
  <2> QED BY <1>0, <1>1, <2>1 DEF Deletion, HandlerStep
<1>6. Canceled(g)'
  <2> SUFFICES ASSUME pc[g] = "canceled"
               PROVE  /\ status'[cur[g]] \notin Live
                      /\ stage'[cur[g]] \in {"tunnel", "starting", "probing"}
                           => cur[g] \in missed'
    BY <1>0 DEF Canceled, Active
  <2>1. cur[g] <= made /\ status[cur[g]] \notin Live /\ cur[g] # made + 1
    BY <1>0 DEF Kept, Numbered, Canceled
  <2> QED BY <1>0, <2>1, Numbers DEF HandlerStep, Canceled, Active
<1> QED BY <1>2, <1>4, <1>5, <1>6

LEMMA GlobalsKept ==
    ASSUME IInv, TypeOK', NEW h \in Handlers, HandlerStep(h)
    PROVE  /\ ListedHasGoroutine' /\ WorkIsLive' /\ NoJobs'
           /\ CompletingIsScanned' /\ CompletedMeansScanned' /\ TunnelStaysDown'
           /\ \A j \in Jobs : j > made' => status'[j] = "none" /\ stage'[j] = "none"
<1>0. /\ TypeOK /\ Kept /\ HandlerStep(h) /\ Holds(h) /\ Cancels(h) /\ Deletion(h)
      /\ made \in Nat /\ made' \in Nat /\ cur[h] \in Jobs
  <2>1. TypeOK /\ Kept
    BY KeptSuffices
  <2> QED BY <2>1, Numbers DEF TypeOK, HandlerStep, Kept
<1>1. ListedHasGoroutine'
  BY <1>0 DEF HandlerStep, ListedHasGoroutine, Kept
<1>2. WorkIsLive'
  <2> SUFFICES ASSUME NEW j \in Jobs, stage'[j] \in {"tunnel", "starting", "probing"},
                      status'[j] \notin Live
               PROVE  j \in missed'
    BY DEF WorkIsLive, Active
  <2>1. stage[j] = stage'[j] /\ Active(j)
    BY <1>0 DEF HandlerStep, Active
  <2>2. CASE status[j] \notin Live
    BY <1>0, <2>1, <2>2 DEF Kept, WorkIsLive, HandlerStep
  <2>3. CASE status[j] \in Live
    <3>1. pc[h] \in {"queued", "marking"} /\ cur[h] = j
      BY <1>0, <2>3, Numbers DEF HandlerStep
    <3> QED BY <1>0, <2>1, <3>1 DEF Holds, Cancels, Active, HandlerStep
  <2> QED BY <2>2, <2>3
<1>3. NoJobs'
  BY <1>0, Numbers DEF Kept, NoJobs, HandlerStep, Holds
<1>4. CompletingIsScanned' /\ CompletedMeansScanned'
  BY <1>0 DEF Kept, CompletingIsScanned, CompletedMeansScanned, HandlerStep
<1>5. TunnelStaysDown'
  BY <1>0 DEF Kept, TunnelStaysDown, HandlerStep, Holds, Deletion
<1>6. \A j \in Jobs : j > made' => status'[j] = "none" /\ stage'[j] = "none"
  <2> SUFFICES ASSUME NEW j \in Jobs, j > made'
               PROVE  status'[j] = "none" /\ stage'[j] = "none"
    OBVIOUS
  <2>1. /\ j > made /\ made' # j /\ status[j] = "none" /\ stage[j] = "none"
        /\ pc[h] \in {"queued", "marking"} => cur[h] # j
    BY <1>0, Numbers DEF HandlerStep, Kept, Numbered
  <2> QED BY <1>0, <2>1, Numbers DEF HandlerStep
<1> QED BY <1>1, <1>2, <1>3, <1>4, <1>5, <1>6

Working == {"queued", "signal", "waiting", "marking", "canceled"}

\* A handler that holds resourceMu keeps the others from starting a goroutine.
LEMMA HolderIsAlone ==
    ASSUME Kept, NEW h \in Handlers, mutex = h, pc[h] # "queued"
    PROVE  \A j \in Jobs : NotStarting(j)
  BY DEF Kept, Holds, NotStarting

\* The job that is cancelled was made, and nobody begins to start it later.
LEMMA StillNotStarting ==
    ASSUME NEW h \in Handlers, NEW j \in Jobs, NotStarting(j),
           \A g \in Handlers \ {h} : pc'[g] = pc[g] /\ cur'[g] = cur[g],
           pc'[h] # "queued"
    PROVE  NotStarting(j)'
  BY DEF NotStarting

LEMMA HandlerKeeps ==
    ASSUME IInv, TypeOK', NEW h \in Handlers, HandlerNext(h)
    PROVE  /\ Holds(h)' /\ Cancels(h)' /\ Deletion(h)' /\ Canceled(h)'
           /\ pc'[h] \in Working => cur'[h] <= made'
           /\ \A j \in queue'[h] : j <= made'
<1> DEFINE Goal == /\ Holds(h)' /\ Cancels(h)' /\ Deletion(h)' /\ Canceled(h)'
                   /\ pc'[h] \in Working => cur'[h] <= made'
                   /\ \A j \in queue'[h] : j <= made'
<1>0. /\ TypeOK /\ Kept /\ HandlerStep(h) /\ Holds(h) /\ Cancels(h) /\ Deletion(h)
      /\ made \in Nat /\ cur[h] \in Jobs /\ mutex \in Handlers \cup {Nobody}
      /\ queue[h] \in SUBSET Jobs
      /\ pc[h] \in Working => cur[h] <= made
      /\ \A j \in queue[h] : j <= made
  <2>1. TypeOK /\ Kept
    BY KeptSuffices
  <2> QED BY <2>1, Numbers, HandlerFacts DEF TypeOK, Kept, Numbered, Working
<1>b. ASSUME NEW j \in Jobs, status[j] # "none" PROVE j <= made
  <2>1. j \in Nat
    BY Numbers
  <2>2. made \in Nat
    BY <1>0
  <2>3. ~(j > made)
    BY <1>b DEF IInv, Numbered
  <2> QED BY <2>1, <2>2, <2>3
<1> USE <1>0, Numbers, AnswersFacts, GoesFacts, LocksFacts
<1>a. ASSUME NEW result \in {"answered", "cancelfailed"}, Answers(h, result)
      PROVE  Goal
  <2>1. pc'[h] = result /\ mutex' # h /\ queue'[h] = {}
    BY <1>a DEF Places
  <2> QED BY <2>1 DEF Holds, Cancels, Deletion, Canceled, Working
<1>1. CASE CreatesJob(h)
  <2>1. /\ made' = made + 1 /\ made' \in Jobs /\ cur'[h] = made' /\ mutex' = h
        /\ pc'[h] = "queued" /\ project' = project /\ project
        /\ queue' = queue /\ stage' = stage
    BY <1>1 DEF CreatesJob, TypeOK, Jobs, Places, managerVars
  <2>2. stage[made'] = "none"
    BY <2>1 DEF Kept, Numbered
  <2>3. \A j \in queue[h] : j <= made'
    <3>1. \A j \in queue[h] : j \in Nat /\ j <= made
      OBVIOUS
    <3> QED BY <2>1, <3>1
  <2>4. cur'[h] <= made' /\ \A j \in queue'[h] : j <= made'
    BY <2>1, <2>3
  <2>5. Holds(h)' /\ Cancels(h)' /\ Deletion(h)' /\ Canceled(h)'
    BY <2>1, <2>2 DEF Holds, Cancels, Deletion, Canceled
  <2> QED BY <2>4, <2>5
<1>2. CASE Starts(h)
  BY <1>2, <1>a DEF Starts
<1>3. CASE DeleteReads(h)
  <2>1. /\ pc'[h] = "next" /\ mutex' = h /\ project' /\ cur' = cur
        /\ queue'[h] = {j \in Jobs : status[j] \in Live}
        /\ status' = status /\ made' = made
    BY <1>3 DEF DeleteReads, TypeOK, Places, jobVars
  <2>2. \A j \in Jobs : status[j] \in Live => j <= made
    BY <1>b
  <2> QED BY <2>1, <2>2 DEF Holds, Cancels, Deletion, Canceled, Working
<1>4. CASE UsesProject(h)
  <2>1. pc'[h] = "opening" /\ mutex' = h /\ project' /\ queue' = queue
        /\ made' = made
    BY <1>4 DEF UsesProject, TypeOK, Places, jobVars
  <2> QED BY <2>1 DEF Holds, Cancels, Deletion, Canceled, Working
<1>5. ASSUME NEW j \in Jobs, CancelReads(h, j) PROVE Goal
  <2>1. /\ pc'[h] = "signal" /\ pc[h] = "free" /\ mutex' = mutex
        /\ cur'[h] = j /\ status[j] # "none" /\ queue' = queue
        /\ made' = made
    BY <1>5 DEF CancelReads, TypeOK, jobVars
  <2>2. mutex # h /\ j <= made
    BY <1>b, <2>1 DEF Holds
  <2> QED BY <2>1, <2>2 DEF Holds, Cancels, Deletion, Canceled
<1>6. CASE Signals(h)
  <2>1. /\ pc[h] = "signal" /\ pc'[h] \in {"waiting", "marking"}
        /\ UNCHANGED <<mutex, cur, queue, project, made, status, stage>>
        /\ pc'[h] = "waiting" => listed[cur[h]]
        /\ pc'[h] = "marking" => ~listed[cur[h]] /\ (mutex = h \/ cur[h] \in missed')
        /\ \A g \in Handlers \ {h} : pc'[g] = pc[g] /\ cur'[g] = cur[g]
    BY <1>6 DEF Signals, Places, Deletes, jobVars
  <2>2. Cancels(h)'
    <3>1. CASE pc'[h] = "waiting"
      <4>1. NotStarting(cur[h])
        <5>1. stage[cur[h]] # "none"
          BY <1>0, <2>1, <3>1 DEF Kept, ListedHasGoroutine
        <5>2. \A g \in Handlers : pc[g] = "queued" => stage[cur[g]] = "none"
          BY <1>0 DEF Kept, Holds
        <5> QED BY <5>1, <5>2 DEF NotStarting
      <4> QED BY <2>1, <3>1, <4>1, StillNotStarting DEF Cancels
    <3>2. CASE pc'[h] = "marking" /\ mutex = h
      <4>1. NotStarting(cur[h]) /\ stage[cur[h]] = "none"
        BY <2>1, <3>2, HolderIsAlone DEF Kept, ListedHasGoroutine
      <4>2. NotStarting(cur[h])'
        BY <2>1, <3>2, <4>1, StillNotStarting
      <4> QED BY <2>1, <3>2, <4>1, <4>2 DEF Cancels
    <3>3. CASE pc'[h] = "marking" /\ cur[h] \in missed'
      BY <2>1, <3>3 DEF Cancels
    <3> QED BY <2>1, <3>1, <3>2, <3>3
  <2>3. Holds(h)' /\ Deletion(h)' /\ Canceled(h)'
    BY <2>1 DEF Holds, Deletion, Canceled
  <2> QED BY <2>1, <2>2, <2>3 DEF Working
<1>7. CASE Waits(h)
  <2>1. /\ pc[h] = "waiting" /\ pc'[h] = "marking" /\ ~listed[cur[h]]
        /\ UNCHANGED <<mutex, cur, queue, project, made, status, stage, tunnel>>
        /\ \A g \in Handlers \ {h} : pc'[g] = pc[g] /\ cur'[g] = cur[g]
    BY <1>7 DEF Waits, Places, jobVars, managerVars, nodeVars
  <2>2. Cancels(h)'
    <3>1. NotStarting(cur[h]) /\ stage[cur[h]] = "none"
      BY <2>1 DEF Cancels, Kept, ListedHasGoroutine
    <3>2. NotStarting(cur[h])'
      BY <2>1, <3>1, StillNotStarting
    <3> QED BY <2>1, <3>1, <3>2 DEF Cancels
  <2>3. Holds(h)' /\ Deletion(h)' /\ Canceled(h)'
    BY <2>1 DEF Holds, Deletion, Canceled
  <2> QED BY <2>1, <2>2, <2>3 DEF Working
<1>8. CASE Marks(h)
  <2>1. pc[h] = "marking" /\ made' = made /\ stage' = stage /\ missed' = missed
        /\ project' = project
    BY <1>8 DEF Marks, managerVars
  <2>2. CASE Answers(h, "answered") \/ Answers(h, "cancelfailed")
    BY <2>2, <1>a
  <2>3. CASE /\ WritesState(cur[h], "canceled") /\ mutex # h
             /\ Answers(h, "canceled")
    <3>1. /\ pc'[h] = "canceled" /\ mutex' = mutex /\ cur' = cur /\ queue'[h] = {}
      BY <2>3 DEF Places
    <3>2. status'[cur[h]] \notin Live
      BY <2>3 DEF WritesState, TypeOK
    <3>3. Canceled(h)'
      BY <2>1, <3>1, <3>2 DEF Canceled, Cancels, Active
    <3> QED
      BY <2>1, <2>3, <3>1, <3>3 DEF Holds, Cancels, Deletion, Working
  <2>4. CASE /\ WritesState(cur[h], "canceled") /\ mutex = h
             /\ status[cur[h]] \in Live /\ Goes(h, "next")
    <3>1. pc'[h] = "next" /\ UNCHANGED <<mutex, cur, queue>>
      BY <2>4 DEF Places
    <3>2. \A j \in Jobs : status'[j] \in Live => status[j] \in Live /\ j # cur[h]
      BY <2>4 DEF WritesState, TypeOK
    <3>3. Deletion(h)'
      BY <2>1, <2>4, <3>1, <3>2 DEF Deletion
    <3> QED
      BY <2>1, <2>4, <3>1, <3>3 DEF Holds, Cancels, Canceled, Working
  <2> QED BY <1>8, <2>2, <2>3, <2>4 DEF Marks, Deletes
<1>9. CASE TakesJob(h)
  <2> PICK j \in queue[h] : /\ cur' = [cur EXCEPT ![h] = j]
                            /\ queue' = [queue EXCEPT ![h] = @ \ {j}]
    BY <1>9 DEF TakesJob
  <2>1. /\ pc[h] = "next" /\ pc'[h] = "signal" /\ cur'[h] = j
        /\ queue'[h] = queue[h] \ {j}
        /\ UNCHANGED <<mutex, project, made, status, tunnel>>
    BY <1>9 DEF TakesJob, TypeOK, jobVars, nodeVars
  <2> QED BY <2>1 DEF Holds, Cancels, Deletion, Canceled
<1>13. CASE StopInspects(h)
  <2>1. CASE Goes(h, IF tunnel = Down THEN "deleting" ELSE "stopping")
    <3>1. /\ pc[h] = "next" /\ queue[h] = {}
          /\ pc'[h] \in {"stopping", "deleting"}
          /\ pc'[h] = "deleting" => tunnel = Down
          /\ UNCHANGED <<mutex, cur, queue, project, made, status, tunnel>>
      BY <1>13, <2>1 DEF StopInspects, Places, jobVars, nodeVars
    <3> QED
      BY <2>1, <3>1 DEF Holds, Cancels, Deletion, Canceled, Working
  <2> QED BY <1>13, <1>a, <2>1 DEF StopInspects
<1>14. CASE VisitInspects(h)
  <2>1. CASE Goes(h, "starting")
    <3>1. /\ pc[h] = "opening" /\ pc'[h] = "starting"
          /\ UNCHANGED <<mutex, cur, queue, project, made, status, tunnel>>
      BY <1>14, <2>1 DEF VisitInspects, Places, jobVars, nodeVars
    <3> QED
      BY <2>1, <3>1 DEF Holds, Cancels, Deletion, Canceled, Working
  <2> QED BY <1>14, <1>a, <2>1 DEF VisitInspects
<1>10. CASE Stops(h)
  <2>1. CASE Goes(h, "deleting") /\ tunnel' = Down
    <3>1. /\ pc[h] = "stopping" /\ pc'[h] = "deleting"
          /\ UNCHANGED <<mutex, cur, queue, project, made, status>>
      BY <1>10, <2>1 DEF Stops, Places, jobVars
    <3> QED
      BY <2>1, <3>1 DEF Holds, Cancels, Deletion, Canceled, Working
  <2> QED BY <1>10, <1>a, <2>1 DEF Stops
<1>11. CASE DeletesProject(h)
  BY <1>11, <1>a DEF DeletesProject
<1>12. CASE UsesTunnel(h)
  BY <1>12, <1>a DEF UsesTunnel
<1> QED
  BY <1>1, <1>2, <1>3, <1>4, <1>5, <1>6, <1>7, <1>8, <1>9, <1>10, <1>11, <1>12,
     <1>13, <1>14
  DEF HandlerNext, Handler

LEMMA HandlerKept ==
    ASSUME IInv, TypeOK', NEW h \in Handlers, HandlerNext(h)
    PROVE  Kept'
<1>1. TypeOK /\ Kept /\ HandlerStep(h)
  BY KeptSuffices, HandlerFacts
<1>2. \A g \in Handlers : Holds(g)' /\ Cancels(g)' /\ Deletion(g)' /\ Canceled(g)'
  BY <1>1, HandlerKeeps, OthersKeep
<1>3. \A g \in Handlers \ {h} :
         /\ pc'[g] \in Working => cur'[g] <= made'
         /\ \A j \in queue'[g] : j <= made'
  <2> SUFFICES ASSUME NEW g \in Handlers \ {h}
               PROVE  /\ pc'[g] \in Working => cur'[g] <= made'
                      /\ \A j \in queue'[g] : j <= made'
    OBVIOUS
  <2>1. /\ made \in Nat /\ made' \in {made, made + 1} /\ cur[g] \in Nat
        /\ \A j \in queue[g] : j \in Nat
        /\ pc'[g] = pc[g] /\ cur'[g] = cur[g] /\ queue'[g] = queue[g]
    <3>1. made \in Nat /\ cur[g] \in Nat /\ queue[g] \in SUBSET Jobs
      <4>1. made \in 0..MaxJobs /\ cur[g] \in Jobs /\ queue[g] \in SUBSET Jobs
        BY <1>1 DEF TypeOK
      <4>2. Jobs \subseteq Nat
        BY Numbers
      <4>3. cur[g] \in Nat
        BY <4>1, <4>2
      <4> QED BY <4>1, <4>3, Numbers
    <3> QED BY <1>1, <3>1, Numbers DEF HandlerStep
  <2>2. /\ pc[g] \in Working => cur[g] <= made
        /\ \A j \in queue[g] : j <= made
    BY <1>1 DEF Kept, Numbered, Working
  <2> QED BY <2>1, <2>2
<1>4. Numbered'
  BY <1>3, HandlerKeeps, GlobalsKept, HandlerFacts DEF Numbered, Working
<1> QED BY <1>1, <1>2, <1>4, GlobalsKept DEF Kept

LEMMA AloneKept ==
    ASSUME IInv, TypeOK', OperatesTunnel \/ LateCall \/ Restart \/ UNCHANGED vars
    PROVE  Kept'
<1>0. TypeOK /\ Kept
  BY KeptSuffices
<1>1. CASE OperatesTunnel \/ LateCall
  <2>1. /\ UNCHANGED <<project, made, status, done, stage, listed, mutex, pc,
                       cur, queue, missed>>
        /\ tunnel' \in {tunnel, Down, Operator, LateVisit, LateScan}
    BY <1>0, <1>1
    DEF OperatesTunnel, LateCall, StartedBy, jobVars, managerVars, handlerVars, TypeOK
  <2>2. \A h \in Handlers : Holds(h)' /\ Cancels(h)' /\ Deletion(h)' /\ Canceled(h)'
    BY <1>0, <2>1
    DEF Kept, Holds, Cancels, NotStarting, Deletion, Canceled, Active
  <2> QED
    BY <1>0, <2>1, <2>2
    DEF Kept, Numbered, ListedHasGoroutine, WorkIsLive, Active, NoJobs,
        CompletingIsScanned, TunnelStaysDown, CompletedMeansScanned
<1>2. CASE Restart
  <2>1. /\ UNCHANGED <<project, made, status, done, tunnel, cur, missed>>
        /\ \A j \in Jobs : stage'[j] = "none" /\ ~listed'[j]
        /\ mutex' = Nobody
        /\ \A h \in Handlers :
              /\ queue'[h] = {}
              /\ pc'[h] \in {"free", "canceled", "cancelfailed", "answered"}
              /\ pc'[h] = "canceled" => pc[h] = "canceled"
    BY <1>2 DEF Restart, jobVars, nodeVars
  <2>2. \A h \in Handlers : Holds(h)' /\ Cancels(h)' /\ Deletion(h)' /\ Canceled(h)'
    <3> SUFFICES ASSUME NEW h \in Handlers
                 PROVE  Holds(h)' /\ Cancels(h)' /\ Deletion(h)' /\ Canceled(h)'
      OBVIOUS
    <3>1. /\ pc'[h] \in {"free", "canceled", "cancelfailed", "answered"}
          /\ mutex' # h /\ cur[h] \in Jobs /\ Canceled(h)
          /\ pc'[h] = "canceled" => pc[h] = "canceled"
      BY <1>0, <2>1, Numbers DEF Kept, TypeOK
    <3>2. Holds(h)' /\ Cancels(h)' /\ Deletion(h)'
      BY <3>1 DEF Holds, Cancels, Deletion
    <3>3. Canceled(h)'
      BY <2>1, <3>1 DEF Canceled, Active
    <3> QED BY <3>2, <3>3
  <2>3. Numbered'
    BY <1>0, <2>1 DEF Kept, Numbered
  <2> QED
    BY <1>0, <2>1, <2>2, <2>3
    DEF Kept, ListedHasGoroutine, WorkIsLive, Active, NoJobs,
        CompletingIsScanned, TunnelStaysDown, CompletedMeansScanned
<1>3. CASE UNCHANGED vars
  <2>1. \A h \in Handlers : Holds(h)' /\ Cancels(h)' /\ Deletion(h)' /\ Canceled(h)'
    BY <1>0, <1>3
    DEF vars, jobVars, managerVars, nodeVars, handlerVars, Kept, Holds, Cancels, NotStarting,
        Deletion, Canceled, Active
  <2> QED
    BY <1>0, <1>3, <2>1
    DEF vars, jobVars, managerVars, nodeVars, handlerVars, Kept, Numbered,
        ListedHasGoroutine, WorkIsLive, Active, NoJobs, CompletingIsScanned,
        TunnelStaysDown, CompletedMeansScanned
<1> QED BY <1>1, <1>2, <1>3

-----------------------------------------------------------------------------
(* The theorems. *)

LEMMA InitIInv == Init => IInv
<1> SUFFICES ASSUME Init PROVE IInv
  OBVIOUS
<1> USE Numbers DEF Init
<1>1. TypeOK
  BY SizeAssumption, Numbers DEF TypeOK
<1>2. Kept
  BY DEF Kept, Numbered, ListedHasGoroutine, Holds, Cancels, Deletion, Canceled,
     WorkIsLive, Active, NoJobs, CompletingIsScanned, TunnelStaysDown,
     CompletedMeansScanned
<1> QED BY <1>1, <1>2, KeptSuffices

LEMMA IInvStep == IInv /\ [Next]_vars => IInv'
<1> SUFFICES ASSUME IInv, [Next]_vars PROVE IInv'
  OBVIOUS
<1>1. TypeOK'
  BY TypeStep DEF IInv
<1>2. Kept'
  BY <1>1, NextCases, WorkerFacts, WorkerKeeps, HandlerKept, AloneKept DEF IInv
<1> QED BY <1>1, <1>2, KeptSuffices

\* The inductive invariant holds in every state.
THEOREM Invariance == Spec => []IInv
  BY InitIInv, IInvStep, PTL DEF Spec

\* Every variable keeps its type.
THEOREM TypeCorrect == Spec => []TypeOK
  BY InitIInv, TypeStep, PTL DEF Spec, IInv

\* No scan is at work once its project is deleted, but for one that a request
\* cancelled while it was being created.
THEOREM DeletionWaits == Spec => []DeletionWaitsForScans
<1>1. IInv => DeletionWaitsForScans
  BY DEF IInv
<1> QED BY <1>1, Invariance, PTL

\* The tunnel of a deleted project is started by nobody but an operator, such a
\* scan, or the node acting late on a start that was given up.
THEOREM TunnelIsDown == Spec => []TunnelStaysDown
<1>1. IInv => TunnelStaysDown
  BY DEF IInv
<1> QED BY <1>1, Invariance, PTL

\* A job is completed with all its results.
THEOREM CompletedIsScanned == Spec => []CompletedMeansScanned
<1>1. IInv => CompletedMeansScanned
  BY DEF IInv
<1> QED BY <1>1, Invariance, PTL

\* A job whose cancellation was answered is not live again, and its goroutine
\* is at its end or was not found.
THEOREM CanceledIsOver == Spec => []CancelEnds
<1>1. IInv => CancelEnds
  BY DEF IInv
<1> QED BY <1>1, Invariance, PTL

=============================================================================
