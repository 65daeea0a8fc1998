------------------------- MODULE PortForwardsProofs -------------------------
(***************************************************************************)
(* Theorems about PortForwards, for any sets of requests, endpoints,       *)
(* addresses and ports and any number of rows, tasks and restarts.         *)
(***************************************************************************)
EXTENDS PortForwards, TLAPS

-----------------------------------------------------------------------------
(* The inductive invariant. *)

\* Rows and tasks are numbered as they are made; nothing refers to a task that
\* is still to come.
Numbered ==
    /\ \A f \in Forwards : f > made => status[f] = "none" /\ task[f] = NoTask
    /\ \A t \in Tasks : t > issued => up[t] = "absent"
    /\ \A f \in Forwards : task[f] <= issued
    /\ \A p \in Procs : ref[p] <= issued
    /\ \A p \in Procs : \A item \in queue[p] : item[2] <= issued

\* Who works from a reference it has read works from the present one: a row
\* keeps its reference until it goes.
Follows(p) ==
    /\ pc[p] \in {"setting", "recording", "task"} => ref[p] # NoTask
    /\ /\ pc[p] \in {"setting", "recording", "task", "row"}
       /\ ref[p] # NoTask
       => task[cur[p]] = ref[p]
    /\ pc[p] = "row" /\ ref[p] # NoTask => ~OnNode(ref[p])
    /\ \A item \in queue[p] : item[2] # NoTask => task[item[1]] = item[2]

CreateStages == {"reserved", "adding", "verifying", "starting", "created",
                 "release", "rollback", "unreserve"}

\* A handler that creates a forward holds resourceMu, so that the address of
\* the endpoint stays; nobody else gives its row a reference, and its port gets
\* a task of others only as the late effect of a call that was given up.
Creates(h) ==
    pc[h] \in CreateStages =>
       /\ mutex = h /\ scope[h] = {}
       /\ cur[h] <= made /\ status[cur[h]] \in {"none", "provisioning"}
       /\ task[cur[h]] = NoTask
       /\ target[endpoint[cur[h]]] # Gone
       /\ pc[h] = "adding" =>
             \A t \in Tasks :
                OnNode(t) => taskPort[t] # port[cur[h]] \/ t \in stray
       /\ pc[h] \in {"verifying", "starting", "created", "rollback"} =>
             ref[h] # NoTask /\ (OnNode(ref[h]) => Fits(ref[h], cur[h]))

\* A handler that closes endpoints holds resourceMu, and the rows that are left
\* are those it still has to release.
Closes(h) ==
    /\ pc[h] = "next" => scope[h] # {}
    /\ scope[h] # {} =>
          /\ mutex = h /\ pc[h] \in {"next", "task", "row"}
          /\ \A f \in Forwards : Row(f) /\ endpoint[f] \in scope[h] =>
                \/ \E item \in queue[h] : item[1] = f
                \/ pc[h] \in {"task", "row"} /\ cur[h] = f

IInv ==
    /\ TypeOK /\ Numbered
    /\ \A p \in Procs : Follows(p)
    /\ \A h \in Handlers : Creates(h) /\ Closes(h)
    /\ pc[Sweeper] \in {"free", "next", "task", "row"}
    /\ ReferencesAreRight /\ OneTaskPerPort /\ OrphansAreExplained

-----------------------------------------------------------------------------
(* Type correctness. *)

LEMMA Numbers ==
    /\ Forwards \subseteq Nat \ {0} /\ Tasks \subseteq Nat \ {0}
    /\ 1 \in Forwards /\ NoTask \notin Tasks /\ NoTask = 0
    /\ Handlers \subseteq Procs /\ Sweeper \in Procs
    /\ MaxForwards \in Nat /\ MaxTasks \in Nat
  BY SizeAssumption DEF Forwards, Tasks, NoTask, Procs

LEMMA AnswersTypes ==
    ASSUME TypeOK, NEW h \in Handlers, Answers(h)
    PROVE  /\ pc' \in [Procs -> Stage]
           /\ mutex' \in Handlers \cup {Nobody}
           /\ cur' \in [Procs -> Forwards]
           /\ ref' \in [Procs -> Tasks \cup {NoTask}]
           /\ queue' \in [Procs -> SUBSET (Forwards \X (Tasks \cup {NoTask}))]
           /\ scope' \in [Handlers -> SUBSET Endpoints]
           /\ goal' \in [Handlers -> {"running", "stopped"}]
  BY Numbers DEF TypeOK, Answers, Stage

LEMMA MovesTypes ==
    ASSUME TypeOK, NEW p \in Procs, NEW stage \in Stage, Moves(p, stage)
    PROVE  pc' \in [Procs -> Stage] /\ mutex' = mutex
  BY DEF TypeOK, Moves

LEMMA GivesUpTypes ==
    ASSUME TypeOK, NEW p \in Procs, NEW t \in Tasks,
           NEW state \in {"running", "stopped", "absent"}, GivesUp(p, t, state)
    PROVE  late' \in [Procs -> SUBSET Calls]
<1>1. <<t, state>> \in Calls
  BY DEF Calls
<1> QED BY <1>1 DEF GivesUp, TypeOK

\* The rows a loop reads, with their references.
LEMMA QueueTypes ==
    ASSUME TypeOK, NEW S \in SUBSET Forwards
    PROVE  {<<f, task[f]>> : f \in S}
             \in SUBSET (Forwards \X (Tasks \cup {NoTask}))
<1>1. \A f \in S : <<f, task[f]>> \in Forwards \X (Tasks \cup {NoTask})
  BY DEF TypeOK
<1> QED BY <1>1

LEMMA TypeStep == IInv /\ [Next]_vars => TypeOK'
<1> SUFFICES ASSUME IInv, [Next]_vars PROVE TypeOK'
  OBVIOUS
<1> USE Numbers
<1>0. TypeOK
  BY DEF IInv
<1> USE DEF rowVars, nodeVars, lateVars, localVars, procVars, Goes
<1>1. ASSUME NEW h \in Handlers, NEW e \in Endpoints, NEW p \in Ports,
             NEW x \in {"never", "pending"}, Reserve(h, e, p, x)
      PROVE  TypeOK'
  <2>1. made' \in Forwards
    BY <1>0, <1>1 DEF Reserve, TypeOK, Forwards
  <2>2. mutex' \in Handlers \cup {Nobody}
    BY <1>1 DEF Reserve, TakesMutex
  <2> QED BY <1>0, <1>1, <2>1, <2>2 DEF Reserve, TypeOK, Stage, Forwards
<1>2. ASSUME NEW h \in Handlers, CreateLooks(h) PROVE TypeOK'
  BY <1>0, <1>2, MovesTypes DEF CreateLooks, TypeOK, Stage
<1>3. ASSUME NEW h \in Handlers, CreateAdds(h) PROVE TypeOK'
  <2>1. target[endpoint[cur[h]]] \in Targets /\ port[cur[h]] \in Ports
    <3>1. target[endpoint[cur[h]]] # Gone
      BY <1>3 DEF CreateAdds, IInv, Creates, CreateStages
    <3> QED BY <1>0, <3>1 DEF TypeOK
  <2>2. CASE UNCHANGED <<nodeVars, ref>> /\ Moves(h, "release")
    <3>1. \/ lateAdds' = lateAdds
          \/ lateAdds' = [lateAdds EXCEPT
                ![h] = @ \cup {<<port[cur[h]], target[endpoint[cur[h]]]>>}]
      BY <1>3 DEF CreateAdds
    <3>2. lateAdds' \in [Handlers -> SUBSET (Ports \X Targets)]
      BY <1>0, <2>1, <3>1 DEF TypeOK
    <3> QED BY <1>0, <1>3, <2>2, <3>2, MovesTypes DEF CreateAdds, TypeOK, Stage
  <2>3. CASE /\ issued < MaxTasks /\ issued' = issued + 1 /\ lateAdds' = lateAdds
             /\ taskPort' = [taskPort EXCEPT ![issued'] = port[cur[h]]]
             /\ taskTarget' = [taskTarget EXCEPT
                                 ![issued'] = target[endpoint[cur[h]]]]
             /\ \E state \in {"stopped", "running"} :
                   up' = [up EXCEPT ![issued'] = state]
             /\ ref' = [ref EXCEPT ![h] = issued']
             /\ Moves(h, "verifying")
    <3>1. issued' \in Tasks /\ issued' \in 0..MaxTasks
      BY <1>0, <2>3 DEF TypeOK, Tasks
    <3>2. pc' \in [Procs -> Stage] /\ mutex' = mutex
      BY <1>0, <2>3, MovesTypes DEF Stage
    <3>3. /\ up' \in [Tasks -> {"absent", "stopped", "running"}]
          /\ taskPort' \in [Tasks -> Ports] /\ taskTarget' \in [Tasks -> Targets]
          /\ ref' \in [Procs -> Tasks \cup {NoTask}]
      BY <1>0, <2>1, <2>3, <3>1 DEF TypeOK
    <3> QED BY <1>0, <1>3, <2>3, <3>1, <3>2, <3>3 DEF CreateAdds, TypeOK
  <2> QED BY <1>3, <2>2, <2>3 DEF CreateAdds
<1>23. ASSUME NEW h \in Handlers, CreateVerifies(h) PROVE TypeOK'
  <2>1. ref[h] \in Tasks
    BY <1>0, <1>23 DEF CreateVerifies, IInv, Creates, CreateStages, TypeOK
  <2>2. lost' \in SUBSET Tasks
    BY <1>0, <1>23, <2>1 DEF CreateVerifies, TypeOK
  <2> QED
    BY <1>0, <1>23, <2>2, MovesTypes DEF CreateVerifies, TypeOK, Stage
<1>4. ASSUME NEW h \in Handlers, CreateStarts(h) PROVE TypeOK'
  <2>1. ref[h] \in Tasks
    BY <1>0, <1>4 DEF CreateStarts, IInv, Creates, CreateStages, TypeOK
  <2>2. late' \in [Procs -> SUBSET Calls]
    BY <1>0, <1>4, <2>1, GivesUpTypes DEF CreateStarts, TypeOK
  <2> QED BY <1>0, <1>4, <2>1, <2>2, MovesTypes DEF CreateStarts, TypeOK, Stage
<1>5. ASSUME NEW h \in Handlers, Release(h) \/ Unreserve(h) PROVE TypeOK'
  <2>1. Answers(h) /\ (RowGoes(cur[h]) \/ UNCHANGED status)
    BY <1>5 DEF Release, Unreserve
  <2>2. status' \in [Forwards -> {"none", "provisioning", "running", "stopped", "cleanup_failed"}]
    BY <1>0, <2>1 DEF RowGoes, TypeOK
  <2>3. /\ made' = made /\ endpoint' = endpoint /\ port' = port /\ task' = task
        /\ expiry' = expiry /\ target' = target /\ nodeVars' = nodeVars
        /\ lateVars' = lateVars /\ lost' = lost /\ restarts' = restarts
    BY <1>5 DEF Release, Unreserve
  <2> QED BY <1>0, <2>1, <2>2, <2>3, AnswersTypes DEF TypeOK
<1>6. ASSUME NEW h \in Handlers, Activate(h) PROVE TypeOK'
  <2>1. CASE Answers(h)
    BY <1>0, <1>6, <2>1, AnswersTypes DEF Activate, TypeOK
  <2>2. CASE Goes(h, "rollback") /\ UNCHANGED <<status, task>>
    BY <1>0, <1>6, <2>2, MovesTypes DEF Activate, TypeOK, Stage
  <2> QED BY <1>6, <2>1, <2>2 DEF Activate
<1>7. ASSUME NEW h \in Handlers, Rollback(h) PROVE TypeOK'
  <2>1. ref[h] \in Tasks
    BY <1>0, <1>7 DEF Rollback, IInv, Creates, CreateStages, TypeOK
  <2>2. late' \in [Procs -> SUBSET Calls]
    BY <1>0, <1>7, <2>1, GivesUpTypes DEF Rollback, TypeOK
  <2> QED BY <1>0, <1>7, <2>1, <2>2, MovesTypes DEF Rollback, TypeOK, Stage
<1>8. ASSUME NEW h \in Handlers, NEW f \in Forwards,
             NEW g \in {"running", "stopped"}, SetReads(h, f, g)
      PROVE  TypeOK'
  BY <1>0, <1>8, MovesTypes DEF SetReads, TypeOK, Stage
<1>9. ASSUME NEW h \in Handlers, SetOnNode(h) PROVE TypeOK'
  <2>1. ref[h] \in Tasks
    BY <1>0, <1>9 DEF SetOnNode, IInv, Follows, TypeOK
  <2>2. goal[h] \in {"running", "stopped"}
    BY <1>0 DEF TypeOK
  <2>3. late' \in [Procs -> SUBSET Calls]
    <3>1. CASE GivesUp(h, ref[h], goal[h])
      BY <1>0, <2>1, <2>2, <3>1, GivesUpTypes
    <3>2. CASE UNCHANGED late
      BY <1>0, <3>2 DEF TypeOK
    <3> QED BY <1>9, <3>1, <3>2 DEF SetOnNode
  <2>4. up' \in [Tasks -> {"absent", "stopped", "running"}]
    BY <1>0, <1>9, <2>1, <2>2 DEF SetOnNode, TypeOK
  <2> QED
    BY <1>0, <1>9, <2>3, <2>4, AnswersTypes, MovesTypes
    DEF SetOnNode, TypeOK, Stage
<1>10. ASSUME NEW h \in Handlers, SetRecords(h) PROVE TypeOK'
  BY <1>0, <1>10, AnswersTypes DEF SetRecords, TypeOK
<1>11. ASSUME NEW h \in Handlers, NEW f \in Forwards, DeleteReads(h, f)
       PROVE  TypeOK'
  BY <1>0, <1>11, MovesTypes DEF DeleteReads, TypeOK, Stage
<1>12. ASSUME NEW h \in Handlers, NEW E \in SUBSET Endpoints, CloseReads(h, E)
       PROVE  TypeOK'
  <2>1. mutex' \in Handlers \cup {Nobody}
    BY <1>12 DEF CloseReads, TakesMutex
  <2>2. queue'[h] \in SUBSET (Forwards \X (Tasks \cup {NoTask}))
    BY <1>0, <1>12, QueueTypes DEF CloseReads, TypeOK
  <2>3. queue' = [queue EXCEPT ![h] = queue'[h]]
    BY <1>0, <1>12 DEF CloseReads, TypeOK
  <2> QED BY <1>0, <1>12, <2>1, <2>2, <2>3 DEF CloseReads, TypeOK, Stage
<1>13. ASSUME NEW h \in Handlers, CloseApplies(h) PROVE TypeOK'
  BY <1>0, <1>13, AnswersTypes DEF CloseApplies, TypeOK
<1>14. CASE SweepReads
  <2>1. Expired \in SUBSET Forwards
    BY DEF Expired
  <2>2. queue'[Sweeper] \in SUBSET (Forwards \X (Tasks \cup {NoTask}))
    BY <1>0, <1>14, <2>1, QueueTypes DEF SweepReads, TypeOK
  <2>3. queue' = [queue EXCEPT ![Sweeper] = queue'[Sweeper]]
    BY <1>0, <1>14 DEF SweepReads, TypeOK
  <2> QED
    BY <1>0, <1>14, <2>2, <2>3, MovesTypes DEF SweepReads, TypeOK, Stage
<1>22. CASE SweepEnds
  BY <1>0, <1>22, MovesTypes DEF SweepEnds, TypeOK, Stage
<1>15. ASSUME NEW p \in Procs, TakeNext(p) PROVE TypeOK'
  BY <1>0, <1>15, MovesTypes DEF TakeNext, TypeOK, Stage
<1>16. ASSUME NEW p \in Procs, TaskDeleted(p) PROVE TypeOK'
  <2>1. ref[p] \in Tasks
    BY <1>0, <1>16 DEF TaskDeleted, IInv, Follows, TypeOK
  <2> QED BY <1>0, <1>16, <2>1, MovesTypes DEF TaskDeleted, TypeOK, Stage
<1>17. ASSUME NEW p \in Procs, TaskKept(p) PROVE TypeOK'
  <2>1. ref[p] \in Tasks
    BY <1>0, <1>17 DEF TaskKept, IInv, Follows, TypeOK
  <2>2. late' \in [Procs -> SUBSET Calls]
    BY <1>0, <1>17, <2>1, GivesUpTypes DEF TaskKept
  <2> QED
    BY <1>0, <1>17, <2>2, AnswersTypes, MovesTypes
    DEF TaskKept, MarksCleanupFailed, TypeOK, Stage
<1>18. ASSUME NEW p \in Procs, RowDeleted(p) PROVE TypeOK'
  BY <1>0, <1>18, AnswersTypes, MovesTypes
  DEF RowDeleted, RowGoes, TypeOK, Stage
<1>19. ASSUME NEW f \in Forwards, Expires(f) PROVE TypeOK'
  BY <1>0, <1>19 DEF Expires, TypeOK
<1>20. CASE Restart
  <2>1. pc' \in [Procs -> Stage]
    BY <1>0, <1>20 DEF Restart, TypeOK, Stage
  <2>2. lost' \in SUBSET Tasks
    BY <1>0, <1>20 DEF Restart, TypeOK
  <2>3. restarts' \in 0..MaxRestarts
    BY <1>0, <1>20, SizeAssumption DEF Restart, TypeOK
  <2>4. /\ cur' \in [Procs -> Forwards] /\ mutex' \in Handlers \cup {Nobody}
        /\ ref' \in [Procs -> Tasks \cup {NoTask}]
        /\ queue' \in [Procs -> SUBSET (Forwards \X (Tasks \cup {NoTask}))]
        /\ scope' \in [Handlers -> SUBSET Endpoints]
        /\ goal' \in [Handlers -> {"running", "stopped"}]
    BY <1>20 DEF Restart
  <2> QED BY <1>0, <1>20, <2>1, <2>2, <2>3, <2>4 DEF Restart, TypeOK
<1>24. ASSUME NEW p \in Procs, LateCall(p) PROVE TypeOK'
  <2> PICK c \in late[p] : /\ up' = [up EXCEPT ![c[1]] = c[2]]
                           /\ late' = [late EXCEPT ![p] = @ \ {c}]
    BY <1>24 DEF LateCall
  <2>1. c[1] \in Tasks /\ c[2] \in {"running", "stopped", "absent"}
    BY <1>0 DEF TypeOK, Calls
  <2> QED BY <1>0, <1>24, <2>1 DEF LateCall, TypeOK
<1>25. ASSUME NEW h \in Handlers, LateAdd(h) PROVE TypeOK'
  <2>1. issued' \in Tasks /\ issued' \in 0..MaxTasks
    BY <1>0, <1>25 DEF LateAdd, TypeOK, Tasks
  <2>2. up' \in [Tasks -> {"absent", "stopped", "running"}]
    BY <1>0, <1>25, <2>1 DEF LateAdd, TypeOK
  <2>3. /\ taskPort' \in [Tasks -> Ports] /\ taskTarget' \in [Tasks -> Targets]
        /\ lateAdds' \in [Handlers -> SUBSET (Ports \X Targets)]
    <3> PICK add \in lateAdds[h] :
           /\ taskPort' = [taskPort EXCEPT ![issued'] = add[1]]
           /\ taskTarget' = [taskTarget EXCEPT ![issued'] = add[2]]
           /\ lateAdds' = [lateAdds EXCEPT ![h] = @ \ {add}]
      BY <1>25 DEF LateAdd
    <3>1. add[1] \in Ports /\ add[2] \in Targets
      BY <1>0 DEF TypeOK
    <3> QED BY <1>0, <2>1, <3>1 DEF TypeOK
  <2>4. lost' \in SUBSET Tasks /\ stray' \in SUBSET Tasks
    BY <1>0, <1>25, <2>1 DEF LateAdd, TypeOK
  <2> QED BY <1>0, <1>25, <2>1, <2>2, <2>3, <2>4 DEF LateAdd, TypeOK
<1>21. CASE UNCHANGED vars
  BY <1>0, <1>21 DEF vars, TypeOK
<1> QED
  BY <1>1, <1>2, <1>3, <1>4, <1>5, <1>6, <1>7, <1>8, <1>9, <1>10, <1>11, <1>12,
     <1>13, <1>14, <1>15, <1>16, <1>17, <1>18, <1>19, <1>20, <1>21,
     <1>22, <1>23, <1>24, <1>25
  DEF Next

-----------------------------------------------------------------------------
(* What the step of one process leaves to the others. *)

Rests(q) ==
    /\ pc'[q] = pc[q] /\ cur'[q] = cur[q] /\ ref'[q] = ref[q]
    /\ queue'[q] = queue[q]
    /\ q \in Handlers => scope'[q] = scope[q]

\* Rows keep what they were made with and do not come back, and a reference
\* stays; nor do tasks, which go on listening and forwarding as they were made.
Steady ==
    /\ made <= made' /\ issued <= issued'
    /\ \A f \in Forwards : f <= made =>
          /\ endpoint'[f] = endpoint[f] /\ port'[f] = port[f]
          /\ status[f] = "none" => status'[f] = "none"
    /\ \A f \in Forwards : task[f] # NoTask => task'[f] = task[f]
    /\ \A t \in Tasks : t <= issued =>
          /\ taskPort'[t] = taskPort[t] /\ taskTarget'[t] = taskTarget[t]
          /\ up[t] = "absent" => up'[t] = "absent"
    /\ stray \subseteq stray'

\* Without resourceMu nobody makes a row, gives it a reference or an endpoint
\* its address; the status of a row that has no reference changes only by its
\* deletion, and a task comes to the node only out of a call given up.
Outside ==
    /\ mutex' = mutex /\ made' = made /\ task' = task /\ target' = target
    /\ \A t \in Tasks : up'[t] # "absent" =>
          \/ /\ up[t] # "absent" /\ taskPort'[t] = taskPort[t]
             /\ taskTarget'[t] = taskTarget[t]
          \/ t > issued /\ t \in stray'
    /\ \A f \in Forwards : \/ status'[f] \in {status[f], "none"}
                           \/ task[f] # NoTask

\* The step of a process p.
StepOf(p) ==
    /\ Steady
    /\ \A q \in Procs \ {p} : Rests(q)
    /\ mutex \notin {p, Nobody} => Outside

LEMMA AnswersFacts ==
    ASSUME TypeOK, NEW h \in Handlers, Answers(h)
    PROVE  /\ \A q \in Procs \ {h} : Rests(q)
           /\ pc'[h] = "answered" /\ cur'[h] = 1 /\ ref'[h] = NoTask
           /\ queue'[h] = {} /\ scope'[h] = {}
           /\ mutex' = IF mutex = h THEN Nobody ELSE mutex
  BY Numbers DEF Answers, Rests, TypeOK

LEMMA GoesFacts ==
    ASSUME TypeOK, NEW p \in Procs, NEW stage, Goes(p, stage)
    PROVE  /\ \A q \in Procs \ {p} : Rests(q)
           /\ pc'[p] = stage /\ cur' = cur /\ ref' = ref /\ queue' = queue
           /\ scope' = scope /\ mutex' = mutex
  BY DEF Goes, Moves, Rests, TypeOK, localVars

\* What a handler does when it creates a forward, and what it does otherwise.
Creation(h) ==
    \/ \E e \in Endpoints, p \in Ports, x \in {"never", "pending"} :
          Reserve(h, e, p, x)
    \/ CreateLooks(h) \/ CreateAdds(h) \/ CreateVerifies(h) \/ CreateStarts(h)
    \/ Release(h) \/ Activate(h) \/ Rollback(h) \/ Unreserve(h)

Setting(h) ==
    \/ \E f \in Forwards, g \in {"running", "stopped"} : SetReads(h, f, g)
    \/ SetOnNode(h) \/ SetRecords(h)

Releasing(p) ==
    \/ p \in Handlers /\ (\/ \E f \in Forwards : DeleteReads(p, f)
                          \/ \E E \in SUBSET Endpoints : CloseReads(p, E)
                          \/ CloseApplies(p))
    \/ p = Sweeper /\ (SweepReads \/ SweepEnds)
    \/ TakeNext(p) \/ TaskDeleted(p) \/ TaskKept(p) \/ RowDeleted(p)

\* What the node does later with calls that were given up.
Late ==
    (\E p \in Procs : LateCall(p)) \/ (\E h \in Handlers : LateAdd(h))

LEMMA NextCases ==
    ASSUME Next
    PROVE  \/ \E h \in Handlers : Creation(h) \/ Setting(h)
           \/ \E p \in Procs : Releasing(p)
           \/ Late
           \/ \E f \in Forwards : Expires(f)
           \/ Restart
  BY Numbers DEF Next, Creation, Setting, Releasing, Late

LEMMA ReserveFacts ==
    ASSUME TypeOK, Numbered, NEW h \in Handlers, NEW e \in Endpoints,
           NEW p \in Ports, NEW x \in {"never", "pending"}, Reserve(h, e, p, x)
    PROVE  StepOf(h) /\ made' = made + 1 /\ made' \in Forwards
<1>1. made' = made + 1 /\ made' \in Forwards
  BY Numbers DEF Reserve, TypeOK, Forwards
<1> QED
  BY <1>1, Numbers
  DEF Reserve, TakesMutex, StepOf, Steady, Rests, TypeOK, nodeVars, lateVars,
      Forwards

LEMMA CreationStep ==
    ASSUME IInv, NEW h \in Handlers, Creation(h)
    PROVE  StepOf(h)
<1>0. /\ TypeOK /\ Numbered /\ h \in Procs /\ Creates(h)
      /\ made \in Nat /\ issued \in Nat /\ h # Nobody
  BY Numbers, NameAssumption DEF IInv, TypeOK
<1> USE DEF StepOf, Steady, CreateStages, rowVars, nodeVars, lateVars
<1>1. ASSUME NEW e \in Endpoints, NEW p \in Ports,
             NEW x \in {"never", "pending"}, Reserve(h, e, p, x)
      PROVE  StepOf(h)
  BY <1>0, <1>1, ReserveFacts
<1>2. CASE CreateLooks(h)
  BY <1>0, <1>2 DEF CreateLooks, Creates, Moves, Rests, TypeOK
<1>3. CASE CreateAdds(h)
  <2>1. mutex = h /\ \A q \in Procs \ {h} : Rests(q)
    BY <1>0, <1>3 DEF CreateAdds, Creates, Moves, Rests, TypeOK
  <2>2. \/ UNCHANGED nodeVars
        \/ /\ issued' = issued + 1 /\ issued' \in Tasks
           /\ \A t \in Tasks \ {issued'} :
                 /\ up'[t] = up[t] /\ taskPort'[t] = taskPort[t]
                 /\ taskTarget'[t] = taskTarget[t]
    BY <1>0, <1>3, Numbers DEF CreateAdds, TypeOK, Tasks
  <2>3. /\ UNCHANGED <<made, status, endpoint, port, task, stray>>
        /\ issued <= issued'
        /\ \A t \in Tasks : t <= issued =>
              /\ up'[t] = up[t] /\ taskPort'[t] = taskPort[t]
              /\ taskTarget'[t] = taskTarget[t]
    BY <1>0, <1>3, <2>2, Numbers DEF CreateAdds
  <2> QED BY <1>0, <2>1, <2>3
<1>8. CASE CreateVerifies(h)
  BY <1>0, <1>8 DEF CreateVerifies, Creates, Moves, Rests, TypeOK
<1>4. CASE CreateStarts(h)
  <2>1. mutex = h /\ ref[h] \in Tasks
    BY <1>0, <1>4 DEF CreateStarts, Creates, TypeOK
  <2> QED BY <1>0, <1>4, <2>1, GoesFacts DEF CreateStarts, OnNode, TypeOK
<1>5. CASE Release(h) \/ Unreserve(h)
  <2>1. mutex = h
    BY <1>0, <1>5 DEF Release, Unreserve, Creates
  <2> QED
    BY <1>0, <1>5, <2>1, AnswersFacts DEF Release, Unreserve, RowGoes, TypeOK
<1>6. CASE Activate(h)
  <2>1. mutex = h /\ status[cur[h]] \in {"none", "provisioning"}
        /\ task[cur[h]] = NoTask
    BY <1>0, <1>6 DEF Activate, Creates
  <2>2. \A q \in Procs \ {h} : Rests(q)
    BY <1>0, <1>6, AnswersFacts, GoesFacts DEF Activate
  <2> QED BY <1>0, <1>6, <2>1, <2>2 DEF Activate, TypeOK
<1>7. CASE Rollback(h)
  <2>1. mutex = h /\ ref[h] \in Tasks
    BY <1>0, <1>7 DEF Rollback, Creates, TypeOK
  <2> QED BY <1>0, <1>7, <2>1, GoesFacts DEF Rollback, TypeOK
<1> QED BY <1>1, <1>2, <1>3, <1>4, <1>5, <1>6, <1>7, <1>8 DEF Creation

LEMMA SettingStep ==
    ASSUME IInv, NEW h \in Handlers, Setting(h)
    PROVE  StepOf(h)
<1>0. /\ TypeOK /\ Numbered /\ h \in Procs /\ Follows(h)
      /\ made \in Nat /\ issued \in Nat
  BY Numbers DEF IInv, TypeOK
<1> USE DEF StepOf, Steady, Outside, rowVars, nodeVars, lateVars
<1>1. ASSUME NEW f \in Forwards, NEW g \in {"running", "stopped"},
             SetReads(h, f, g)
      PROVE  StepOf(h)
  BY <1>0, <1>1 DEF SetReads, Moves, Rests, TypeOK
<1>2. CASE SetOnNode(h)
  <2>1. ref[h] \in Tasks
    BY <1>0, <1>2 DEF SetOnNode, Follows, TypeOK
  <2> QED
    BY <1>0, <1>2, <2>1, GoesFacts, AnswersFacts DEF SetOnNode, OnNode, TypeOK
<1>3. CASE SetRecords(h)
  <2>1. task[cur[h]] # NoTask
    BY <1>0, <1>3 DEF SetRecords, Follows
  <2> QED
    BY <1>0, <1>3, <2>1, AnswersFacts DEF SetRecords, Row, TypeOK
<1> QED BY <1>1, <1>2, <1>3 DEF Setting

LEMMA ReleasingStep ==
    ASSUME IInv, NEW p \in Procs, Releasing(p)
    PROVE  StepOf(p)
<1>0. /\ TypeOK /\ Numbered /\ Follows(p)
      /\ p \in Handlers => Closes(p)
      /\ made \in Nat /\ issued \in Nat
  BY Numbers DEF IInv, TypeOK
<1> USE DEF StepOf, Steady, Outside, rowVars, nodeVars, lateVars
<1>1. ASSUME p \in Handlers, NEW f \in Forwards, DeleteReads(p, f)
      PROVE  StepOf(p)
  BY <1>0, <1>1 DEF DeleteReads, Moves, Rests, TypeOK
<1>2. ASSUME p \in Handlers, NEW E \in SUBSET Endpoints, CloseReads(p, E)
      PROVE  StepOf(p)
  BY <1>0, <1>2 DEF CloseReads, TakesMutex, Rests, TypeOK
<1>3. CASE p \in Handlers /\ CloseApplies(p)
  BY <1>0, <1>3, AnswersFacts DEF CloseApplies, Closes
<1>4. CASE p = Sweeper /\ SweepReads
  BY <1>0, <1>4 DEF SweepReads, Moves, Rests, TypeOK
<1>5. CASE p = Sweeper /\ SweepEnds
  BY <1>0, <1>5, GoesFacts DEF SweepEnds
<1>6. CASE TakeNext(p)
  BY <1>0, <1>6 DEF TakeNext, Moves, Rests, TypeOK
<1>7. CASE TaskDeleted(p)
  <2>1. ref[p] \in Tasks
    BY <1>0, <1>7 DEF TaskDeleted, Follows, TypeOK
  <2> QED BY <1>0, <1>7, <2>1, GoesFacts DEF TaskDeleted, TypeOK
<1>8. CASE TaskKept(p)
  <2>1. ref[p] \in Tasks /\ task[cur[p]] # NoTask
    BY <1>0, <1>8 DEF TaskKept, Follows, TypeOK
  <2>2. \A t \in Tasks : up'[t] \in {up[t], "absent"}
    BY <1>0, <1>8, <2>1 DEF TaskKept, TypeOK
  <2>3. \A q \in Procs \ {p} : Rests(q)
    BY <1>0, <1>8, AnswersFacts, GoesFacts DEF TaskKept
  <2>4. mutex # p => mutex' = mutex
    BY <1>0, <1>8, AnswersFacts, GoesFacts DEF TaskKept
  <2>5. \A f \in Forwards : \/ status'[f] = status[f]
                            \/ task[f] # NoTask /\ status[f] # "none"
    BY <1>0, <1>8, <2>1 DEF TaskKept, MarksCleanupFailed, Row, TypeOK
  <2> QED BY <1>0, <1>8, <2>2, <2>3, <2>4, <2>5 DEF TaskKept
<1>9. CASE RowDeleted(p)
  <2>1. \A q \in Procs \ {p} : Rests(q)
    BY <1>0, <1>9, AnswersFacts, GoesFacts DEF RowDeleted
  <2>2. mutex # p => mutex' = mutex
    BY <1>0, <1>9, AnswersFacts, GoesFacts DEF RowDeleted
  <2>3. \A f \in Forwards : status'[f] \in {status[f], "none"}
    BY <1>0, <1>9 DEF RowDeleted, RowGoes, TypeOK
  <2> QED BY <1>0, <1>9, <2>1, <2>2, <2>3 DEF RowDeleted
<1> QED
  BY <1>1, <1>2, <1>3, <1>4, <1>5, <1>6, <1>7, <1>8, <1>9 DEF Releasing

\* The node alone: rows, addresses and processes stay as they are.
LEMMA LateStep ==
    ASSUME IInv, Late
    PROVE  /\ UNCHANGED <<rowVars, target, procVars>>
           /\ Steady /\ Outside /\ \A q \in Procs : Rests(q)
<1>0. /\ TypeOK /\ Numbered /\ issued \in Nat /\ made \in Nat
  BY Numbers DEF IInv, TypeOK
<1>1. UNCHANGED <<rowVars, target, procVars>>
  BY DEF Late, LateCall, LateAdd
<1>2. \A q \in Procs : Rests(q)
  BY <1>1 DEF Rests, procVars, localVars
<1>3. CASE \E p \in Procs : LateCall(p)
  <2>1. /\ issued' = issued /\ stray' = stray
        /\ taskPort' = taskPort /\ taskTarget' = taskTarget
        /\ \A t \in Tasks : up'[t] # "absent" => up[t] # "absent"
    BY <1>0, <1>3 DEF LateCall, OnNode, TypeOK
  <2> QED
    BY <1>0, <1>1, <1>2, <2>1 DEF Steady, Outside, rowVars, procVars
<1>4. CASE \E h \in Handlers : LateAdd(h)
  <2>1. /\ issued' = issued + 1 /\ issued' \in Tasks
        /\ stray' = stray \cup {issued'}
        /\ \A t \in Tasks \ {issued'} :
              /\ up'[t] = up[t] /\ taskPort'[t] = taskPort[t]
              /\ taskTarget'[t] = taskTarget[t]
    BY <1>0, <1>4, Numbers DEF LateAdd, TypeOK, Tasks
  <2> QED
    BY <1>0, <1>1, <1>2, <2>1, Numbers
    DEF Steady, Outside, rowVars, procVars
<1> QED BY <1>1, <1>2, <1>3, <1>4 DEF Late

-----------------------------------------------------------------------------
(* The processes keep their parts of the invariant. *)

\* Whoever does not take the step.
LEMMA FollowsRests ==
    ASSUME IInv, TypeOK', Steady, NEW p \in Procs, Rests(p)
    PROVE  Follows(p)'
<1>1. /\ TypeOK /\ Numbered /\ Follows(p)
  BY DEF IInv
<1>2. /\ ref[p] \in Tasks \cup {NoTask} /\ cur[p] \in Forwards
      /\ ref[p] <= issued
      /\ \A item \in queue[p] : item[1] \in Forwards
  BY <1>1 DEF TypeOK, Numbered
<1>3. ref[p] # NoTask /\ ~OnNode(ref[p]) => up'[ref[p]] = "absent"
  BY <1>1, <1>2 DEF Steady, OnNode
<1> QED BY <1>1, <1>2, <1>3 DEF Follows, Steady, Rests, OnNode

LEMMA CreatesRests ==
    ASSUME IInv, TypeOK', NEW h \in Handlers, Rests(h), Steady,
           mutex = h => Outside
    PROVE  Creates(h)'
<1>1. /\ TypeOK /\ Numbered /\ Creates(h) /\ h \in Procs
  BY Numbers DEF IInv
<1> SUFFICES ASSUME pc[h] \in CreateStages
             PROVE  Creates(h)'
  BY DEF Creates, CreateStages, Rests
<1>2. /\ mutex = h /\ Outside /\ cur[h] \in Forwards /\ cur[h] <= made
      /\ status[cur[h]] \in {"none", "provisioning"}
      /\ task[cur[h]] = NoTask /\ scope[h] = {}
      /\ target[endpoint[cur[h]]] # Gone
  BY <1>1 DEF Creates, TypeOK
<1>3. /\ endpoint'[cur[h]] = endpoint[cur[h]] /\ port'[cur[h]] = port[cur[h]]
      /\ status'[cur[h]] \in {"none", "provisioning"}
  BY <1>2 DEF Steady, Outside
<1>4. ASSUME pc[h] \in {"verifying", "starting", "created", "rollback"}
      PROVE  /\ ref[h] \in Tasks
             /\ up'[ref[h]] # "absent" =>
                   /\ taskPort'[ref[h]] = port[cur[h]]
                   /\ taskTarget'[ref[h]] = target[endpoint[cur[h]]]
  <2>1. /\ ref[h] \in Tasks
        /\ OnNode(ref[h]) => Fits(ref[h], cur[h])
    BY <1>1, <1>4 DEF Creates, CreateStages, TypeOK
  <2>2. ~(ref[h] > issued)
    <3>1. ref[h] <= issued /\ issued \in Nat
      BY <1>1, Numbers DEF Numbered, TypeOK
    <3>2. ref[h] \in Nat
      BY <2>1, Numbers
    <3> QED BY <3>1, <3>2
  <2> QED BY <1>2, <2>1, <2>2 DEF Outside, Fits, OnNode
<1>5. pc[h] = "adding" => \A t \in Tasks : up'[t] # "absent" =>
                             taskPort'[t] # port[cur[h]] \/ t \in stray'
  BY <1>1, <1>2 DEF Creates, OnNode, CreateStages, Outside, Steady
<1> QED
  BY <1>1, <1>2, <1>3, <1>4, <1>5, Numbers
  DEF Creates, Fits, OnNode, Rests, Outside

LEMMA ClosesRests ==
    ASSUME IInv, NEW h \in Handlers, Rests(h), Steady, mutex = h => Outside
    PROVE  Closes(h)'
<1>1. /\ TypeOK /\ Numbered /\ Closes(h) /\ h \in Procs
  BY Numbers DEF IInv
<1>2. CASE scope[h] = {}
  BY <1>1, <1>2 DEF Closes, Rests
<1>3. CASE scope[h] # {}
  <2>1. mutex = h /\ Outside
    BY <1>1, <1>3 DEF Closes
  <2>2. \A f \in Forwards : status'[f] # "none" =>
           status[f] # "none" /\ endpoint'[f] = endpoint[f]
    BY <1>1, <2>1 DEF Steady, Outside, Numbered, TypeOK, Forwards
  <2> QED BY <1>1, <2>1, <2>2 DEF Closes, Rests, Outside, Row
<1> QED BY <1>2, <1>3

\* The process itself, once it has answered or is free.
LEMMA AtRest ==
    ASSUME NEW h \in Handlers, pc'[h] \in {"answered", "free"}, queue'[h] = {},
           scope'[h] = {}
    PROVE  Follows(h)' /\ Creates(h)' /\ Closes(h)'
  BY DEF Follows, Creates, Closes, CreateStages

\* Own steps: a creation.
LEMMA CreatesSelf ==
    ASSUME IInv, TypeOK', NEW h \in Handlers, Creation(h)
    PROVE  Follows(h)' /\ Creates(h)' /\ Closes(h)'
<1>0. /\ TypeOK /\ Numbered /\ h \in Procs /\ Creates(h) /\ Closes(h)
      /\ Follows(h) /\ h # Nobody /\ queue[h] \in SUBSET (Forwards \X (Tasks \cup {NoTask}))
  BY Numbers, NameAssumption DEF IInv, TypeOK
<1>1. ASSUME NEW e \in Endpoints, NEW p \in Ports,
             NEW x \in {"never", "pending"}, Reserve(h, e, p, x)
      PROVE  Follows(h)' /\ Creates(h)' /\ Closes(h)'
  <2>1. made' = made + 1 /\ made' \in Forwards
    BY <1>0, <1>1, ReserveFacts
  <2>2. /\ pc'[h] = "reserved" /\ cur'[h] = made' /\ mutex' = h
        /\ queue' = queue /\ task' = task /\ target' = target
        /\ scope' = scope /\ scope[h] = {}
        /\ status'[made'] = "provisioning" /\ endpoint'[made'] = e
        /\ target[e] # Gone
    BY <1>0, <1>1, <2>1 DEF Reserve, TakesMutex, TypeOK, Closes
  <2>3. task[made'] = NoTask
    BY <1>0, <2>1 DEF Numbered, TypeOK, Forwards
  <2> QED
    BY <1>0, <2>1, <2>2, <2>3
    DEF Follows, Creates, Closes, CreateStages, TypeOK, Forwards
<1>2. CASE CreateLooks(h)
  <2> USE <1>0, <1>2 DEF CreateLooks, CreateStages, rowVars, nodeVars
  <2>1. /\ pc'[h] \in {"adding", "starting", "created", "release"}
        /\ mutex' = mutex /\ cur' = cur /\ queue' = queue /\ scope' = scope
        /\ made' = made /\ status' = status /\ task' = task
        /\ target' = target /\ endpoint' = endpoint /\ port' = port
        /\ up' = up /\ taskPort' = taskPort /\ taskTarget' = taskTarget
    BY DEF Moves, TypeOK
  <2>2. pc'[h] = "adding" =>
           \A t \in Tasks : OnNode(t) => taskPort[t] # port[cur[h]]
    BY DEF Moves, TypeOK
  <2>3. pc'[h] \in {"verifying", "starting", "created", "rollback"} =>
           ref'[h] \in Tasks /\ Fits(ref'[h], cur[h])
    BY DEF Moves, TypeOK
  <2> QED
    BY <2>1, <2>2, <2>3, Numbers
    DEF Follows, Creates, Closes, Fits, OnNode
<1>3. CASE CreateAdds(h)
  <2> USE <1>0, <1>3 DEF CreateAdds, CreateStages, rowVars
  <2>1. /\ pc'[h] \in {"verifying", "release"}
        /\ mutex' = mutex /\ cur' = cur /\ queue' = queue /\ scope' = scope
        /\ made' = made /\ status' = status /\ task' = task
        /\ target' = target /\ endpoint' = endpoint /\ port' = port
    BY DEF Moves, TypeOK
  <2>2. ASSUME pc'[h] = "verifying"
        PROVE  /\ ref'[h] \in Tasks
               /\ taskPort'[ref'[h]] = port[cur[h]]
               /\ taskTarget'[ref'[h]] = target[endpoint[cur[h]]]
    <3>1. issued' \in Tasks
      BY <2>2, Numbers DEF Moves, TypeOK, Tasks
    <3> QED BY <2>2, <3>1 DEF Moves, TypeOK
  <2>3. Creates(h)'
    BY <2>1, <2>2, Numbers DEF Creates, Fits
  <2> QED BY <2>1, <2>3 DEF Follows, Creates, Closes
<1>8. CASE CreateVerifies(h)
  <2> USE <1>0, <1>8 DEF CreateVerifies, CreateStages, rowVars, nodeVars
  <2>1. /\ pc'[h] \in {"starting", "created", "release"}
        /\ mutex' = mutex /\ cur' = cur /\ queue' = queue /\ scope' = scope
        /\ made' = made /\ status' = status /\ task' = task
        /\ target' = target /\ endpoint' = endpoint /\ port' = port
        /\ up' = up /\ taskPort' = taskPort /\ taskTarget' = taskTarget
    BY DEF Moves, TypeOK
  <2>2. pc'[h] \in {"starting", "created"} =>
           ref'[h] \in Tasks /\ Fits(ref'[h], cur[h])
    BY DEF Moves, TypeOK
  <2> QED
    BY <2>1, <2>2, Numbers DEF Follows, Creates, Closes, Fits, OnNode
<1>4. CASE CreateStarts(h)
  <2> USE <1>0, <1>4 DEF CreateStarts, CreateStages, rowVars
  <2>1. /\ pc'[h] \in {"created", "release"} /\ ref' = ref
        /\ mutex' = mutex /\ cur' = cur /\ queue' = queue /\ scope' = scope
        /\ pc'[h] = "created" => OnNode(ref[h])
    BY GoesFacts
  <2> QED BY <2>1 DEF Follows, Creates, Closes, Fits, OnNode
<1>5. CASE Release(h) \/ Unreserve(h)
  BY <1>0, <1>5, AnswersFacts, AtRest DEF Release, Unreserve
<1>6. CASE Activate(h)
  <2>1. CASE Answers(h)
    BY <1>0, <2>1, AnswersFacts, AtRest
  <2>2. CASE Goes(h, "rollback") /\ UNCHANGED <<status, task>>
    BY <1>0, <1>6, <2>2, GoesFacts
    DEF Activate, Follows, Creates, Closes, CreateStages, Fits, OnNode, nodeVars
  <2> QED BY <1>6, <2>1, <2>2 DEF Activate
<1>7. CASE Rollback(h)
  <2> USE <1>0, <1>7 DEF Rollback, CreateStages, rowVars
  <2>1. /\ pc'[h] = "unreserve" /\ ref' = ref
        /\ mutex' = mutex /\ cur' = cur /\ queue' = queue /\ scope' = scope
    BY GoesFacts
  <2> QED BY <2>1 DEF Follows, Creates, Closes
<1> QED BY <1>1, <1>2, <1>3, <1>4, <1>5, <1>6, <1>7, <1>8 DEF Creation

LEMMA SettingSelf ==
    ASSUME IInv, TypeOK', NEW h \in Handlers, Setting(h)
    PROVE  Follows(h)' /\ Creates(h)' /\ Closes(h)'
<1>0. /\ TypeOK /\ h \in Procs /\ Creates(h) /\ Closes(h) /\ Follows(h)
      /\ queue[h] \in SUBSET (Forwards \X (Tasks \cup {NoTask}))
  BY Numbers DEF IInv, TypeOK
<1> USE DEF CreateStages, rowVars
<1>1. ASSUME NEW f \in Forwards, NEW g \in {"running", "stopped"},
             SetReads(h, f, g)
      PROVE  Follows(h)' /\ Creates(h)' /\ Closes(h)'
  BY <1>0, <1>1 DEF SetReads, Moves, Follows, Creates, Closes, TypeOK
<1>2. CASE SetOnNode(h)
  <2>1. CASE Goes(h, "recording")
    BY <1>0, <1>2, <2>1, GoesFacts
    DEF SetOnNode, Follows, Creates, Closes
  <2> QED BY <1>0, <1>2, <2>1, AnswersFacts, AtRest DEF SetOnNode
<1>3. CASE SetRecords(h)
  BY <1>0, <1>3, AnswersFacts, AtRest DEF SetRecords
<1> QED BY <1>1, <1>2, <1>3 DEF Setting

LEMMA ReleasingSelf ==
    ASSUME IInv, TypeOK', NEW p \in Procs, Releasing(p)
    PROVE  /\ Follows(p)'
           /\ p \in Handlers => Creates(p)' /\ Closes(p)'
           /\ p = Sweeper => pc'[p] \in {"free", "next", "task", "row"}
<1>0. /\ TypeOK /\ Follows(p) /\ Numbered
      /\ queue[p] \in SUBSET (Forwards \X (Tasks \cup {NoTask}))
      /\ p \in Handlers => Creates(p) /\ Closes(p)
      /\ p = Sweeper => p \notin Handlers
      /\ p \in Handlers \/ p = Sweeper
      /\ p \in Handlers => p # Nobody
  BY NameAssumption DEF IInv, TypeOK, Procs
<1> DEFINE Goal == /\ Follows(p)'
                   /\ p \in Handlers => Creates(p)' /\ Closes(p)'
                   /\ p = Sweeper => pc'[p] \in {"free", "next", "task", "row"}
<1> USE DEF CreateStages, rowVars
<1>1. ASSUME p \in Handlers, NEW f \in Forwards, DeleteReads(p, f)
      PROVE  Goal
  BY <1>0, <1>1 DEF DeleteReads, Moves, Follows, Creates, Closes, TypeOK
<1>2. ASSUME p \in Handlers, NEW E \in SUBSET Endpoints, CloseReads(p, E)
      PROVE  Goal
  <2>1. /\ pc'[p] = "next" /\ mutex' = p /\ scope'[p] = E /\ E # {}
        /\ queue'[p] = {<<f, task[f]>> :
                           f \in {g \in Forwards : Row(g) /\ endpoint[g] \in E}}
        /\ status' = status /\ endpoint' = endpoint /\ task' = task
    BY <1>0, <1>2 DEF CloseReads, TakesMutex, TypeOK
  <2>2. \A f \in Forwards : Row(f) /\ endpoint[f] \in E =>
           \E item \in queue'[p] : item[1] = f
    <3> SUFFICES ASSUME NEW f \in Forwards, Row(f) /\ endpoint[f] \in E
                 PROVE  \E item \in queue'[p] : item[1] = f
      OBVIOUS
    <3>1. <<f, task[f]>> \in queue'[p] /\ <<f, task[f]>>[1] = f
      BY <2>1
    <3> QED BY <3>1
  <2>3. \A item \in queue'[p] : task[item[1]] = item[2]
    BY <2>1
  <2> QED
    BY <1>0, <1>2, <2>1, <2>2, <2>3 DEF Follows, Creates, Closes, Row
<1>3. CASE p \in Handlers /\ CloseApplies(p)
  BY <1>0, <1>3, AnswersFacts, AtRest DEF CloseApplies
<1>4. CASE p = Sweeper /\ SweepReads
  <2>1. /\ pc'[p] = "next" /\ task' = task
        /\ queue'[p] = {<<f, task[f]>> : f \in Expired}
    BY <1>0, <1>4 DEF SweepReads, Moves, TypeOK
  <2>2. \A item \in queue'[p] : task[item[1]] = item[2]
    BY <2>1
  <2> QED BY <1>0, <1>4, <2>1, <2>2 DEF Follows
<1>5. CASE p = Sweeper /\ SweepEnds
  BY <1>0, <1>5, GoesFacts DEF SweepEnds, Follows
<1>6. CASE TakeNext(p)
  <2> PICK item \in queue[p] :
         /\ cur' = [cur EXCEPT ![p] = item[1]]
         /\ ref' = [ref EXCEPT ![p] = item[2]]
         /\ queue' = [queue EXCEPT ![p] = @ \ {item}]
         /\ Moves(p, IF item[2] = NoTask THEN "row" ELSE "task")
    BY <1>6 DEF TakeNext
  <2>1. /\ cur'[p] = item[1] /\ ref'[p] = item[2] /\ mutex' = mutex
        /\ queue'[p] = queue[p] \ {item} /\ scope' = scope
        /\ pc'[p] = IF item[2] = NoTask THEN "row" ELSE "task"
        /\ pc[p] = "next" /\ task' = task /\ status' = status
        /\ endpoint' = endpoint /\ up' = up
    BY <1>0, <1>6 DEF TakeNext, Moves, TypeOK, nodeVars
  <2>2. Follows(p)'
    BY <1>0, <2>1 DEF Follows
  <2>3. ASSUME p \in Handlers PROVE Creates(p)' /\ Closes(p)'
    BY <1>0, <2>1, <2>3 DEF Creates, Closes, Row
  <2> QED BY <2>1, <2>2, <2>3
<1>7. CASE TaskDeleted(p)
  <2>1. /\ pc'[p] = "row" /\ cur' = cur /\ ref' = ref /\ queue' = queue
        /\ scope' = scope /\ mutex' = mutex /\ pc[p] = "task"
        /\ ref[p] \in Tasks /\ up'[ref[p]] = "absent"
    BY <1>0, <1>7, GoesFacts DEF TaskDeleted, Follows, TypeOK
  <2> QED
    BY <1>0, <1>7, <2>1 DEF TaskDeleted, Follows, Creates, Closes, OnNode, Row
<1>8. CASE TaskKept(p)
  <2>1. CASE p \in Handlers
    BY <1>0, <1>8, <2>1, AnswersFacts, AtRest DEF TaskKept
  <2>2. CASE p \notin Handlers
    BY <1>0, <1>8, <2>2, GoesFacts DEF TaskKept, Follows
  <2> QED BY <2>1, <2>2
<1>9. CASE RowDeleted(p)
  <2>1. CASE p \in Handlers /\ Answers(p)
    BY <1>0, <2>1, AnswersFacts, AtRest
  <2>2. CASE p \notin Handlers \/ ~Answers(p)
    <3>1. /\ pc[p] = "row" /\ Goes(p, "next") /\ task' = task
          /\ endpoint' = endpoint
          /\ p \in Handlers => scope[p] # {} /\ RowGoes(cur[p])
      BY <1>0, <1>9, <2>2 DEF RowDeleted
    <3>2. /\ pc'[p] = "next" /\ cur' = cur /\ ref' = ref /\ queue' = queue
          /\ scope' = scope /\ mutex' = mutex
      BY <1>0, <3>1, GoesFacts
    <3>3. ASSUME p \in Handlers PROVE Closes(p)'
      <4>1. cur[p] \in Forwards
            /\ \A f \in Forwards : Row(f)' => Row(f) /\ f # cur[p]
        BY <1>0, <3>1, <3>3 DEF RowGoes, Row, TypeOK
      <4> QED BY <1>0, <3>1, <3>2, <3>3, <4>1 DEF Closes
    <3> QED BY <1>0, <3>1, <3>2, <3>3 DEF Follows, Creates
  <2> QED BY <2>1, <2>2
<1> QED
  BY <1>1, <1>2, <1>3, <1>4, <1>5, <1>6, <1>7, <1>8, <1>9 DEF Releasing

-----------------------------------------------------------------------------
(* Every step keeps the invariant. *)

\* The step of a process, for all processes.
LEMMA ProcessesStep ==
    ASSUME IInv, TypeOK', NEW p \in Procs, StepOf(p),
           Follows(p)', p \in Handlers => Creates(p)' /\ Closes(p)',
           p = Sweeper => pc'[p] \in {"free", "next", "task", "row"}
    PROVE  /\ \A q \in Procs : Follows(q)'
           /\ \A h \in Handlers : Creates(h)' /\ Closes(h)'
           /\ pc'[Sweeper] \in {"free", "next", "task", "row"}
<1>1. \A q \in Procs : Follows(q)'
  BY FollowsRests DEF StepOf
<1>2. ASSUME NEW h \in Handlers \ {p} PROVE Creates(h)' /\ Closes(h)'
  <2>1. mutex = h => mutex \notin {p, Nobody}
    BY NameAssumption
  <2> QED
    BY <1>2, <2>1, Numbers, CreatesRests, ClosesRests DEF StepOf
<1>3. pc'[Sweeper] \in {"free", "next", "task", "row"}
  BY Numbers DEF StepOf, Rests, IInv
<1> QED BY <1>1, <1>2, <1>3

\* Steps of nobody: the node acts, time passes or the process restarts.
LEMMA ProcessesAlone ==
    ASSUME IInv, TypeOK',
           Restart \/ Late \/ UNCHANGED vars \/ \E f \in Forwards : Expires(f)
    PROVE  /\ \A q \in Procs : Follows(q)'
           /\ \A h \in Handlers : Creates(h)' /\ Closes(h)'
           /\ pc'[Sweeper] \in {"free", "next", "task", "row"}
<1>0. TypeOK /\ \A h \in Handlers : h \in Procs
  BY Numbers DEF IInv
<1>1. CASE Restart
  <2>1. /\ \A q \in Procs : queue'[q] = {}
        /\ \A h \in Handlers : pc'[h] \in {"answered", "free"} /\ scope'[h] = {}
        /\ pc'[Sweeper] = "free" /\ Sweeper \notin Handlers
        /\ Procs = Handlers \cup {Sweeper}
    BY <1>0, <1>1, Numbers, NameAssumption DEF Restart, Procs
  <2>2. Follows(Sweeper)'
    BY <2>1, Numbers DEF Follows
  <2>3. \A h \in Handlers : Follows(h)' /\ Creates(h)' /\ Closes(h)'
    BY <1>0, <2>1, AtRest
  <2> QED BY <2>1, <2>2, <2>3
<1>2. CASE UNCHANGED vars \/ \E f \in Forwards : Expires(f)
  <2>1. UNCHANGED <<made, status, endpoint, port, task, target, nodeVars,
                    procVars, lateVars>>
    BY <1>2 DEF vars, rowVars, Expires
  <2>2. /\ \A q \in Procs : Rests(q)
        /\ Steady /\ Outside
    BY <1>0, <2>1
    DEF Rests, Steady, Outside, nodeVars, lateVars, procVars, localVars, TypeOK
  <2> QED
    BY <1>0, <2>1, <2>2, FollowsRests, CreatesRests, ClosesRests
    DEF procVars, IInv
<1>3. CASE Late
  BY <1>0, <1>3, LateStep, FollowsRests, CreatesRests, ClosesRests
  DEF procVars, IInv
<1> QED BY <1>1, <1>2, <1>3

LEMMA ProcessesKept ==
    ASSUME IInv, TypeOK', [Next]_vars
    PROVE  /\ \A q \in Procs : Follows(q)'
           /\ \A h \in Handlers : Creates(h)' /\ Closes(h)'
           /\ pc'[Sweeper] \in {"free", "next", "task", "row"}
<1>1. ASSUME NEW h \in Handlers, Creation(h) \/ Setting(h)
      PROVE  /\ \A q \in Procs : Follows(q)'
             /\ \A g \in Handlers : Creates(g)' /\ Closes(g)'
             /\ pc'[Sweeper] \in {"free", "next", "task", "row"}
  <2>1. h \in Procs /\ h # Sweeper
    BY Numbers, NameAssumption
  <2>2. StepOf(h) /\ Follows(h)' /\ Creates(h)' /\ Closes(h)'
    BY <1>1, CreationStep, SettingStep, CreatesSelf, SettingSelf
  <2> QED BY <2>1, <2>2, ProcessesStep
<1>2. ASSUME NEW p \in Procs, Releasing(p)
      PROVE  /\ \A q \in Procs : Follows(q)'
             /\ \A g \in Handlers : Creates(g)' /\ Closes(g)'
             /\ pc'[Sweeper] \in {"free", "next", "task", "row"}
  BY <1>2, ReleasingStep, ReleasingSelf, ProcessesStep
<1> QED BY <1>1, <1>2, ProcessesAlone, NextCases

\* What can happen to a row: it is reserved, activated by the handler that made
\* it, started, stopped or marked with its reference, or deleted.
RowChange(f) ==
    \/ status'[f] = status[f] /\ task'[f] = task[f]
    \/ /\ status'[f] = "none" /\ task'[f] = task[f]
       /\ \/ task[f] = NoTask
          \/ \E p \in Procs : pc[p] = "row" /\ cur[p] = f
    \/ /\ status'[f] = "provisioning" /\ f = made + 1 /\ made' = f
       /\ task'[f] = NoTask
    \/ /\ status[f] = "provisioning" /\ status'[f] = "running"
       /\ \E h \in Handlers : pc[h] = "created" /\ cur[h] = f
                              /\ task'[f] = ref[h]
    \/ /\ status[f] # "none" /\ task[f] # NoTask /\ task'[f] = task[f]
       /\ status'[f] \in {"running", "stopped", "cleanup_failed"}

\* What can happen to a task: it is made by a handler that saw none on its port,
\* or later than anybody waits for it, or it goes.
TaskChange(t) ==
    \/ /\ up'[t] = up[t] \/ up'[t] = "absent" \/ OnNode(t)
       /\ taskPort'[t] = taskPort[t] /\ taskTarget'[t] = taskTarget[t]
    \/ /\ t = issued + 1 /\ issued' = t
       /\ \/ t \in stray'
          \/ \E h \in Handlers : pc[h] = "adding" /\ taskPort'[t] = port[cur[h]]

\* An endpoint that a row refers to keeps its address.
TargetsStay ==
    \A f \in Forwards : Row(f) => target'[endpoint[f]] = target[endpoint[f]]

Changes ==
    /\ \A f \in Forwards : RowChange(f)
    /\ \A t \in Tasks : TaskChange(t)
    /\ TargetsStay
    /\ made' \in {made, made + 1} /\ issued' \in {issued, issued + 1}

LEMMA ChangesNow ==
    ASSUME IInv
    PROVE  /\ UNCHANGED <<status, task>> => \A f \in Forwards : RowChange(f)
           /\ UNCHANGED nodeVars => \A t \in Tasks : TaskChange(t)
           /\ target' = target => TargetsStay
  BY DEF RowChange, TaskChange, TargetsStay, nodeVars

LEMMA CreationChanges ==
    ASSUME IInv, NEW h \in Handlers, Creation(h)
    PROVE  Changes
<1>0. /\ TypeOK /\ Numbered /\ Creates(h) /\ h \in Procs
      /\ made \in Nat /\ issued \in Nat
  BY Numbers DEF IInv, TypeOK
<1> USE DEF Changes, rowVars, CreateStages
<1>1. ASSUME NEW e \in Endpoints, NEW p \in Ports,
             NEW x \in {"never", "pending"}, Reserve(h, e, p, x)
      PROVE  Changes
  <2>1. made' = made + 1 /\ made' \in Forwards
    BY <1>0, <1>1, ReserveFacts
  <2>2. \A f \in Forwards : RowChange(f)
    BY <1>0, <1>1, <2>1 DEF Reserve, RowChange, Numbered, TypeOK
  <2> QED BY <1>0, <1>1, <2>1, <2>2, ChangesNow DEF Reserve, nodeVars
<1>2. CASE CreateLooks(h)
  BY <1>0, <1>2, ChangesNow DEF CreateLooks, nodeVars
<1>3. CASE CreateAdds(h)
  <2>1. CASE UNCHANGED nodeVars
    BY <1>0, <1>3, <2>1, ChangesNow DEF CreateAdds, nodeVars
  <2>2. CASE issued < MaxTasks /\ issued' = issued + 1
    <3>1. issued' \in Tasks
      BY <1>0, <2>2, Numbers DEF Tasks
    <3>2. /\ \A t \in Tasks \ {issued'} :
                up'[t] = up[t] /\ taskPort'[t] = taskPort[t]
                /\ taskTarget'[t] = taskTarget[t]
          /\ taskPort'[issued'] = port[cur[h]]
      BY <1>0, <1>3, <2>2, <3>1 DEF CreateAdds, TypeOK, nodeVars
    <3>3. \A t \in Tasks : TaskChange(t)
      BY <1>3, <2>2, <3>2 DEF CreateAdds, TaskChange
    <3> QED BY <1>0, <1>3, <2>2, <3>3, ChangesNow DEF CreateAdds
  <2> QED BY <1>3, <2>1, <2>2 DEF CreateAdds
<1>4. CASE CreateStarts(h)
  <2>1. ref[h] \in Tasks
    BY <1>0, <1>4 DEF CreateStarts, Creates, TypeOK
  <2>2. \A t \in Tasks : TaskChange(t)
    BY <1>0, <1>4, <2>1 DEF CreateStarts, TaskChange, OnNode, TypeOK
  <2> QED BY <1>0, <1>4, <2>2, ChangesNow DEF CreateStarts
<1>5. CASE Release(h) \/ Unreserve(h)
  <2>1. task[cur[h]] = NoTask /\ cur[h] \in Forwards
    BY <1>0, <1>5 DEF Release, Unreserve, Creates, TypeOK
  <2>2. /\ status' = status \/ status' = [status EXCEPT ![cur[h]] = "none"]
        /\ task' = task
    BY <1>5 DEF Release, Unreserve, RowGoes
  <2>3. \A f \in Forwards : RowChange(f)
    BY <1>0, <2>1, <2>2 DEF RowChange, TypeOK
  <2> QED BY <1>0, <1>5, <2>3, ChangesNow DEF Release, Unreserve, nodeVars
<1>6. CASE Activate(h)
  <2>1. \A f \in Forwards : RowChange(f)
    BY <1>0, <1>6 DEF Activate, RowChange, TypeOK
  <2> QED BY <1>0, <1>6, <2>1, ChangesNow DEF Activate, nodeVars
<1>7. CASE Rollback(h)
  <2>1. ref[h] \in Tasks
    BY <1>0, <1>7 DEF Rollback, Creates, TypeOK
  <2>2. \A t \in Tasks : TaskChange(t)
    BY <1>0, <1>7, <2>1 DEF Rollback, TaskChange, TypeOK
  <2> QED BY <1>0, <1>7, <2>2, ChangesNow DEF Rollback
<1>8. CASE CreateVerifies(h)
  BY <1>0, <1>8, ChangesNow DEF CreateVerifies, nodeVars
<1> QED BY <1>1, <1>2, <1>3, <1>4, <1>5, <1>6, <1>7, <1>8 DEF Creation

LEMMA SettingChanges ==
    ASSUME IInv, NEW h \in Handlers, Setting(h)
    PROVE  Changes
<1>0. /\ TypeOK /\ Follows(h) /\ h \in Procs
  BY Numbers DEF IInv
<1> USE DEF Changes, rowVars, nodeVars
<1>1. ASSUME NEW f \in Forwards, NEW g \in {"running", "stopped"},
             SetReads(h, f, g)
      PROVE  Changes
  BY <1>1, ChangesNow DEF SetReads
<1>2. CASE SetOnNode(h)
  <2>1. ref[h] \in Tasks
    BY <1>0, <1>2 DEF SetOnNode, Follows, TypeOK
  <2>2. \A t \in Tasks : TaskChange(t)
    BY <1>0, <1>2, <2>1 DEF SetOnNode, TaskChange, OnNode, TypeOK
  <2> QED BY <1>2, <2>2, ChangesNow DEF SetOnNode
<1>3. CASE SetRecords(h)
  <2>1. task[cur[h]] # NoTask /\ goal[h] \in {"running", "stopped"}
    BY <1>0, <1>3 DEF SetRecords, Follows, TypeOK
  <2>2. \A f \in Forwards : RowChange(f)
    BY <1>0, <1>3, <2>1 DEF SetRecords, RowChange, Row, TypeOK
  <2> QED BY <1>3, <2>2, ChangesNow DEF SetRecords
<1> QED BY <1>1, <1>2, <1>3 DEF Setting

LEMMA ReleasingChanges ==
    ASSUME IInv, NEW p \in Procs, Releasing(p)
    PROVE  Changes
<1>0. /\ TypeOK /\ Follows(p)
      /\ p \in Handlers => Closes(p)
  BY DEF IInv
<1> USE DEF Changes, rowVars, nodeVars
<1>1. ASSUME p \in Handlers, NEW f \in Forwards, DeleteReads(p, f)
      PROVE  Changes
  BY <1>1, ChangesNow DEF DeleteReads
<1>2. ASSUME p \in Handlers, NEW E \in SUBSET Endpoints, CloseReads(p, E)
      PROVE  Changes
  BY <1>2, ChangesNow DEF CloseReads
<1>3. CASE p \in Handlers /\ CloseApplies(p)
  <2>1. \A f \in Forwards : Row(f) => endpoint[f] \notin scope[p]
    BY <1>0, <1>3 DEF CloseApplies, Closes
  <2>2. \A e \in Endpoints : e \notin scope[p] => target'[e] = target[e]
    BY <1>3 DEF CloseApplies
  <2>3. TargetsStay
    BY <1>0, <2>1, <2>2 DEF TargetsStay, TypeOK
  <2> QED BY <1>3, <2>3, ChangesNow DEF CloseApplies
<1>4. CASE p = Sweeper /\ (SweepReads \/ SweepEnds)
  BY <1>4, ChangesNow DEF SweepReads, SweepEnds
<1>5. CASE TakeNext(p)
  BY <1>5, ChangesNow DEF TakeNext
<1>6. CASE TaskDeleted(p)
  <2>1. ref[p] \in Tasks
    BY <1>0, <1>6 DEF TaskDeleted, Follows, TypeOK
  <2>2. \A t \in Tasks : TaskChange(t)
    BY <1>0, <1>6, <2>1 DEF TaskDeleted, TaskChange, TypeOK
  <2> QED BY <1>6, <2>2, ChangesNow DEF TaskDeleted
<1>7. CASE TaskKept(p)
  <2>1. ref[p] \in Tasks /\ task[cur[p]] # NoTask
    BY <1>0, <1>7 DEF TaskKept, Follows, TypeOK
  <2>2. \A t \in Tasks : TaskChange(t)
    BY <1>0, <1>7, <2>1 DEF TaskKept, TaskChange, TypeOK
  <2>3. \A f \in Forwards : RowChange(f)
    BY <1>0, <1>7, <2>1
    DEF TaskKept, MarksCleanupFailed, RowChange, Row, TypeOK
  <2> QED BY <1>7, <2>2, <2>3, ChangesNow DEF TaskKept
<1>8. CASE RowDeleted(p)
  <2>1. \A f \in Forwards : RowChange(f)
    BY <1>0, <1>8 DEF RowDeleted, RowGoes, RowChange, TypeOK
  <2> QED BY <1>8, <2>1, ChangesNow DEF RowDeleted
<1> QED
  BY <1>1, <1>2, <1>3, <1>4, <1>5, <1>6, <1>7, <1>8 DEF Releasing

LEMMA LateChanges ==
    ASSUME IInv, Late
    PROVE  Changes
<1>0. TypeOK /\ issued \in Nat
  BY Numbers DEF IInv, TypeOK
<1>1. UNCHANGED <<made, status, task, target>>
  BY LateStep DEF rowVars
<1>2. issued' \in {issued, issued + 1} /\ \A t \in Tasks : TaskChange(t)
  <2>1. CASE \E p \in Procs : LateCall(p)
    BY <1>0, <2>1 DEF LateCall, TaskChange, OnNode, TypeOK
  <2>2. CASE \E h \in Handlers : LateAdd(h)
    <3>1. /\ issued' = issued + 1 /\ issued' \in stray'
          /\ \A t \in Tasks \ {issued'} :
                /\ up'[t] = up[t] /\ taskPort'[t] = taskPort[t]
                /\ taskTarget'[t] = taskTarget[t]
      BY <1>0, <2>2 DEF LateAdd, TypeOK
    <3> QED BY <3>1 DEF TaskChange
  <2> QED BY <2>1, <2>2 DEF Late
<1> QED BY <1>1, <1>2, ChangesNow DEF Changes

LEMMA StepFacts ==
    ASSUME IInv, [Next]_vars
    PROVE  Changes /\ Steady
<1>0. TypeOK
  BY DEF IInv
<1>1. CASE UNCHANGED <<made, status, endpoint, port, task, target, nodeVars, stray>>
  BY <1>0, <1>1, ChangesNow DEF Changes, Steady, nodeVars, TypeOK
<1>2. CASE Restart \/ UNCHANGED vars \/ \E f \in Forwards : Expires(f)
  BY <1>1, <1>2 DEF Restart, Expires, vars, rowVars, lateVars
<1> QED
  BY <1>2, NextCases, LateStep, LateChanges, Numbers, CreationChanges, SettingChanges,
     ReleasingChanges, CreationStep, SettingStep, ReleasingStep
  DEF StepOf

-----------------------------------------------------------------------------
LEMMA ReferencesStep ==
    ASSUME IInv, TypeOK', [Next]_vars
    PROVE  ReferencesAreRight'
<1>0. /\ TypeOK /\ Numbered /\ ReferencesAreRight /\ Changes /\ Steady
      /\ \A h \in Handlers : Creates(h) /\ h \in Procs
  BY StepFacts, Numbers DEF IInv
<1> SUFFICES ASSUME NEW f \in Forwards, status'[f] # "none"
             PROVE  /\ task'[f] = NoTask <=> status'[f] = "provisioning"
                    /\ task'[f] # NoTask /\ up'[task'[f]] # "absent"
                         => /\ taskPort'[task'[f]] = port'[f]
                            /\ taskTarget'[task'[f]] = target'[endpoint'[f]]
  BY DEF ReferencesAreRight, Row, OnNode
<1>1. CASE f > made
  BY <1>0, <1>1 DEF Changes, RowChange, Numbered, TypeOK
<1>2. CASE f <= made
  <2>1. /\ status[f] # "none" /\ endpoint'[f] = endpoint[f]
        /\ port'[f] = port[f] /\ target'[endpoint[f]] = target[endpoint[f]]
    BY <1>0, <1>2 DEF Steady, Changes, TargetsStay, Row
  <2>2. \A t \in Tasks : t <= issued /\ up'[t] # "absent" =>
           /\ OnNode(t) /\ taskPort'[t] = taskPort[t]
           /\ taskTarget'[t] = taskTarget[t]
    BY <1>0 DEF Steady, OnNode
  <2>3. CASE /\ task'[f] = task[f]
             /\ \/ status'[f] = status[f]
                \/ task[f] # NoTask /\ status'[f] # "provisioning"
    <3>1. /\ task[f] \in Tasks \cup {NoTask} /\ task[f] <= issued
          /\ task[f] = NoTask <=> status[f] = "provisioning"
          /\ task[f] # NoTask /\ OnNode(task[f])
               => /\ taskPort[task[f]] = port[f]
                  /\ taskTarget[task[f]] = target[endpoint[f]]
      BY <1>0, <2>1 DEF ReferencesAreRight, Numbered, Row, TypeOK
    <3> QED BY <2>1, <2>2, <2>3, <3>1
  <2>4. CASE \E h \in Handlers : pc[h] = "created" /\ cur[h] = f
                                 /\ task'[f] = ref[h] /\ status'[f] = "running"
    <3> PICK h \in Handlers : pc[h] = "created" /\ cur[h] = f
                              /\ task'[f] = ref[h] /\ status'[f] = "running"
      BY <2>4
    <3>1. /\ ref[h] \in Tasks /\ ref[h] <= issued
          /\ OnNode(ref[h]) => Fits(ref[h], f)
      BY <1>0 DEF Creates, CreateStages, Numbered, TypeOK
    <3> QED BY <2>1, <2>2, <3>1, Numbers DEF Fits
  <2> QED BY <1>0, <1>2, <2>3, <2>4 DEF Changes, RowChange, TypeOK, Forwards
<1> QED BY <1>0, <1>1, <1>2 DEF TypeOK, Forwards

LEMMA OneTaskStep ==
    ASSUME IInv, TypeOK', [Next]_vars
    PROVE  OneTaskPerPort'
<1>0. /\ TypeOK /\ Numbered /\ OneTaskPerPort /\ Changes
      /\ stray \subseteq stray'
      /\ \A h \in Handlers : Creates(h)
  BY StepFacts DEF IInv, Steady
<1> SUFFICES ASSUME NEW t \in Tasks, NEW u \in Tasks, up'[t] # "absent",
                    up'[u] # "absent", taskPort'[t] = taskPort'[u],
                    t \notin stray', u \notin stray'
             PROVE  t = u
  BY DEF OneTaskPerPort, OnNode
<1>1. ASSUME NEW v \in Tasks, up'[v] # "absent", v \notin stray'
      PROVE  \/ OnNode(v) /\ taskPort'[v] = taskPort[v]
             \/ /\ v = issued + 1
                /\ \A w \in Tasks :
                      OnNode(w) => taskPort[w] # taskPort'[v] \/ w \in stray
  BY <1>0, <1>1 DEF Changes, TaskChange, Creates, CreateStages, OnNode
<1> QED BY <1>0, <1>1 DEF OneTaskPerPort

-----------------------------------------------------------------------------
(* Rows and tasks are numbered as they are made. *)

\* Nothing a process works from refers to a task that is still to come.
Bounded(p) ==
    ref[p] <= issued /\ \A item \in queue[p] : item[2] <= issued

LEMMA ReferenceNumbers ==
    ASSUME TypeOK
    PROVE  /\ issued \in Nat /\ made \in Nat
           /\ \A f \in Forwards : task[f] \in Nat
           /\ \A p \in Procs : /\ ref[p] \in Nat
                               /\ \A item \in queue[p] : item[2] \in Nat
<1>1. Tasks \cup {NoTask} \subseteq Nat
  BY Numbers
<1>2. ASSUME NEW p \in Procs, NEW item \in queue[p] PROVE item[2] \in Nat
  <2>1. item \in Forwards \X (Tasks \cup {NoTask})
    BY DEF TypeOK
  <2> QED BY <1>1, <2>1
<1>3. \A f \in Forwards : task[f] \in Nat
  BY <1>1 DEF TypeOK
<1>4. \A p \in Procs : ref[p] \in Nat
  BY <1>1 DEF TypeOK
<1> QED BY <1>2, <1>3, <1>4, Numbers DEF TypeOK

LEMMA BoundedSelf ==
    ASSUME IInv, TypeOK', NEW p \in Procs,
           (p \in Handlers /\ (Creation(p) \/ Setting(p))) \/ Releasing(p)
    PROVE  Bounded(p)'
<1>0. /\ TypeOK /\ Numbered /\ Bounded(p)
      /\ issued \in Nat /\ issued' \in Nat /\ issued <= issued'
  <2>1. TypeOK /\ Numbered /\ issued \in Nat /\ issued' \in Nat
    BY Numbers DEF IInv, TypeOK
  <2>2. Changes
    BY CreationChanges, SettingChanges, ReleasingChanges
  <2> QED BY <2>1, <2>2 DEF Changes, Numbered, Bounded
<1>1. ASSUME ref'[p] <= issued', \A item \in queue'[p] : item[2] <= issued'
      PROVE  Bounded(p)'
  BY <1>1 DEF Bounded
<1>2. ASSUME p \in Handlers, Answers(p) PROVE Bounded(p)'
  BY <1>0, <1>1, <1>2, AnswersFacts DEF NoTask
<1>3. ASSUME ref'[p] <= issued, queue' = queue PROVE Bounded(p)'
  <2>1. ref'[p] \in Nat /\ \A item \in queue[p] : item[2] \in Nat
    <3>1. ref'[p] \in Tasks \cup {NoTask}
      BY DEF TypeOK
    <3>2. ref'[p] \in Nat
      <4>1. Tasks \cup {NoTask} \subseteq Nat
        BY Numbers
      <4> QED BY <3>1, <4>1
    <3> QED BY <1>0, <3>2, ReferenceNumbers
  <2> QED BY <1>0, <1>1, <1>3, <2>1 DEF Bounded
<1>4. ASSUME ref' = ref, queue' = queue PROVE Bounded(p)'
  BY <1>0, <1>3, <1>4 DEF Bounded
<1>5. CASE p \in Handlers /\ Creation(p)
  <2>1. ASSUME NEW e \in Endpoints, NEW q \in Ports,
               NEW x \in {"never", "pending"}, Reserve(p, e, q, x)
        PROVE  Bounded(p)'
    BY <1>4, <2>1 DEF Reserve
  <2>2. CASE CreateLooks(p)
    <3>1. ref'[p] <= issued
      BY <1>0, <2>2, Numbers DEF CreateLooks, Numbered, Bounded, OnNode, TypeOK
    <3> QED BY <1>3, <2>2, <3>1 DEF CreateLooks
  <2>3. CASE CreateAdds(p)
    <3>1. queue' = queue
      BY <2>3 DEF CreateAdds
    <3>2. ref' = ref \/ ref'[p] = issued'
      BY <1>0, <2>3 DEF CreateAdds, TypeOK
    <3>3. \A item \in queue[p] : item[2] \in Nat /\ item[2] <= issued
      BY <1>0, ReferenceNumbers DEF Bounded
    <3> QED BY <1>0, <1>1, <1>4, <3>1, <3>2, <3>3
  <2>8. CASE CreateVerifies(p)
    <3>1. ref'[p] <= issued
      BY <1>0, <2>8, Numbers DEF CreateVerifies, Numbered, Bounded, OnNode, TypeOK
    <3> QED BY <1>3, <2>8, <3>1 DEF CreateVerifies
  <2>4. CASE CreateStarts(p)
    BY <1>4, <2>4 DEF CreateStarts, Goes, localVars
  <2>5. CASE Release(p) \/ Unreserve(p)
    BY <1>2, <1>5, <2>5 DEF Release, Unreserve
  <2>6. CASE Activate(p)
    BY <1>2, <1>4, <1>5, <2>6 DEF Activate, Goes, localVars
  <2>7. CASE Rollback(p)
    BY <1>4, <2>7 DEF Rollback, Goes, localVars
  <2> QED BY <1>5, <2>1, <2>2, <2>3, <2>4, <2>5, <2>6, <2>7, <2>8 DEF Creation
<1>6. CASE p \in Handlers /\ Setting(p)
  <2>1. ASSUME NEW f \in Forwards, NEW g \in {"running", "stopped"},
               SetReads(p, f, g)
        PROVE  Bounded(p)'
    <3>1. ref'[p] <= issued /\ queue' = queue
      BY <1>0, <2>1 DEF SetReads, Numbered, TypeOK
    <3> QED BY <1>3, <3>1
  <2>2. CASE SetOnNode(p) \/ SetRecords(p)
    BY <1>2, <1>4, <1>6, <2>2 DEF SetOnNode, SetRecords, Goes, localVars
  <2> QED BY <1>6, <2>1, <2>2 DEF Setting
<1>7. CASE Releasing(p)
  <2>1. ASSUME p \in Handlers, NEW f \in Forwards, DeleteReads(p, f)
        PROVE  Bounded(p)'
    <3>1. ref'[p] <= issued /\ queue' = queue
      BY <1>0, <2>1 DEF DeleteReads, Numbered, TypeOK
    <3> QED BY <1>3, <3>1
  <2>2. ASSUME NEW S \in SUBSET Forwards, ref' = ref, issued' = issued,
               queue'[p] = {<<f, task[f]>> : f \in S}
        PROVE  Bounded(p)'
    BY <1>0, <1>1, <2>2 DEF Numbered, Bounded
  <2>3. ASSUME p \in Handlers, NEW E \in SUBSET Endpoints, CloseReads(p, E)
        PROVE  Bounded(p)'
    <3>1. /\ ref' = ref /\ issued' = issued
          /\ queue'[p] = {<<f, task[f]>> :
                            f \in {g \in Forwards : Row(g) /\ endpoint[g] \in E}}
      BY <1>0, <2>3 DEF CloseReads, nodeVars, TypeOK
    <3> QED BY <2>2, <3>1
  <2>4. CASE p = Sweeper /\ SweepReads
    <3>1. /\ ref' = ref /\ issued' = issued /\ Expired \subseteq Forwards
          /\ queue'[p] = {<<f, task[f]>> : f \in Expired}
      BY <1>0, <2>4 DEF SweepReads, nodeVars, TypeOK, Expired
    <3> QED BY <2>2, <3>1
  <2>5. CASE p \in Handlers /\ CloseApplies(p)
    BY <1>2, <2>5 DEF CloseApplies
  <2>6. CASE p = Sweeper /\ SweepEnds
    BY <1>4, <2>6 DEF SweepEnds, Goes, localVars
  <2>7. CASE TakeNext(p)
    <3> PICK item \in queue[p] :
           /\ ref' = [ref EXCEPT ![p] = item[2]]
           /\ queue' = [queue EXCEPT ![p] = @ \ {item}]
      BY <2>7 DEF TakeNext
    <3>1. /\ ref'[p] = item[2] /\ queue'[p] \subseteq queue[p]
          /\ issued' = issued
      BY <1>0, <2>7 DEF TypeOK, TakeNext, nodeVars
    <3> QED BY <1>0, <1>1, <3>1 DEF Bounded
  <2>8. CASE TaskDeleted(p)
    BY <1>4, <2>8 DEF TaskDeleted, Goes, localVars
  <2>9. CASE TaskKept(p)
    BY <1>2, <1>4, <2>9 DEF TaskKept, Goes, localVars
  <2>10. CASE RowDeleted(p)
    BY <1>2, <1>4, <2>10 DEF RowDeleted, Goes, localVars
  <2> QED
    BY <1>7, <2>1, <2>3, <2>4, <2>5, <2>6, <2>7, <2>8, <2>9, <2>10
    DEF Releasing
<1> QED BY <1>5, <1>6, <1>7

LEMMA BoundedStep ==
    ASSUME IInv, TypeOK', [Next]_vars
    PROVE  \A p \in Procs : Bounded(p)'
<1>0. /\ TypeOK /\ issued \in Nat /\ issued' \in Nat
      /\ issued <= issued'
      /\ \A p \in Procs : Bounded(p)
      /\ \A p \in Procs : ref[p] \in Nat
                          /\ \A item \in queue[p] : item[2] \in Nat
  <2>1. TypeOK /\ Numbered /\ Steady
    BY StepFacts DEF IInv
  <2>2. issued' \in Nat
    BY Numbers DEF TypeOK
  <2> QED BY <2>1, <2>2, ReferenceNumbers DEF Steady, Numbered, Bounded
<1>1. ASSUME NEW q \in Procs, ref'[q] = ref[q], queue'[q] = queue[q]
      PROVE  Bounded(q)'
  BY <1>0, <1>1 DEF Bounded
<1>2. ASSUME NEW p \in Procs, StepOf(p), Bounded(p)'
      PROVE  \A q \in Procs : Bounded(q)'
  BY <1>1, <1>2 DEF StepOf, Rests
<1>3. CASE Restart
  BY <1>0, <1>3 DEF Restart, Bounded, NoTask
<1>4. CASE UNCHANGED vars \/ \E f \in Forwards : Expires(f)
  BY <1>1, <1>4 DEF vars, Expires, procVars, localVars
<1>5. CASE Late
  BY <1>1, <1>5, LateStep DEF Rests
<1> QED
  BY <1>2, <1>3, <1>4, <1>5, BoundedSelf, NextCases, CreationStep, SettingStep,
     ReleasingStep, Numbers

LEMMA NumberedStep ==
    ASSUME IInv, TypeOK', [Next]_vars
    PROVE  Numbered'
<1>0. /\ TypeOK /\ TypeOK' /\ Numbered /\ Changes
      /\ made \in Nat /\ made' \in Nat /\ issued \in Nat /\ issued' \in Nat
      /\ made' >= made /\ issued' >= issued
  <2>1. TypeOK /\ Numbered /\ Changes
    BY StepFacts DEF IInv
  <2> QED BY <2>1, Numbers DEF TypeOK, Changes
<1>1. \A f \in Forwards : f > made' => status'[f] = "none" /\ task'[f] = NoTask
  <2> SUFFICES ASSUME NEW f \in Forwards, f > made'
               PROVE  status'[f] = "none" /\ task'[f] = NoTask
    OBVIOUS
  <2>1. f > made /\ f # made'
    BY <1>0, Numbers
  <2>2. status[f] = "none" /\ task[f] = NoTask /\ RowChange(f)
    BY <1>0, <2>1 DEF Numbered, Changes
  <2> QED BY <2>1, <2>2 DEF RowChange
<1>2. \A t \in Tasks : t > issued' => up'[t] = "absent"
  <2> SUFFICES ASSUME NEW t \in Tasks, t > issued' PROVE up'[t] = "absent"
    OBVIOUS
  <2>1. t > issued /\ t # issued'
    BY <1>0, Numbers
  <2>2. up[t] = "absent" /\ TaskChange(t)
    BY <1>0, <2>1 DEF Numbered, Changes
  <2> QED BY <2>1, <2>2 DEF TaskChange, OnNode
<1>3. \A f \in Forwards : task'[f] <= issued'
  <2> SUFFICES ASSUME NEW f \in Forwards PROVE task'[f] <= issued'
    OBVIOUS
  <2>1. task[f] <= issued /\ \A h \in Handlers : ref[h] <= issued
    BY <1>0, Numbers DEF Numbered
  <2>2. \/ task'[f] = task[f] \/ task'[f] = NoTask
        \/ \E h \in Handlers : task'[f] = ref[h]
    BY <1>0 DEF Changes, RowChange
  <2>3. task[f] \in Nat /\ \A h \in Handlers : ref[h] \in Nat
    BY <1>0, ReferenceNumbers, Numbers
  <2> QED BY <1>0, <2>1, <2>2, <2>3 DEF Changes, NoTask
<1> QED BY <1>1, <1>2, <1>3, BoundedStep DEF Numbered, Bounded

-----------------------------------------------------------------------------
(* Whoever is given a task passes it on to a row, deletes it or loses it. *)

HoldStages == {"verifying", "starting", "created", "rollback"}

Holds(h, t) == ref[h] = t /\ pc[h] \in HoldStages

Explained(t) ==
    Held(t) \/ t \in lost \/ \E f \in Forwards : task[f] = t

LEMMA CreationHandsOver ==
    ASSUME IInv, TypeOK', NEW h \in Handlers, Creation(h)
    PROVE  /\ lost \subseteq lost'
           /\ \A t \in Tasks : up'[t] # "absent" /\ (Holds(h, t) \/ ~OnNode(t))
                => Holds(h, t)' \/ t \in lost' \/ \E f \in Forwards : task'[f] = t
<1>0. TypeOK /\ Numbered /\ Creates(h) /\ h \in Procs
  BY Numbers DEF IInv
<1> USE DEF rowVars, nodeVars, localVars, CreateStages, HoldStages
<1>1. ASSUME NEW e \in Endpoints, NEW p \in Ports,
             NEW x \in {"never", "pending"}, Reserve(h, e, p, x)
      PROVE  up' = up /\ lost' = lost /\ pc[h] = "free"
  BY <1>1 DEF Reserve
<1>2. CASE CreateLooks(h)
  BY <1>2 DEF CreateLooks, Holds, OnNode
<1>3. CASE CreateAdds(h)
  <2>1. CASE UNCHANGED <<nodeVars, ref>>
    BY <1>3, <2>1 DEF CreateAdds, Holds, OnNode
  <2>2. CASE ref'[h] = issued' /\ pc'[h] = "verifying"
    <3>1. \A t \in Tasks : up'[t] # "absent" => OnNode(t) \/ t = issued'
      BY <1>0, <1>3, <2>2 DEF CreateAdds, TypeOK, OnNode
    <3> QED BY <1>3, <2>2, <3>1 DEF Holds, CreateAdds
  <2> QED BY <1>0, <1>3, <2>1, <2>2 DEF CreateAdds, Moves, TypeOK
<1>8. CASE CreateVerifies(h)
  <2>1. /\ up' = up
        /\ \/ lost' = lost \cup {ref[h]}
           \/ \E t \in Tasks : /\ ref'[h] = t /\ pc'[h] \in {"created", "starting"}
                               /\ lost' = lost \cup ({ref[h]} \ {t})
    BY <1>0, <1>8 DEF CreateVerifies, Moves, TypeOK
  <2> QED BY <2>1 DEF Holds, OnNode
<1>4. CASE CreateStarts(h)
  <2>1. /\ \/ pc'[h] = "created" /\ ref' = ref /\ lost' = lost
           \/ lost' = lost \cup {ref[h]}
        /\ \A t \in Tasks : up'[t] # "absent" => OnNode(t)
    BY <1>0, <1>4 DEF CreateStarts, Goes, Moves, TypeOK, OnNode
  <2> QED BY <2>1 DEF Holds
<1>5. CASE Release(h) \/ Unreserve(h)
  BY <1>5 DEF Release, Unreserve, Holds, OnNode
<1>6. CASE Activate(h)
  <2>1. \/ task'[cur[h]] = ref[h] /\ cur[h] \in Forwards
        \/ pc'[h] = "rollback" /\ ref' = ref
    BY <1>0, <1>6 DEF Activate, Goes, Moves, TypeOK
  <2> QED BY <1>6, <2>1 DEF Holds, OnNode, Activate
<1>7. CASE Rollback(h)
  <2>1. /\ \/ up' = [up EXCEPT ![ref[h]] = "absent"] /\ lost' = lost
           \/ up' = up /\ lost' = lost \cup {ref[h]}
    BY <1>7 DEF Rollback
  <2> QED BY <1>0, <2>1 DEF Holds, OnNode, TypeOK
<1> QED
  BY <1>1, <1>2, <1>3, <1>4, <1>5, <1>6, <1>7, <1>8 DEF Creation, Holds, OnNode

LEMMA OthersHoldNothing ==
    ASSUME IInv, TypeOK', NEW p \in Procs,
           (p \in Handlers /\ Setting(p)) \/ Releasing(p)
    PROVE  /\ lost' = lost
           /\ pc[p] \notin HoldStages
           /\ \A t \in Tasks : up'[t] # "absent" => OnNode(t)
<1>0. TypeOK
  BY DEF IInv
<1> USE DEF rowVars, nodeVars, OnNode, HoldStages
<1>1. CASE p \in Handlers /\ Setting(p)
  BY <1>0, <1>1 DEF Setting, SetReads, SetOnNode, SetRecords, TypeOK
<1>2. CASE Releasing(p)
  <2>1. CASE TakeNext(p) \/ TaskDeleted(p) \/ TaskKept(p) \/ RowDeleted(p)
    BY <1>0, <2>1 DEF TakeNext, TaskDeleted, TaskKept, RowDeleted, TypeOK
  <2> QED
    BY <1>2, <2>1 DEF Releasing, DeleteReads, CloseReads, CloseApplies,
       SweepReads, SweepEnds
<1> QED BY <1>1, <1>2

LEMMA OrphansStep ==
    ASSUME IInv, TypeOK', [Next]_vars
    PROVE  OrphansAreExplained'
<1>0. /\ TypeOK /\ Steady /\ OrphansAreExplained /\ Handlers \subseteq Procs
  BY StepFacts, Numbers DEF IInv
<1> SUFFICES ASSUME NEW t \in Tasks, up'[t] # "absent" PROVE Explained(t)'
  BY DEF OrphansAreExplained, Explained, OnNode
<1>1. OnNode(t) => \/ \E h \in Handlers : Holds(h, t)
                   \/ t \in lost \/ \E f \in Forwards : task[f] = t
  BY <1>0 DEF OrphansAreExplained, Held, Holds, HoldStages
<1>2. ASSUME NEW f \in Forwards, task[f] = t PROVE Explained(t)'
  BY <1>0, <1>2, Numbers DEF Steady, Explained
<1>3. ASSUME NEW h \in Handlers, Holds(h, t)' PROVE Explained(t)'
  BY <1>3 DEF Holds, Explained, Held, HoldStages
<1>4. ASSUME t \in lost' PROVE Explained(t)'
  BY <1>4 DEF Explained
<1>5. ASSUME NEW h \in Handlers, Creation(h) PROVE Explained(t)'
  <2>1. CASE Holds(h, t) \/ ~OnNode(t)
    <3>1. Holds(h, t)' \/ t \in lost' \/ \E f \in Forwards : task'[f] = t
      BY <1>5, <2>1, CreationHandsOver
    <3> QED BY <1>3, <1>4, <3>1 DEF Explained
  <2>2. ASSUME NEW g \in Handlers \ {h}, Holds(g, t) PROVE Explained(t)'
    BY <1>0, <1>3, <1>5, <2>2, CreationStep DEF StepOf, Rests, Holds
  <2> QED BY <1>1, <1>2, <1>4, <1>5, <2>1, <2>2, CreationHandsOver
<1>6. ASSUME NEW p \in Procs, (p \in Handlers /\ Setting(p)) \/ Releasing(p)
      PROVE  Explained(t)'
  <2>1. OnNode(t) /\ lost' = lost
        /\ pc[p] \notin HoldStages
    BY <1>6, OthersHoldNothing
  <2>2. ASSUME NEW g \in Handlers, Holds(g, t) PROVE Explained(t)'
    BY <1>0, <1>3, <1>6, <2>1, <2>2, SettingStep, ReleasingStep
    DEF StepOf, Rests, Holds
  <2> QED BY <1>1, <1>2, <1>4, <2>1, <2>2
<1>7. CASE Restart
  <2>1. OnNode(t) /\ lost' = lost \cup {u \in Tasks : Held(u)}
    BY <1>7 DEF Restart, nodeVars, OnNode
  <2> QED BY <1>1, <1>2, <1>4, <2>1 DEF Held, Holds, HoldStages
<1>8. CASE UNCHANGED vars \/ \E f \in Forwards : Expires(f)
  BY <1>1, <1>2, <1>3, <1>4, <1>8
  DEF vars, nodeVars, procVars, localVars, Expires, Holds, OnNode
<1>9. CASE Late
  <2>1. UNCHANGED procVars /\ lost \subseteq lost'
    BY <1>9, LateStep DEF Late, LateCall, LateAdd
  <2>2. OnNode(t) \/ t \in lost'
    BY <1>0, <1>9 DEF Late, LateCall, LateAdd, OnNode, TypeOK
  <2> QED
    BY <1>1, <1>2, <1>3, <1>4, <2>1, <2>2 DEF procVars, localVars, Holds
<1> QED BY <1>0, <1>5, <1>6, <1>7, <1>8, <1>9, NextCases

-----------------------------------------------------------------------------
(* The theorems. *)

LEMMA InitIInv == Init => IInv
<1> SUFFICES ASSUME Init PROVE IInv
  OBVIOUS
<1> USE Numbers DEF Init
<1>1. TypeOK
  BY SizeAssumption, NameAssumption DEF TypeOK, Stage
<1>2. Numbered
  BY DEF Numbered, NoTask
<1>3. /\ \A p \in Procs : Follows(p)
      /\ \A h \in Handlers : Creates(h) /\ Closes(h)
  BY DEF Follows, Creates, Closes, CreateStages
<1>4. ReferencesAreRight /\ OneTaskPerPort /\ OrphansAreExplained
  BY DEF ReferencesAreRight, OneTaskPerPort, OrphansAreExplained, Row, OnNode
<1> QED BY <1>1, <1>2, <1>3, <1>4 DEF IInv

LEMMA IInvStep == IInv /\ [Next]_vars => IInv'
  BY TypeStep, NumberedStep, ProcessesKept, ReferencesStep, OneTaskStep,
     OrphansStep
  DEF IInv

\* The inductive invariant holds in every state.
THEOREM Invariance == Spec => []IInv
  BY InitIInv, IInvStep, PTL DEF Spec

\* Every variable keeps its type.
THEOREM TypeCorrect == Spec => []TypeOK
<1>1. IInv => TypeOK
  BY DEF IInv
<1> QED BY <1>1, Invariance, PTL

\* A row's reference is right: the task it names, when the node has it, listens
\* on the row's port and forwards to where the row's endpoint is now.
THEOREM ReferencesStayRight == Spec => []ReferencesAreRight
<1>1. IInv => ReferencesAreRight
  BY DEF IInv
<1> QED BY <1>1, Invariance, PTL

\* The node has two tasks on one port only when one of them is the late effect
\* of a call that was given up: the handlers make no second one themselves.
THEOREM OneTaskOnAPort == Spec => []OneTaskPerPort
<1>1. IInv => OneTaskPerPort
  BY DEF IInv
<1> QED BY <1>1, Invariance, PTL

\* A task on the node is held by a handler, was lost by a failure or a restart,
\* or was once given to a row.
THEOREM OrphansExplained == Spec => []OrphansAreExplained
<1>1. IInv => OrphansAreExplained
  BY DEF IInv
<1> QED BY <1>1, Invariance, PTL

\* An activated row is deleted under its task only by a process that read the
\* row before it was activated.
THEOREM CleanupFirst == Spec => CleanupComesFirst
<1>1. ASSUME IInv, [Next]_vars
      PROVE  [\A f \in Forwards :
                Row(f) /\ ~Row(f)' /\ task[f] # NoTask /\ OnNode(task[f])
                  => \E p \in Procs : pc[p] = "row" /\ cur[p] = f
                                      /\ ref[p] = NoTask]_vars
  <2> SUFFICES ASSUME NEW f \in Forwards, status[f] # "none",
                      status'[f] = "none", task[f] # NoTask, OnNode(task[f])
               PROVE  \E p \in Procs : pc[p] = "row" /\ cur[p] = f
                                       /\ ref[p] = NoTask
    BY DEF Row
  <2>1. \E p \in Procs : pc[p] = "row" /\ cur[p] = f
    BY <1>1, StepFacts DEF Changes, RowChange
  <2> QED BY <1>1, <2>1 DEF IInv, Follows
<1> QED BY <1>1, Invariance, PTL DEF Spec, CleanupComesFirst

=============================================================================
