-------------------------- MODULE SSHGatewayProofs --------------------------
(***************************************************************************)
(* Theorems about SSHGateway, for any sets of sessions, handlers and       *)
(* revoking handlers and any intervals that satisfy TimeAssumption.        *)
(***************************************************************************)
EXTENDS SSHGateway, TLAPS

-----------------------------------------------------------------------------
(* Type correctness. *)

LEMMA ReturnedTypes ==
    ASSUME TypeOK, NEW h \in Handlers, Returned(h)
    PROVE  /\ stage' \in [Handlers -> Stage]
           /\ owner' \in [Handlers -> Sessions]
           /\ since' \in [Handlers -> Nat]
           /\ cancelled' \in [Handlers -> BOOLEAN]
           /\ readyAt' \in [Handlers -> Int]
           /\ persisted' \in [Handlers -> Int]
           /\ idleFrom' \in [Handlers -> Int]
           /\ pending' \in [Handlers -> BOOLEAN]
           /\ lastSignal' \in [Handlers -> Int]
           /\ UNCHANGED <<stale, asking, landed>>
  BY DEF TypeOK, Returned, Stage, NoTime

LEMMA PrunedTypes ==
    ASSUME TypeOK
    PROVE  Pruned \in [Sessions -> Int]
  BY DEF TypeOK, Pruned, NoTime

\* Every variable keeps its type: in particular a revoking handler only ever
\* holds the cancel functions of handlers and owes Revoke only for sessions.
THEOREM TypeCorrect == Spec => []TypeOK
<1>1. Init => TypeOK
  BY TimeAssumption DEF Init, TypeOK, Stage, NoTime
<1>2. TypeOK /\ [Next]_vars => TypeOK'
  <2> SUFFICES ASSUME TypeOK, [Next]_vars PROVE TypeOK'
    OBVIOUS
  <2>1. ASSUME NEW h \in Handlers, Accept(h) PROVE TypeOK'
    BY <2>1 DEF TypeOK, Accept, Stage, monitorVars, revokerVars
  <2>2. ASSUME NEW h \in Handlers, Register(h) PROVE TypeOK'
    <3>1. tomb' \in [Sessions -> Int]
      BY <2>2, PrunedTypes DEF Register, TypeOK
    <3>2. CASE Returned(h)
      BY <2>2, <3>1, <3>2, ReturnedTypes DEF TypeOK, Register, rowVars, revokerVars
    <3>3. CASE ~Returned(h)
      BY <2>2, <3>1, <3>3 DEF TypeOK, Register, Stage, rowVars, monitorVars, revokerVars
    <3> QED BY <3>2, <3>3
  <2>3. ASSUME NEW h \in Handlers, Ready(h) PROVE TypeOK'
    BY <2>3 DEF TypeOK, Ready, Stage, rowVars, revokerVars
  <2>4. ASSUME NEW h \in Handlers, Signal(h) \/ MonitorTakes(h) PROVE TypeOK'
    <3>1. CASE Signal(h)
      BY <3>1 DEF TypeOK, Signal, rowVars, revokerVars
    <3>2. CASE MonitorTakes(h)
      <4>1. asking' \in [Handlers -> Nat \cup {NoTime}]
        BY <3>2 DEF TypeOK, MonitorTakes
      <4> QED BY <3>2, <4>1 DEF TypeOK, MonitorTakes, rowVars, revokerVars
    <3> QED BY <2>4, <3>1, <3>2
  <2>5. ASSUME NEW h \in Handlers, TouchLands(h) PROVE TypeOK'
    BY <2>5 DEF TypeOK, TouchLands, NoTime, revokerVars
  <2>5a. ASSUME NEW h \in Handlers, MonitorAnswered(h) PROVE TypeOK'
    <3>1. /\ persisted' = persisted \/ persisted' = [persisted EXCEPT ![h] = asking[h]]
          /\ cancelled' = cancelled \/ cancelled' = [cancelled EXCEPT ![h] = TRUE]
          /\ asking' = [asking EXCEPT ![h] = NoTime]
          /\ landed' = [landed EXCEPT ![h] = FALSE]
          /\ UNCHANGED <<now, rowVars, tomb, stage, owner, since, stale, readyAt, idleFrom,
                         pending, lastSignal, revokerVars>>
      BY <2>5a DEF MonitorAnswered
    <3>2. asking[h] \in Int
      BY DEF TypeOK, NoTime
    <3>4. persisted' \in [Handlers -> Int]
      BY <3>1, <3>2 DEF TypeOK
    <3>5. cancelled' \in [Handlers -> BOOLEAN]
      BY <3>1 DEF TypeOK
    <3>3. asking' \in [Handlers -> Nat \cup {NoTime}] /\ landed' \in [Handlers -> BOOLEAN]
      BY <3>1 DEF TypeOK
    <3> QED BY <3>1, <3>3, <3>4, <3>5 DEF TypeOK, rowVars, revokerVars
  <2>6. ASSUME NEW h \in Handlers, IdleTimeout(h) PROVE TypeOK'
    BY <2>6 DEF TypeOK, IdleTimeout, rowVars, monitorVars, revokerVars
  <2>7. ASSUME NEW h \in Handlers, Return(h) PROVE TypeOK'
    BY <2>7, ReturnedTypes DEF TypeOK, Return, rowVars, revokerVars
  <2>8. ASSUME NEW s \in Sessions, LoginEnds(s) PROVE TypeOK'
    BY <2>8 DEF TypeOK, LoginEnds, handlerVars, monitorVars, revokerVars
  <2>9. CASE ExpireSweep
    BY <2>9 DEF TypeOK, ExpireSweep, handlerVars, monitorVars, revokerVars
  <2>10. ASSUME NEW r \in Revokers, NEW S \in SUBSET Sessions, RevokeRows(r, S)
         PROVE  TypeOK'
    BY <2>10 DEF TypeOK, RevokeRows, handlerVars, monitorVars
  <2>11. ASSUME NEW r \in Revokers, NEW s \in Sessions, GatewayRevoke(r, s)
         PROVE  TypeOK'
    BY <2>11, PrunedTypes DEF TypeOK, GatewayRevoke, Collected, rowVars, handlerVars,
       monitorVars
  <2>12. ASSUME NEW r \in Revokers, NEW h \in Handlers, RevokeCancels(r, h)
         PROVE  TypeOK'
    BY <2>12 DEF TypeOK, RevokeCancels, rowVars, monitorVars
  <2>13. CASE Restart
    BY <2>13 DEF TypeOK, Restart, Stage, NoTime, rowVars
  <2>14. CASE Reload
    BY <2>14 DEF TypeOK, Reload, NoTime, rowVars, monitorVars, revokerVars
  <2>15. CASE Tick
    BY <2>15 DEF TypeOK, Tick, rowVars, handlerVars, monitorVars, revokerVars
  <2>16. CASE UNCHANGED vars
    BY <2>16 DEF TypeOK, vars, rowVars, handlerVars, monitorVars, revokerVars
  <2> QED
    BY <2>1, <2>2, <2>3, <2>4, <2>5, <2>5a, <2>6, <2>7, <2>8, <2>9, <2>10, <2>11, <2>12,
       <2>13, <2>14, <2>15, <2>16 DEF Next
<1> QED
  BY <1>1, <1>2, PTL DEF Spec

-----------------------------------------------------------------------------
(* Revocation.  The argument is that of the Web gateway: a WebSocket cannot *)
(* wait for its registration longer than a tombstone is kept.  What has to *)
(* be added is that a handler once cancelled stays so until it returns.    *)

InFlightIsRecent ==
    \A h \in Handlers :
        stage[h] = "accepted" => since[h] <= now /\ now - since[h] <= MaxInFlight

\* A WebSocket accepted before the revocation of its session: Revoke is still
\* to come, or has left a tombstone that is no older than the WebSocket.
OvertakenIsMarked ==
    \A h \in Handlers \ stale :
        stage[h] = "accepted" /\ status[owner[h]] = "revoked"
          => \/ \E r \in Revokers : owner[h] \in todo[r]
             \/ tomb[owner[h]] >= since[h]

RevocationInv == TypeOK /\ InFlightIsRecent /\ OvertakenIsMarked /\ RevokedIsCut

\* A tombstone no older than a WebSocket in flight survives pruning.
LEMMA PruneKeepsYoung ==
    ASSUME TypeOK, InFlightIsRecent, NEW h \in Handlers, stage[h] = "accepted",
           tomb[owner[h]] >= since[h]
    PROVE  /\ Pruned[owner[h]] = tomb[owner[h]]
           /\ Pruned[owner[h]] # NoTime
  BY TimeAssumption DEF TypeOK, InFlightIsRecent, Pruned, NoTime

\* A step that revokes nothing, accepts and registers nobody and takes back no
\* cancellation keeps the invariant, though it may prune tombstones.
LEMMA QuietStepKeepsRevocation ==
    ASSUME RevocationInv, UNCHANGED <<now, owner, todo, closing>>,
           tomb' = tomb \/ tomb' = Pruned,
           \A s \in Sessions : status'[s] = "revoked" => status[s] = "revoked",
           \A h \in Handlers : stage'[h] = "accepted"
             => stage[h] = "accepted" /\ since'[h] = since[h],
           \A h \in Handlers : stage'[h] # "closed" /\ h \notin stale' => h \notin stale,
           \A h \in Handlers : Registered(h)' => Registered(h) /\ (Cut(h) => Cut(h)')
    PROVE  InFlightIsRecent' /\ OvertakenIsMarked' /\ RevokedIsCut'
<1> USE DEF RevocationInv
<1>1. InFlightIsRecent'
  BY DEF InFlightIsRecent
<1>2. OvertakenIsMarked'
  <2> SUFFICES ASSUME NEW h \in Handlers, h \notin stale', stage'[h] = "accepted",
                      status'[owner'[h]] = "revoked"
               PROVE  \/ \E r \in Revokers : owner'[h] \in todo'[r]
                      \/ tomb'[owner'[h]] >= since'[h]
    BY DEF OvertakenIsMarked
  <2>1. h \notin stale /\ stage[h] = "accepted" /\ since'[h] = since[h]
    OBVIOUS
  <2>2. status[owner[h]] = "revoked"
    BY DEF TypeOK
  <2>3. (\E r \in Revokers : owner[h] \in todo[r]) \/ tomb[owner[h]] >= since[h]
    BY <2>1, <2>2 DEF OvertakenIsMarked
  <2>4. ASSUME tomb[owner[h]] >= since[h] PROVE tomb'[owner[h]] >= since[h]
    BY <2>1, <2>4, PruneKeepsYoung
  <2> QED BY <2>1, <2>3, <2>4
<1>3. RevokedIsCut'
  <2> SUFFICES ASSUME NEW h \in Handlers, h \notin stale', Registered(h)',
                      status'[owner'[h]] = "revoked"
               PROVE  Cut(h)' \/ \E r \in Revokers : owner'[h] \in todo'[r] \/ h \in closing'[r]
    BY DEF RevokedIsCut
  <2>1. h \notin stale /\ Registered(h) /\ (Cut(h) => Cut(h)')
    BY DEF Registered
  <2>2. status[owner[h]] = "revoked"
    BY DEF TypeOK
  <2> QED BY <2>1, <2>2 DEF RevokedIsCut
<1> QED BY <1>1, <1>2, <1>3

\* The same of a step that only moves one handler, or ends it.
LEMMA HandlerStepKeepsRevocation ==
    ASSUME RevocationInv, NEW h \in Handlers,
           UNCHANGED <<now, status, expiresAt, owner, todo, closing>>,
           tomb' = tomb \/ tomb' = Pruned,
           \A g \in Handlers \ {h} : /\ stage'[g] = stage[g] /\ since'[g] = since[g]
                                     /\ cancelled'[g] = cancelled[g]
                                     /\ g \in stale' <=> g \in stale,
           \/ stage'[h] = "closed"
           \/ /\ stage'[h] = "terminal" /\ Registered(h)
              /\ cancelled[h] => cancelled'[h]
              /\ h \in stale' <=> h \in stale
    PROVE  InFlightIsRecent' /\ OvertakenIsMarked' /\ RevokedIsCut'
<1>1. ASSUME NEW g \in Handlers, stage'[g] = "accepted"
      PROVE  stage[g] = "accepted" /\ since'[g] = since[g]
  BY <1>1
<1>2. ASSUME NEW g \in Handlers, stage'[g] # "closed", g \notin stale' PROVE g \notin stale
  BY <1>2
<1>3. ASSUME NEW g \in Handlers, Registered(g)'
      PROVE  Registered(g) /\ (Cut(g) => Cut(g)')
  <2>1. CASE g = h
    BY <1>3, <2>1 DEF Registered, Cut
  <2>2. CASE g # h
    BY <1>3, <2>2 DEF Registered, Cut
  <2> QED BY <2>1, <2>2
<1> QED
  BY <1>1, <1>2, <1>3, QuietStepKeepsRevocation

LEMMA RevocationInit == Init => RevocationInv
<1> SUFFICES ASSUME Init PROVE RevocationInv
  OBVIOUS
<1>1. TypeOK
  BY TimeAssumption DEF Init, TypeOK, Stage, NoTime
<1>2. InFlightIsRecent /\ OvertakenIsMarked /\ RevokedIsCut
  BY DEF Init, InFlightIsRecent, OvertakenIsMarked, RevokedIsCut, Registered
<1> QED BY <1>1, <1>2 DEF RevocationInv

LEMMA RevocationStep == RevocationInv /\ TypeOK' /\ [Next]_vars => RevocationInv'
<1> SUFFICES ASSUME RevocationInv, TypeOK', [Next]_vars
             PROVE  InFlightIsRecent' /\ OvertakenIsMarked' /\ RevokedIsCut'
  BY DEF RevocationInv
<1> USE DEF RevocationInv
<1>1. ASSUME NEW h \in Handlers, Accept(h)
      PROVE  InFlightIsRecent' /\ OvertakenIsMarked' /\ RevokedIsCut'
  <2>1. status[owner[h]] # "revoked"
    BY <1>1 DEF Accept, Live, LiveAt
  <2>2. InFlightIsRecent'
    BY <1>1, TimeAssumption DEF Accept, InFlightIsRecent, TypeOK
  <2>3. OvertakenIsMarked'
    BY <1>1, <2>1 DEF Accept, OvertakenIsMarked, TypeOK, revokerVars
  <2>4. RevokedIsCut'
    BY <1>1 DEF Accept, RevokedIsCut, Registered, Cut, TypeOK, revokerVars
  <2> QED BY <2>2, <2>3, <2>4
<1>2. ASSUME NEW h \in Handlers, Register(h)
      PROVE  InFlightIsRecent' /\ OvertakenIsMarked' /\ RevokedIsCut'
  <2>1. CASE Returned(h)
    BY <1>2, <2>1, HandlerStepKeepsRevocation
    DEF Register, Returned, TypeOK, rowVars, revokerVars
  <2>2. CASE ~Returned(h)
    <3>1. /\ stage[h] = "accepted"
          /\ stage' = [stage EXCEPT ![h] = "connecting"]
          /\ since' = [since EXCEPT ![h] = 0]
          /\ h \in stale \/ tomb'[owner[h]] = NoTime
          /\ UNCHANGED <<now, status, expiresAt, owner, cancelled, stale, todo, closing>>
          /\ tomb' = tomb \/ tomb' = Pruned
          /\ h \notin stale => tomb' = Pruned
      BY <1>2, <2>2 DEF Register, rowVars, revokerVars
    <3>2. ASSUME NEW g \in Handlers, stage'[g] = "accepted"
          PROVE  g # h /\ stage[g] = "accepted" /\ since'[g] = since[g]
      BY <3>1, <3>2 DEF TypeOK
    <3>3. InFlightIsRecent'
      BY <3>1, <3>2 DEF InFlightIsRecent
    <3>4. OvertakenIsMarked'
      <4> SUFFICES ASSUME NEW g \in Handlers, g \notin stale', stage'[g] = "accepted",
                          status'[owner'[g]] = "revoked"
                   PROVE  \/ \E r \in Revokers : owner'[g] \in todo'[r]
                          \/ tomb'[owner'[g]] >= since'[g]
        BY DEF OvertakenIsMarked
      <4>1. (\E r \in Revokers : owner[g] \in todo[r]) \/ tomb[owner[g]] >= since[g]
        BY <3>1, <3>2 DEF OvertakenIsMarked
      <4>2. ASSUME tomb[owner[g]] >= since[g] PROVE tomb'[owner[g]] >= since[g]
        BY <3>1, <3>2, <4>2, PruneKeepsYoung
      <4> QED BY <3>1, <3>2, <4>1, <4>2
    <3>5. ASSUME h \notin stale, status[owner[h]] = "revoked"
          PROVE  \E r \in Revokers : owner[h] \in todo[r]
      <4>1. tomb[owner[h]] >= since[h] => tomb'[owner[h]] # NoTime
        BY <3>1, <3>5, PruneKeepsYoung
      <4> QED BY <3>1, <3>5, <4>1 DEF OvertakenIsMarked
    <3>6. RevokedIsCut'
      <4> SUFFICES ASSUME NEW g \in Handlers, g \notin stale, Registered(g)',
                          status[owner[g]] = "revoked"
                   PROVE  Cut(g)' \/ \E r \in Revokers : owner[g] \in todo[r] \/ g \in closing[r]
        BY <3>1 DEF RevokedIsCut
      <4>1. CASE g = h
        BY <3>5, <4>1
      <4>2. CASE g # h
        <5>1. Registered(g) /\ (Cut(g) => Cut(g)')
          BY <3>1, <4>2 DEF Registered, Cut, TypeOK
        <5> QED BY <5>1 DEF RevokedIsCut
      <4> QED BY <4>1, <4>2
    <3> QED BY <3>3, <3>4, <3>6
  <2> QED BY <2>1, <2>2
<1>3. ASSUME NEW h \in Handlers, Ready(h)
      PROVE  InFlightIsRecent' /\ OvertakenIsMarked' /\ RevokedIsCut'
  BY <1>3, HandlerStepKeepsRevocation DEF Ready, Registered, TypeOK, rowVars, revokerVars
<1>4. ASSUME NEW h \in Handlers,
             Signal(h) \/ MonitorTakes(h) \/ TouchLands(h) \/ MonitorAnswered(h)
      PROVE  InFlightIsRecent' /\ OvertakenIsMarked' /\ RevokedIsCut'
  <2>1. /\ UNCHANGED <<now, status, expiresAt, tomb, stage, owner, since, stale, todo, closing>>
        /\ cancelled' = cancelled \/ cancelled' = [cancelled EXCEPT ![h] = TRUE]
    BY <1>4 DEF Signal, MonitorTakes, TouchLands, MonitorAnswered, rowVars, revokerVars
  <2>2. \A g \in Handlers : Cut(g) => Cut(g)'
    BY <2>1 DEF Cut, TypeOK
  <2>3. \A g \in Handlers : Registered(g)' => Registered(g)
    BY <2>1 DEF Registered
  <2> QED BY <2>1, <2>2, <2>3, QuietStepKeepsRevocation
<1>6. ASSUME NEW h \in Handlers, IdleTimeout(h)
      PROVE  InFlightIsRecent' /\ OvertakenIsMarked' /\ RevokedIsCut'
  BY <1>6, HandlerStepKeepsRevocation
  DEF IdleTimeout, Registered, TypeOK, rowVars, revokerVars
<1>7. ASSUME NEW h \in Handlers, Return(h)
      PROVE  InFlightIsRecent' /\ OvertakenIsMarked' /\ RevokedIsCut'
  BY <1>7, HandlerStepKeepsRevocation
  DEF Return, Returned, TypeOK, rowVars, revokerVars
<1>8. ASSUME ExpireSweep \/ \E s \in Sessions : LoginEnds(s)
      PROVE  InFlightIsRecent' /\ OvertakenIsMarked' /\ RevokedIsCut'
  <2>1. \A s \in Sessions : status'[s] = "revoked" => status[s] = "revoked"
    BY <1>8 DEF ExpireSweep, LoginEnds
  <2>2. UNCHANGED <<now, expiresAt, tomb, stage, owner, since, cancelled, stale, todo, closing>>
    BY <1>8 DEF ExpireSweep, LoginEnds, handlerVars, revokerVars
  <2> QED BY <2>1, <2>2, QuietStepKeepsRevocation DEF Registered, Cut
<1>9. ASSUME NEW r \in Revokers, NEW S \in SUBSET Sessions, RevokeRows(r, S)
      PROVE  InFlightIsRecent' /\ OvertakenIsMarked' /\ RevokedIsCut'
  <2>1. /\ UNCHANGED <<now, expiresAt, tomb, stage, owner, since, cancelled, stale, closing>>
        /\ todo[r] = {}
        /\ todo' = [todo EXCEPT ![r] = S]
        /\ \A s \in Sessions : status'[s] = "revoked" => s \in S \/ status[s] = "revoked"
    BY <1>9 DEF RevokeRows, handlerVars
  <2>2. /\ \A q \in Revokers : todo[q] \subseteq todo'[q]
        /\ todo'[r] = S
    BY <2>1 DEF TypeOK
  <2>3. InFlightIsRecent'
    BY <2>1 DEF InFlightIsRecent
  <2>4. OvertakenIsMarked'
    BY <2>1, <2>2 DEF OvertakenIsMarked, TypeOK
  <2>5. RevokedIsCut'
    BY <2>1, <2>2 DEF RevokedIsCut, Registered, Cut, TypeOK
  <2> QED BY <2>3, <2>4, <2>5
<1>10. ASSUME NEW r \in Revokers, NEW s \in Sessions, GatewayRevoke(r, s)
       PROVE  InFlightIsRecent' /\ OvertakenIsMarked' /\ RevokedIsCut'
  <2>1. /\ UNCHANGED <<now, status, expiresAt, stage, owner, since, cancelled, stale>>
        /\ closing[r] = {}
        /\ tomb' = [Pruned EXCEPT ![s] = now]
        /\ closing' = [closing EXCEPT ![r] = Collected(s)]
        /\ todo' = [todo EXCEPT ![r] = @ \ {s}]
    BY <1>10 DEF GatewayRevoke, rowVars, handlerVars
  <2>2. \A q \in Revokers : todo[q] \ {s} \subseteq todo'[q]
    BY <2>1 DEF TypeOK
  <2>3. InFlightIsRecent'
    BY <2>1 DEF InFlightIsRecent
  <2>4. OvertakenIsMarked'
    <3> SUFFICES ASSUME NEW h \in Handlers, h \notin stale, stage[h] = "accepted",
                        status[owner[h]] = "revoked"
                 PROVE  \/ \E q \in Revokers : owner[h] \in todo'[q]
                        \/ tomb'[owner[h]] >= since[h]
      BY <2>1 DEF OvertakenIsMarked
    <3>1. Pruned \in [Sessions -> Int] /\ owner[h] \in Sessions
      BY PrunedTypes DEF TypeOK
    <3>2. CASE owner[h] = s
      BY <2>1, <3>1, <3>2 DEF InFlightIsRecent, TypeOK
    <3>3. CASE owner[h] # s
      <4>1. tomb'[owner[h]] = Pruned[owner[h]]
        BY <2>1, <3>1, <3>3
      <4>2. CASE tomb[owner[h]] >= since[h]
        BY <4>1, <4>2, PruneKeepsYoung
      <4>3. CASE \E q \in Revokers : owner[h] \in todo[q]
        BY <2>2, <3>3, <4>3
      <4> QED BY <4>2, <4>3 DEF OvertakenIsMarked
    <3> QED BY <3>2, <3>3
  <2>5. RevokedIsCut'
    <3> SUFFICES ASSUME NEW h \in Handlers, h \notin stale, Registered(h), ~Cut(h),
                        status[owner[h]] = "revoked"
                 PROVE  \E q \in Revokers : owner[h] \in todo'[q] \/ h \in closing'[q]
      BY <2>1 DEF RevokedIsCut, Registered, Cut
    <3>1. CASE owner[h] = s
      <4>1. h \in closing'[r]
        BY <2>1, <3>1 DEF Collected, TypeOK
      <4> QED BY <4>1
    <3>2. CASE owner[h] # s
      <4>1. PICK q \in Revokers : owner[h] \in todo[q] \/ h \in closing[q]
        BY DEF RevokedIsCut
      <4>2. owner[h] \in todo'[q] \/ h \in closing'[q]
        BY <2>1, <2>2, <3>2, <4>1 DEF TypeOK
      <4> QED BY <4>2
    <3> QED BY <3>1, <3>2
  <2> QED BY <2>3, <2>4, <2>5
<1>11. ASSUME NEW r \in Revokers, NEW h \in Handlers, RevokeCancels(r, h)
       PROVE  InFlightIsRecent' /\ OvertakenIsMarked' /\ RevokedIsCut'
  <2>1. /\ UNCHANGED <<now, status, expiresAt, tomb, stage, owner, since, stale, todo>>
        /\ cancelled' = [cancelled EXCEPT ![h] = TRUE]
        /\ \A q \in Revokers : closing[q] \ {h} \subseteq closing'[q]
    BY <1>11 DEF RevokeCancels, rowVars, TypeOK
  <2>2. InFlightIsRecent' /\ OvertakenIsMarked'
    BY <2>1 DEF InFlightIsRecent, OvertakenIsMarked
  <2>3. /\ Cut(h)'
        /\ \A g \in Handlers : Cut(g) => Cut(g)'
    BY <2>1 DEF Cut, TypeOK
  <2>4. RevokedIsCut'
    BY <2>1, <2>3 DEF RevokedIsCut, Registered
  <2> QED BY <2>2, <2>4
<1>12. CASE Restart
  BY <1>12 DEF Restart, InFlightIsRecent, OvertakenIsMarked, RevokedIsCut, Registered
<1>13. CASE Reload
  <2>1. /\ UNCHANGED <<now, stage, since>>
        /\ \A h \in Handlers : stage[h] # "free" => h \in stale'
    BY <1>13 DEF Reload
  <2> QED BY <2>1 DEF InFlightIsRecent, OvertakenIsMarked, RevokedIsCut, Registered
<1>14. CASE Tick
  <2>1. InFlightIsRecent'
    BY <1>14, TimeAssumption DEF Tick, InFlightIsRecent, TypeOK, handlerVars
  <2>2. OvertakenIsMarked'
    BY <1>14 DEF Tick, OvertakenIsMarked, rowVars, handlerVars, revokerVars
  <2>3. \A h \in Handlers : Cut(h) => Cut(h)'
    BY <1>14 DEF Tick, Cut, TypeOK, rowVars, handlerVars
  <2>4. RevokedIsCut'
    BY <1>14, <2>3 DEF Tick, RevokedIsCut, Registered, rowVars, handlerVars, revokerVars
  <2> QED BY <2>1, <2>2, <2>4
<1>15. CASE UNCHANGED vars
  BY <1>15 DEF vars, InFlightIsRecent, OvertakenIsMarked, RevokedIsCut, Registered, Cut,
     rowVars, handlerVars, revokerVars
<1> QED
  BY <1>1, <1>2, <1>3, <1>4, <1>6, <1>7, <1>8, <1>9, <1>10, <1>11, <1>12, <1>13,
     <1>14, <1>15 DEF Next

\* No terminal, and no WebSocket on its way to one, goes on after the session
\* was revoked unless a Revoke call is still going to cancel it, whatever the
\* order of its acceptance, registration, the revocation and the pruning.
THEOREM RevokedTerminalsAreCut == Spec => []RevokedIsCut
<1>1. RevocationInv => RevokedIsCut
  BY DEF RevocationInv
<1> QED
  BY <1>1, RevocationInit, RevocationStep, TypeCorrect, PTL DEF Spec

-----------------------------------------------------------------------------
(* Traffic.  The store is asked about a terminal when it opens and from then *)
(* on when bytes are read TouchInterval after the last answer: persisted is  *)
(* the time of that answer, and all three properties measure against it.     *)
(* Two touches of one session may take effect in the wrong order, so that    *)
(* last_seen_at goes back; never by more than a touch may take.              *)

RowsFit ==
    \A s \in Sessions :
        /\ lastSeen[s] <= now
        /\ status[s] = "active" /\ login[s] => endedAt[s] = NoTime

\* What a touch under way knows, and that nothing is under way or signalled
\* before there is a terminal.
TouchFits(h) ==
    /\ asking[h] # NoTime =>
         /\ stage[h] \in {"terminal", "closed"}
         /\ asking[h] <= now /\ now <= asking[h] + TouchTimeout
    /\ landed[h] =>
         /\ asking[h] # NoTime
         /\ asking[h] <= EndTime(owner[h])
         /\ asking[h] <= lastSeen[owner[h]] + TouchTimeout
    /\ stage[h] # "terminal" => lastSignal[h] = NoTime

\* The last answer for a terminal precedes the end of its session and, but for
\* the time of one touch, last_seen_at.
AnswerFits(h) ==
    stage[h] = "terminal" =>
      /\ 0 <= persisted[h] /\ persisted[h] <= now
      /\ persisted[h] = readyAt[h] \/ persisted[h] <= EndTime(owner[h])
      /\ persisted[h] = readyAt[h] \/ persisted[h] <= lastSeen[owner[h]] + TouchTimeout

\* Bytes read later than TouchInterval after the last answer are known to the
\* monitor, are being asked about or end the terminal.
SignalFits(h) ==
    stage[h] = "terminal" =>
      /\ lastSignal[h] <= now
      /\ asking[h] = NoTime =>
           pending[h] \/ cancelled[h] \/ lastSignal[h] < persisted[h] + TouchInterval
      /\ asking[h] # NoTime => pending[h] \/ lastSignal[h] <= asking[h]

\* A terminal that is not cut has been answered, or asks, within an interval
\* and an idle limit of the last answer.
IdleFits(h) ==
    stage[h] = "terminal" =>
      /\ asking[h] # NoTime => idleFrom[h] = asking[h]
      /\ ~Cut(h) /\ asking[h] = NoTime =>
           idleFrom[h] < persisted[h] + TouchInterval /\ now <= idleFrom[h] + IdleTTL
      /\ ~Cut(h) /\ asking[h] # NoTime =>
           asking[h] < persisted[h] + TouchInterval + IdleTTL

HandlerFits(h) == TouchFits(h) /\ AnswerFits(h) /\ SignalFits(h) /\ IdleFits(h)

TrafficInv == TypeOK /\ RowsFit /\ \A h \in Handlers : HandlerFits(h)

\* What a step may do to the rows.
RowsMove ==
    /\ TypeOK' /\ now' >= now /\ expiresAt' = expiresAt
    /\ \A s \in Sessions :
         /\ \/ lastSeen'[s] = lastSeen[s]
            \/ lastSeen'[s] <= now /\ now <= lastSeen'[s] + TouchTimeout
         /\ \/ endedAt'[s] = endedAt[s]
            \/ endedAt[s] = NoTime /\ endedAt'[s] = now
         /\ status'[s] = "active" /\ login'[s] =>
               status[s] = "active" /\ login[s] /\ endedAt'[s] = endedAt[s]

LEMMA Intervals ==
    /\ TouchInterval \in Nat /\ TouchInterval > 0
    /\ ResolveInterval \in Nat /\ ResolveInterval > 0
    /\ IdleTTL \in Nat /\ IdleTTL > 0
    /\ TouchTimeout \in Nat /\ TouchTimeout <= IdleTTL
  BY TimeAssumption

\* No end is moved to before what has been: not even by a touch that puts
\* last_seen_at back, for the idle limit is longer than a touch.
LEMMA EndsStay ==
    ASSUME TypeOK, RowsFit, RowsMove, NEW s \in Sessions, NEW t \in Int,
           t <= now, t <= EndTime(s)
    PROVE  t <= EndTime(s)'
<1>1. /\ lastSeen[s] \in Nat /\ lastSeen'[s] \in Nat
      /\ now \in Nat /\ expiresAt[s] \in Nat
      /\ endedAt[s] \in Int /\ endedAt'[s] \in Int
  BY DEF TypeOK, RowsMove
<1>2. lastSeen'[s] = lastSeen[s] \/ now <= lastSeen'[s] + IdleTTL
  BY <1>1, Intervals DEF RowsMove
<1>3. /\ expiresAt'[s] = expiresAt[s]
      /\ endedAt'[s] = endedAt[s] \/ (endedAt[s] = NoTime /\ endedAt'[s] = now)
  BY DEF RowsMove
<1> QED BY <1>1, <1>2, <1>3, Intervals DEF EndTime, NoTime

LEMMA RowsStayFit ==
    ASSUME TypeOK, RowsFit, RowsMove
    PROVE  RowsFit'
<1>1. ASSUME NEW s \in Sessions PROVE lastSeen'[s] <= now'
  <2>1. lastSeen[s] \in Nat /\ lastSeen'[s] \in Nat /\ now \in Nat /\ now' \in Nat
    BY DEF TypeOK, RowsMove
  <2>2. lastSeen[s] <= now /\ now' >= now
        /\ (lastSeen'[s] = lastSeen[s] \/ lastSeen'[s] <= now)
    BY DEF RowsFit, RowsMove
  <2> QED BY <2>1, <2>2
<1>2. ASSUME NEW s \in Sessions, status'[s] = "active", login'[s]
      PROVE  endedAt'[s] = NoTime
  BY <1>2 DEF RowsFit, RowsMove
<1> QED BY <1>1, <1>2 DEF RowsFit

\* A handler that no step of its own moves.
SameHandler(h) ==
    /\ stage'[h] = stage[h] /\ owner'[h] = owner[h] /\ readyAt'[h] = readyAt[h]
    /\ persisted'[h] = persisted[h] /\ idleFrom'[h] = idleFrom[h]
    /\ pending'[h] = pending[h] /\ lastSignal'[h] = lastSignal[h]
    /\ asking'[h] = asking[h] /\ landed'[h] = landed[h]
    /\ cancelled[h] => cancelled'[h]

\* Time passes for it only within the limits of a touch and of the idle timer.
LEMMA SameHandlerFits ==
    ASSUME TrafficInv, RowsMove, NEW h \in Handlers, SameHandler(h),
           asking[h] # NoTime => now' <= asking[h] + TouchTimeout,
           stage[h] = "terminal" /\ ~Cut(h) /\ asking[h] = NoTime
             => now' <= idleFrom[h] + IdleTTL
    PROVE  HandlerFits(h)'
<1> USE DEF TrafficInv, HandlerFits
<1>1. PICK s \in Sessions : s = owner[h]
  BY DEF TypeOK
<1>2. /\ now \in Nat /\ now' \in Nat /\ now' >= now /\ owner'[h] = s
      /\ lastSignal[h] \in Int /\ persisted[h] \in Int /\ asking[h] \in Int
      /\ idleFrom[h] \in Int /\ readyAt[h] \in Int
      /\ lastSeen[s] \in Nat /\ lastSeen'[s] \in Nat
      /\ expiresAt[s] \in Nat /\ expiresAt'[s] = expiresAt[s]
  BY <1>1 DEF TypeOK, RowsMove, SameHandler, NoTime
<1>3. lastSeen'[s] = lastSeen[s] \/ now <= lastSeen'[s] + TouchTimeout
  BY DEF RowsMove
<1>4. ASSUME NEW t \in Int, t <= now, t <= EndTime(owner[h])
      PROVE  t <= EndTime(owner[h])'
  <2>1. t <= EndTime(s)
    BY <1>1, <1>4 DEF EndTime
  <2>2. t <= EndTime(s)'
    BY <1>4, <2>1, EndsStay
  <2> QED BY <1>1, <1>2, <2>2 DEF EndTime
<1>5. ASSUME NEW t \in Int, t <= now, t <= lastSeen[owner[h]] + TouchTimeout
      PROVE  t <= lastSeen'[owner'[h]] + TouchTimeout
  BY <1>1, <1>2, <1>3, <1>5, Intervals
<1>6. Cut(h) => Cut(h)'
  BY <1>1, <1>2 DEF Cut, SameHandler
<1>7. TouchFits(h)'
  <2>1. TouchFits(h)
    OBVIOUS
  <2>2. asking[h] # NoTime => asking[h] <= now' /\ now' <= asking[h] + TouchTimeout
    BY <1>2, <2>1 DEF TouchFits
  <2>3. landed[h] => /\ asking[h] # NoTime
                     /\ asking[h] <= EndTime(owner[h])'
                     /\ asking[h] <= lastSeen'[owner'[h]] + TouchTimeout
    <3>1. landed[h] => /\ asking[h] # NoTime /\ asking[h] <= now
                       /\ asking[h] <= EndTime(owner[h])
                       /\ asking[h] <= lastSeen[owner[h]] + TouchTimeout
      BY <2>1 DEF TouchFits
    <3> QED BY <1>2, <1>4, <1>5, <3>1
  <2> QED BY <2>1, <2>2, <2>3 DEF TouchFits, SameHandler, EndTime
<1>8. AnswerFits(h)'
  <2> SUFFICES ASSUME stage[h] = "terminal"
      PROVE  /\ 0 <= persisted[h] /\ persisted[h] <= now'
             /\ persisted[h] = readyAt[h] \/ persisted[h] <= EndTime(owner[h])'
             /\ \/ persisted[h] = readyAt[h]
                \/ persisted[h] <= lastSeen'[owner'[h]] + TouchTimeout
    BY DEF AnswerFits, SameHandler, EndTime
  <2>1. /\ 0 <= persisted[h] /\ persisted[h] <= now
        /\ persisted[h] = readyAt[h] \/ persisted[h] <= EndTime(owner[h])
        /\ persisted[h] = readyAt[h] \/ persisted[h] <= lastSeen[owner[h]] + TouchTimeout
    BY DEF AnswerFits
  <2> QED BY <1>2, <1>4, <1>5, <2>1
<1>9. SignalFits(h)'
  <2>1. SignalFits(h)
    OBVIOUS
  <2> QED BY <1>2, <2>1 DEF SignalFits, SameHandler
<1>10. IdleFits(h)'
  <2>1. IdleFits(h)
    OBVIOUS
  <2> QED BY <1>2, <1>6, <2>1 DEF IdleFits, SameHandler
<1> QED BY <1>7, <1>8, <1>9, <1>10

\* A handler without a terminal and without a touch under way.
LEMMA IdleHandlerFits ==
    ASSUME NEW h \in Handlers,
           stage'[h] # "terminal", lastSignal'[h] = NoTime,
           asking'[h] = NoTime, ~landed'[h]
    PROVE  HandlerFits(h)'
  BY DEF HandlerFits, TouchFits, AnswerFits, SignalFits, IdleFits

LEMMA TrafficInit == Init => TrafficInv
<1> SUFFICES ASSUME Init PROVE TrafficInv
  OBVIOUS
<1>1. TypeOK
  BY TimeAssumption DEF Init, TypeOK, Stage, NoTime
<1>2. RowsFit
  <2>1. ASSUME NEW s \in Sessions
        PROVE  lastSeen[s] <= now /\ endedAt[s] = NoTime
    BY DEF Init
  <2> QED BY <2>1 DEF RowsFit
<1>3. \A h \in Handlers : HandlerFits(h)
  BY DEF Init, HandlerFits, TouchFits, AnswerFits, SignalFits, IdleFits
<1> QED BY <1>1, <1>2, <1>3 DEF TrafficInv

\* A step of one handler that leaves the clock alone concerns nobody else but
\* through last_seen_at.
LEMMA OneHandlerMoves ==
    ASSUME TrafficInv, RowsMove, now' = now, NEW h \in Handlers,
           \A g \in Handlers \ {h} : SameHandler(g),
           HandlerFits(h)'
    PROVE  TrafficInv'
<1>1. RowsFit'
  BY RowsStayFit DEF TrafficInv
<1>2. ASSUME NEW g \in Handlers, g # h PROVE HandlerFits(g)'
  <2>1. HandlerFits(g)
    BY DEF TrafficInv
  <2> QED BY <1>2, <2>1, SameHandlerFits DEF HandlerFits, TouchFits, IdleFits
<1>3. TypeOK'
  BY DEF RowsMove
<1>4. \A g \in Handlers : HandlerFits(g)'
  BY <1>2
<1> QED BY <1>1, <1>3, <1>4 DEF TrafficInv

\* A step that leaves rows and clock alone does not move them.
LEMMA RowsRest ==
    ASSUME TypeOK, TypeOK', UNCHANGED <<now, rowVars>>
    PROVE  RowsMove
<1>1. now \in Nat
  BY DEF TypeOK
<1> QED BY <1>1 DEF RowsMove, rowVars

\* The steps of a handler on its way to a terminal, and its return.
LEMMA ArrivalStepFits ==
    ASSUME TrafficInv, TypeOK', NEW h \in Handlers,
           Accept(h) \/ Register(h) \/ Ready(h) \/ Return(h)
    PROVE  TrafficInv'
<1> USE DEF TrafficInv
<1>1. PICK s \in Sessions : s = owner[h]
  BY DEF TypeOK
<1>2. /\ now \in Nat /\ TypeOK /\ HandlerFits(h)
      /\ lastSeen \in [Sessions -> Nat] /\ lastSeen[s] <= now
      /\ persisted[h] \in Int
  BY <1>1 DEF TypeOK, RowsFit
<1>3. /\ now' = now /\ owner' = owner /\ expiresAt' = expiresAt /\ status' = status
      /\ login' = login /\ endedAt' = endedAt
  BY DEF Accept, Register, Ready, Return, Returned, rowVars
<1>4. RowsMove
  <2>1. lastSeen' = lastSeen \/ lastSeen' = [lastSeen EXCEPT ![s] = now]
                              \/ lastSeen' = [lastSeen EXCEPT ![s] = lastSeen[s]]
    BY <1>1, <1>2 DEF Accept, Register, Ready, Return, rowVars
  <2>2. \A q \in Sessions : lastSeen'[q] = lastSeen[q] \/ lastSeen'[q] = now
    BY <1>2, <2>1
  <2> QED BY <1>2, <1>3, <2>2, Intervals DEF RowsMove
<1>5. \A g \in Handlers \ {h} : SameHandler(g)
  BY <1>2, <1>3 DEF TypeOK, SameHandler, Accept, Register, Ready, Return, Returned, monitorVars
<1>6. HandlerFits(h)'
  <2>1. CASE Accept(h)
    <3>1. /\ stage[h] = "free" /\ stage'[h] = "accepted" /\ UNCHANGED monitorVars
      BY <1>2, <2>1 DEF Accept, TypeOK
    <3>2. lastSignal[h] = NoTime /\ asking[h] = NoTime /\ ~landed[h]
      BY <1>2, <3>1 DEF HandlerFits, TouchFits
    <3> QED BY <3>1, <3>2, IdleHandlerFits DEF monitorVars
  <2>2. ASSUME Returned(h), stage[h] \in {"accepted", "connecting", "terminal"}
        PROVE  HandlerFits(h)'
    <3>1. /\ stage'[h] = "closed" /\ lastSignal'[h] = NoTime
          /\ asking' = asking /\ landed' = landed
      BY <1>2, <2>2 DEF Returned, TypeOK
    <3>2. lastSeen' = lastSeen
      BY <2>2 DEF Accept, Register, Ready, Return, rowVars
    <3>3. EndTime(s)' = EndTime(s) /\ lastSeen'[s] = lastSeen[s]
      BY <1>3, <3>2 DEF EndTime
    <3>4. TouchFits(h)'
      <4>1. /\ asking[h] # NoTime => asking[h] <= now /\ now <= asking[h] + TouchTimeout
            /\ landed[h] => /\ asking[h] # NoTime
                            /\ asking[h] <= EndTime(s)
                            /\ asking[h] <= lastSeen[s] + TouchTimeout
        BY <1>1, <1>2 DEF HandlerFits, TouchFits
      <4>2. owner'[h] = s
        BY <1>1, <1>3
      <4> QED BY <1>3, <3>1, <3>3, <4>1, <4>2 DEF TouchFits, EndTime
    <3> QED BY <3>1, <3>4 DEF HandlerFits, AnswerFits, SignalFits, IdleFits
  <2>3. CASE Register(h) /\ ~Returned(h)
    <3>1. /\ stage[h] = "accepted" /\ stage'[h] = "connecting" /\ UNCHANGED monitorVars
      BY <1>2, <2>3 DEF Register, TypeOK
    <3>2. lastSignal[h] = NoTime /\ asking[h] = NoTime /\ ~landed[h]
      BY <1>2, <3>1 DEF HandlerFits, TouchFits
    <3> QED BY <3>1, <3>2, IdleHandlerFits DEF monitorVars
  <2>4. CASE Ready(h)
    <3>1. /\ stage[h] = "connecting" /\ stage'[h] = "terminal"
          /\ readyAt'[h] = now /\ persisted'[h] = now /\ idleFrom'[h] = now
          /\ UNCHANGED <<asking, landed, lastSignal>>
      BY <1>2, <2>4 DEF Ready, TypeOK
    <3>2. lastSignal[h] = NoTime /\ asking[h] = NoTime /\ ~landed[h]
      BY <1>2, <3>1 DEF HandlerFits, TouchFits
    <3>3. TouchFits(h)' /\ AnswerFits(h)' /\ SignalFits(h)' /\ IdleFits(h)'
      BY <1>2, <1>3, <3>1, <3>2, Intervals DEF TouchFits, AnswerFits, SignalFits, IdleFits, NoTime
    <3> QED BY <3>3 DEF HandlerFits
  <2>5. CASE Return(h)
    BY <2>2, <2>5 DEF Return
  <2>6. CASE Register(h) /\ Returned(h)
    BY <2>2, <2>6 DEF Register
  <2> QED BY <2>1, <2>3, <2>4, <2>5, <2>6
<1> QED BY <1>3, <1>4, <1>5, <1>6, OneHandlerMoves

\* A signal, and the monitor that takes it: it is within the interval of the
\* last answer, or asks the store before the idle limit has passed.
LEMMA SignalStepFits ==
    ASSUME TrafficInv, TypeOK', NEW h \in Handlers,
           Signal(h) \/ MonitorTakes(h) \/ IdleTimeout(h)
    PROVE  TrafficInv'
<1> USE DEF TrafficInv
<1>1. PICK s \in Sessions : s = owner[h]
  BY DEF TypeOK
<1>2. /\ now \in Nat /\ TypeOK /\ persisted[h] \in Int /\ idleFrom[h] \in Int
      /\ asking[h] \in Int /\ lastSignal[h] \in Int
      /\ TouchFits(h) /\ AnswerFits(h) /\ SignalFits(h) /\ IdleFits(h)
  BY DEF TypeOK, NoTime, HandlerFits
<1>3. /\ UNCHANGED <<now, rowVars, owner, stage, readyAt, persisted, landed>>
      /\ stage[h] = "terminal"
  BY DEF Signal, MonitorTakes, IdleTimeout, monitorVars
<1>4. RowsMove
  BY <1>3, RowsRest
<1>5. \A g \in Handlers \ {h} : SameHandler(g)
  BY <1>2, <1>3 DEF TypeOK, SameHandler, Signal, MonitorTakes, IdleTimeout, monitorVars
<1>6. AnswerFits(h)'
  <2>1. EndTime(owner[h])' = EndTime(owner[h]) /\ lastSeen'[owner'[h]] = lastSeen[owner[h]]
    BY <1>3 DEF EndTime, rowVars
  <2> QED BY <1>2, <1>3, <2>1 DEF AnswerFits, EndTime
<1>7. TouchFits(h)'
  <2>1. /\ EndTime(owner[h])' = EndTime(owner[h])
        /\ lastSeen'[owner'[h]] = lastSeen[owner[h]]
    BY <1>3 DEF EndTime, rowVars
  <2>2. CASE asking' = asking
    BY <1>2, <1>3, <2>1, <2>2 DEF TouchFits, EndTime
  <2>3. CASE asking[h] = NoTime /\ asking'[h] = now
    <3>1. ~landed[h]
      BY <1>2, <2>3 DEF TouchFits
    <3> QED BY <1>2, <1>3, <2>3, <3>1, Intervals DEF TouchFits
  <2>4. CASE asking[h] = NoTime /\ asking'[h] = NoTime
    <3>1. ~landed[h]
      BY <1>2, <2>4 DEF TouchFits
    <3> QED BY <1>3, <2>4, <3>1 DEF TouchFits
  <2> QED
    BY <1>2, <2>2, <2>3, <2>4 DEF Signal, MonitorTakes, IdleTimeout, monitorVars, TypeOK
<1>8. SignalFits(h)' /\ IdleFits(h)'
  <2>1. CASE Signal(h)
    <3>1. /\ pending'[h] /\ lastSignal'[h] = now
          /\ UNCHANGED <<cancelled, asking, idleFrom>>
      BY <1>2, <2>1 DEF Signal, TypeOK
    <3>2. Cut(h)' = Cut(h)
      BY <1>3, <3>1 DEF Cut, rowVars
    <3> QED BY <1>2, <1>3, <3>1, <3>2 DEF SignalFits, IdleFits
  <2>2. CASE MonitorTakes(h) /\ now - persisted[h] < TouchInterval
    <3>1. /\ asking[h] = NoTime /\ asking'[h] = NoTime /\ idleFrom'[h] = now
          /\ UNCHANGED <<cancelled, lastSignal>>
      BY <1>2, <2>2 DEF MonitorTakes, TypeOK
    <3>2. lastSignal[h] < persisted[h] + TouchInterval
      BY <1>2, <1>3, <2>2, Intervals DEF SignalFits
    <3> QED BY <1>2, <1>3, <2>2, <3>1, <3>2, Intervals DEF SignalFits, IdleFits
  <2>3. CASE MonitorTakes(h) /\ ~(now - persisted[h] < TouchInterval)
    <3>1. /\ asking[h] = NoTime /\ asking'[h] = now /\ idleFrom'[h] = now
          /\ UNCHANGED <<cancelled, lastSignal>>
      BY <1>2, <2>3 DEF MonitorTakes, TypeOK
    <3>2. lastSignal[h] <= now
      BY <1>2, <1>3 DEF SignalFits
    <3>3. Cut(h)' = Cut(h)
      BY <1>3, <3>1 DEF Cut, rowVars
    <3>4. ~Cut(h) => now < persisted[h] + TouchInterval + IdleTTL
      BY <1>2, <1>3, <3>1, Intervals DEF IdleFits
    <3>5. now # NoTime
      BY <1>2 DEF NoTime
    <3> QED BY <1>2, <1>3, <3>1, <3>2, <3>3, <3>4, <3>5 DEF SignalFits, IdleFits
  <2>4. CASE IdleTimeout(h)
    <3>1. cancelled'[h] /\ UNCHANGED <<pending, asking, idleFrom, lastSignal>>
      BY <1>2, <2>4 DEF IdleTimeout, monitorVars, TypeOK
    <3>2. Cut(h)'
      BY <3>1 DEF Cut
    <3> QED BY <1>2, <1>3, <3>1, <3>2 DEF SignalFits, IdleFits
  <2> QED BY <2>1, <2>2, <2>3, <2>4
<1>9. HandlerFits(h)'
  BY <1>6, <1>7, <1>8 DEF HandlerFits
<1> QED BY <1>3, <1>4, <1>5, <1>9, OneHandlerMoves

\* A touch has its effect only on a session that has not ended by its time.
LEMMA TouchStepFits ==
    ASSUME TrafficInv, TypeOK', NEW h \in Handlers, TouchLands(h)
    PROVE  TrafficInv'
<1> USE DEF TrafficInv
<1>1. PICK s \in Sessions : s = owner[h]
  BY DEF TypeOK
<1>2. /\ now \in Nat /\ TypeOK /\ asking[h] \in Nat /\ asking[h] <= now
      /\ now <= asking[h] + TouchTimeout
      /\ expiresAt[s] \in Nat /\ endedAt[s] \in Int
      /\ lastSeen \in [Sessions -> Nat] /\ stage[h] \in {"terminal", "closed"}
  BY <1>1 DEF TypeOK, TouchLands, HandlerFits, TouchFits
<1>3. /\ UNCHANGED <<now, status, login, endedAt, expiresAt, stage, owner, cancelled, readyAt,
                     persisted, idleFrom, pending, asking, lastSignal>>
      /\ lastSeen' = [lastSeen EXCEPT ![s] = asking[h]]
      /\ landed' = [landed EXCEPT ![h] = TRUE]
      /\ asking[h] < expiresAt[s] /\ status[s] = "active" /\ login[s]
  BY <1>1 DEF TouchLands, LiveAt
<1>4. RowsMove
  <2>1. \A q \in Sessions : \/ lastSeen'[q] = lastSeen[q]
                            \/ lastSeen'[q] <= now /\ now <= lastSeen'[q] + TouchTimeout
    BY <1>2, <1>3
  <2> QED BY <1>2, <1>3, <2>1 DEF RowsMove
<1>5. \A g \in Handlers \ {h} : SameHandler(g)
  BY <1>2, <1>3 DEF TypeOK, SameHandler
<1>6. lastSeen'[s] = asking[h] /\ landed'[h] /\ owner'[h] = s
  BY <1>1, <1>2, <1>3 DEF TypeOK
<1>7. asking[h] <= EndTime(s)'
  <2>1. endedAt[s] = NoTime
    BY <1>3 DEF RowsFit
  <2> QED BY <1>2, <1>3, <1>6, <2>1, Intervals DEF EndTime, NoTime
<1>8. TouchFits(h)'
  <2>1. /\ asking[h] # NoTime
        /\ stage[h] # "terminal" => lastSignal[h] = NoTime
    BY <1>2 DEF NoTime, HandlerFits, TouchFits
  <2>2. asking[h] <= lastSeen'[s] + TouchTimeout
    BY <1>2, <1>6, Intervals
  <2> QED BY <1>2, <1>3, <1>6, <1>7, <2>1, <2>2 DEF TouchFits, EndTime
<1>9. AnswerFits(h)'
  <2>1. CASE stage[h] # "terminal"
    BY <1>3, <2>1 DEF AnswerFits
  <2>2. CASE stage[h] = "terminal"
    <3>1. /\ 0 <= persisted[h] /\ persisted[h] <= now /\ persisted[h] \in Int
          /\ persisted[h] = readyAt[h] \/ persisted[h] <= EndTime(s)
      BY <1>1, <2>2 DEF HandlerFits, AnswerFits, TypeOK
    <3>2. persisted[h] = readyAt[h] \/ persisted[h] <= EndTime(s)'
      BY <1>4, <3>1, EndsStay
    <3>3. persisted[h] <= lastSeen'[s] + TouchTimeout
      BY <1>2, <1>6, <3>1, Intervals
    <3> QED BY <1>3, <1>6, <3>1, <3>2, <3>3 DEF AnswerFits, EndTime
  <2> QED BY <2>1, <2>2
<1>10. SignalFits(h)' /\ IdleFits(h)'
  BY <1>3 DEF HandlerFits, SignalFits, IdleFits, Cut
<1>11. HandlerFits(h)'
  BY <1>8, <1>9, <1>10 DEF HandlerFits
<1> QED BY <1>3, <1>4, <1>5, <1>11, OneHandlerMoves

\* The answer to a touch is one that had its effect, or cancels the terminal.
LEMMA AnswerStepFits ==
    ASSUME TrafficInv, TypeOK', NEW h \in Handlers, MonitorAnswered(h)
    PROVE  TrafficInv'
<1> USE DEF TrafficInv
<1>1. PICK s \in Sessions : s = owner[h]
  BY DEF TypeOK
<1>2. /\ now \in Nat /\ TypeOK /\ asking[h] \in Nat /\ lastSignal[h] \in Int
      /\ persisted[h] \in Int /\ idleFrom[h] \in Int
      /\ TouchFits(h) /\ AnswerFits(h) /\ SignalFits(h) /\ IdleFits(h)
      /\ asking[h] # NoTime
  BY DEF TypeOK, MonitorAnswered, HandlerFits
<1>3. /\ UNCHANGED <<now, rowVars, owner, stage, readyAt, idleFrom, pending, lastSignal>>
      /\ asking'[h] = NoTime /\ ~landed'[h]
      /\ \/ landed[h] /\ persisted'[h] = asking[h] /\ cancelled' = cancelled
         \/ cancelled'[h] /\ persisted' = persisted
  BY <1>2 DEF MonitorAnswered, TypeOK
<1>4. RowsMove
  BY <1>3, RowsRest
<1>5. \A g \in Handlers \ {h} : SameHandler(g)
  BY <1>2, <1>3 DEF MonitorAnswered, TypeOK, SameHandler
<1>6. EndTime(s)' = EndTime(s) /\ lastSeen'[s] = lastSeen[s] /\ owner'[h] = s
  BY <1>1, <1>3 DEF EndTime, rowVars
<1>7. TouchFits(h)'
  BY <1>2, <1>3 DEF TouchFits
<1>8. /\ asking[h] <= now /\ now <= asking[h] + TouchTimeout
      /\ landed[h] => asking[h] <= EndTime(s) /\ asking[h] <= lastSeen[s] + TouchTimeout
  BY <1>1, <1>2 DEF TouchFits
<1>9. AnswerFits(h)'
  <2>1. CASE landed[h] /\ persisted'[h] = asking[h]
    BY <1>2, <1>3, <1>6, <1>8, <2>1 DEF AnswerFits, EndTime
  <2>2. CASE persisted' = persisted
    <3>1. stage[h] = "terminal" =>
            /\ 0 <= persisted[h] /\ persisted[h] <= now
            /\ persisted[h] = readyAt[h] \/ persisted[h] <= EndTime(s)
            /\ persisted[h] = readyAt[h] \/ persisted[h] <= lastSeen[s] + TouchTimeout
      BY <1>1, <1>2 DEF AnswerFits
    <3> QED BY <1>3, <1>6, <2>2, <3>1 DEF AnswerFits, EndTime
  <2> QED BY <1>3, <2>1, <2>2
<1>10. SignalFits(h)' /\ IdleFits(h)'
  <2>1. CASE stage[h] # "terminal"
    BY <1>3, <2>1 DEF SignalFits, IdleFits
  <2>2. CASE stage[h] = "terminal" /\ cancelled'[h]
    <3>1. Cut(h)'
      BY <2>2 DEF Cut
    <3> QED BY <1>2, <1>3, <2>2, <3>1 DEF SignalFits, IdleFits
  <2>3. CASE /\ stage[h] = "terminal"
             /\ landed[h] /\ persisted'[h] = asking[h] /\ cancelled' = cancelled
    <3>1. /\ lastSignal[h] <= now /\ idleFrom[h] = asking[h]
          /\ pending[h] \/ lastSignal[h] <= asking[h]
      BY <1>2, <2>3 DEF SignalFits, IdleFits
    <3> QED BY <1>2, <1>3, <1>8, <2>3, <3>1, Intervals DEF SignalFits, IdleFits
  <2> QED BY <1>3, <2>1, <2>2, <2>3
<1>11. HandlerFits(h)'
  BY <1>7, <1>9, <1>10 DEF HandlerFits
<1> QED BY <1>3, <1>4, <1>5, <1>11, OneHandlerMoves

LEMMA TrafficStep == TrafficInv /\ TypeOK' /\ [Next]_vars => TrafficInv'
<1> SUFFICES ASSUME TrafficInv, TypeOK', [Next]_vars PROVE TrafficInv'
  OBVIOUS
<1> USE DEF TrafficInv
<1>0. /\ now \in Nat /\ cancelled \in [Handlers -> BOOLEAN]
  BY DEF TypeOK
\* Steps that leave the handlers alone, except that they may cancel them.
<1>1. ASSUME RowsMove, now' = now, \A g \in Handlers : SameHandler(g)
      PROVE  TrafficInv'
  <2>1. RowsFit'
    BY <1>1, RowsStayFit
  <2>2. ASSUME NEW g \in Handlers PROVE HandlerFits(g)'
    <3>1. HandlerFits(g)
      OBVIOUS
    <3> QED BY <1>1, <3>1, SameHandlerFits DEF HandlerFits, TouchFits, IdleFits
  <2> QED BY <2>1, <2>2
<1>2. ASSUME NEW s \in Sessions, LoginEnds(s) PROVE TrafficInv'
  <2>1. /\ login' = [login EXCEPT ![s] = FALSE]
        /\ endedAt' = [endedAt EXCEPT
                         ![s] = IF endedAt[s] = NoTime THEN now ELSE endedAt[s]]
        /\ UNCHANGED <<now, status, expiresAt, lastSeen, handlerVars>>
    BY <1>2 DEF LoginEnds
  <2>2. \A q \in Sessions :
           /\ q # s => endedAt'[q] = endedAt[q] /\ login'[q] = login[q]
           /\ q = s => endedAt'[q] = endedAt[q] \/ (endedAt[q] = NoTime /\ endedAt'[q] = now)
           /\ q = s => ~login'[q]
    BY <2>1 DEF TypeOK
  <2>3. RowsMove
    <3>1. ASSUME NEW q \in Sessions, status'[q] = "active", login'[q]
          PROVE  status[q] = "active" /\ login[q] /\ endedAt'[q] = endedAt[q]
      <4>1. q # s
        BY <2>2, <3>1
      <4> QED BY <2>1, <2>2, <3>1, <4>1
    <3>2. \A q \in Sessions :
             /\ lastSeen'[q] = lastSeen[q]
             /\ \/ endedAt'[q] = endedAt[q]
                \/ endedAt[q] = NoTime /\ endedAt'[q] = now
      BY <2>1, <2>2
    <3>3. now' >= now /\ expiresAt' = expiresAt
      BY <1>0, <2>1
    <3> QED BY <3>1, <3>2, <3>3 DEF RowsMove
  <2>4. \A g \in Handlers : SameHandler(g)
    BY <2>1 DEF SameHandler, handlerVars, monitorVars
  <2> QED BY <1>1, <2>1, <2>3, <2>4
<1>3. CASE ExpireSweep
  <2> DEFINE Dead(s) == status[s] = "active" /\ ~Live(s)
  <2>1. /\ status' = [s \in Sessions |-> IF Dead(s) THEN "expired" ELSE status[s]]
        /\ endedAt' = [s \in Sessions |->
                         IF Dead(s) /\ endedAt[s] = NoTime THEN now ELSE endedAt[s]]
        /\ UNCHANGED <<now, login, expiresAt, lastSeen, handlerVars>>
    BY <1>3 DEF ExpireSweep
  <2> HIDE DEF Dead
  <2>2. RowsMove
    BY <1>0, <2>1 DEF RowsMove
  <2>3. \A g \in Handlers : SameHandler(g)
    BY <2>1 DEF SameHandler, handlerVars, monitorVars
  <2> QED BY <1>1, <2>1, <2>2, <2>3
<1>4. ASSUME NEW r \in Revokers, NEW S \in SUBSET Sessions, RevokeRows(r, S)
      PROVE  TrafficInv'
  <2>1. /\ status' = [s \in Sessions |-> IF s \in S THEN "revoked" ELSE status[s]]
        /\ endedAt' = [s \in Sessions |->
                         IF s \in S /\ endedAt[s] = NoTime THEN now ELSE endedAt[s]]
        /\ UNCHANGED <<now, login, expiresAt, lastSeen, handlerVars>>
    BY <1>4 DEF RevokeRows
  <2>2. RowsMove
    BY <1>0, <2>1 DEF RowsMove
  <2>3. \A g \in Handlers : SameHandler(g)
    BY <2>1 DEF SameHandler, handlerVars, monitorVars
  <2> QED BY <1>1, <2>1, <2>2, <2>3
<1>5. ASSUME UNCHANGED <<now, rowVars, stage, owner, monitorVars>>,
             \A g \in Handlers : cancelled[g] => cancelled'[g]
      PROVE  TrafficInv'
  <2>1. RowsMove
    BY <1>5, RowsRest
  <2>2. \A g \in Handlers : SameHandler(g)
    BY <1>5 DEF SameHandler, monitorVars
  <2> QED BY <1>1, <1>5, <2>1, <2>2
<1>6. ASSUME NEW r \in Revokers, NEW s \in Sessions, GatewayRevoke(r, s)
      PROVE  TrafficInv'
  BY <1>5, <1>6 DEF GatewayRevoke, handlerVars
<1>7. ASSUME NEW r \in Revokers, NEW h \in Handlers, RevokeCancels(r, h)
      PROVE  TrafficInv'
  <2>1. \A g \in Handlers : cancelled[g] => cancelled'[g]
    BY <1>0, <1>7 DEF RevokeCancels
  <2> QED BY <1>5, <1>7, <2>1 DEF RevokeCancels
<1>8. CASE Reload
  BY <1>5, <1>8 DEF Reload
<1>9. CASE Restart
  <2>1. RowsMove
    BY <1>9, RowsRest DEF Restart
  <2>2. RowsFit'
    BY <2>1, RowsStayFit
  <2>3. ASSUME NEW g \in Handlers PROVE HandlerFits(g)'
    <3>1. /\ stage'[g] \in {"free", "closed"} /\ lastSignal'[g] = NoTime
          /\ asking'[g] = NoTime /\ ~landed'[g]
      BY <1>9 DEF Restart
    <3> QED BY <3>1, IdleHandlerFits
  <2> QED BY <2>2, <2>3
<1>10. CASE Tick
  <2>1. now' = now + 1 /\ UNCHANGED <<rowVars, handlerVars>>
    BY <1>10 DEF Tick
  <2>2. RowsMove
    BY <1>0, <2>1 DEF RowsMove, rowVars
  <2>3. RowsFit'
    BY <2>2, RowsStayFit
  <2>4. ASSUME NEW g \in Handlers PROVE HandlerFits(g)'
    <3>1. SameHandler(g)
      BY <2>1 DEF SameHandler, handlerVars, monitorVars
    <3>2. asking[g] \in Int /\ idleFrom[g] \in Int
      BY DEF TypeOK, NoTime
    <3>3. /\ asking[g] # NoTime => now' <= asking[g] + TouchTimeout
          /\ stage[g] = "terminal" /\ ~Cut(g) /\ asking[g] = NoTime
               => now' <= idleFrom[g] + IdleTTL
      BY <1>0, <1>10, <2>1, <3>2, Intervals DEF Tick
    <3> QED BY <2>2, <3>1, <3>3, SameHandlerFits
  <2> QED BY <2>3, <2>4
<1>11. CASE UNCHANGED vars
  BY <1>5, <1>11 DEF vars, handlerVars
<1> QED
  BY <1>2, <1>3, <1>4, <1>6, <1>7, <1>8, <1>9, <1>10, <1>11, ArrivalStepFits,
     SignalStepFits, TouchStepFits, AnswerStepFits DEF Next

\* What terminals, touches and rows know of the time of their traffic holds of
\* every behaviour of the gateway, with its two goroutines and the store.
THEOREM TrafficInvariance == Spec => []TrafficInv
<1> QED BY TrafficInit, TrafficStep, TypeCorrect, PTL DEF Spec

\* What all three results rest on.
LEMMA AnswerPrecedesEnd ==
    ASSUME TrafficInv, NEW h \in Handlers, stage[h] = "terminal"
    PROVE  /\ persisted[h] \in Int
           /\ Later(EndTime(owner[h]), readyAt[h]) \in Int
           /\ persisted[h] <= Later(EndTime(owner[h]), readyAt[h])
           /\ Later(lastSeen[owner[h]] + TouchTimeout, readyAt[h]) \in Int
           /\ persisted[h] <= Later(lastSeen[owner[h]] + TouchTimeout, readyAt[h])
<1>1. PICK s \in Sessions : s = owner[h]
  BY DEF TrafficInv, TypeOK
<1>2. /\ persisted[h] \in Int /\ readyAt[h] \in Int /\ EndTime(s) \in Int
      /\ lastSeen[s] + TouchTimeout \in Int
  BY <1>1, Intervals DEF TrafficInv, TypeOK, EndTime
<1>3. /\ persisted[h] = readyAt[h] \/ persisted[h] <= EndTime(s)
      /\ persisted[h] = readyAt[h] \/ persisted[h] <= lastSeen[s] + TouchTimeout
  BY <1>1 DEF TrafficInv, HandlerFits, AnswerFits
<1> QED BY <1>1, <1>2, <1>3 DEF Later

\* A session ends without the gateway being told: its terminal is cut within
\* the persist interval, the idle limit and the time of a touch
\* (monitorSSHActivity), for any intervals, sessions and terminals.
THEOREM EndedTerminalsAreCut == Spec => []EndedTerminalIsCut
<1>1. TrafficInv => EndedTerminalIsCut
  <2> SUFFICES ASSUME TrafficInv, NEW h \in Handlers, stage[h] = "terminal", ~Cut(h)
               PROVE  now < Later(EndTime(owner[h]), readyAt[h])
                              + TouchInterval + IdleTTL + TouchTimeout
    BY DEF EndedTerminalIsCut
  <2> DEFINE end == Later(EndTime(owner[h]), readyAt[h])
  <2>1. persisted[h] \in Int /\ end \in Int /\ persisted[h] <= end
    BY AnswerPrecedesEnd
  <2>2. now \in Nat /\ asking[h] \in Int /\ idleFrom[h] \in Int
    BY DEF TrafficInv, TypeOK, NoTime
  <2>3. now < persisted[h] + TouchInterval + IdleTTL + TouchTimeout
    <3>1. CASE asking[h] = NoTime
      <4>1. idleFrom[h] < persisted[h] + TouchInterval /\ now <= idleFrom[h] + IdleTTL
        BY <3>1 DEF TrafficInv, HandlerFits, IdleFits
      <4> QED BY <2>1, <2>2, <4>1, Intervals
    <3>2. CASE asking[h] # NoTime
      <4>1. /\ asking[h] < persisted[h] + TouchInterval + IdleTTL
            /\ now <= asking[h] + TouchTimeout
        BY <3>2 DEF TrafficInv, HandlerFits, IdleFits, TouchFits
      <4> QED BY <2>1, <2>2, <4>1, Intervals
    <3> QED BY <3>1, <3>2
  <2> HIDE DEF end
  <2>4. now < end + TouchInterval + IdleTTL + TouchTimeout
    BY <2>1, <2>2, <2>3, Intervals
  <2> QED BY <2>4 DEF end
<1> QED BY <1>1, TrafficInvariance, PTL

\* Bytes read TouchInterval after the end, or after the terminal opened, are its
\* last: their signal waits for the monitor, the monitor is asking the store, or
\* it has cancelled the terminal.
THEOREM LateTrafficIsLast == Spec => []LateTrafficCutsTerminal
<1>1. TrafficInv => LateTrafficCutsTerminal
  <2> SUFFICES ASSUME TrafficInv, NEW h \in Handlers, stage[h] = "terminal",
                      lastSignal[h] >= Later(EndTime(owner[h]), readyAt[h]) + TouchInterval,
                      ~pending[h], asking[h] = NoTime
               PROVE  Cut(h)
    BY DEF LateTrafficCutsTerminal
  <2>1. /\ persisted[h] \in Int /\ Later(EndTime(owner[h]), readyAt[h]) \in Int
        /\ persisted[h] <= Later(EndTime(owner[h]), readyAt[h])
    BY AnswerPrecedesEnd
  <2>2. /\ lastSignal[h] \in Int
        /\ cancelled[h] \/ lastSignal[h] < persisted[h] + TouchInterval
    BY DEF TrafficInv, TypeOK, HandlerFits, SignalFits
  <2>3. ~(lastSignal[h] < persisted[h] + TouchInterval)
    BY <2>1, <2>2, Intervals
  <2> QED BY <2>2, <2>3 DEF Cut
<1> QED BY <1>1, TrafficInvariance, PTL

\* last_seen_at lags behind what a terminal has read by less than the persist
\* interval and a touch, so that the sweep takes no session in use for idle;
\* nothing is assumed of the time a terminal takes to open.
THEOREM LastSeenFollows == Spec => []LastSeenFollowsTraffic
<1>1. TrafficInv => LastSeenFollowsTraffic
  <2> SUFFICES ASSUME TrafficInv, NEW h \in Handlers, stage[h] = "terminal",
                      ~pending[h], asking[h] = NoTime, ~Cut(h)
               PROVE  lastSignal[h] < Later(lastSeen[owner[h]] + TouchTimeout, readyAt[h])
                                        + TouchInterval
    BY DEF LastSeenFollowsTraffic
  <2>1. /\ persisted[h] \in Int
        /\ Later(lastSeen[owner[h]] + TouchTimeout, readyAt[h]) \in Int
        /\ persisted[h] <= Later(lastSeen[owner[h]] + TouchTimeout, readyAt[h])
    BY AnswerPrecedesEnd
  <2>2. lastSignal[h] \in Int /\ lastSignal[h] < persisted[h] + TouchInterval
    BY DEF TrafficInv, TypeOK, HandlerFits, SignalFits, Cut
  <2> QED BY <2>1, <2>2, Intervals
<1> QED BY <1>1, TrafficInvariance, PTL

=============================================================================
