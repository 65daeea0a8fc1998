-------------------------- MODULE WebGatewayProofs --------------------------
(***************************************************************************)
(* Theorems about WebGateway, for any sets of sessions, connections,       *)
(* trackers and revoking handlers and any intervals that satisfy           *)
(* TimeAssumption.                                                         *)
(***************************************************************************)
EXTENDS WebGateway, TLAPS

-----------------------------------------------------------------------------
(* Type correctness. *)

LEMMA ClosedTypes ==
    ASSUME TypeOK, NEW c \in Conns, Closed(c)
    PROVE  /\ conn' \in [Conns -> ConnStage]
           /\ owner' \in [Conns -> Sessions]
           /\ since' \in [Conns -> Nat]
           /\ via' \in [Conns -> Trackers \cup {None}]
           /\ sending' \in [Conns -> Int]
           /\ deadline' \in [Conns -> Int]
           /\ stale' \in SUBSET Conns
  BY DEF TypeOK, Closed, ConnStage, NoTime

LEMMA PrunedTypes ==
    ASSUME TypeOK
    PROVE  Pruned \in [Sessions -> Int]
  BY DEF TypeOK, Pruned, NoTime

LEMMA EndedAtTypes ==
    ASSUME TypeOK, EndedAtFollows
    PROVE  endedAt' \in [Sessions -> Int]
  BY DEF TypeOK, EndedAtFollows, NoTime

\* Every variable keeps its type: in particular a revoking handler only ever
\* waits for connections and owes Revoke only for sessions.
THEOREM TypeCorrect == Spec => []TypeOK
<1>1. Init => TypeOK
  BY DEF Init, TypeOK, ConnStage, NoTime
<1>2. TypeOK /\ [Next]_vars => TypeOK'
  <2> SUFFICES ASSUME TypeOK, [Next]_vars PROVE TypeOK'
    OBVIOUS
  <2>1. ASSUME NEW c \in Conns, ServeHTTP(c) PROVE TypeOK'
    BY <2>1 DEF TypeOK, ServeHTTP, ConnStage, rowVars, trackerVars, revokerVars
  <2>2. ASSUME NEW c \in Conns, NEW t \in Trackers, ProxyTransport(c, t) PROVE TypeOK'
    BY <2>2 DEF TypeOK, ProxyTransport, ConnStage, rowVars, revokerVars
  <2>3. ASSUME NEW c \in Conns, DialFails(c) PROVE TypeOK'
    BY <2>3, ClosedTypes DEF TypeOK, DialFails, rowVars, trackerVars, revokerVars
  <2>4. ASSUME NEW c \in Conns, TrackConn(c) PROVE TypeOK'
    <3>1. tomb' \in [Sessions -> Int]
      BY <2>4, PrunedTypes DEF TrackConn, TypeOK
    <3>2. /\ conn' \in [Conns -> ConnStage]
          /\ owner' \in [Conns -> Sessions]
          /\ since' \in [Conns -> Nat]
          /\ via' \in [Conns -> Trackers \cup {None}]
          /\ sending' \in [Conns -> Int]
          /\ deadline' \in [Conns -> Int]
          /\ stale' \in SUBSET Conns
      <4>1. CASE Closed(c)
        BY <4>1, ClosedTypes
      <4>2. CASE ~Closed(c)
        BY <2>4, <4>2, TimeAssumption DEF TypeOK, TrackConn, ConnStage
      <4> QED BY <4>1, <4>2
    <3> QED
      BY <2>4, <3>1, <3>2 DEF TypeOK, TrackConn, rowVars, trackerVars, revokerVars
  <2>5. ASSUME NEW c \in Conns,
               \/ WriteReturns(c)
               \/ \E at \in since[c] .. now : Read(c, at) \/ WriteStarts(c, at)
        PROVE  TypeOK'
    <3>1. CASE WriteReturns(c)
      BY <3>1, TimeAssumption DEF TypeOK, WriteReturns, NoTime, rowVars, trackerVars, revokerVars
    <3>2. CASE \E at \in since[c] .. now : Read(c, at) \/ WriteStarts(c, at)
      <4>1. PICK at \in since[c] .. now : Read(c, at) \/ WriteStarts(c, at)
        BY <3>2
      <4>2. at \in Int /\ at + IdleTTL \in Int
        BY <4>1, TimeAssumption DEF TypeOK
      <4>3. persisted' \in [Trackers -> Int]
        BY <4>1, <4>2 DEF TypeOK, Read, WriteStarts, Touch
      <4> QED
        BY <4>1, <4>2, <4>3 DEF TypeOK, Read, WriteStarts, rowVars, revokerVars
    <3> QED BY <2>5, <3>1, <3>2
  <2>6. ASSUME NEW c \in Conns, CloseConn(c) \/ \E at \in since[c] .. now : TouchRefused(c, at)
        PROVE  TypeOK'
    BY <2>6 DEF TypeOK, TouchRefused, CloseConn, ConnStage, rowVars, trackerVars, revokerVars
  <2>7. ASSUME NEW c \in Conns, Unregister(c) PROVE TypeOK'
    BY <2>7, ClosedTypes DEF TypeOK, Unregister, rowVars, trackerVars, revokerVars
  <2>8. ASSUME NEW s \in Sessions, NEW how \in {"idle", "ended"}, LoginLapses(s, how)
        PROVE  TypeOK'
    BY <2>8, EndedAtTypes DEF TypeOK, LoginLapses, connVars, trackerVars, revokerVars
  <2>9. ASSUME NEW s \in Sessions, LoginTouched(s) PROVE TypeOK'
    BY <2>9, EndedAtTypes DEF TypeOK, LoginTouched, connVars, trackerVars, revokerVars
  <2>10. CASE ExpireSweep
    BY <2>10 DEF TypeOK, ExpireSweep, connVars, trackerVars, revokerVars
  <2>11. ASSUME NEW r \in Revokers, NEW S \in SUBSET Sessions, RevokeRows(r, S)
         PROVE  TypeOK'
    BY <2>11, EndedAtTypes DEF TypeOK, RevokeRows, connVars, trackerVars
  <2>12. ASSUME NEW r \in Revokers, NEW s \in Sessions, GatewayRevoke(r, s)
         PROVE  TypeOK'
    BY <2>12, PrunedTypes DEF TypeOK, GatewayRevoke, Collected, rowVars, connVars, trackerVars
  <2>13. ASSUME NEW r \in Revokers, NEW c \in Conns, RevokeCloses(r, c) PROVE TypeOK'
    BY <2>13 DEF TypeOK, RevokeCloses, ConnStage, rowVars, trackerVars, revokerVars
  <2>14. ASSUME NEW r \in Revokers, NEW c \in Conns, RevokeProceeds(r, c) PROVE TypeOK'
    BY <2>14 DEF TypeOK, RevokeProceeds, rowVars, connVars, trackerVars
  <2>15. CASE Restart
    BY <2>15 DEF TypeOK, Restart, ConnStage, NoTime, rowVars
  <2>16. CASE Reload
    BY <2>16 DEF TypeOK, Reload, ConnStage, NoTime, rowVars, revokerVars
  <2>17. CASE Tick
    BY <2>17 DEF TypeOK, Tick, rowVars, connVars, trackerVars, revokerVars
  <2>18. CASE UNCHANGED vars
    BY <2>18 DEF TypeOK, vars, rowVars, connVars, trackerVars, revokerVars
  <2> QED
    BY <2>1, <2>2, <2>3, <2>4, <2>5, <2>6, <2>7, <2>8, <2>9, <2>10, <2>11, <2>12,
       <2>13, <2>14, <2>15, <2>16, <2>17, <2>18 DEF Next
<1> QED
  BY <1>1, <1>2, PTL DEF Spec

-----------------------------------------------------------------------------
(* Revocation.  The argument: a request cannot be in flight for longer     *)
(* than a tombstone is kept, so the tombstone that its session's           *)
(* revocation left is there when the connection asks for registration.     *)

InFlightIsRecent ==
    \A c \in Conns : InFlight(c) => since[c] <= now /\ now - since[c] <= MaxInFlight

\* A request overtaken by the revocation of its session: Revoke is still to
\* come, or has left a tombstone that is younger than the request.
OvertakenIsMarked ==
    \A c \in Conns \ stale :
        InFlight(c) /\ status[owner[c]] = "revoked"
          => \/ \E r \in Revokers : owner[c] \in todo[r]
             \/ tomb[owner[c]] >= since[c]

RevocationInv == TypeOK /\ InFlightIsRecent /\ OvertakenIsMarked /\ RevokedIsCut

\* A tombstone at least as old as a request in flight survives pruning.
LEMMA PruneKeepsYoung ==
    ASSUME TypeOK, InFlightIsRecent, NEW c \in Conns, InFlight(c),
           tomb[owner[c]] >= since[c]
    PROVE  /\ Pruned[owner[c]] = tomb[owner[c]]
           /\ Pruned[owner[c]] # NoTime
  BY TimeAssumption DEF TypeOK, InFlightIsRecent, Pruned, NoTime

\* A step that keeps the rows, the tombstones and the revokers, and at most
\* closes or moves one connection without opening it, keeps the invariant.
LEMMA CloseKeepsRevocation ==
    ASSUME RevocationInv, NEW c \in Conns, UNCHANGED <<now, status, owner, todo, closing>>,
           \A d \in Conns \ {c} : /\ conn'[d] = conn[d]
                                  /\ since'[d] = since[d]
                                  /\ d \in stale' <=> d \in stale,
           conn'[c] \in {"closing", "closed"},
           \/ tomb' = tomb
           \/ tomb' = Pruned
    PROVE  InFlightIsRecent' /\ OvertakenIsMarked' /\ RevokedIsCut'
<1>1. InFlightIsRecent'
  BY DEF RevocationInv, InFlightIsRecent, InFlight
<1>2. OvertakenIsMarked'
  <2> SUFFICES ASSUME NEW d \in Conns, d \notin stale', InFlight(d)', status'[owner'[d]] = "revoked"
               PROVE  \/ \E r \in Revokers : owner'[d] \in todo'[r]
                      \/ tomb'[owner'[d]] >= since'[d]
    BY DEF OvertakenIsMarked
  <2>1. d # c /\ InFlight(d) /\ d \notin stale
    BY DEF InFlight
  <2>2. (\E r \in Revokers : owner[d] \in todo[r]) \/ tomb[owner[d]] >= since[d]
    BY <2>1 DEF RevocationInv, OvertakenIsMarked
  <2>3. ASSUME tomb[owner[d]] >= since[d] PROVE tomb'[owner[d]] >= since[d]
    BY <2>1, <2>3, PruneKeepsYoung DEF RevocationInv
  <2> QED BY <2>1, <2>2, <2>3
<1>3. RevokedIsCut'
  BY DEF RevocationInv, RevokedIsCut
<1> QED BY <1>1, <1>2, <1>3

LEMMA RevocationInit == Init => RevocationInv
<1> SUFFICES ASSUME Init PROVE RevocationInv
  OBVIOUS
<1>1. TypeOK
  BY DEF Init, TypeOK, ConnStage, NoTime
<1>2. InFlightIsRecent /\ OvertakenIsMarked /\ RevokedIsCut
  BY DEF Init, InFlightIsRecent, OvertakenIsMarked, RevokedIsCut, InFlight
<1> QED BY <1>1, <1>2 DEF RevocationInv

LEMMA RevocationStep == RevocationInv /\ TypeOK' /\ [Next]_vars => RevocationInv'
<1> SUFFICES ASSUME RevocationInv, TypeOK', [Next]_vars
             PROVE  InFlightIsRecent' /\ OvertakenIsMarked' /\ RevokedIsCut'
  BY DEF RevocationInv
<1> USE DEF RevocationInv
<1>1. ASSUME NEW c \in Conns, ServeHTTP(c)
      PROVE  InFlightIsRecent' /\ OvertakenIsMarked' /\ RevokedIsCut'
  <2>1. status[owner[c]] # "revoked"
    BY <1>1 DEF ServeHTTP, Live
  <2>2. InFlightIsRecent'
    BY <1>1, TimeAssumption DEF ServeHTTP, InFlightIsRecent, InFlight, TypeOK
  <2>3. OvertakenIsMarked'
    BY <1>1, <2>1 DEF ServeHTTP, OvertakenIsMarked, InFlight, TypeOK, rowVars, revokerVars
  <2>4. RevokedIsCut'
    BY <1>1 DEF ServeHTTP, RevokedIsCut, TypeOK, rowVars, revokerVars
  <2> QED BY <2>2, <2>3, <2>4
<1>2. ASSUME NEW c \in Conns, NEW t \in Trackers, ProxyTransport(c, t)
      PROVE  InFlightIsRecent' /\ OvertakenIsMarked' /\ RevokedIsCut'
  <2>1. InFlightIsRecent'
    BY <1>2 DEF ProxyTransport, InFlightIsRecent, InFlight, TypeOK
  <2>2. OvertakenIsMarked'
    BY <1>2 DEF ProxyTransport, OvertakenIsMarked, InFlight, TypeOK, rowVars, revokerVars
  <2>3. RevokedIsCut'
    BY <1>2 DEF ProxyTransport, RevokedIsCut, TypeOK, rowVars, revokerVars
  <2> QED BY <2>1, <2>2, <2>3
<1>3. ASSUME NEW c \in Conns, DialFails(c) \/ Unregister(c)
      PROVE  InFlightIsRecent' /\ OvertakenIsMarked' /\ RevokedIsCut'
  <2>1. \A d \in Conns \ {c} : /\ conn'[d] = conn[d]
                               /\ since'[d] = since[d]
                               /\ d \in stale' <=> d \in stale
    BY <1>3 DEF DialFails, Unregister, Closed, TypeOK
  <2>2. UNCHANGED <<now, status, owner, todo, closing, tomb>> /\ conn'[c] = "closed"
    BY <1>3 DEF DialFails, Unregister, Closed, TypeOK, rowVars, revokerVars
  <2> QED BY <2>1, <2>2, CloseKeepsRevocation
<1>4. ASSUME NEW c \in Conns, TrackConn(c)
      PROVE  InFlightIsRecent' /\ OvertakenIsMarked' /\ RevokedIsCut'
  <2>1. CASE Closed(c)
    BY <1>4, <2>1, CloseKeepsRevocation DEF TrackConn, Closed, TypeOK, rowVars, revokerVars
  <2>2. CASE ~Closed(c)
    <3>1. /\ conn' = [conn EXCEPT ![c] = "open"]
          /\ since' = [since EXCEPT ![c] = now]
          /\ c \in stale \/ tomb'[owner[c]] = NoTime
          /\ UNCHANGED <<now, status, owner, stale, todo, closing>>
          /\ tomb' = tomb \/ tomb' = Pruned
      BY <1>4, <2>2 DEF TrackConn, rowVars, revokerVars
    <3>2. ASSUME NEW d \in Conns, InFlight(d)' PROVE d # c /\ InFlight(d)
      BY <3>1, <3>2 DEF InFlight, TypeOK
    <3>3. InFlightIsRecent'
      BY <3>1, <3>2 DEF InFlightIsRecent, TypeOK
    <3>4. OvertakenIsMarked'
      <4> SUFFICES ASSUME NEW d \in Conns, d \notin stale', InFlight(d)',
                          status'[owner'[d]] = "revoked"
                   PROVE  \/ \E r \in Revokers : owner'[d] \in todo'[r]
                          \/ tomb'[owner'[d]] >= since'[d]
        BY DEF OvertakenIsMarked
      <4>1. (\E r \in Revokers : owner[d] \in todo[r]) \/ tomb[owner[d]] >= since[d]
        BY <3>1, <3>2 DEF OvertakenIsMarked
      <4>2. ASSUME tomb[owner[d]] >= since[d] PROVE tomb'[owner[d]] >= since[d]
        BY <3>1, <3>2, <4>2, PruneKeepsYoung
      <4>3. since'[d] = since[d]
        BY <3>1, <3>2 DEF TypeOK
      <4> QED BY <3>1, <4>1, <4>2, <4>3
    <3>5. ASSUME c \notin stale, status[owner[c]] = "revoked"
          PROVE  \E r \in Revokers : owner[c] \in todo[r]
      <4>1. InFlight(c) /\ tomb' = Pruned
        BY <1>4, <3>5 DEF TrackConn, InFlight
      <4>2. tomb[owner[c]] >= since[c] => tomb'[owner[c]] # NoTime
        BY <4>1, PruneKeepsYoung
      <4> QED BY <3>1, <3>5, <4>1, <4>2 DEF OvertakenIsMarked
    <3>6. RevokedIsCut'
      BY <3>1, <3>5 DEF RevokedIsCut, TypeOK
    <3> QED BY <3>3, <3>4, <3>6
  <2> QED BY <2>1, <2>2
<1>5. ASSUME NEW c \in Conns,
             \/ WriteReturns(c)
             \/ \E at \in since[c] .. now : Read(c, at) \/ WriteStarts(c, at)
      PROVE  InFlightIsRecent' /\ OvertakenIsMarked' /\ RevokedIsCut'
  BY <1>5 DEF Read, WriteStarts, WriteReturns, InFlightIsRecent, OvertakenIsMarked,
     RevokedIsCut, InFlight, rowVars, revokerVars
<1>6. ASSUME NEW c \in Conns,
             \/ CloseConn(c)
             \/ \E at \in since[c] .. now : TouchRefused(c, at)
             \/ \E r \in Revokers : RevokeCloses(r, c)
      PROVE  InFlightIsRecent' /\ OvertakenIsMarked' /\ RevokedIsCut'
  BY <1>6, CloseKeepsRevocation
  DEF TouchRefused, CloseConn, RevokeCloses, TypeOK, rowVars, revokerVars
<1>7. ASSUME NEW s \in Sessions,
             LoginTouched(s) \/ \E how \in {"idle", "ended"} : LoginLapses(s, how)
      PROVE  InFlightIsRecent' /\ OvertakenIsMarked' /\ RevokedIsCut'
  BY <1>7 DEF LoginTouched, LoginLapses, InFlightIsRecent, OvertakenIsMarked, RevokedIsCut,
     InFlight, connVars, revokerVars
<1>8. CASE ExpireSweep
  <2>1. \A s \in Sessions : status'[s] = "revoked" => status[s] = "revoked"
    BY <1>8 DEF ExpireSweep
  <2> QED
    BY <1>8, <2>1 DEF ExpireSweep, InFlightIsRecent, OvertakenIsMarked, RevokedIsCut,
       InFlight, TypeOK, connVars, revokerVars
<1>9. ASSUME NEW r \in Revokers, NEW S \in SUBSET Sessions, RevokeRows(r, S)
      PROVE  InFlightIsRecent' /\ OvertakenIsMarked' /\ RevokedIsCut'
  <2>1. /\ UNCHANGED <<now, tomb, conn, owner, since, stale, closing>>
        /\ todo[r] = {} /\ closing[r] = {}
        /\ todo' = [todo EXCEPT ![r] = S]
        /\ \A s \in Sessions : status'[s] = "revoked" => s \in S \/ status[s] = "revoked"
    BY <1>9 DEF RevokeRows, connVars
  <2>2. \A q \in Revokers : todo[q] \subseteq todo'[q]
    BY <2>1 DEF TypeOK
  <2>3. r \in Revokers /\ todo'[r] = S
    BY <2>1 DEF TypeOK
  <2>4. InFlightIsRecent'
    BY <2>1 DEF InFlightIsRecent, InFlight
  <2>5. OvertakenIsMarked'
    BY <2>1, <2>2, <2>3 DEF OvertakenIsMarked, InFlight, TypeOK
  <2>6. RevokedIsCut'
    BY <2>1, <2>2, <2>3 DEF RevokedIsCut, TypeOK
  <2> QED BY <2>4, <2>5, <2>6
<1>10. ASSUME NEW r \in Revokers, NEW s \in Sessions, GatewayRevoke(r, s)
       PROVE  InFlightIsRecent' /\ OvertakenIsMarked' /\ RevokedIsCut'
  <2>1. /\ UNCHANGED <<now, status, conn, owner, since, stale>>
        /\ closing[r] = {}
        /\ tomb' = [Pruned EXCEPT ![s] = now]
        /\ closing' = [closing EXCEPT ![r] = Collected(s)]
        /\ todo' = [todo EXCEPT ![r] = @ \ {s}]
    BY <1>10 DEF GatewayRevoke, rowVars, connVars
  <2>2. InFlightIsRecent'
    BY <2>1 DEF InFlightIsRecent, InFlight
  <2>3. \A q \in Revokers : todo[q] \ {s} \subseteq todo'[q]
    BY <2>1 DEF TypeOK
  <2>4. OvertakenIsMarked'
    <3> SUFFICES ASSUME NEW c \in Conns, c \notin stale, InFlight(c), status[owner[c]] = "revoked"
                 PROVE  \/ \E q \in Revokers : owner[c] \in todo'[q]
                        \/ tomb'[owner[c]] >= since[c]
      BY <2>1 DEF OvertakenIsMarked, InFlight
    <3>1. Pruned \in [Sessions -> Int] /\ owner[c] \in Sessions
      BY PrunedTypes DEF TypeOK
    <3>2. CASE owner[c] = s
      BY <2>1, <3>1, <3>2 DEF InFlightIsRecent, TypeOK
    <3>3. CASE owner[c] # s
      <4>1. tomb'[owner[c]] = Pruned[owner[c]]
        BY <2>1, <3>1, <3>3
      <4>2. CASE tomb[owner[c]] >= since[c]
        BY <4>1, <4>2, PruneKeepsYoung
      <4>3. CASE \E q \in Revokers : owner[c] \in todo[q]
        BY <2>3, <3>3, <4>3
      <4> QED BY <4>2, <4>3 DEF OvertakenIsMarked
    <3> QED BY <3>2, <3>3
  <2>5. RevokedIsCut'
    <3> SUFFICES ASSUME NEW c \in Conns, c \notin stale, conn[c] = "open",
                        status[owner[c]] = "revoked"
                 PROVE  \E q \in Revokers : owner[c] \in todo'[q] \/ c \in closing'[q]
      BY <2>1 DEF RevokedIsCut
    <3>1. CASE owner[c] = s
      <4>1. c \in closing'[r]
        BY <2>1, <3>1 DEF Collected, Registered, TypeOK
      <4> QED BY <4>1
    <3>2. CASE owner[c] # s
      <4>1. PICK q \in Revokers : owner[c] \in todo[q] \/ c \in closing[q]
        BY DEF RevokedIsCut
      <4>2. owner[c] \in todo'[q] \/ c \in closing'[q]
        BY <2>1, <2>3, <3>2, <4>1 DEF TypeOK
      <4> QED BY <4>2
    <3> QED BY <3>1, <3>2
  <2> QED BY <2>2, <2>4, <2>5
<1>11. ASSUME NEW r \in Revokers, NEW c \in Conns, RevokeProceeds(r, c)
       PROVE  InFlightIsRecent' /\ OvertakenIsMarked' /\ RevokedIsCut'
  <2>1. /\ UNCHANGED <<now, status, tomb, conn, owner, since, stale, todo>>
        /\ conn[c] = "closed"
        /\ \A q \in Revokers : closing[q] \ {c} \subseteq closing'[q]
    BY <1>11 DEF RevokeProceeds, rowVars, connVars, TypeOK
  <2>2. InFlightIsRecent' /\ OvertakenIsMarked'
    BY <2>1 DEF InFlightIsRecent, OvertakenIsMarked, InFlight
  <2>3. RevokedIsCut'
    BY <2>1 DEF RevokedIsCut
  <2> QED BY <2>2, <2>3
<1>12. CASE Restart
  BY <1>12 DEF Restart, InFlightIsRecent, OvertakenIsMarked, RevokedIsCut, InFlight
<1>13. CASE Reload
  <2>1. /\ UNCHANGED <<now, status, owner, todo, closing>>
        /\ \A c \in Conns : InFlight(c)' => since'[c] = since[c] /\ InFlight(c) /\ c \in stale'
        /\ \A c \in Conns : conn'[c] = "open" => c \in stale'
    BY <1>13 DEF Reload, rowVars, revokerVars, InFlight, TypeOK
  <2> QED BY <2>1 DEF InFlightIsRecent, OvertakenIsMarked, RevokedIsCut
<1>14. CASE Tick
  <2>1. InFlightIsRecent'
    BY <1>14, TimeAssumption DEF Tick, InFlightIsRecent, InFlight, TypeOK, connVars
  <2>2. OvertakenIsMarked' /\ RevokedIsCut'
    BY <1>14 DEF Tick, OvertakenIsMarked, RevokedIsCut, InFlight, rowVars, connVars, revokerVars
  <2> QED BY <2>1, <2>2
<1>15. CASE UNCHANGED vars
  BY <1>15 DEF vars, InFlightIsRecent, OvertakenIsMarked, RevokedIsCut, InFlight, rowVars,
     connVars, revokerVars
<1> QED
  BY <1>1, <1>2, <1>3, <1>4, <1>5, <1>6, <1>7, <1>8, <1>9, <1>10, <1>11, <1>12,
     <1>13, <1>14, <1>15 DEF Next

\* No connection of a revoked session stays open unless a Revoke call is still
\* going to close it, whatever the order in which the request, its dial, the
\* row's revocation, Revoke and the pruning of tombstones take place.
THEOREM RevokedConnectionsAreCut == Spec => []RevokedIsCut
<1>1. RevocationInv => RevokedIsCut
  BY DEF RevocationInv
<1> QED
  BY <1>1, RevocationInit, RevocationStep, TypeCorrect, PTL DEF Spec

-----------------------------------------------------------------------------
(* Stale traffic.  The argument: a tracker's last success is not later than *)
(* the end of its session, and a call is let pass without a new success for *)
(* less than PersistInterval after it; the deadline counts from such a call *)
(* or from the registration.                                                *)

\* A connection that is dialed or open uses a tracker of its own session.
TrackersMatch ==
    \A c \in Conns : conn[c] \in {"dialing", "open"}
                       => via[c] \in Trackers /\ trackerFor[via[c]] = owner[c]

\* The store has confirmed no tracker after its session ended.
ConfirmedWhileLive ==
    \A t \in Trackers :
        /\ persisted[t] <= now
        /\ ~Live(trackerFor[t]) => persisted[t] <= endedAt[trackerFor[t]]

EndsAreDated == \A s \in Sessions : ~Live(s) => 0 <= endedAt[s] /\ endedAt[s] <= now

\* A request in flight resolved its grant before the end; the times an open
\* connection carries have passed.
TimesHavePassed ==
    \A c \in Conns :
        /\ conn[c] \in {"free", "resolved", "dialing"} => sending[c] = NoTime
        /\ InFlight(c) /\ ~Live(owner[c]) => since[c] <= endedAt[owner[c]]
        /\ conn[c] = "open" => sending[c] <= now /\ deadline[c] <= now + IdleTTL

TrafficInv ==
    /\ TypeOK
    /\ TrackersMatch
    /\ ConfirmedWhileLive
    /\ EndsAreDated
    /\ TimesHavePassed
    /\ StaleTrafficIsBounded

\* Steps that end or revive sessions leave what endedAt bounds in place.
LEMMA EndKeepsTraffic ==
    ASSUME TrafficInv, InFlightIsRecent, TypeOK', EndedAtFollows,
           UNCHANGED <<now, conn, owner, via, since, sending, deadline, trackerFor, persisted>>
    PROVE  TrafficInv'
<1> USE DEF TrafficInv
<1> DEFINE LiveNext(s) == status'[s] = "active" /\ login'[s] = "live"
<1>1. \A s \in Sessions :
        ~LiveNext(s) => \/ Live(s) /\ endedAt'[s] = now
                        \/ ~Live(s) /\ endedAt'[s] = endedAt[s]
  BY DEF EndedAtFollows
<1>2. TrackersMatch'
  BY DEF TrackersMatch
<1>3. ConfirmedWhileLive'
  <2>1. ASSUME NEW t \in Trackers, ~LiveNext(trackerFor[t])
        PROVE  persisted[t] <= endedAt'[trackerFor[t]]
    <3>1. trackerFor[t] \in Sessions
      BY DEF TypeOK
    <3> QED BY <1>1, <2>1, <3>1 DEF ConfirmedWhileLive
  <2> QED BY <2>1 DEF ConfirmedWhileLive, Live
<1>4. EndsAreDated'
  <2>1. ASSUME NEW s \in Sessions, ~LiveNext(s) PROVE 0 <= endedAt'[s] /\ endedAt'[s] <= now
    BY <1>1, <2>1 DEF EndsAreDated, TypeOK
  <2> QED BY <2>1 DEF EndsAreDated, Live
<1>5. TimesHavePassed'
  <2>1. ASSUME NEW c \in Conns, InFlight(c), ~LiveNext(owner[c])
        PROVE  since[c] <= endedAt'[owner[c]]
    <3>1. owner[c] \in Sessions
      BY DEF TypeOK
    <3> QED BY <1>1, <2>1, <3>1 DEF TimesHavePassed, InFlightIsRecent
  <2> QED BY <2>1 DEF TimesHavePassed, InFlight, Live
<1>6. StaleTrafficIsBounded'
  <2> DEFINE last(c) == endedAt'[owner[c]] + PersistInterval
  <2>1. ASSUME NEW c \in Conns, conn[c] = "open", ~LiveNext(owner[c])
        PROVE  /\ sending[c] < last(c)
               /\ \/ deadline[c] < last(c) + IdleTTL
                  \/ /\ deadline[c] = since[c] + IdleTTL
                     /\ since[c] <= endedAt'[owner[c]] + MaxInFlight
    <3>1. owner[c] \in Sessions
      BY DEF TypeOK
    <3>2. CASE Live(owner[c])
      <4>1. endedAt'[owner[c]] = now
        BY <1>1, <2>1, <3>1, <3>2
      <4>2. /\ sending[c] <= now /\ deadline[c] <= now + IdleTTL
            /\ now \in Int /\ sending[c] \in Int /\ deadline[c] \in Int
            /\ PersistInterval > 0 /\ PersistInterval \in Int /\ IdleTTL \in Int
        BY <2>1, TimeAssumption DEF TimesHavePassed, TypeOK
      <4> HIDE DEF LiveNext
      <4> QED BY <4>1, <4>2
    <3>3. CASE ~Live(owner[c])
      <4>1. endedAt'[owner[c]] = endedAt[owner[c]]
        BY <1>1, <2>1, <3>1, <3>3
      <4> QED BY <2>1, <3>3, <4>1 DEF StaleTrafficIsBounded
    <3> QED BY <3>2, <3>3
  <2> QED BY <2>1 DEF StaleTrafficIsBounded, Live
<1> QED BY <1>2, <1>3, <1>4, <1>5, <1>6

\* Any step that keeps the rows and the trackers keeps the invariant when it
\* opens no connection, dials none and changes the times of none that is open.
LEMMA OtherStepKeepsTraffic ==
    ASSUME TrafficInv, TypeOK', UNCHANGED <<now, rowVars, owner, trackerFor, persisted>>,
           \A c \in Conns :
              \/ conn'[c] \in {"closing", "closed"}
              \/ /\ UNCHANGED <<conn[c], via[c], since[c], sending[c], deadline[c]>>
    PROVE  TrafficInv'
<1> USE DEF TrafficInv
<1>1. TrackersMatch'
  BY DEF TrackersMatch
<1>2. ConfirmedWhileLive' /\ EndsAreDated'
  BY DEF ConfirmedWhileLive, EndsAreDated, Live, rowVars
<1>3. TimesHavePassed'
  BY DEF TimesHavePassed, InFlight, Live, rowVars
<1>4. StaleTrafficIsBounded'
  BY DEF StaleTrafficIsBounded, Live, rowVars
<1> QED BY <1>1, <1>2, <1>3, <1>4

LEMMA TrafficInit == Init => TrafficInv
<1> SUFFICES ASSUME Init PROVE TrafficInv
  OBVIOUS
<1>1. TypeOK
  BY DEF Init, TypeOK, ConnStage, NoTime
<1>2. \A s \in Sessions : Live(s)
  BY DEF Init, Live
<1>3. TrackersMatch /\ ConfirmedWhileLive
  BY <1>1, <1>2 DEF Init, TrackersMatch, ConfirmedWhileLive, NoTime, TypeOK
<1>4. EndsAreDated /\ TimesHavePassed /\ StaleTrafficIsBounded
  BY <1>1, <1>2 DEF Init, EndsAreDated, TimesHavePassed, StaleTrafficIsBounded, InFlight
<1> QED BY <1>1, <1>3, <1>4 DEF TrafficInv

\* What the tracker lets pass was read or written less than PersistInterval
\* after the end of the session, and the tracker stays confirmed while live.
LEMMA TouchIsTimely ==
    ASSUME TrafficInv, NEW c \in Conns, conn[c] = "open", NEW at \in since[c] .. now,
           Touch(c, at), UNCHANGED <<now, rowVars, trackerFor>>
    PROVE  /\ ~Live(owner[c]) => at < endedAt[owner[c]] + PersistInterval
           /\ ConfirmedWhileLive'
<1> USE DEF TrafficInv
<1> DEFINE t == via[c]
<1>1. t \in Trackers /\ trackerFor[t] = owner[c] /\ owner[c] \in Sessions
  BY DEF TrackersMatch, TypeOK
<1>2. at \in Int /\ at <= now
  BY DEF TypeOK
<1>3. \/ RecentlyPersisted(t, at) /\ persisted' = persisted
      \/ Live(owner[c]) /\ persisted' = [persisted EXCEPT ![t] = at]
  BY DEF Touch, TouchSucceeds
<1>4. ConfirmedWhileLive'
  BY <1>1, <1>2, <1>3 DEF ConfirmedWhileLive, Live, TypeOK, rowVars
<1>5. ~Live(owner[c]) => at < endedAt[owner[c]] + PersistInterval
  BY <1>1, <1>2, <1>3, TimeAssumption DEF ConfirmedWhileLive, RecentlyPersisted, TypeOK
<1> QED BY <1>4, <1>5

LEMMA TrafficStep == TrafficInv /\ InFlightIsRecent /\ TypeOK' /\ [Next]_vars => TrafficInv'
<1> SUFFICES ASSUME TrafficInv, InFlightIsRecent, TypeOK', [Next]_vars PROVE TrafficInv'
  OBVIOUS
<1> USE DEF TrafficInv
<1>1. ASSUME NEW c \in Conns, ServeHTTP(c) PROVE TrafficInv'
  BY <1>1 DEF ServeHTTP, TrackersMatch, ConfirmedWhileLive, EndsAreDated, TimesHavePassed,
     StaleTrafficIsBounded, InFlight, Live, TypeOK, rowVars, trackerVars
<1>2. ASSUME NEW c \in Conns, NEW t \in Trackers, ProxyTransport(c, t) PROVE TrafficInv'
  <2>1. TrackersMatch'
    BY <1>2 DEF ProxyTransport, TrackersMatch, TypeOK
  <2>2. ConfirmedWhileLive' /\ EndsAreDated'
    BY <1>2 DEF ProxyTransport, ConfirmedWhileLive, EndsAreDated, Live, rowVars
  <2>3. TimesHavePassed' /\ StaleTrafficIsBounded'
    BY <1>2 DEF ProxyTransport, TimesHavePassed, StaleTrafficIsBounded, InFlight, Live,
       TypeOK, rowVars
  <2> QED BY <2>1, <2>2, <2>3
<1>3. ASSUME NEW c \in Conns, DialFails(c) \/ Unregister(c) PROVE TrafficInv'
  BY <1>3, OtherStepKeepsTraffic DEF DialFails, Unregister, Closed, TypeOK, trackerVars
<1>4. ASSUME NEW c \in Conns, TrackConn(c) PROVE TrafficInv'
  <2>1. CASE Closed(c)
    BY <1>4, <2>1, OtherStepKeepsTraffic DEF TrackConn, Closed, TypeOK, trackerVars
  <2>2. CASE ~Closed(c)
    <3>1. /\ conn[c] = "dialing" /\ InFlight(c)
          /\ conn' = [conn EXCEPT ![c] = "open"]
          /\ since' = [since EXCEPT ![c] = now]
          /\ deadline' = [deadline EXCEPT ![c] = now + IdleTTL]
          /\ UNCHANGED <<now, status, login, endedAt, owner, via, sending, trackerFor, persisted>>
      BY <1>4, <2>2 DEF TrackConn, InFlight, rowVars, trackerVars
    <3>2. TrackersMatch' /\ ConfirmedWhileLive' /\ EndsAreDated'
      BY <3>1 DEF TrackersMatch, ConfirmedWhileLive, EndsAreDated, Live, TypeOK
    <3>3. TimesHavePassed'
      BY <3>1, TimeAssumption DEF TimesHavePassed, InFlight, Live, TypeOK, NoTime
    <3>4. ~Live(owner[c]) => /\ now <= endedAt[owner[c]] + MaxInFlight
                             /\ sending[c] < endedAt[owner[c]] + PersistInterval
      BY <3>1, TimeAssumption
      DEF TimesHavePassed, InFlightIsRecent, EndsAreDated, TypeOK, NoTime
    <3>5. StaleTrafficIsBounded'
      BY <3>1, <3>4 DEF StaleTrafficIsBounded, Live, TypeOK
    <3> QED BY <3>2, <3>3, <3>5
  <2> QED BY <2>1, <2>2
<1>5. ASSUME NEW c \in Conns, NEW at \in since[c] .. now, Read(c, at) PROVE TrafficInv'
  <2>1. /\ conn[c] = "open" /\ at \in Int /\ at <= now
        /\ UNCHANGED <<now, status, login, endedAt, conn, owner, via, since, sending, trackerFor>>
        /\ deadline' = [deadline EXCEPT ![c] = at + IdleTTL]
    BY <1>5 DEF Read, rowVars, TypeOK
  <2>2. /\ ~Live(owner[c]) => at < endedAt[owner[c]] + PersistInterval
        /\ ConfirmedWhileLive'
    BY <1>5, TouchIsTimely DEF Read
  <2>3. TrackersMatch' /\ EndsAreDated'
    BY <2>1 DEF TrackersMatch, EndsAreDated, Live
  <2>4. TimesHavePassed'
    BY <2>1, TimeAssumption DEF TimesHavePassed, InFlight, Live, TypeOK
  <2>5. ~Live(owner[c]) => at + IdleTTL < endedAt[owner[c]] + PersistInterval + IdleTTL
    BY <2>1, <2>2, TimeAssumption DEF TypeOK
  <2>6. StaleTrafficIsBounded'
    BY <2>1, <2>5 DEF StaleTrafficIsBounded, Live, TypeOK
  <2> QED BY <2>2, <2>3, <2>4, <2>6
<1>6. ASSUME NEW c \in Conns, NEW at \in since[c] .. now, WriteStarts(c, at) PROVE TrafficInv'
  <2>1. /\ conn[c] = "open" /\ at \in Int /\ at <= now
        /\ UNCHANGED <<now, status, login, endedAt, conn, owner, via, since, deadline, trackerFor>>
        /\ sending' = [sending EXCEPT ![c] = at]
    BY <1>6 DEF WriteStarts, rowVars, TypeOK
  <2>2. /\ ~Live(owner[c]) => at < endedAt[owner[c]] + PersistInterval
        /\ ConfirmedWhileLive'
    BY <1>6, TouchIsTimely DEF WriteStarts
  <2>3. TrackersMatch' /\ EndsAreDated'
    BY <2>1 DEF TrackersMatch, EndsAreDated, Live
  <2>4. TimesHavePassed'
    BY <2>1 DEF TimesHavePassed, InFlight, Live, TypeOK
  <2>5. StaleTrafficIsBounded'
    BY <2>1, <2>2 DEF StaleTrafficIsBounded, Live, TypeOK
  <2> QED BY <2>2, <2>3, <2>4, <2>5
<1>7. ASSUME NEW c \in Conns, WriteReturns(c) PROVE TrafficInv'
  <2>1. /\ conn[c] = "open" /\ sending[c] \in Int /\ sending[c] # NoTime
        /\ UNCHANGED <<now, status, login, endedAt, conn, owner, via, since, trackerFor, persisted>>
        /\ sending' = [sending EXCEPT ![c] = NoTime]
        /\ deadline' = [deadline EXCEPT ![c] = sending[c] + IdleTTL]
    BY <1>7 DEF WriteReturns, rowVars, trackerVars, TypeOK
  <2>2. TrackersMatch' /\ ConfirmedWhileLive' /\ EndsAreDated'
    BY <2>1 DEF TrackersMatch, ConfirmedWhileLive, EndsAreDated, Live
  <2>3. TimesHavePassed'
    BY <2>1, TimeAssumption DEF TimesHavePassed, InFlight, Live, TypeOK, NoTime
  <2>4. ~Live(owner[c]) =>
          /\ sending[c] + IdleTTL < endedAt[owner[c]] + PersistInterval + IdleTTL
          /\ NoTime < endedAt[owner[c]] + PersistInterval
    BY <2>1, TimeAssumption DEF StaleTrafficIsBounded, EndsAreDated, TypeOK, NoTime
  <2>5. StaleTrafficIsBounded'
    BY <2>1, <2>4 DEF StaleTrafficIsBounded, Live, TypeOK
  <2> QED BY <2>2, <2>3, <2>5
<1>8. ASSUME NEW c \in Conns,
             \/ CloseConn(c)
             \/ \E at \in since[c] .. now : TouchRefused(c, at)
             \/ \E r \in Revokers : RevokeCloses(r, c)
      PROVE TrafficInv'
  BY <1>8, OtherStepKeepsTraffic
  DEF TouchRefused, CloseConn, RevokeCloses, TypeOK, trackerVars
<1>9. ASSUME NEW s \in Sessions,
             LoginTouched(s) \/ \E how \in {"idle", "ended"} : LoginLapses(s, how)
      PROVE TrafficInv'
  BY <1>9, EndKeepsTraffic DEF LoginTouched, LoginLapses, connVars, trackerVars
<1>10. CASE ExpireSweep
  <2>1. \A s \in Sessions : Live(s)' <=> Live(s)
    BY <1>10 DEF ExpireSweep, Live, TypeOK
  <2>2. /\ UNCHANGED <<now, endedAt, conn, owner, via, since, sending, deadline, trackerFor, persisted>>
        /\ \A c \in Conns : owner[c] \in Sessions
        /\ \A u \in Trackers : trackerFor[u] \in Sessions
    BY <1>10 DEF ExpireSweep, TypeOK, connVars, trackerVars
  <2>3. TrackersMatch'
    BY <2>2 DEF TrackersMatch
  <2>4. ConfirmedWhileLive' /\ EndsAreDated'
    BY <2>1, <2>2 DEF ConfirmedWhileLive, EndsAreDated, Live
  <2>5. TimesHavePassed'
    BY <2>1, <2>2 DEF TimesHavePassed, InFlight, Live
  <2>6. StaleTrafficIsBounded'
    BY <2>1, <2>2 DEF StaleTrafficIsBounded, Live
  <2> QED BY <2>2, <2>3, <2>4, <2>5, <2>6
<1>11. ASSUME NEW r \in Revokers, NEW S \in SUBSET Sessions, RevokeRows(r, S) PROVE TrafficInv'
  BY <1>11, EndKeepsTraffic DEF RevokeRows, connVars, trackerVars
<1>12. ASSUME NEW r \in Revokers,
              \/ \E s \in Sessions : GatewayRevoke(r, s)
              \/ \E c \in Conns : RevokeProceeds(r, c)
       PROVE TrafficInv'
  BY <1>12, OtherStepKeepsTraffic DEF GatewayRevoke, RevokeProceeds, connVars, trackerVars
<1>13. CASE Restart
  <2>1. \A c \in Conns : conn'[c] \in {"free", "closed"} /\ sending'[c] = NoTime
    BY <1>13 DEF Restart
  <2>2. UNCHANGED <<now, status, login, endedAt, owner, trackerFor, persisted>>
    BY <1>13 DEF Restart, rowVars
  <2> QED
    BY <2>1, <2>2 DEF TrackersMatch, ConfirmedWhileLive, EndsAreDated, TimesHavePassed,
       StaleTrafficIsBounded, InFlight, Live
<1>14. CASE Reload
  <2>1. \A c \in Conns : /\ conn[c] # "resolved" => conn'[c] = conn[c] /\ since'[c] = since[c]
                         /\ conn[c] = "resolved" => conn'[c] = "closed"
    BY <1>14 DEF Reload, TypeOK
  <2>2. UNCHANGED <<now, rowVars, owner, via, sending, deadline, trackerFor, persisted>>
    BY <1>14 DEF Reload
  <2> QED BY <2>1, <2>2, OtherStepKeepsTraffic
<1>15. CASE Tick
  <2>1. /\ now' = now + 1
        /\ UNCHANGED <<status, login, endedAt, conn, owner, via, since, sending, deadline,
                       trackerFor, persisted>>
    BY <1>15 DEF Tick, rowVars, connVars, trackerVars
  <2>2. TrackersMatch' /\ StaleTrafficIsBounded'
    BY <2>1 DEF TrackersMatch, StaleTrafficIsBounded, Live
  <2>3. ConfirmedWhileLive' /\ EndsAreDated'
    BY <2>1 DEF ConfirmedWhileLive, EndsAreDated, Live, TypeOK
  <2>4. TimesHavePassed'
    BY <2>1, TimeAssumption DEF TimesHavePassed, InFlight, Live, TypeOK
  <2> QED BY <2>2, <2>3, <2>4
<1>16. CASE UNCHANGED vars
  BY <1>16, OtherStepKeepsTraffic DEF vars, connVars, trackerVars
<1> QED
  BY <1>1, <1>2, <1>3, <1>4, <1>5, <1>6, <1>7, <1>8, <1>9, <1>10, <1>11, <1>12,
     <1>13, <1>14, <1>15, <1>16 DEF Next

\* No call passes bytes on a connection PersistInterval or more after its
\* session ends, however the session ends and whoever is told of it, and the
\* deadline of a call that blocks is counted from before that.
THEOREM StaleTrafficEnds == Spec => []StaleTrafficIsBounded
<1>1. TrafficInv => StaleTrafficIsBounded
  BY DEF TrafficInv
<1>2. RevocationInv => InFlightIsRecent
  BY DEF RevocationInv
<1> QED
  BY <1>1, <1>2, RevocationInit, RevocationStep, TrafficInit, TrafficStep, TypeCorrect, PTL
  DEF Spec

=============================================================================
