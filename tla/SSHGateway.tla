----------------------------- MODULE SSHGateway -----------------------------
(***************************************************************************)
(* The WebSSH gateway (src/backend/internal/access/ssh_gateway.go): one    *)
(* goroutine per WebSocket that registers its cancel function, connects a  *)
(* terminal and pumps it, a monitor goroutine per terminal that persists   *)
(* activity and enforces the idle limit, and Revoke.                       *)
(*                                                                         *)
(* Unlike the Web gateway, which asks the store before it lets bytes pass, *)
(* a terminal signals its monitor when it has read bytes and lets them     *)
(* pass: through a queue of 32 chunks and blocking writes, so at any later *)
(* moment until its handler returns, and nothing depends on when.  The     *)
(* session's deadline and cancellation reach it through the context of its *)
(* handler.                                                                *)
(***************************************************************************)
EXTENDS Integers

CONSTANTS
    Sessions,        \* access sessions of mode ssh
    Handlers,        \* WebSocket handlers a behaviour may start
    Revokers,        \* control-plane handlers that revoke sessions
    TombstoneTTL,    \* how long revoked[s] is kept (10 minutes)
    TouchInterval,   \* sshActivityPersistInterval (30 seconds)
    ResolveInterval, \* accessActivityTouchInterval of ResolveAccessGrant
    IdleTTL,         \* idle limit of sessions and terminals (15 minutes)
    TouchTimeout,    \* limit of the monitor's TouchAccessSession (5 seconds)
    MaxInFlight,     \* longest time from grant resolution to registration
    MaxTime          \* bound of the clock

\* The WebSocket handshake, all that lies between the grant and the
\* registration, is short; the idle limit is minutes and more.
ASSUME TimeAssumption ==
    /\ {TombstoneTTL, TouchTimeout, MaxInFlight, MaxTime} \subseteq Nat
    /\ {TouchInterval, ResolveInterval, IdleTTL} \subseteq Nat \ {0}
    /\ MaxInFlight <= TombstoneTTL
    /\ TouchTimeout <= IdleTTL

VARIABLES
    now,       \* the clock
    status,    \* access_sessions.status
    login,     \* whether the login behind the session exists and is enabled
    endedAt,   \* history: when status or login ended the session, or NoTime
    expiresAt, \* access_sessions.expires_at, fixed when the session is made
    lastSeen,  \* access_sessions.last_seen_at
    tomb,      \* SSHGateway.revoked, or NoTime
    stage,     \* where each handler is
    owner,     \* session each handler serves
    since,     \* until it is registered: when the grant was resolved
    cancelled, \* the handler's cancel function has been called
    readyAt,   \* history: when the terminal opened
    persisted, \* lastPersisted of the terminal's monitor
    idleFrom,  \* when the monitor's idle timer was last reset
    pending,   \* the activity channel holds a signal
    asking,    \* time with which the monitor's touch under way was made, or NoTime
    landed,    \* the touch under way has had its effect
    lastSignal, \* history: last time bytes were read and signalled
    stale,     \* handlers of a gateway that a settings reload replaced
    todo,      \* sessions whose rows a handler revoked, Revoke still to call
    closing    \* handlers whose cancel Revoke has collected, not yet called

rowVars == <<status, login, endedAt, expiresAt, lastSeen>>
monitorVars == <<readyAt, persisted, idleFrom, pending, asking, landed,
                 lastSignal>>
handlerVars == <<stage, owner, since, cancelled, stale, monitorVars>>
revokerVars == <<todo, closing>>
vars == <<now, rowVars, tomb, handlerVars, revokerVars>>

NoTime == -1

Stage == {"free", "accepted", "connecting", "terminal", "closed"}

TypeOK ==
    /\ now \in Nat
    /\ status \in [Sessions -> {"active", "revoked", "expired"}]
    /\ login \in [Sessions -> BOOLEAN]
    /\ endedAt \in [Sessions -> Int]
    /\ expiresAt \in [Sessions -> Nat]
    /\ lastSeen \in [Sessions -> Nat]
    /\ tomb \in [Sessions -> Int]
    /\ stage \in [Handlers -> Stage]
    /\ owner \in [Handlers -> Sessions]
    /\ since \in [Handlers -> Nat]
    /\ cancelled \in [Handlers -> BOOLEAN]
    /\ readyAt \in [Handlers -> Int]
    /\ persisted \in [Handlers -> Int]
    /\ idleFrom \in [Handlers -> Int]
    /\ pending \in [Handlers -> BOOLEAN]
    /\ asking \in [Handlers -> Nat \cup {NoTime}]
    /\ landed \in [Handlers -> BOOLEAN]
    /\ lastSignal \in [Handlers -> Int]
    /\ stale \in SUBSET Handlers
    /\ todo \in [Revokers -> SUBSET Sessions]
    /\ closing \in [Revokers -> SUBSET Handlers]

Init ==
    /\ now = 0
    /\ status = [s \in Sessions |-> "active"]
    /\ login = [s \in Sessions |-> TRUE]
    /\ endedAt = [s \in Sessions |-> NoTime]
    /\ expiresAt \in [Sessions -> 1..MaxTime]
    /\ lastSeen = [s \in Sessions |-> 0]
    /\ tomb = [s \in Sessions |-> NoTime]
    /\ stage = [h \in Handlers |-> "free"]
    /\ owner \in [Handlers -> Sessions]
    /\ since = [h \in Handlers |-> 0]
    /\ cancelled = [h \in Handlers |-> FALSE]
    /\ readyAt = [h \in Handlers |-> NoTime]
    /\ persisted = [h \in Handlers |-> NoTime]
    /\ idleFrom = [h \in Handlers |-> NoTime]
    /\ pending = [h \in Handlers |-> FALSE]
    /\ asking = [h \in Handlers |-> NoTime]
    /\ landed = [h \in Handlers |-> FALSE]
    /\ lastSignal = [h \in Handlers |-> NoTime]
    /\ stale = {}
    /\ todo = [r \in Revokers |-> {}]
    /\ closing = [r \in Revokers |-> {}]

-----------------------------------------------------------------------------
\* The SQL guards of ResolveAccessGrant and TouchAccessSession, asked with the
\* time `at` that the caller took.
LiveAt(s, at) ==
    /\ status[s] = "active" /\ login[s]
    /\ at < expiresAt[s]
    /\ at - lastSeen[s] < IdleTTL

Live(s) == LiveAt(s, now)

\* The handler's context is done: cancelled, or past its deadline.
Cut(h) == cancelled[h] \/ now >= expiresAt[owner[h]]

Connecting(h) == stage[h] \in {"accepted", "connecting"}

Registered(h) == stage[h] \in {"connecting", "terminal"}

\* Mistake: cancelled handlers are looked for among the terminals only.
CollectedTerminals(s) ==
    {h \in Handlers \ stale : stage[h] = "terminal" /\ owner[h] = s}

\* The handlers of s in the registry of the gateway now serving.
Collected(s) == {h \in Handlers \ stale : Registered(h) /\ owner[h] = s}

\* pruneRevokedLocked.
Pruned == [s \in Sessions |->
             IF tomb[s] < now - TombstoneTTL THEN NoTime ELSE tomb[s]]

\* The handler returns: its deferred calls close the terminal, unregister it
\* and cancel its context, which ends the monitor once the store has answered
\* a touch under way.
Returned(h) ==
    /\ stage' = [stage EXCEPT ![h] = "closed"]
    /\ since' = [since EXCEPT ![h] = 0]
    /\ cancelled' = [cancelled EXCEPT ![h] = TRUE]
    /\ readyAt' = [readyAt EXCEPT ![h] = NoTime]
    /\ persisted' = [persisted EXCEPT ![h] = NoTime]
    /\ idleFrom' = [idleFrom EXCEPT ![h] = NoTime]
    /\ pending' = [pending EXCEPT ![h] = FALSE]
    /\ lastSignal' = [lastSignal EXCEPT ![h] = NoTime]
    /\ UNCHANGED <<owner, stale, asking, landed>>

-----------------------------------------------------------------------------
(* A handler, from the grant to the open terminal. *)

\* serveWebSocket: ResolveAccessGrant (which persists activity at a coarse
\* interval) and websocket.Accept.
Accept(h) ==
    LET s == owner[h] IN
    /\ stage[h] = "free"
    /\ Live(s)
    /\ lastSeen' = [lastSeen EXCEPT
                      ![s] = IF now - @ >= ResolveInterval THEN now ELSE @]
    /\ stage' = [stage EXCEPT ![h] = "accepted"]
    /\ since' = [since EXCEPT ![h] = now]
    /\ UNCHANGED <<now, status, login, endedAt, expiresAt, tomb, owner, cancelled,
                   stale, monitorVars, revokerVars>>

\* Mistake: the tombstone is not looked at.
RegisterUnchecked(h) ==
    /\ stage[h] = "accepted"
    /\ stage' = [stage EXCEPT ![h] = "connecting"]
    /\ since' = [since EXCEPT ![h] = 0]
    /\ UNCHANGED <<now, rowVars, tomb, owner, cancelled, stale, monitorVars, revokerVars>>

\* register: refused while the session has a tombstone.
Register(h) ==
    /\ stage[h] = "accepted"
    /\ tomb' = IF h \in stale THEN tomb ELSE Pruned
    /\ \/ /\ h \in stale \/ tomb'[owner[h]] = NoTime
          /\ stage' = [stage EXCEPT ![h] = "connecting"]
          /\ since' = [since EXCEPT ![h] = 0]
          /\ UNCHANGED <<owner, cancelled, stale, monitorVars>>
       \/ (h \in stale \/ tomb'[owner[h]] # NoTime) /\ Returned(h)
    /\ UNCHANGED <<now, rowVars, revokerVars>>

\* The credentials arrive, the node gives a route, the SSH session starts and
\* the client is told; the monitor starts with lastPersisted set to the clock.
\* The requests for a session, a terminal and a shell have no time limit: only
\* the handler's context bounds the time since the registration.
Ready(h) ==
    /\ stage[h] = "connecting"
    /\ ~Cut(h)
    /\ stage' = [stage EXCEPT ![h] = "terminal"]
    /\ readyAt' = [readyAt EXCEPT ![h] = now]
    /\ persisted' = [persisted EXCEPT ![h] = now]
    /\ idleFrom' = [idleFrom EXCEPT ![h] = now]
    /\ UNCHANGED <<now, rowVars, tomb, owner, since, cancelled, stale, pending, asking,
                   landed, lastSignal, revokerVars>>

-----------------------------------------------------------------------------
(* The open terminal and its monitor. *)

\* Input from the browser or output of the device has been read:
\* signalActivity puts a signal into the channel unless one is there.
Signal(h) ==
    /\ stage[h] = "terminal"
    /\ pending' = [pending EXCEPT ![h] = TRUE]
    /\ lastSignal' = [lastSignal EXCEPT ![h] = now]
    /\ UNCHANGED <<now, rowVars, tomb, stage, owner, since, cancelled, stale,
                   readyAt, persisted, idleFrom, asking, landed, revokerVars>>

\* Mistake: a throttled signal moves lastPersisted forward as well.
TakesExtendingThrottle(h) ==
    /\ stage[h] = "terminal" /\ ~cancelled[h]
    /\ pending[h] /\ asking[h] = NoTime
    /\ pending' = [pending EXCEPT ![h] = FALSE]
    /\ idleFrom' = [idleFrom EXCEPT ![h] = now]
    /\ IF now - persisted[h] < TouchInterval
         THEN persisted' = [persisted EXCEPT ![h] = now] /\ UNCHANGED asking
         ELSE asking' = [asking EXCEPT ![h] = now] /\ UNCHANGED persisted
    /\ UNCHANGED <<now, rowVars, tomb, stage, owner, since, cancelled, stale,
                   readyAt, landed, lastSignal, revokerVars>>

\* monitorSSHActivity takes a signal: the idle timer restarts, and the store is
\* asked when the last success is TouchInterval old.
MonitorTakes(h) ==
    /\ stage[h] = "terminal" /\ ~cancelled[h]
    /\ pending[h] /\ asking[h] = NoTime
    /\ pending' = [pending EXCEPT ![h] = FALSE]
    /\ idleFrom' = [idleFrom EXCEPT ![h] = now]
    /\ asking' = [asking EXCEPT ![h] = IF now - persisted[h] < TouchInterval
                                         THEN NoTime ELSE now]
    /\ UNCHANGED <<now, rowVars, tomb, stage, owner, since, cancelled, stale,
                   readyAt, persisted, landed, lastSignal, revokerVars>>

\* TouchAccessSession takes effect, with the time the monitor took before.  The
\* store of a replaced gateway is closed.
TouchLands(h) ==
    /\ asking[h] # NoTime /\ ~landed[h]
    /\ LiveAt(owner[h], asking[h]) /\ h \notin stale
    /\ lastSeen' = [lastSeen EXCEPT ![owner[h]] = asking[h]]
    /\ landed' = [landed EXCEPT ![h] = TRUE]
    /\ UNCHANGED <<now, status, login, endedAt, expiresAt, tomb, stage, owner, since,
                   cancelled, stale, readyAt, persisted, idleFrom, pending, asking,
                   lastSignal, revokerVars>>

\* Mistake: a refused touch is ignored.
AnswerIgnored(h) ==
    /\ asking[h] # NoTime
    /\ asking' = [asking EXCEPT ![h] = NoTime]
    /\ landed' = [landed EXCEPT ![h] = FALSE]
    /\ persisted' = [persisted EXCEPT ![h] = IF landed[h] THEN asking[h] ELSE @]
    /\ UNCHANGED <<now, rowVars, tomb, stage, owner, since, cancelled, stale, readyAt,
                   idleFrom, pending, lastSignal, revokerVars>>

\* The store answers the monitor: a refusal cancels the handler, and so does a
\* query that fails or times out, whether or not it has had its effect.
MonitorAnswered(h) ==
    /\ asking[h] # NoTime
    /\ asking' = [asking EXCEPT ![h] = NoTime]
    /\ landed' = [landed EXCEPT ![h] = FALSE]
    /\ \/ /\ landed[h]
          /\ persisted' = [persisted EXCEPT ![h] = asking[h]]
          /\ UNCHANGED cancelled
       \/ /\ cancelled' = [cancelled EXCEPT ![h] = TRUE]
          /\ UNCHANGED persisted
    /\ UNCHANGED <<now, rowVars, tomb, stage, owner, since, stale, readyAt, idleFrom,
                   pending, lastSignal, revokerVars>>

\* The idle timer fires.
IdleTimeout(h) ==
    /\ stage[h] = "terminal"
    /\ ~cancelled[h] /\ asking[h] = NoTime
    /\ now - idleFrom[h] >= IdleTTL
    /\ cancelled' = [cancelled EXCEPT ![h] = TRUE]
    /\ UNCHANGED <<now, rowVars, tomb, stage, owner, since, stale, monitorVars, revokerVars>>

\* The handler returns: its context is done, or (at any time) the browser or
\* the device hangs up or a step of the connection fails.
Return(h) ==
    /\ stage[h] \in {"accepted", "connecting", "terminal"}
    /\ Returned(h)
    /\ UNCHANGED <<now, rowVars, tomb, revokerVars>>

-----------------------------------------------------------------------------
(* Ends of a session. *)

\* Logout, a changed or deleted user: the store is written, nobody calls
\* the gateway.
LoginEnds(s) ==
    /\ login[s]
    /\ login' = [login EXCEPT ![s] = FALSE]
    /\ endedAt' = [endedAt EXCEPT ![s] = IF @ = NoTime THEN now ELSE @]
    /\ UNCHANGED <<now, status, expiresAt, lastSeen, tomb, handlerVars, revokerVars>>

\* ExpireAccessSessions.
ExpireSweep ==
    LET Dead(s) == status[s] = "active" /\ ~Live(s) IN
    /\ \E s \in Sessions : Dead(s)
    /\ status' = [s \in Sessions |-> IF Dead(s) THEN "expired" ELSE status[s]]
    /\ endedAt' = [s \in Sessions |->
                     IF Dead(s) /\ endedAt[s] = NoTime THEN now ELSE endedAt[s]]
    /\ UNCHANGED <<now, login, expiresAt, lastSeen, tomb, handlerVars, revokerVars>>

\* Mistake: the rows are given a status of their own.
RevokeClosing(r, S) ==
    /\ todo[r] = {} /\ closing[r] = {}
    /\ S # {}
    /\ \A s \in S : status[s] = "active"
    /\ status' = [s \in Sessions |-> IF s \in S THEN "closed" ELSE status[s]]
    /\ endedAt' = [s \in Sessions |->
                     IF s \in S /\ endedAt[s] = NoTime THEN now ELSE endedAt[s]]
    /\ todo' = [todo EXCEPT ![r] = S]
    /\ UNCHANGED <<now, login, expiresAt, lastSeen, tomb, handlerVars, closing>>

\* revokeAccessSession or closeResourceSessions: the rows change first.
RevokeRows(r, S) ==
    /\ todo[r] = {} /\ closing[r] = {}
    /\ S # {}
    /\ \A s \in S : status[s] = "active"
    /\ status' = [s \in Sessions |-> IF s \in S THEN "revoked" ELSE status[s]]
    /\ endedAt' = [s \in Sessions |->
                     IF s \in S /\ endedAt[s] = NoTime THEN now ELSE endedAt[s]]
    /\ todo' = [todo EXCEPT ![r] = S]
    /\ UNCHANGED <<now, login, expiresAt, lastSeen, tomb, handlerVars, closing>>

\* Revoke, its critical section.
GatewayRevoke(r, s) ==
    /\ closing[r] = {}
    /\ s \in todo[r]
    /\ tomb' = [Pruned EXCEPT ![s] = now]
    /\ closing' = [closing EXCEPT ![r] = Collected(s)]
    /\ todo' = [todo EXCEPT ![r] = @ \ {s}]
    /\ UNCHANGED <<now, rowVars, handlerVars>>

\* Revoke, after the unlock: calls one of the collected cancel functions.
RevokeCancels(r, h) ==
    /\ h \in closing[r]
    /\ cancelled' = [cancelled EXCEPT ![h] = TRUE]
    /\ closing' = [closing EXCEPT ![r] = @ \ {h}]
    /\ UNCHANGED <<now, rowVars, tomb, stage, owner, since, stale, monitorVars, todo>>

-----------------------------------------------------------------------------
\* The process stops and starts again.
Restart ==
    /\ stage' = [h \in Handlers |-> IF stage[h] = "free" THEN "free" ELSE "closed"]
    /\ since' = [h \in Handlers |-> 0]
    /\ cancelled' = [h \in Handlers |-> stage[h] # "free"]
    /\ readyAt' = [h \in Handlers |-> NoTime]
    /\ persisted' = [h \in Handlers |-> NoTime]
    /\ idleFrom' = [h \in Handlers |-> NoTime]
    /\ pending' = [h \in Handlers |-> FALSE]
    /\ asking' = [h \in Handlers |-> NoTime]
    /\ landed' = [h \in Handlers |-> FALSE]
    /\ lastSignal' = [h \in Handlers |-> NoTime]
    /\ stale' = {}
    /\ tomb' = [s \in Sessions |-> NoTime]
    /\ todo' = [r \in Revokers |-> {}]
    /\ closing' = [r \in Revokers |-> {}]
    /\ UNCHANGED <<now, rowVars, owner>>

\* A settings reload: run() returns and runs again in the same process.
\* Shutdown waits for ordinary handlers, not for hijacked WebSockets: their
\* goroutines go on under a gateway whose store is closed.
Reload ==
    /\ \A r \in Revokers : todo[r] = {} /\ closing[r] = {}
    /\ stale' = {h \in Handlers : stage[h] # "free"}
    /\ tomb' = [s \in Sessions |-> NoTime]
    /\ UNCHANGED <<now, rowVars, stage, owner, since, cancelled, monitorVars, revokerVars>>

\* Time passes, but a request does not stay in flight longer than MaxInFlight
\* nor a touch longer than TouchTimeout, and a signal does not wait for an idle
\* monitor nor an expired idle timer for its firing.
Tick ==
    /\ now < MaxTime
    /\ \A h \in Handlers :
         /\ stage[h] = "accepted" => now - since[h] < MaxInFlight
         /\ asking[h] # NoTime => now - asking[h] < TouchTimeout
         /\ stage[h] = "terminal" /\ ~Cut(h) /\ asking[h] = NoTime
              => ~pending[h] /\ now - idleFrom[h] < IdleTTL
    /\ now' = now + 1
    /\ UNCHANGED <<rowVars, tomb, handlerVars, revokerVars>>

Next ==
    \/ \E h \in Handlers :
         \/ Accept(h)
         \/ Register(h)
         \/ Ready(h)
         \/ Signal(h)
         \/ MonitorTakes(h)
         \/ TouchLands(h)
         \/ MonitorAnswered(h)
         \/ IdleTimeout(h)
         \/ Return(h)
    \/ \E s \in Sessions : LoginEnds(s)
    \/ ExpireSweep
    \/ \E r \in Revokers :
         \/ \E S \in SUBSET Sessions : RevokeRows(r, S)
         \/ \E s \in Sessions : GatewayRevoke(r, s)
         \/ \E h \in Handlers : RevokeCancels(r, h)
    \/ Restart
    \/ Reload
    \/ Tick

Spec == Init /\ [][Next]_vars

\* Revoking handlers finish, and a handler whose context is done returns.
Fairness ==
    /\ \A r \in Revokers :
         /\ WF_vars(\E s \in Sessions : GatewayRevoke(r, s))
         /\ WF_vars(\E h \in Handlers : RevokeCancels(r, h))
    /\ \A h \in Handlers : WF_vars(Cut(h) /\ Return(h))

FairSpec == Spec /\ Fairness

-----------------------------------------------------------------------------
(* Properties. *)

\* When the session ended: by its own limits, or by an earlier event.
EndTime(s) ==
    LET natural == IF expiresAt[s] < lastSeen[s] + IdleTTL
                     THEN expiresAt[s] ELSE lastSeen[s] + IdleTTL
    IN IF endedAt[s] # NoTime /\ endedAt[s] < natural THEN endedAt[s] ELSE natural

Later(a, b) == IF a > b THEN a ELSE b

\* Revocation cuts every terminal: a handler of a revoked session is done,
\* or one that a Revoke call has still to reach.
RevokedIsCut ==
    \A h \in Handlers \ stale :
        Registered(h) /\ status[owner[h]] = "revoked"
          => Cut(h) \/ \E r \in Revokers : owner[h] \in todo[r] \/ h \in closing[r]

\* The documented form of the same: "terminates every active WebSSH
\* connection", whichever gateway the connection was accepted by.
RevokedIsCutEverywhere ==
    \A h \in Handlers :
        Registered(h) /\ status[owner[h]] = "revoked"
          => Cut(h) \/ \E r \in Revokers : owner[h] \in todo[r] \/ h \in closing[r]

\* A session can end without the gateway being told.  Its terminal, and with it
\* the bytes still queued, is cut within an interval without a check, an idle
\* limit and a check, counted from the end (or from when it opened, if it was
\* still connecting at the end).
EndedTerminalIsCut ==
    \A h \in Handlers :
        stage[h] = "terminal" /\ ~Live(owner[h]) /\ ~Cut(h)
          => now < Later(EndTime(owner[h]), readyAt[h])
                     + TouchInterval + IdleTTL + TouchTimeout

\* And traffic ends it sooner: bytes read TouchInterval or more after the end
\* are the terminal's last.  The monitor has their signal, is asking the store,
\* or has already cancelled the handler.
LateTrafficCutsTerminal ==
    \A h \in Handlers :
        /\ stage[h] = "terminal"
        /\ ~Live(owner[h])
        /\ lastSignal[h] >= Later(EndTime(owner[h]), readyAt[h]) + TouchInterval
        => pending[h] \/ asking[h] # NoTime \/ Cut(h)

\* The sweep never takes a terminal in use for an idle one: the row's
\* last_seen_at lags behind what the terminal has read (since it opened) by
\* less than the persist interval, and by the time of one touch where another
\* terminal of the session has put it back.
LastSeenFollowsTraffic ==
    \A h \in Handlers :
        stage[h] = "terminal" /\ ~pending[h] /\ asking[h] = NoTime /\ ~Cut(h)
          => lastSignal[h] < Later(lastSeen[owner[h]] + TouchTimeout, readyAt[h])
                               + TouchInterval

\* A revocation ends every terminal that was open when it happened.
RevocationCompletes ==
    \A h \in Handlers :
        (stage[h] = "terminal" /\ h \notin stale /\ status[owner[h]] = "revoked")
          ~> (stage[h] = "closed" \/ h \in stale)

=============================================================================
