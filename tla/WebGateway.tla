----------------------------- MODULE WebGateway -----------------------------
(***************************************************************************)
(* The Web access gateway of the platform                                  *)
(* (src/backend/internal/access/gateway.go): upstream connections opened   *)
(* for an access session, the registry and the tombstones that Revoke      *)
(* uses to cut them, and the activity tracker that re-checks the session's *)
(* database row at most once per PersistInterval.                          *)
(*                                                                         *)
(* A session's row is reduced to what the gateway can see of it: its       *)
(* status, and whether the login behind it still answers the liveness      *)
(* conditions of ResolveAccessGrant and TouchAccessSession.  One element   *)
(* of Conns is one upstream connection: identifiers come from nextID and   *)
(* are never used again.  Each critical section of activeMu is one action. *)
(***************************************************************************)
EXTENDS Integers

CONSTANTS
    Sessions,        \* access sessions
    Conns,           \* upstream connections a behaviour may open
    Trackers,        \* webSessionActivityTrackers, one per http.Transport
    Revokers,        \* control-plane handlers that revoke sessions
    None,            \* no tracker
    TombstoneTTL,    \* how long revoked[s] is kept (10 minutes)
    PersistInterval, \* webActivityPersistInterval (30 seconds)
    IdleTTL,         \* idleTTL: the deadline of a connection without traffic
    MaxInFlight,     \* longest time from grant resolution to registration
    MaxTime          \* bound of the clock

\* The time limits on the way from ResolveAccessGrant to trackWebActivityConn
\* (node API client, SOCKS dialer) add up to less than the tombstone's life.
ASSUME TimeAssumption ==
    /\ TombstoneTTL \in Nat
    /\ PersistInterval \in Nat \ {0}
    /\ IdleTTL \in Nat \ {0}
    /\ MaxInFlight \in Nat
    /\ MaxInFlight <= TombstoneTTL
    /\ MaxTime \in Nat

ASSUME NoneAssumption == None \notin Trackers

VARIABLES
    now,        \* the clock
    status,     \* access_sessions.status of each session
    login,      \* whether the login behind it is usable
    endedAt,    \* history: when the session last stopped being live
    tomb,       \* WebGateway.revoked: time of the tombstone, or NoTime
    conn,       \* stage of each connection
    owner,      \* session each connection belongs to
    since,      \* in flight: when its request resolved the grant; open: when
                \* it was registered
    via,        \* tracker of the transport that dialed it
    cached,     \* WebGateway.transports: the session's current transport
    trackerFor, \* session of each tracker in use
    persisted,  \* webSessionActivityTracker.lastPersisted, or NoTime
    sending,    \* time with which the Write under way was let pass, or NoTime
    deadline,   \* SetDeadline: an open connection passes nothing after it
    stale,      \* connections of a gateway that a settings reload replaced
    todo,       \* sessions whose rows a handler revoked, Revoke still to call
    closing     \* connections Revoke has collected and not yet seen closed

rowVars == <<status, login, endedAt>>
connVars == <<conn, owner, since, via, sending, deadline, stale>>
trackerVars == <<cached, trackerFor, persisted>>
revokerVars == <<todo, closing>>
vars == <<now, rowVars, tomb, connVars, trackerVars, revokerVars>>

NoTime == -1

ConnStage == {"free", "resolved", "dialing", "open", "closing", "closed"}

TypeOK ==
    /\ now \in Nat
    /\ status \in [Sessions -> {"active", "revoked", "expired"}]
    /\ login \in [Sessions -> {"live", "idle", "ended"}]
    /\ endedAt \in [Sessions -> Int]
    /\ tomb \in [Sessions -> Int]
    /\ conn \in [Conns -> ConnStage]
    /\ owner \in [Conns -> Sessions]
    /\ since \in [Conns -> Nat]
    /\ via \in [Conns -> Trackers \cup {None}]
    /\ cached \in [Sessions -> Trackers \cup {None}]
    /\ trackerFor \in [Trackers -> Sessions]
    /\ persisted \in [Trackers -> Int]
    /\ sending \in [Conns -> Int]
    /\ deadline \in [Conns -> Int]
    /\ stale \in SUBSET Conns
    /\ todo \in [Revokers -> SUBSET Sessions]
    /\ closing \in [Revokers -> SUBSET Conns]

Init ==
    /\ now = 0
    /\ status = [s \in Sessions |-> "active"]
    /\ login = [s \in Sessions |-> "live"]
    /\ endedAt = [s \in Sessions |-> NoTime]
    /\ tomb = [s \in Sessions |-> NoTime]
    /\ conn = [c \in Conns |-> "free"]
    /\ owner \in [Conns -> Sessions]
    /\ since = [c \in Conns |-> 0]
    /\ via = [c \in Conns |-> None]
    /\ cached = [s \in Sessions |-> None]
    /\ trackerFor \in [Trackers -> Sessions]
    /\ persisted = [t \in Trackers |-> NoTime]
    /\ sending = [c \in Conns |-> NoTime]
    /\ deadline = [c \in Conns |-> NoTime]
    /\ stale = {}
    /\ todo = [r \in Revokers |-> {}]
    /\ closing = [r \in Revokers |-> {}]

-----------------------------------------------------------------------------
\* What the SQL guards of ResolveAccessGrant and TouchAccessSession ask.
Live(s) == status[s] = "active" /\ login[s] = "live"

InFlight(c) == conn[c] \in {"resolved", "dialing"}

Registered(c) == conn[c] \in {"open", "closing"}

\* The connections of s in the registry of the gateway now serving.
Collected(s) == {c \in Conns \ stale : Registered(c) /\ owner[c] = s}

\* Mistake: tombstones exactly as old as the cutoff are dropped as well.
PrunedAtTheCutoff ==
    [s \in Sessions |->
       IF tomb[s] <= now - TombstoneTTL THEN NoTime ELSE tomb[s]]

\* pruneRevokedLocked: every critical section drops the tombstones that are
\* strictly older than the cutoff.
Pruned == [s \in Sessions |->
             IF tomb[s] < now - TombstoneTTL THEN NoTime ELSE tomb[s]]

\* touch(at) skips the database while the last success is recent.
RecentlyPersisted(t, at) ==
    persisted[t] # NoTime /\ at - persisted[t] < PersistInterval

\* TouchAccessSession succeeds: the row is live, and the store the gateway
\* was built on is still open.
TouchSucceeds(c) == Live(owner[c]) /\ c \notin stale

\* A connection (or the attempt at one) is over: nothing refers to it but the
\* revokers that wait for it.
Closed(c) ==
    /\ conn' = [conn EXCEPT ![c] = "closed"]
    /\ since' = [since EXCEPT ![c] = 0]
    /\ via' = [via EXCEPT ![c] = None]
    /\ sending' = [sending EXCEPT ![c] = NoTime]
    /\ deadline' = [deadline EXCEPT ![c] = NoTime]
    /\ stale' = stale \ {c}
    /\ UNCHANGED owner

-----------------------------------------------------------------------------
(* Requests. *)

\* ServeHTTP: the grant cookie resolves, so the row was live at this moment.
\* The request then carries the session with it and does not look again.
ServeHTTP(c) ==
    /\ conn[c] = "free"
    /\ Live(owner[c])
    /\ conn' = [conn EXCEPT ![c] = "resolved"]
    /\ since' = [since EXCEPT ![c] = now]
    /\ UNCHANGED <<now, rowVars, tomb, owner, via, sending, deadline, stale, trackerVars, revokerVars>>

\* proxyTransport: the session's cached transport, or a new one with a new
\* tracker when there is none, its route changed or it was evicted as idle.
\* Connections of a replaced transport keep the tracker they have.
ProxyTransport(c, t) ==
    LET s == owner[c] IN
    /\ conn[c] = "resolved"
    /\ trackerFor[t] = s
    /\ \/ t = cached[s]
       \/ persisted[t] = NoTime /\ \A d \in Conns : via[d] # t
    /\ cached' = [cached EXCEPT ![s] = t]
    /\ conn' = [conn EXCEPT ![c] = "dialing"]
    /\ via' = [via EXCEPT ![c] = t]
    /\ UNCHANGED <<now, rowVars, tomb, owner, since, sending, deadline, stale, trackerFor, persisted, revokerVars>>

\* No route from the node (502), or the SOCKS dial fails.
DialFails(c) ==
    /\ InFlight(c)
    /\ Closed(c)
    /\ UNCHANGED <<now, rowVars, tomb, trackerVars, revokerVars>>

\* trackWebActivityConn: under activeMu, refuse (and close) a connection of a
\* session that has a tombstone, register any other.  A stale connection asks
\* the registry and the tombstones of its own gateway, either answer.
TrackConn(c) ==
    /\ conn[c] = "dialing"
    /\ tomb' = IF c \in stale THEN tomb ELSE Pruned
    /\ \/ /\ c \in stale \/ tomb'[owner[c]] = NoTime
          /\ conn' = [conn EXCEPT ![c] = "open"]
          /\ since' = [since EXCEPT ![c] = now]
          /\ deadline' = [deadline EXCEPT ![c] = now + IdleTTL]
          /\ UNCHANGED <<owner, via, sending, stale>>
       \/ (c \in stale \/ tomb'[owner[c]] # NoTime) /\ Closed(c)
    /\ UNCHANGED <<now, rowVars, trackerVars, revokerVars>>

-----------------------------------------------------------------------------
(* Traffic on a registered connection.  Read takes the time `at` when bytes *)
(* have arrived, Write before it sends any; both then ask the tracker,      *)
(* behind whose mutex they may wait, and Read hands over (Write sends) what *)
(* the tracker lets pass.                                                   *)

\* Mistake: a throttled touch moves lastPersisted forward as well.
TouchExtendingThrottle(c, at) ==
    /\ RecentlyPersisted(via[c], at) \/ TouchSucceeds(c)
    /\ persisted' = [persisted EXCEPT ![via[c]] = at]

\* touch: within the interval without asking, otherwise after a successful
\* TouchAccessSession.
Touch(c, at) ==
    \/ RecentlyPersisted(via[c], at) /\ UNCHANGED persisted
    \/ /\ ~RecentlyPersisted(via[c], at)
       /\ TouchSucceeds(c)
       /\ persisted' = [persisted EXCEPT ![via[c]] = at]

\* Read hands over bytes that arrived at time `at`.
Read(c, at) ==
    /\ conn[c] = "open"
    /\ Touch(c, at)
    /\ deadline' = [deadline EXCEPT ![c] = at + IdleTTL]
    /\ UNCHANGED <<now, rowVars, tomb, conn, owner, since, via, sending, stale, cached, trackerFor, revokerVars>>

\* Write is let pass and enters Conn.Write, which may block: its bytes pass
\* from now on until it returns, the connection closes or the deadline strikes.
WriteStarts(c, at) ==
    /\ conn[c] = "open"
    /\ sending[c] = NoTime
    /\ Touch(c, at)
    /\ sending' = [sending EXCEPT ![c] = at]
    /\ UNCHANGED <<now, rowVars, tomb, conn, owner, since, via, deadline, stale, cached, trackerFor, revokerVars>>

\* Conn.Write has passed bytes: the deadline counts from the time taken before
\* it, which may put it back.
WriteReturns(c) ==
    /\ conn[c] = "open"
    /\ sending[c] # NoTime
    /\ sending' = [sending EXCEPT ![c] = NoTime]
    /\ deadline' = [deadline EXCEPT ![c] = sending[c] + IdleTTL]
    /\ UNCHANGED <<now, rowVars, tomb, conn, owner, since, via, stale, trackerVars, revokerVars>>

\* Read or Write whose touch is refused by the store: nothing is delivered and
\* Close starts.
TouchRefused(c, at) ==
    /\ conn[c] = "open"
    /\ ~RecentlyPersisted(via[c], at)
    /\ ~TouchSucceeds(c)
    /\ conn' = [conn EXCEPT ![c] = "closing"]
    /\ UNCHANGED <<now, rowVars, tomb, owner, since, via, sending, deadline, stale, trackerVars, revokerVars>>

\* Close for any other reason: the peer, an I/O error or deadline, the
\* transport dropping an idle connection, a failing touch query.
CloseConn(c) ==
    /\ conn[c] = "open"
    /\ conn' = [conn EXCEPT ![c] = "closing"]
    /\ UNCHANGED <<now, rowVars, tomb, owner, since, via, sending, deadline, stale, trackerVars, revokerVars>>

\* The rest of Close: unregisterWebActivityConn takes activeMu on its own.
Unregister(c) ==
    /\ conn[c] = "closing"
    /\ Closed(c)
    /\ UNCHANGED <<now, rowVars, tomb, trackerVars, revokerVars>>

-----------------------------------------------------------------------------
(* Ends of a session. *)

\* endedAt follows a change of status or login to its new values.
EndedAtFollows ==
    endedAt' = [s \in Sessions |->
                  IF ~(status'[s] = "active" /\ login'[s] = "live")
                    THEN IF Live(s) THEN now ELSE endedAt[s]
                    ELSE NoTime]

\* The login ends for good (logout, user changed or deleted, expiry) or falls
\* idle; the store is written, the gateway is not told.
LoginLapses(s, how) ==
    /\ how \in {"idle", "ended"}
    /\ login[s] # "ended"
    /\ login[s] # how
    /\ login' = [login EXCEPT ![s] = how]
    /\ UNCHANGED status
    /\ EndedAtFollows
    /\ UNCHANGED <<now, tomb, connVars, trackerVars, revokerVars>>

\* TouchAuthSession: a panel request makes an idle login usable again.
LoginTouched(s) ==
    /\ login[s] = "idle"
    /\ login' = [login EXCEPT ![s] = "live"]
    /\ UNCHANGED status
    /\ EndedAtFollows
    /\ UNCHANGED <<now, tomb, connVars, trackerVars, revokerVars>>

\* Mistake: the sweep writes a status of its own.
SweepClosing ==
    /\ \E s \in Sessions : status[s] = "active" /\ login[s] # "live"
    /\ status' = [s \in Sessions |->
                    IF status[s] = "active" /\ login[s] # "live"
                      THEN "closed" ELSE status[s]]
    /\ UNCHANGED <<now, login, endedAt, tomb, connVars, trackerVars, revokerVars>>

\* The lifecycle sweep marks a session whose login is not usable.
ExpireSweep ==
    /\ \E s \in Sessions : status[s] = "active" /\ login[s] # "live"
    /\ status' = [s \in Sessions |->
                    IF status[s] = "active" /\ login[s] # "live"
                      THEN "expired" ELSE status[s]]
    /\ UNCHANGED <<now, login, endedAt, tomb, connVars, trackerVars, revokerVars>>

\* revokeAccessSession (one session) or closeResourceSessions (those of a
\* project or a device): the rows change first, in one statement.
RevokeRows(r, S) ==
    /\ todo[r] = {} /\ closing[r] = {}
    /\ S # {}
    /\ \A s \in S : status[s] = "active"
    /\ status' = [s \in Sessions |-> IF s \in S THEN "revoked" ELSE status[s]]
    /\ UNCHANGED login
    /\ EndedAtFollows
    /\ todo' = [todo EXCEPT ![r] = S]
    /\ UNCHANGED <<now, tomb, connVars, trackerVars, closing>>

\* Revoke, its critical section: prune, leave a tombstone, collect the
\* registered connections.
GatewayRevoke(r, s) ==
    /\ closing[r] = {}
    /\ s \in todo[r]
    /\ tomb' = [Pruned EXCEPT ![s] = now]
    /\ closing' = [closing EXCEPT ![r] = Collected(s)]
    /\ todo' = [todo EXCEPT ![r] = @ \ {s}]
    /\ UNCHANGED <<now, rowVars, connVars, trackerVars>>

\* Revoke, after the unlock: Close on each collected connection.  closeOnce
\* lets one caller close it and the others wait until that one is done.
RevokeCloses(r, c) ==
    /\ c \in closing[r]
    /\ conn[c] = "open"
    /\ conn' = [conn EXCEPT ![c] = "closing"]
    /\ UNCHANGED <<now, rowVars, tomb, owner, since, via, sending, deadline, stale, trackerVars, revokerVars>>

\* Mistake: a connection whose Close fails is left as it is.
RevokeSkips(r, c) ==
    /\ c \in closing[r]
    /\ closing' = [closing EXCEPT ![r] = @ \ {c}]
    /\ UNCHANGED <<now, rowVars, tomb, connVars, trackerVars, todo>>

RevokeProceeds(r, c) ==
    /\ c \in closing[r]
    /\ conn[c] = "closed"
    /\ closing' = [closing EXCEPT ![r] = @ \ {c}]
    /\ UNCHANGED <<now, rowVars, tomb, connVars, trackerVars, todo>>

-----------------------------------------------------------------------------
\* The process stops and starts again: its sockets close, the registry, the
\* tombstones, the transports and the handlers are gone, the rows remain.
Restart ==
    /\ conn' = [c \in Conns |-> IF conn[c] = "free" THEN "free" ELSE "closed"]
    /\ tomb' = [s \in Sessions |-> NoTime]
    /\ cached' = [s \in Sessions |-> None]
    /\ todo' = [r \in Revokers |-> {}]
    /\ closing' = [r \in Revokers |-> {}]
    /\ since' = [c \in Conns |-> 0]
    /\ via' = [c \in Conns |-> None]
    /\ sending' = [c \in Conns |-> NoTime]
    /\ deadline' = [c \in Conns |-> NoTime]
    /\ stale' = {}
    /\ UNCHANGED <<now, rowVars, owner, trackerFor, persisted>>

\* A settings reload: run() returns and runs again in the same process.  The
\* servers wait for handlers (so no revocation is half done) but not for
\* hijacked or long-lived connections: these stay open under a gateway whose
\* store is closed, and the new gateway starts with nothing.  A request still
\* looking up its route fails on the closed store.
Reload ==
    /\ \A r \in Revokers : todo[r] = {} /\ closing[r] = {}
    /\ conn' = [c \in Conns |-> IF conn[c] = "resolved" THEN "closed" ELSE conn[c]]
    /\ since' = [c \in Conns |-> IF conn[c] = "resolved" THEN 0 ELSE since[c]]
    /\ stale' = stale \cup {c \in Conns : conn[c] \in {"dialing", "open", "closing"}}
    /\ tomb' = [s \in Sessions |-> NoTime]
    /\ cached' = [s \in Sessions |-> None]
    /\ UNCHANGED <<now, rowVars, owner, via, sending, deadline, trackerFor, persisted, revokerVars>>

\* Time passes, but no request stays in flight longer than MaxInFlight.
Tick ==
    /\ now < MaxTime
    /\ \A c \in Conns : InFlight(c) => now - since[c] < MaxInFlight
    /\ now' = now + 1
    /\ UNCHANGED <<rowVars, tomb, connVars, trackerVars, revokerVars>>

Next ==
    \/ \E c \in Conns :
         \/ ServeHTTP(c)
         \/ \E t \in Trackers : ProxyTransport(c, t)
         \/ DialFails(c)
         \/ TrackConn(c)
         \/ \E at \in since[c] .. now :
              Read(c, at) \/ WriteStarts(c, at) \/ TouchRefused(c, at)
         \/ WriteReturns(c)
         \/ CloseConn(c)
         \/ Unregister(c)
    \/ \E s \in Sessions :
         \/ \E how \in {"idle", "ended"} : LoginLapses(s, how)
         \/ LoginTouched(s)
    \/ ExpireSweep
    \/ \E r \in Revokers :
         \/ \E S \in SUBSET Sessions : RevokeRows(r, S)
         \/ \E s \in Sessions : GatewayRevoke(r, s)
         \/ \E c \in Conns : RevokeCloses(r, c) \/ RevokeProceeds(r, c)
    \/ Restart
    \/ Reload
    \/ Tick

Spec == Init /\ [][Next]_vars

\* Handler goroutines run to their end; nothing else is owed a step.
Fairness ==
    /\ \A r \in Revokers :
         /\ WF_vars(\E s \in Sessions : GatewayRevoke(r, s))
         /\ WF_vars(\E c \in Conns : RevokeCloses(r, c) \/ RevokeProceeds(r, c))
    /\ \A c \in Conns : WF_vars(Unregister(c))

FairSpec == Spec /\ Fairness

-----------------------------------------------------------------------------
(* Properties. *)

\* Revocation cuts every connection: an open connection of a revoked session
\* is one some Revoke call has still to reach.  In particular a request that
\* resolved its grant before the revocation and finished dialing after Revoke
\* had collected the registry does not slip through, though its tombstone may
\* have been pruned by then.
RevokedIsCut ==
    \A c \in Conns \ stale :
        conn[c] = "open" /\ status[owner[c]] = "revoked"
          => \E r \in Revokers : owner[c] \in todo[r] \/ c \in closing[r]

\* However a session ends - the gateway is not told of a logout, a changed
\* user or an expiry - no call that passes bytes is made PersistInterval or
\* more after the end.  A Write made before may block, and its bytes pass long
\* after the check: what bounds them is the deadline, which counts from such a
\* call or, on a connection still to be registered at the end, from that.
StaleTrafficIsBounded ==
    \A c \in Conns :
        conn[c] = "open" /\ ~Live(owner[c])
          => LET last == endedAt[owner[c]] + PersistInterval IN
             /\ sending[c] < last
             /\ \/ deadline[c] < last + IdleTTL
                \/ /\ deadline[c] = since[c] + IdleTTL
                   /\ since[c] <= endedAt[owner[c]] + MaxInFlight

\* A revocation reaches every connection that was open when it happened.
RevocationCompletes ==
    \A c \in Conns :
        (conn[c] = "open" /\ c \notin stale /\ status[owner[c]] = "revoked")
          ~> (conn[c] = "closed" \/ c \in stale)

=============================================================================
