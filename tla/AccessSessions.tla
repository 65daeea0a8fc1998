---------------------------- MODULE AccessSessions ----------------------------
(***************************************************************************)
(* Access sessions and what they depend on: the rows of access_sessions    *)
(* and their log (src/backend/internal/store/access_sessions.go and the    *)
(* triggers of migrations.go), the logins and users they refer to, the     *)
(* access policies, the handler that opens them (api/api.go) and the       *)
(* sweep of lifecycle/manager.go that closes them.                         *)
(*                                                                         *)
(* Every statement is one step, and it compares the rows with a time its   *)
(* caller read before it waited for the one connection of the store: at    *)
(* most MaxDelay before now.                                               *)
(***************************************************************************)
EXTENDS Integers, FiniteSets

CONSTANTS
    Users,       \* user identifiers
    Logins,      \* rows of auth_sessions a behaviour may create
    Sessions,    \* rows of access_sessions a behaviour may create
    Requests,    \* requests to open a session that can be in flight together
    Null,        \* no user, no login
    AuthIdle,    \* authSessionIdleTTL
    AccessIdle,  \* min(authSessionIdleTTL, ManagedSOCKSIdleTTL)
    AuthLife,    \* authSessionTTL
    Retention,   \* how long a revoked login is kept (24 hours)
    TouchEvery,  \* accessActivityTouchInterval (30 seconds)
    MaxDelay,    \* bound of the age of a time when it is used
    MaxChanges,  \* bound of the changes an administrator makes
    MaxNow       \* bound of the clock

ASSUME AccessSessionsAssumption ==
    /\ {AuthIdle, AccessIdle, AuthLife, TouchEvery} \subseteq Nat \ {0}
    /\ {Retention, MaxDelay, MaxChanges, MaxNow} \subseteq Nat
    /\ AccessIdle <= AuthIdle /\ AuthIdle <= AuthLife
    /\ AccessIdle + MaxDelay < Retention /\ 2 * MaxDelay < Retention
    /\ Null \notin Users \cup Logins

VARIABLES
    now,    \* the clock
    user,   \* the rows of users with their membership of the project
    policy, \* the access policy of a user for the project, as of now
    login,  \* the rows of auth_sessions
    row,    \* the rows of access_sessions
    log,    \* the status of the rows of access_logs
    page,   \* changes with every request the gateway serves for a session
    device, \* the endpoint exists
    req,    \* the requests to open a session
    sweep,  \* the sweep that is under way
    changes \* how many changes administrators made

vars == <<now, user, policy, login, row, log, page, device, req, sweep, changes>>

NoLogin == [state |-> "none", user |-> Null, expires |-> 0, seen |-> 0]

NoRow == [state |-> "none", login |-> Null, exchanged |-> FALSE,
          expires |-> 0, seen |-> 0, by |-> "none", late |-> FALSE]

Idle == [op |-> "idle", login |-> Null, by |-> "none", at |-> 0]

NoSweep == [stage |-> "none", at |-> 0]

UserRow == [state: {"in", "gone"}, enabled: BOOLEAN,
            role: {"operator", "temporary"}, member: BOOLEAN]

LoginRow == [state: {"none", "active", "revoked", "gone"},
             user: Users \cup {Null}, expires: Nat, seen: Nat]

SessionRow == [state: {"none", "active", "revoked", "expired", "gone"},
               login: Logins \cup {Null}, exchanged: BOOLEAN,
               expires: Nat, seen: Nat,
               by: {"none", "member", "project", "policy"}, late: BOOLEAN]

Request == [op: {"idle", "resolved", "admitted", "opening"},
            login: Logins \cup {Null},
            by: {"none", "member", "project", "policy"}, at: Nat]

TypeOK ==
    /\ now \in Nat /\ device \in BOOLEAN
    /\ user \in [Users -> UserRow]
    /\ policy \in [Users -> {"none", "closed", "open"}]
    /\ login \in [Logins -> LoginRow]
    /\ row \in [Sessions -> SessionRow]
    /\ log \in [Sessions -> {"none", "active", "revoked", "expired"}]
    /\ page \in [Sessions -> BOOLEAN]
    /\ req \in [Requests -> Request]
    /\ sweep \in [stage: {"none", "expire", "cleanup"}, at: Nat]
    /\ changes \in 0..MaxChanges

-----------------------------------------------------------------------------
\* What an administrator may give a user; the memberships of a temporary user
\* mean nothing.
Rights == {r \in UserRow : r.state = "in"
                            /\ (r.role = "temporary" => ~r.member)}

Init ==
    /\ now = 1
    /\ user \in [Users -> {r \in Rights : r.enabled}]
    /\ policy \in [Users -> {"none", "closed", "open"}]
    /\ login = [l \in Logins |-> NoLogin]
    /\ row = [s \in Sessions |-> NoRow]
    /\ log = [s \in Sessions |-> "none"]
    /\ page = [s \in Sessions |-> FALSE]
    /\ device = TRUE
    /\ req = [q \in Requests |-> Idle]
    /\ sweep = NoSweep
    /\ changes = 0

\* Time waits for requests, which would hold what they read for longer than
\* MaxDelay; the sweep, which calls the nodes, may take any time.
Tick ==
    /\ now < MaxNow
    /\ \A q \in Requests : req[q] # Idle => now < req[q].at + MaxDelay
    /\ now' = now + 1
    /\ UNCHANGED <<user, policy, login, row, log, page, device, req, sweep,
                   changes>>

\* The times a statement that runs now may have been given.
Past == {t \in 1..now : now <= t + MaxDelay}

\* Mistake: a deleted row is logged as well.
LoggedAlways(rows) == [s \in Sessions |-> rows[s].state]

\* trg_access_sessions_log_insert and _update; there is none for DELETE.
Logged(rows) ==
    [s \in Sessions |-> IF rows[s].state \in {"none", "gone"} THEN log[s]
                        ELSE rows[s].state]

\* Rows written: the log follows.
Rows(rows) == row' = rows /\ log' = Logged(rows)

\* The rows go with the logins they refer to (ON DELETE CASCADE).
Without(L) ==
    [s \in Sessions |-> IF row[s].login \in L
                        THEN [row[s] EXCEPT !.state = "gone"] ELSE row[s]]

Ending(S, status) ==
    [s \in Sessions |-> IF s \in S /\ row[s].state = "active"
                        THEN [row[s] EXCEPT !.state = status] ELSE row[s]]

-----------------------------------------------------------------------------
(***************************************************************************)
(* Users, logins and policies.                                             *)
(***************************************************************************)
\* Another change by an administrator, or by the schedule one has set.
Change == changes < MaxChanges /\ changes' = changes + 1

LoginsOf(u) == {l \in Logins : login[l].user = u}

Revoked(L) ==
    [l \in Logins |-> IF l \in L /\ login[l].state = "active"
                      THEN [login[l] EXCEPT !.state = "revoked"] ELSE login[l]]

\* CreateAuthSession, or the completion of a challenge. Whether the user is
\* enabled was checked before, and may have changed since.
CreateAuthSession(u, l, t) ==
    /\ user[u].state = "in"
    /\ login[l].state = "none"
    /\ login' = [login EXCEPT ![l] = [state |-> "active", user |-> u,
                                      expires |-> t + AuthLife,
                                      seen |-> t]]
    /\ UNCHANGED <<now, user, policy, row, log, page, device, req, sweep, changes>>

\* Logout, or requireAuth for a login that has been idle for too long.
RevokeAuthSession(l) ==
    /\ login[l].state = "active"
    /\ login' = Revoked({l})
    /\ UNCHANGED <<now, user, policy, row, log, page, device, req, sweep, changes>>

\* Mistake: the logins of the user go on.
UpdateKeepsLogins(u, r) ==
    /\ Change
    /\ user[u].state = "in" /\ r # user[u]
    /\ user' = [user EXCEPT ![u] = r]
    /\ UNCHANGED <<now, policy, login, row, log, page, device, req, sweep>>

\* UpdateUser replaces role, enabled state and memberships.
UpdateUser(u, r) ==
    /\ Change
    /\ user[u].state = "in" /\ r # user[u]
    /\ user' = [user EXCEPT ![u] = r]
    /\ login' = Revoked(LoginsOf(u))
    /\ UNCHANGED <<now, policy, row, log, page, device, req, sweep>>

DeleteUser(u) ==
    /\ Change
    /\ user[u].state = "in"
    /\ user' = [user EXCEPT ![u] = [@ EXCEPT !.state = "gone",
                                             !.enabled = FALSE]]
    /\ policy' = [policy EXCEPT ![u] = "none"]
    /\ login' = [l \in Logins |-> IF l \in LoginsOf(u)
                                  THEN [login[l] EXCEPT !.state = "gone"]
                                  ELSE login[l]]
    /\ Rows(Without(LoginsOf(u)))
    /\ UNCHANGED <<now, page, device, req, sweep>>

\* saveAccessPolicy checks the role and writes; an enabled policy applies
\* inside its schedule. Sessions opened under the policy stay.
SaveAccessPolicy(u, p) ==
    /\ Change
    /\ user[u].state = "in" /\ user[u].role = "temporary"
    /\ policy' = [policy EXCEPT ![u] = p]
    /\ UNCHANGED <<now, user, login, row, log, page, device, req, sweep>>

DeleteAccessPolicy(u) ==
    /\ Change
    /\ policy[u] # "none"
    /\ policy' = [policy EXCEPT ![u] = "none"]
    /\ UNCHANGED <<now, user, login, row, log, page, device, req, sweep>>

\* validFrom or validUntil passes.
PolicyClock(u) ==
    /\ Change
    /\ policy[u] # "none"
    /\ policy' = [policy EXCEPT ![u] = IF @ = "open" THEN "closed" ELSE "open"]
    /\ UNCHANGED <<now, user, login, row, log, page, device, req, sweep>>

-----------------------------------------------------------------------------
(***************************************************************************)
(* Opening a session: requireAuth, then createAccessSessionForRequest      *)
(* under resourceMu with the principal that requireAuth read.              *)
(***************************************************************************)
\* userProjects: the memberships and the projects of enabled policies, whose
\* schedule it does not look at.
UserProjects(u) == user[u].member \/ policy[u] # "none"

\* canAccessProject and the alternative for a temporary user, decided by the
\* principal that requireAuth keeps in the request.
Principal(u) ==
    IF user[u].role = "temporary" THEN "policy"
    ELSE IF user[u].member THEN "member"
    ELSE IF UserProjects(u) THEN "project" ELSE "none"

\* ResolveAuthSession and the check of the idle time.
ResolveAuthSession(q, l) ==
    LET u == login[l].user IN
    /\ req[q] = Idle
    /\ login[l].state = "active" /\ now < login[l].expires
    /\ user[u].enabled
    /\ now - login[l].seen <= AuthIdle
    /\ req' = [req EXCEPT ![q] =
                 [op |-> "resolved", login |-> l, by |-> Principal(u),
                  at |-> now]]
    /\ UNCHANGED <<now, user, policy, login, row, log, page, device, sweep,
                   changes>>

\* TouchAuthSession asks for an active row only.
TouchAuthSession(q) ==
    LET l == req[q].login IN
    /\ req[q].op = "resolved"
    /\ login' = IF login[l].state = "active"
                THEN [login EXCEPT ![l].seen = req[q].at] ELSE login
    /\ req' = [req EXCEPT ![q].op = "admitted"]
    /\ UNCHANGED <<now, user, policy, row, log, page, device, sweep, changes>>

\* Nobody holds resourceMu.
Free == \A q \in Requests : req[q].op # "opening"

HasPolicyCapability(q) == policy[login[req[q].login].user] = "open"

\* The handler takes resourceMu, reads the endpoint and checks the right; it
\* starts the tunnel before the row is written.
Authorize(q) ==
    /\ req[q].op = "admitted" /\ Free /\ device
    /\ req[q].by # "none" /\ (req[q].by = "policy" => HasPolicyCapability(q))
    /\ req' = [req EXCEPT ![q].op = "opening"]
    /\ UNCHANGED <<now, user, policy, login, row, log, page, device, sweep,
                   changes>>

\* A session opened under a login by a right.
NewRow(l, by, t) ==
    [state |-> "active", login |-> l, exchanged |-> FALSE,
     expires |-> login[l].expires, seen |-> t, by |-> by,
     late |-> login[l].state # "active" \/ now >= login[l].expires]

\* The row refers to its login, which must still be there.
CreateAccessSession(q, s, t) ==
    LET l == req[q].login IN
    /\ req[q].op = "opening" /\ req[q].at <= t
    /\ row[s].state = "none" /\ login[l].state # "gone"
    /\ Rows([row EXCEPT ![s] = NewRow(l, req[q].by, t)])
    /\ req' = [req EXCEPT ![q] = Idle]
    /\ UNCHANGED <<now, user, policy, login, page, device, sweep, changes>>

\* The request fails: no right, no tunnel, a foreign key, a client that left.
Refuse(q) ==
    /\ req[q] # Idle
    /\ req' = [req EXCEPT ![q] = Idle]
    /\ UNCHANGED <<now, user, policy, login, row, log, page, device, sweep,
                   changes>>

-----------------------------------------------------------------------------
(***************************************************************************)
(* The gateways.                                                           *)
(***************************************************************************)
\* What every statement of the gateways asks of the login of a session.
LoginServes(s, t) ==
    LET l == row[s].login IN
    /\ login[l].state = "active"
    /\ t < login[l].expires /\ t < login[l].seen + AccessIdle
    /\ user[login[l].user].enabled

\* And of the session itself.
Serves(s, t) ==
    /\ row[s].state = "active"
    /\ t < row[s].expires /\ t < row[s].seen + AccessIdle
    /\ LoginServes(s, t)

ExchangeAccessGrant(s, t) ==
    /\ Serves(s, t) /\ ~row[s].exchanged
    /\ Rows([row EXCEPT ![s].exchanged = TRUE])
    /\ UNCHANGED <<now, user, policy, login, page, device, req, sweep, changes>>

\* Activity of the session is activity of its login.
Seen(s, t) ==
    /\ Rows([row EXCEPT ![s].seen = t])
    /\ login' = [login EXCEPT ![row[s].login].seen = t]

\* A request with the cookie of the grant; activity is stored coarsely.
ResolveAccessGrant(s, t) ==
    /\ Serves(s, t) /\ row[s].exchanged
    /\ IF t >= row[s].seen + TouchEvery THEN Seen(s, t)
       ELSE UNCHANGED <<row, log, login>>
    /\ page' = [page EXCEPT ![s] = ~@]
    /\ UNCHANGED <<now, user, policy, device, req, sweep, changes>>

\* Mistake: the update looks at the status of the row alone.
TouchAnyActive(s, t) ==
    /\ row[s].state = "active" /\ row[s].exchanged
    /\ Seen(s, t)
    /\ UNCHANGED <<now, user, policy, page, device, req, sweep, changes>>

\* Traffic of a long-lived connection, which a resolved grant has opened.
TouchAccessSession(s, t) ==
    /\ Serves(s, t) /\ row[s].exchanged
    /\ Seen(s, t)
    /\ UNCHANGED <<now, user, policy, page, device, req, sweep, changes>>

-----------------------------------------------------------------------------
(***************************************************************************)
(* The ends of a session.                                                  *)
(***************************************************************************)
RevokeAccessSession(s) ==
    /\ row[s].state = "active"
    /\ Rows(Ending({s}, "revoked"))
    /\ UNCHANGED <<now, user, policy, login, page, device, req, sweep, changes>>

\* Mistake: the rows go while their sessions are active.
DeleteWithoutClosing ==
    /\ device /\ Free
    /\ device' = FALSE
    /\ Rows(Without(Logins))
    /\ UNCHANGED <<now, user, policy, login, page, req, sweep, changes>>

\* closeResourceSessions and the deletion, with resourceMu held in between:
\* the sessions are revoked, then the rows go with the endpoint.
DeleteDevice ==
    /\ device /\ Free
    /\ device' = FALSE
    /\ log' = Logged(Ending(Sessions, "revoked"))
    /\ row' = Without(Logins)
    /\ UNCHANGED <<now, user, policy, login, page, req, sweep, changes>>

\* Sweep reads the clock, handles the forwards at the nodes, and then runs
\* the two statements below with the time it has read.
StartSweep ==
    /\ sweep = NoSweep
    /\ sweep' = [stage |-> "expire", at |-> now]
    /\ UNCHANGED <<now, user, policy, login, row, log, page, device, req, changes>>

\* Mistake: only expires_at is compared; the idle time and the login are not.
ExpireByTime ==
    /\ sweep.stage = "expire"
    /\ Rows(Ending({s \in Sessions : row[s].expires <= sweep.at}, "expired"))
    /\ sweep' = [sweep EXCEPT !.stage = "cleanup"]
    /\ UNCHANGED <<now, user, policy, login, page, device, req, changes>>

ExpireAccessSessions ==
    /\ sweep.stage = "expire"
    /\ Rows(Ending({s \in Sessions : row[s].state = "active"
                                     /\ ~Serves(s, sweep.at)}, "expired"))
    /\ sweep' = [sweep EXCEPT !.stage = "cleanup"]
    /\ UNCHANGED <<now, user, policy, login, page, device, req, changes>>

CleanupAuthSessions ==
    LET L == {l \in Logins :
                /\ login[l].state \in {"active", "revoked"}
                /\ \/ login[l].expires <= sweep.at
                   \/ /\ login[l].state = "revoked"
                      /\ login[l].seen + Retention <= sweep.at}
    IN
    /\ sweep.stage = "cleanup"
    /\ login' = [l \in Logins |-> IF l \in L
                                  THEN [login[l] EXCEPT !.state = "gone"]
                                  ELSE login[l]]
    /\ Rows(Without(L))
    /\ sweep' = NoSweep
    /\ UNCHANGED <<now, user, policy, page, device, req, changes>>

-----------------------------------------------------------------------------
Accounts ==
    \/ \E u \in Users :
          \/ \E l \in Logins, t \in Past : CreateAuthSession(u, l, t)
          \/ \E r \in Rights : UpdateUser(u, r)
          \/ DeleteUser(u)
          \/ \E p \in {"none", "closed", "open"} : SaveAccessPolicy(u, p)
          \/ DeleteAccessPolicy(u) \/ PolicyClock(u)
    \/ \E l \in Logins : RevokeAuthSession(l)

Opening ==
    \E q \in Requests :
       \/ \E l \in Logins : ResolveAuthSession(q, l)
       \/ TouchAuthSession(q) \/ Authorize(q) \/ Refuse(q)
       \/ \E s \in Sessions, t \in Past : CreateAccessSession(q, s, t)

Gateway ==
    \E s \in Sessions, t \in Past :
       ExchangeAccessGrant(s, t) \/ ResolveAccessGrant(s, t)
       \/ TouchAccessSession(s, t)

Sweep == StartSweep \/ ExpireAccessSessions \/ CleanupAuthSessions

Next ==
    \/ Tick \/ Accounts \/ Opening \/ Gateway \/ Sweep \/ DeleteDevice
    \/ \E s \in Sessions : RevokeAccessSession(s)

\* The sweep runs on its ticker until the process ends and does not skip a
\* statement; users, administrators and visitors do nothing they need to.
Spec == Init /\ [][Next]_vars /\ WF_vars(Sweep)

-----------------------------------------------------------------------------
(***************************************************************************)
(* Properties.                                                             *)
(***************************************************************************)
\* Nothing can serve the session again: its row or its login has ended, or
\* the latest moment a statement could still be given for it has passed.
Ended(s) ==
    \/ row[s].state # "active"
    \/ login[row[s].login].state # "active"
    \/ now >= row[s].expires + MaxDelay
    \/ now >= row[s].seen + AccessIdle + MaxDelay

Phase(s) == IF row[s].state = "none" THEN "none"
            ELSE IF Ended(s) THEN "ended" ELSE "live"

phase == [s \in Sessions |-> Phase(s)]

grant == [s \in Sessions |-> IF row[s].exchanged THEN "used" ELSE "held"]

Life == INSTANCE SessionLife WITH phase <- phase, grant <- grant, page <- page

\* A session has one life: its grant is exchanged once and while it is live,
\* it serves only between the exchange and its end, and no late update, not
\* of its row, of its login or of its user, brings it back.
OneLife == Life!Spec

\* Whoever is served was given the session under the role and, as a member,
\* the membership the account has now: a change meets the requests that are
\* being authorized with what they read before it (UpdateUser).
RightsAreCurrent ==
    \A s \in Sessions : Serves(s, now) =>
       LET u == user[login[row[s].login].user] IN
       /\ u.role = IF row[s].by = "policy" THEN "temporary" ELSE "operator"
       /\ row[s].by = "member" => u.member

\* The log of a session stays open after its row only where the user was
\* deleted or the login had ended before the row was written; the sweep
\* closes a session before it deletes its login.
OpenLogIsExplained ==
    \A s \in Sessions :
       log[s] = "active" /\ row[s].state = "gone" =>
          \/ row[s].late
          \/ user[login[row[s].login].user].state = "gone"

\* A session that has ended by itself is closed by the sweep.
EndedIsClosed ==
    \A s \in Sessions :
       (row[s].state = "active" /\ Ended(s)) ~> (row[s].state # "active")

=============================================================================
