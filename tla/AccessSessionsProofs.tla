------------------------ MODULE AccessSessionsProofs ------------------------
(***************************************************************************)
(* Theorems about AccessSessions, for any sets of users, logins, sessions  *)
(* and requests, any times of the code and any delay they allow.           *)
(***************************************************************************)
EXTENDS AccessSessions, TLAPS

-----------------------------------------------------------------------------
(* The inductive invariant. *)

\* A row or a request in flight refers to a login that was created, and a
\* login to its user, for good.
References ==
    /\ \A l \in Logins : login[l].state = "none" <=> login[l].user = Null
    /\ \A s \in Sessions : row[s].state = "none" <=> row[s].login = Null
    /\ \A q \in Requests : req[q].op = "idle" <=> req[q].login = Null
    /\ \A s \in Sessions : row[s].state # "none" =>
          login[row[s].login].state # "none"
    /\ \A q \in Requests : req[q].op # "idle" =>
          login[req[q].login].state # "none"

\* The grant of a session that is not opened is not used.
Unused == \A s \in Sessions : row[s].state = "none" => ~row[s].exchanged

\* Times that were read are not ahead of the clock, and those of requests are
\* not far behind it.
Clock ==
    /\ sweep.at <= now
    /\ \A q \in Requests : req[q].op # "idle" =>
          req[q].at <= now /\ now <= req[q].at + MaxDelay

\* A request that was admitted under a login has been its activity.
Fresh ==
    \A q \in Requests :
       /\ req[q].op \in {"admitted", "opening"}
       /\ login[req[q].login].state = "active"
       => req[q].at <= login[req[q].login].seen + MaxDelay

\* A user has the role, and a member the membership, that was read.
Agrees(u, by) ==
    /\ u.role = IF by = "policy" THEN "temporary" ELSE "operator"
    /\ by = "member" => u.member

UserOf(l) == user[login[l].user]

\* A change of the user ends the logins: what was read under one that is
\* active still holds.
Current ==
    /\ \A q \in Requests :
          req[q].op # "idle" /\ login[req[q].login].state = "active"
          => Agrees(UserOf(req[q].login), req[q].by)
    /\ \A s \in Sessions :
          row[s].state = "active" /\ login[row[s].login].state = "active"
          => Agrees(UserOf(row[s].login), row[s].by)

\* The log says what the row says as long as there is a row.
LogFollows ==
    \A s \in Sessions :
       /\ row[s].state \notin {"none", "gone"} => log[s] = row[s].state
       /\ row[s].state = "none" => log[s] = "none"

\* Between its two statements: the sweep does not delete the login of a
\* session it has left active, or that was opened under a login meanwhile.
SweptFirst ==
    sweep.stage = "cleanup" =>
       \A s \in Sessions : row[s].state = "active" /\ ~row[s].late =>
          /\ sweep.at < login[row[s].login].expires
          /\ sweep.at < login[row[s].login].seen + Retention

IInv ==
    /\ TypeOK /\ References /\ Unused /\ Clock /\ Fresh /\ Current
    /\ LogFollows /\ SweptFirst /\ OpenLogIsExplained

-----------------------------------------------------------------------------
(* Type correctness. *)

LEMMA SessionRowUpdates ==
    ASSUME NEW r \in SessionRow
    PROVE  /\ [r EXCEPT !.state = "gone"] \in SessionRow
           /\ [r EXCEPT !.state = "revoked"] \in SessionRow
           /\ [r EXCEPT !.state = "expired"] \in SessionRow
           /\ [r EXCEPT !.exchanged = TRUE] \in SessionRow
           /\ \A t \in Nat : [r EXCEPT !.seen = t] \in SessionRow
  BY DEF SessionRow

LEMMA LoginRowUpdates ==
    ASSUME NEW r \in LoginRow
    PROVE  /\ [r EXCEPT !.state = "gone"] \in LoginRow
           /\ [r EXCEPT !.state = "revoked"] \in LoginRow
           /\ \A t \in Nat : [r EXCEPT !.seen = t] \in LoginRow
  BY DEF LoginRow

LEMMA UserRowUpdate ==
    ASSUME NEW r \in UserRow
    PROVE  [r EXCEPT !.state = "gone", !.enabled = FALSE] \in UserRow
  BY DEF UserRow

LEMMA LoggedTypes ==
    ASSUME TypeOK, NEW rows \in [Sessions -> SessionRow]
    PROVE  /\ Logged(rows) \in
                 [Sessions -> {"none", "active", "revoked", "expired"}]
           /\ Rows(rows) =>
                 /\ row' \in [Sessions -> SessionRow]
                 /\ log' \in
                       [Sessions -> {"none", "active", "revoked", "expired"}]
<1>1. \A s \in Sessions : rows[s].state \in
         {"none", "active", "revoked", "expired", "gone"}
  BY DEF SessionRow
<1> QED BY <1>1 DEF TypeOK, Rows, Logged

LEMMA RowSets ==
    ASSUME TypeOK
    PROVE  /\ \A L : Without(L) \in [Sessions -> SessionRow]
           /\ \A S : Ending(S, "revoked") \in [Sessions -> SessionRow]
           /\ \A S : Ending(S, "expired") \in [Sessions -> SessionRow]
           /\ \A L : Revoked(L) \in [Logins -> LoginRow]
  BY SessionRowUpdates, LoginRowUpdates
  DEF TypeOK, Without, Ending, Revoked

LEMMA SeenTypes ==
    ASSUME TypeOK, NEW s \in Sessions, NEW t \in Past, Seen(s, t)
    PROVE  /\ row' \in [Sessions -> SessionRow]
           /\ log' \in [Sessions -> {"none", "active", "revoked", "expired"}]
           /\ login' \in [Logins -> LoginRow]
<1>1. t \in Nat
  BY DEF Past, TypeOK
<1>2. [row EXCEPT ![s].seen = t] \in [Sessions -> SessionRow]
  BY <1>1, SessionRowUpdates DEF TypeOK
<1>3. login' \in [Logins -> LoginRow]
  BY <1>1, LoginRowUpdates DEF Seen, TypeOK
<1> QED BY <1>2, <1>3, LoggedTypes DEF Seen

LEMMA TypeStep == TypeOK /\ References /\ [Next]_vars => TypeOK'
<1> SUFFICES ASSUME TypeOK, References, [Next]_vars PROVE TypeOK'
  OBVIOUS
<1> USE AccessSessionsAssumption
<1>1. CASE Tick
  BY <1>1 DEF Tick, TypeOK
<1>2. CASE Accounts
  <2>1. ASSUME NEW u \in Users, NEW l \in Logins,
               NEW t \in Past, CreateAuthSession(u, l, t)
        PROVE  TypeOK'
    BY <2>1 DEF CreateAuthSession, Past, TypeOK, LoginRow
  <2>2. ASSUME NEW u \in Users, NEW r \in Rights, UpdateUser(u, r)
        PROVE  TypeOK'
    BY <2>2, RowSets DEF UpdateUser, Change, Rights, TypeOK
  <2>3. ASSUME NEW u \in Users, DeleteUser(u) PROVE TypeOK'
    <3>1. Without(LoginsOf(u)) \in [Sessions -> SessionRow]
      BY RowSets
    <3>2. login' \in [Logins -> LoginRow]
      BY <2>3, LoginRowUpdates DEF DeleteUser, TypeOK
    <3>3. user' \in [Users -> UserRow]
      <4>1. [user[u] EXCEPT !.state = "gone", !.enabled = FALSE] \in UserRow
        BY UserRowUpdate DEF TypeOK
      <4> QED BY <2>3, <4>1 DEF DeleteUser, TypeOK
    <3> QED
      BY <2>3, <3>1, <3>2, <3>3, LoggedTypes DEF DeleteUser, Change, TypeOK
  <2>4. ASSUME NEW u \in Users, NEW p \in {"none", "closed", "open"},
               SaveAccessPolicy(u, p)
        PROVE  TypeOK'
    BY <2>4 DEF SaveAccessPolicy, Change, TypeOK
  <2>5. ASSUME NEW u \in Users, DeleteAccessPolicy(u) \/ PolicyClock(u)
        PROVE  TypeOK'
    BY <2>5 DEF DeleteAccessPolicy, PolicyClock, Change, TypeOK
  <2>6. ASSUME NEW l \in Logins, RevokeAuthSession(l) PROVE TypeOK'
    BY <2>6, RowSets DEF RevokeAuthSession, TypeOK
  <2> QED BY <1>2, <2>1, <2>2, <2>3, <2>4, <2>5, <2>6 DEF Accounts
<1>3. CASE Opening
  <2>1. ASSUME NEW q \in Requests, NEW l \in Logins, ResolveAuthSession(q, l)
        PROVE  TypeOK'
    BY <2>1 DEF ResolveAuthSession, Principal, TypeOK, Request
  <2>2. ASSUME NEW q \in Requests, TouchAuthSession(q) PROVE TypeOK'
    BY <2>2, LoginRowUpdates DEF TouchAuthSession, TypeOK, Request
  <2>3. ASSUME NEW q \in Requests, Authorize(q) PROVE TypeOK'
    BY <2>3 DEF Authorize, TypeOK, Request
  <2>4. ASSUME NEW q \in Requests, Refuse(q) PROVE TypeOK'
    BY <2>4 DEF Refuse, Idle, TypeOK, Request
  <2>5. ASSUME NEW q \in Requests, NEW s \in Sessions,
               NEW t \in Past, CreateAccessSession(q, s, t)
        PROVE  TypeOK'
    <3> DEFINE l == req[q].login
    <3>1. l \in Logins \cup {Null} /\ req[q].by \in
            {"none", "member", "project", "policy"}
      BY DEF TypeOK, Request
    <3>2. l \in Logins
      BY <2>5, <3>1 DEF CreateAccessSession, References
    <3>3. NewRow(l, req[q].by, t) \in SessionRow
      BY <3>1, <3>2 DEF NewRow, Past, TypeOK, SessionRow, LoginRow
    <3>4. [row EXCEPT ![s] = NewRow(l, req[q].by, t)] \in [Sessions -> SessionRow]
      BY <3>3 DEF TypeOK
    <3>5. req' \in [Requests -> Request]
      BY <2>5 DEF CreateAccessSession, Idle, TypeOK, Request
    <3> QED BY <2>5, <3>4, <3>5, LoggedTypes DEF CreateAccessSession, TypeOK
  <2> QED BY <1>3, <2>1, <2>2, <2>3, <2>4, <2>5 DEF Opening
<1>4. CASE Gateway
  <2> PICK s \in Sessions, t \in Past :
         ExchangeAccessGrant(s, t) \/ ResolveAccessGrant(s, t)
         \/ TouchAccessSession(s, t)
    BY <1>4 DEF Gateway
  <2>1. CASE ExchangeAccessGrant(s, t)
    <3>1. [row EXCEPT ![s].exchanged = TRUE] \in [Sessions -> SessionRow]
      BY SessionRowUpdates DEF TypeOK
    <3> QED BY <2>1, <3>1, LoggedTypes DEF ExchangeAccessGrant, TypeOK
  <2>2. CASE ResolveAccessGrant(s, t)
    BY <2>2, SeenTypes DEF ResolveAccessGrant, TypeOK
  <2>3. CASE TouchAccessSession(s, t)
    BY <2>3, SeenTypes DEF TouchAccessSession, TypeOK
  <2> QED BY <2>1, <2>2, <2>3
<1>5. CASE Sweep
  <2>1. CASE StartSweep
    BY <2>1 DEF StartSweep, TypeOK
  <2>2. CASE ExpireAccessSessions
    BY <2>2, RowSets, LoggedTypes DEF ExpireAccessSessions, TypeOK
  <2>3. CASE CleanupAuthSessions
    <3>1. login' \in [Logins -> LoginRow]
      BY <2>3, LoginRowUpdates DEF CleanupAuthSessions, TypeOK
    <3> QED
      BY <2>3, <3>1, RowSets, LoggedTypes
      DEF CleanupAuthSessions, NoSweep, TypeOK
  <2> QED BY <1>5, <2>1, <2>2, <2>3 DEF Sweep
<1>6. CASE DeleteDevice
  BY <1>6, RowSets, LoggedTypes DEF DeleteDevice, TypeOK
<1>7. ASSUME NEW s \in Sessions, RevokeAccessSession(s) PROVE TypeOK'
  BY <1>7, RowSets, LoggedTypes DEF RevokeAccessSession, TypeOK
<1>8. CASE UNCHANGED vars
  BY <1>8 DEF vars, TypeOK
<1> QED BY <1>1, <1>2, <1>3, <1>4, <1>5, <1>6, <1>7, <1>8 DEF Next

LEMMA InitIInv == Init => IInv
<1> SUFFICES ASSUME Init PROVE IInv
  OBVIOUS
<1>1. TypeOK
  BY AccessSessionsAssumption
  DEF Init, TypeOK, NoLogin, NoRow, Idle, NoSweep, Rights, LoginRow,
      SessionRow, Request
<1>2. References /\ Unused /\ Clock /\ Fresh /\ Current /\ LogFollows
      /\ SweptFirst
  BY AccessSessionsAssumption
  DEF Init, References, Unused, Clock, Fresh, Current, LogFollows, SweptFirst,
      NoLogin, NoRow, Idle, NoSweep
<1>3. OpenLogIsExplained
  BY DEF Init, OpenLogIsExplained
<1> QED BY <1>1, <1>2, <1>3 DEF IInv

-----------------------------------------------------------------------------
(* What any step does to a login, a row, a request and a user. *)

\* A login is created, ends, or a recent time becomes its last activity.
LoginStep(l) ==
    \/ login'[l] = login[l]
    \/ /\ login[l].state = "none" /\ login'[l].state = "active"
       /\ login'[l].user \in Users
    \/ /\ login[l].state # "none"
       /\ login'[l].user = login[l].user
       /\ login'[l].expires = login[l].expires
       /\ \/ /\ login'[l].state = "gone" \/ login'[l].state = "revoked"
             /\ login'[l].seen = login[l].seen
          \/ /\ login[l].state = "active" /\ login'[l].state = "active"
             /\ now <= login'[l].seen + MaxDelay

\* A row is written for a request that has been authorized, is seen while it
\* lives, or ends; what it refers to stays.
RowStep(s) ==
    \/ row'[s] = row[s]
    \/ /\ row[s].state = "none"
       /\ row'[s].state = "active"
       /\ \E q \in Requests :
             /\ req[q].op = "opening"
             /\ row'[s].login = req[q].login /\ row'[s].by = req[q].by
             /\ row'[s].late <=> \/ login[req[q].login].state # "active"
                                \/ now >= login[req[q].login].expires
    \/ /\ row[s].state # "none"
       /\ row'[s].login = row[s].login /\ row'[s].by = row[s].by
       /\ row'[s].late = row[s].late /\ row'[s].expires = row[s].expires
       /\ row'[s].seen = row[s].seen \/ ~Ended(s)
       /\ \/ row'[s].state = row[s].state
          \/ row[s].state = "active" /\ row'[s].state \in {"revoked", "expired"}
          \/ row'[s].state = "gone"

\* A request reads its login and user, is their activity, and goes on with
\* what it has read.
ReqStep(q) ==
    \/ req'[q] = req[q]
    \/ req'[q] = Idle
    \/ \E l \in Logins :
          /\ login[l].state = "active" /\ now < login[l].expires
          /\ req'[q].op = "resolved" /\ req'[q].login = l /\ req'[q].at = now
          /\ req'[q].by = Principal(login[l].user)
    \/ /\ req'[q].login = req[q].login /\ req'[q].by = req[q].by
       /\ req'[q].at = req[q].at
       /\ \/ /\ req[q].op = "resolved" /\ req'[q].op = "admitted"
             /\ login'[req[q].login].state = "active" =>
                   login'[req[q].login].seen = req[q].at
          \/ req[q].op = "admitted" /\ req'[q].op = "opening"

\* Whoever changes a user ends the logins, and a deleted user stays deleted.
UserStep(u) ==
    /\ user[u].state = "gone" => user'[u].state = "gone"
    /\ user'[u] = user[u] \/ \A l \in LoginsOf(u) : login'[l].state # "active"

StepFacts ==
    /\ now' = now \/ Tick
    /\ \A l \in Logins : LoginStep(l)
    /\ \A s \in Sessions : RowStep(s)
    /\ \A q \in Requests : ReqStep(q)
    /\ \A u \in Users : UserStep(u)

\* The times a statement may have been given are so recent that what serves
\* by one of them has not ended.
LEMMA ServedIsLive ==
    ASSUME TypeOK, References, NEW s \in Sessions, NEW t \in Past, Serves(s, t)
    PROVE  ~Ended(s)
<1>1. t \in Nat /\ now \in Nat /\ now <= t + MaxDelay
      /\ row[s].expires \in Nat /\ row[s].seen \in Nat
      /\ AccessIdle \in Nat /\ MaxDelay \in Nat
  BY AccessSessionsAssumption DEF Past, TypeOK, SessionRow
<1>2. /\ row[s].state = "active" /\ login[row[s].login].state = "active"
      /\ t < row[s].expires /\ t < row[s].seen + AccessIdle
  BY DEF Serves, LoginServes
<1> QED BY <1>1, <1>2 DEF Ended

LEMMA SeenStep ==
    ASSUME TypeOK, References, NEW s \in Sessions, NEW t \in Past,
           Serves(s, t), Seen(s, t)
    PROVE  /\ \A l \in Logins : LoginStep(l)
           /\ \A x \in Sessions : RowStep(x)
<1>1. ~Ended(s)
  BY ServedIsLive
<1> QED
  BY <1>1 DEF TypeOK, References, Serves, LoginServes, Seen, Rows, Past,
              LoginStep, RowStep, SessionRow, LoginRow

LEMMA RowsEnd ==
    ASSUME TypeOK, References, NEW S, NEW s \in Sessions,
           \/ row' = Ending(S, "revoked") \/ row' = Ending(S, "expired")
           \/ S \subseteq Logins /\ row' = Without(S)
    PROVE  RowStep(s)
<1>1. row[s] \in SessionRow
  BY DEF TypeOK
<1>2. CASE row' = Ending(S, "revoked")
  BY <1>1, <1>2 DEF Ending, RowStep, SessionRow
<1>3. CASE row' = Ending(S, "expired")
  BY <1>1, <1>3 DEF Ending, RowStep, SessionRow
<1>4. CASE S \subseteq Logins /\ row' = Without(S)
  <2>1. row[s].login \in S => row[s].state # "none"
    BY <1>4, AccessSessionsAssumption DEF References
  <2> QED BY <1>1, <1>4, <2>1 DEF Without, RowStep, SessionRow
<1> QED BY <1>2, <1>3, <1>4

LEMMA LoginsEnd ==
    ASSUME TypeOK, References, NEW L \in SUBSET Logins, NEW l \in Logins,
           \/ login' = Revoked(L)
           \/ /\ \A k \in L : login[k].state # "none"
              /\ login' = [k \in Logins |->
                             IF k \in L THEN [login[k] EXCEPT !.state = "gone"]
                             ELSE login[k]]
    PROVE  LoginStep(l)
  BY DEF TypeOK, References, Revoked, LoginStep, LoginRow

LEMMA StepLemma == TypeOK /\ References /\ Clock /\ [Next]_vars => StepFacts
<1> SUFFICES ASSUME TypeOK, References, Clock, [Next]_vars PROVE StepFacts
  OBVIOUS
<1>0. ASSUME login' = login PROVE \A l \in Logins : LoginStep(l)
  BY <1>0 DEF LoginStep
<1>1. ASSUME row' = row PROVE \A s \in Sessions : RowStep(s)
  BY <1>1 DEF RowStep
<1>2. ASSUME req' = req PROVE \A q \in Requests : ReqStep(q)
  BY <1>2 DEF ReqStep
<1>3. ASSUME user' = user PROVE \A u \in Users : UserStep(u)
  BY <1>3 DEF UserStep
<1>4. CASE Tick
  BY <1>4, <1>0, <1>1, <1>2, <1>3 DEF Tick, StepFacts
<1>5. CASE Accounts
  <2>1. ASSUME NEW u \in Users, NEW l \in Logins,
               NEW t \in Past, CreateAuthSession(u, l, t)
        PROVE  StepFacts
    <3>1. \A k \in Logins : LoginStep(k)
      BY <2>1 DEF CreateAuthSession, LoginStep, TypeOK
    <3> QED BY <2>1, <3>1, <1>1, <1>2, <1>3 DEF CreateAuthSession, StepFacts
  <2>2. ASSUME NEW u \in Users, NEW r \in Rights, UpdateUser(u, r)
        PROVE  StepFacts
    <3>1. \A k \in Logins : LoginStep(k)
      BY <2>2, LoginsEnd DEF UpdateUser, LoginsOf
    <3>2. \A v \in Users : UserStep(v)
      BY <2>2 DEF UpdateUser, UserStep, Revoked, LoginsOf, TypeOK, UserRow,
                  LoginRow
    <3> QED BY <2>2, <3>1, <3>2, <1>1, <1>2 DEF UpdateUser, StepFacts
  <2>3. ASSUME NEW u \in Users, DeleteUser(u) PROVE StepFacts
    <3>0. LoginsOf(u) \subseteq Logins
          /\ \A k \in LoginsOf(u) : login[k].state # "none"
      BY AccessSessionsAssumption DEF LoginsOf, References
    <3>1. \A k \in Logins : LoginStep(k)
      BY <2>3, <3>0, LoginsEnd DEF DeleteUser
    <3>2. \A v \in Users : UserStep(v)
      <4>1. user'[u].state = "gone" /\ \A v \in Users \ {u} : user'[v] = user[v]
        BY <2>3 DEF DeleteUser, TypeOK, UserRow
      <4>2. \A k \in LoginsOf(u) : login'[k].state = "gone"
        BY <2>3, <3>0 DEF DeleteUser, TypeOK, LoginRow
      <4> QED BY <4>1, <4>2 DEF UserStep
    <3>3. \A s \in Sessions : RowStep(s)
      BY <2>3, <3>0, RowsEnd DEF DeleteUser, Rows
    <3> QED BY <2>3, <3>1, <3>2, <3>3, <1>2 DEF DeleteUser, StepFacts
  <2>4. ASSUME NEW u \in Users, NEW p \in {"none", "closed", "open"},
               SaveAccessPolicy(u, p)
        PROVE  StepFacts
    BY <2>4, <1>0, <1>1, <1>2, <1>3 DEF SaveAccessPolicy, StepFacts
  <2>5. ASSUME NEW u \in Users, DeleteAccessPolicy(u) \/ PolicyClock(u)
        PROVE  StepFacts
    BY <2>5, <1>0, <1>1, <1>2, <1>3
    DEF DeleteAccessPolicy, PolicyClock, StepFacts
  <2>6. ASSUME NEW l \in Logins, RevokeAuthSession(l) PROVE StepFacts
    <3>1. \A k \in Logins : LoginStep(k)
      BY <2>6, LoginsEnd DEF RevokeAuthSession
    <3> QED BY <2>6, <3>1, <1>1, <1>2, <1>3 DEF RevokeAuthSession, StepFacts
  <2> QED BY <1>5, <2>1, <2>2, <2>3, <2>4, <2>5, <2>6 DEF Accounts
<1>6. CASE Opening
  <2>1. ASSUME NEW q \in Requests, NEW l \in Logins, ResolveAuthSession(q, l)
        PROVE  StepFacts
    <3>1. \A p \in Requests : ReqStep(p)
      BY <2>1 DEF ResolveAuthSession, ReqStep, TypeOK
    <3> QED BY <2>1, <3>1, <1>0, <1>1, <1>3 DEF ResolveAuthSession, StepFacts
  <2>2. ASSUME NEW q \in Requests, TouchAuthSession(q) PROVE StepFacts
    <3> DEFINE l == req[q].login
    <3>0. l \in Logins /\ login[l].state # "none"
      BY <2>2 DEF TouchAuthSession, References, TypeOK, Request
    <3>1. \A p \in Requests : ReqStep(p)
      BY <2>2, <3>0 DEF TouchAuthSession, ReqStep, TypeOK, Request, LoginRow
    <3>2. \A k \in Logins : LoginStep(k)
      BY <2>2, <3>0 DEF TouchAuthSession, LoginStep, TypeOK, LoginRow, Clock
    <3> QED BY <2>2, <3>1, <3>2, <1>1, <1>3 DEF TouchAuthSession, StepFacts
  <2>3. ASSUME NEW q \in Requests, Authorize(q) \/ Refuse(q) PROVE StepFacts
    <3>1. \A p \in Requests : ReqStep(p)
      BY <2>3 DEF Authorize, Refuse, ReqStep, TypeOK, Request
    <3> QED BY <2>3, <3>1, <1>0, <1>1, <1>3 DEF Authorize, Refuse, StepFacts
  <2>4. ASSUME NEW q \in Requests, NEW s \in Sessions,
               NEW t \in Past, CreateAccessSession(q, s, t)
        PROVE  StepFacts
    <3>1. \A p \in Requests : ReqStep(p)
      BY <2>4 DEF CreateAccessSession, ReqStep, TypeOK
    <3>2. \A x \in Sessions : RowStep(x)
      BY <2>4 DEF CreateAccessSession, Rows, RowStep, NewRow, TypeOK
    <3> QED BY <2>4, <3>1, <3>2, <1>0, <1>3 DEF CreateAccessSession, StepFacts
  <2> QED BY <1>6, <2>1, <2>2, <2>3, <2>4 DEF Opening
<1>7. CASE Gateway
  <2> PICK s \in Sessions, t \in Past :
         ExchangeAccessGrant(s, t) \/ ResolveAccessGrant(s, t)
         \/ TouchAccessSession(s, t)
    BY <1>7 DEF Gateway
  <2>1. CASE ExchangeAccessGrant(s, t)
    <3>1. \A x \in Sessions : RowStep(x)
      BY <2>1 DEF ExchangeAccessGrant, Serves, Rows, RowStep, TypeOK, SessionRow
    <3> QED BY <2>1, <3>1, <1>0, <1>2, <1>3 DEF ExchangeAccessGrant, StepFacts
  <2>2. CASE ResolveAccessGrant(s, t)
    <3>1. (\A l \in Logins : LoginStep(l)) /\ (\A x \in Sessions : RowStep(x))
      BY <2>2, <1>0, <1>1, SeenStep DEF ResolveAccessGrant
    <3> QED BY <2>2, <3>1, <1>2, <1>3 DEF ResolveAccessGrant, StepFacts
  <2>3. CASE TouchAccessSession(s, t)
    <3> QED
      BY <2>3, SeenStep, <1>2, <1>3 DEF TouchAccessSession, StepFacts
  <2> QED BY <2>1, <2>2, <2>3
<1>8. CASE Sweep
  <2>1. CASE StartSweep
    BY <2>1, <1>0, <1>1, <1>2, <1>3 DEF StartSweep, StepFacts
  <2>2. CASE ExpireAccessSessions
    BY <2>2, <1>0, <1>2, <1>3, RowsEnd
    DEF ExpireAccessSessions, Rows, StepFacts
  <2>3. CASE CleanupAuthSessions
    <3>1. PICK L \in SUBSET Logins :
             /\ \A k \in L : login[k].state # "none"
             /\ login' = [k \in Logins |->
                            IF k \in L THEN [login[k] EXCEPT !.state = "gone"]
                            ELSE login[k]]
             /\ row' = Without(L)
      BY <2>3 DEF CleanupAuthSessions, Rows
    <3> QED
      BY <2>3, <3>1, <1>2, <1>3, RowsEnd, LoginsEnd
      DEF CleanupAuthSessions, StepFacts
  <2> QED BY <1>8, <2>1, <2>2, <2>3 DEF Sweep
<1>9. CASE DeleteDevice
  BY <1>9, <1>0, <1>2, <1>3, RowsEnd DEF DeleteDevice, StepFacts
<1>10. ASSUME NEW s \in Sessions, RevokeAccessSession(s) PROVE StepFacts
  BY <1>10, <1>0, <1>2, <1>3, RowsEnd DEF RevokeAccessSession, Rows, StepFacts
<1>11. CASE UNCHANGED vars
  BY <1>11, <1>0, <1>1, <1>2, <1>3 DEF vars, StepFacts
<1> QED
  BY <1>4, <1>5, <1>6, <1>7, <1>8, <1>9, <1>10, <1>11 DEF Next

-----------------------------------------------------------------------------
(* Every step keeps the invariant. *)

\* What the steps have in common: who refers to whom.
LEMMA Kept ==
    ASSUME TypeOK, References, StepFacts
    PROVE  /\ \A l \in Logins : login[l].state # "none" =>
                 /\ login'[l].state # "none" /\ login'[l].user = login[l].user
                 /\ login'[l].user \in Users
                 /\ login'[l].expires = login[l].expires
                 /\ login'[l].state = "active" => login[l].state = "active"
           /\ \A s \in Sessions : row[s].state # "none" =>
                 /\ row[s].login \in Logins
                 /\ login[row[s].login].state # "none"
                 /\ row'[s].login = row[s].login /\ row'[s].by = row[s].by
                 /\ row'[s].late = row[s].late /\ row'[s].state # "none"
                 /\ row'[s].state = "active" => row[s].state = "active"
           /\ \A q \in Requests : req[q].op # "idle" =>
                 /\ req[q].login \in Logins
                 /\ login[req[q].login].state # "none"
<1>1. ASSUME NEW l \in Logins, login[l].state # "none"
      PROVE  /\ login'[l].state # "none" /\ login'[l].user = login[l].user
             /\ login'[l].user \in Users
             /\ login'[l].expires = login[l].expires
             /\ login'[l].state = "active" => login[l].state = "active"
  BY <1>1 DEF StepFacts, LoginStep, References, TypeOK, LoginRow
<1>2. ASSUME NEW s \in Sessions, row[s].state # "none"
      PROVE  /\ row[s].login \in Logins
             /\ login[row[s].login].state # "none"
             /\ row'[s].login = row[s].login /\ row'[s].by = row[s].by
             /\ row'[s].late = row[s].late /\ row'[s].state # "none"
             /\ row'[s].state = "active" => row[s].state = "active"
  BY <1>2 DEF StepFacts, RowStep, References, TypeOK, SessionRow
<1>3. ASSUME NEW q \in Requests, req[q].op # "idle"
      PROVE  req[q].login \in Logins /\ login[req[q].login].state # "none"
  BY <1>3 DEF References, TypeOK, Request
<1> QED BY <1>1, <1>2, <1>3

\* A row that this step writes.
LEMMA NewRows ==
    ASSUME TypeOK, References, StepFacts,
           NEW s \in Sessions, row[s].state = "none", row'[s].state # "none"
    PROVE  \E q \in Requests :
              /\ req[q].op = "opening" /\ req[q].login \in Logins
              /\ row'[s].login = req[q].login /\ row'[s].by = req[q].by
              /\ row'[s].state = "active"
              /\ row'[s].late <=> \/ login[req[q].login].state # "active"
                                 \/ now >= login[req[q].login].expires
  BY Kept DEF StepFacts, RowStep

LEMMA ReferencesStep ==
    TypeOK /\ References /\ StepFacts => References'
<1> SUFFICES ASSUME TypeOK, References, StepFacts PROVE References'
  OBVIOUS
<1>1. ASSUME NEW l \in Logins
      PROVE  login'[l].state = "none" <=> login'[l].user = Null
  BY AccessSessionsAssumption DEF StepFacts, LoginStep, References, TypeOK,
     LoginRow
<1>2. ASSUME NEW s \in Sessions
      PROVE  /\ row'[s].state = "none" <=> row'[s].login = Null
             /\ row'[s].state # "none" => login'[row'[s].login].state # "none"
  <2>1. CASE row[s].state # "none"
    BY <2>1, Kept, AccessSessionsAssumption DEF References
  <2>2. CASE row[s].state = "none" /\ row'[s].state # "none"
    BY <2>2, NewRows, Kept, AccessSessionsAssumption
  <2>3. CASE row[s].state = "none" /\ row'[s].state = "none"
    BY <2>3 DEF StepFacts, RowStep, References
  <2> QED BY <2>1, <2>2, <2>3
<1>3. ASSUME NEW q \in Requests
      PROVE  /\ req'[q].op = "idle" <=> req'[q].login = Null
             /\ req'[q].op # "idle" => login'[req'[q].login].state # "none"
  BY Kept, AccessSessionsAssumption
  DEF StepFacts, ReqStep, References, Idle, TypeOK, Request
<1> QED BY <1>1, <1>2, <1>3 DEF References

LEMMA UnusedStep == References /\ Unused /\ StepFacts => Unused'
  BY DEF References, Unused, StepFacts, RowStep

LEMMA ClockStep ==
    TypeOK /\ References /\ Clock /\ StepFacts /\ [Next]_vars => Clock'
<1> SUFFICES ASSUME TypeOK, References, Clock, StepFacts, [Next]_vars
             PROVE  Clock'
  OBVIOUS
<1> USE AccessSessionsAssumption
<1>1. ASSUME NEW q \in Requests, req'[q].op # "idle"
      PROVE  req'[q].at <= now' /\ now' <= req'[q].at + MaxDelay
  <2>1. CASE Tick
    BY <1>1, <2>1 DEF Tick, Clock, TypeOK, Request, Idle
  <2>2. CASE now' = now
    BY <1>1, <2>2 DEF StepFacts, ReqStep, Clock, TypeOK, Request, Idle
  <2> QED BY <2>1, <2>2 DEF StepFacts
<1>2. sweep' = sweep \/ sweep'.at = sweep.at \/ sweep'.at = now
      \/ sweep'.at = 0
  <2>1. CASE Sweep
    BY <2>1 DEF Sweep, StartSweep, ExpireAccessSessions, CleanupAuthSessions,
                NoSweep, TypeOK
  <2>2. CASE ~Sweep
    BY <2>2 DEF Next, vars, Tick, Accounts, CreateAuthSession, UpdateUser,
       DeleteUser, SaveAccessPolicy, DeleteAccessPolicy, PolicyClock,
       RevokeAuthSession, Opening, ResolveAuthSession, TouchAuthSession,
       Authorize, Refuse, CreateAccessSession, Gateway, ExchangeAccessGrant,
       ResolveAccessGrant, TouchAccessSession, DeleteDevice,
       RevokeAccessSession
  <2> QED BY <2>1, <2>2
<1>3. now <= now'
  BY DEF StepFacts, Tick, TypeOK
<1>4. sweep'.at <= now'
  BY <1>2, <1>3 DEF Clock, TypeOK, StepFacts, Tick
<1> QED BY <1>1, <1>4 DEF Clock

LEMMA FreshStep ==
    TypeOK /\ TypeOK' /\ References /\ Clock /\ Fresh /\ StepFacts => Fresh'
<1> SUFFICES ASSUME TypeOK, TypeOK', References, Clock, Fresh, StepFacts,
                    NEW q \in Requests,
                    req'[q].op \in {"admitted", "opening"},
                    login'[req'[q].login].state = "active"
             PROVE  req'[q].at <= login'[req'[q].login].seen + MaxDelay
  BY DEF Fresh
<1> USE AccessSessionsAssumption
<1> DEFINE l == req[q].login
<1>1. /\ req[q].op # "idle" /\ req'[q].login = l /\ req'[q].at = req[q].at
      /\ \/ req[q].op \in {"admitted", "opening"}
         \/ login'[l].seen = req[q].at
  BY DEF StepFacts, ReqStep, Idle, TypeOK, Request
<1>2. /\ l \in Logins /\ login[l].state = "active" /\ req[q].at <= now
      /\ req[q].at \in Nat /\ login[l].seen \in Nat
  BY <1>1, Kept DEF Clock, TypeOK, Request, LoginRow
<1>3. CASE login'[l].seen = req[q].at
  BY <1>1, <1>2, <1>3
<1>4. CASE req[q].op \in {"admitted", "opening"}
  <2>1. login'[l].seen \in Nat
    BY <1>2 DEF TypeOK, LoginRow
  <2> QED BY <1>1, <1>2, <1>4, <2>1 DEF StepFacts, LoginStep, Fresh, TypeOK
<1> QED BY <1>1, <1>3, <1>4

\* A login that is active after the step was so before, or is new, and the
\* step did not change its user.
LEMMA UserStays ==
    ASSUME TypeOK, References, StepFacts, NEW l \in Logins,
           login[l].state # "none", login'[l].state = "active"
    PROVE  login[l].state = "active" /\ UserOf(l) = user'[login'[l].user]
<1>1. login[l].state = "active" /\ login'[l].user = login[l].user
      /\ login[l].user \in Users
  BY Kept
<1> QED BY <1>1 DEF StepFacts, UserStep, LoginsOf, UserOf

LEMMA CurrentStep ==
    TypeOK /\ References /\ Current /\ StepFacts => Current'
<1> SUFFICES ASSUME TypeOK, References, Current, StepFacts PROVE Current'
  OBVIOUS
<1>1. ASSUME NEW q \in Requests, req'[q].op # "idle",
             login'[req'[q].login].state = "active"
      PROVE  Agrees(user'[login'[req'[q].login].user], req'[q].by)
  <2>1. CASE req'[q].login = req[q].login /\ req'[q].by = req[q].by
             /\ req[q].op # "idle"
    BY <1>1, <2>1, Kept, UserStays DEF Current
  <2>2. CASE \E l \in Logins : /\ login[l].state = "active"
                               /\ req'[q].login = l
                               /\ req'[q].by = Principal(login[l].user)
    <3> PICK l \in Logins : /\ login[l].state = "active"
                            /\ req'[q].login = l
                            /\ req'[q].by = Principal(login[l].user)
      BY <2>2
    <3>1. login[l].user \in Users
      BY Kept
    <3>2. Agrees(UserOf(l), Principal(login[l].user))
      BY <3>1 DEF Agrees, Principal, TypeOK, UserRow, UserOf
    <3> QED BY <1>1, <3>2, UserStays
  <2> QED BY <1>1, <2>1, <2>2 DEF StepFacts, ReqStep, Idle
<1>2. ASSUME NEW s \in Sessions, row'[s].state = "active",
             login'[row'[s].login].state = "active"
      PROVE  Agrees(user'[login'[row'[s].login].user], row'[s].by)
  <2>1. CASE row[s].state # "none"
    BY <1>2, <2>1, Kept, UserStays DEF Current
  <2>2. CASE row[s].state = "none"
    <3> PICK q \in Requests :
               /\ req[q].op = "opening"
               /\ row'[s].login = req[q].login /\ row'[s].by = req[q].by
      BY <1>2, <2>2, NewRows
    <3> QED BY <1>2, Kept, UserStays DEF Current
  <2> QED BY <2>1, <2>2
<1> QED BY <1>1, <1>2 DEF Current, UserOf

\* A statement that writes rows writes their log.
LEMMA LogStep ==
    ASSUME TypeOK, StepFacts, [Next]_vars, ~DeleteDevice, NEW s \in Sessions
    PROVE  \/ log'[s] = (IF row'[s].state \in {"none", "gone"}
                         THEN log[s] ELSE row'[s].state)
           \/ (row' = row /\ log' = log)
<1> DEFINE Follows == \/ log' = Logged(row')
                      \/ (row' = row /\ log' = log)
<1>1. ASSUME NEW u \in Users, DeleteUser(u) PROVE Follows
  BY <1>1 DEF DeleteUser, Rows
<1>2. ASSUME NEW q \in Requests, NEW x \in Sessions,
               NEW t \in Past, CreateAccessSession(q, x, t)
      PROVE  Follows
  BY <1>2 DEF CreateAccessSession, Rows
<1>3. ASSUME NEW x \in Sessions, NEW t \in Past,
             ExchangeAccessGrant(x, t) \/ ResolveAccessGrant(x, t)
             \/ TouchAccessSession(x, t)
      PROVE  Follows
  BY <1>3 DEF ExchangeAccessGrant, ResolveAccessGrant, TouchAccessSession,
              Seen, Rows
<1>4. ASSUME Sweep PROVE Follows
  <2>1. CASE StartSweep
    BY <2>1 DEF StartSweep
  <2>2. CASE ExpireAccessSessions
    BY <2>2 DEF ExpireAccessSessions, Rows
  <2>3. CASE CleanupAuthSessions
    <3> DEFINE L == {l \in Logins :
                       /\ login[l].state \in {"active", "revoked"}
                       /\ \/ login[l].expires <= sweep.at
                          \/ /\ login[l].state = "revoked"
                             /\ login[l].seen + Retention <= sweep.at}
    <3>1. row' = Without(L) /\ log' = Logged(Without(L))
      BY <2>3 DEF CleanupAuthSessions, Rows
    <3> QED BY <3>1
  <2> QED BY <1>4, <2>1, <2>2, <2>3 DEF Sweep
<1>5. ASSUME NEW x \in Sessions, RevokeAccessSession(x) PROVE Follows
  BY <1>5 DEF RevokeAccessSession, Rows
<1>6. ASSUME Accounts PROVE Follows
  BY <1>1, <1>6
  DEF Accounts, CreateAuthSession, UpdateUser, SaveAccessPolicy,
      DeleteAccessPolicy, PolicyClock, RevokeAuthSession
<1>7. ASSUME Opening PROVE Follows
  BY <1>2, <1>7
  DEF Opening, ResolveAuthSession, TouchAuthSession, Authorize, Refuse
<1>8. ASSUME Tick \/ UNCHANGED vars PROVE Follows
  BY <1>8 DEF Tick, vars
<1>9. Follows
  BY <1>3, <1>4, <1>5, <1>6, <1>7, <1>8 DEF Next, Gateway
<1> QED BY <1>9 DEF Logged

\* The deletion of the device revokes and deletes in one transaction.
LEMMA DeviceStep ==
    ASSUME TypeOK, References, DeleteDevice, NEW s \in Sessions
    PROVE  /\ row[s].state = "none" => row'[s] = row[s]
           /\ row[s].state # "none" => row'[s].state = "gone"
           /\ log'[s] = IF row[s].state \in {"none", "gone"} THEN log[s]
                        ELSE IF row[s].state = "active" THEN "revoked"
                        ELSE row[s].state
<1>1. row[s] \in SessionRow /\ (row[s].login \in Logins <=> row[s].state # "none")
  BY AccessSessionsAssumption DEF TypeOK, References, SessionRow
<1> QED BY <1>1 DEF DeleteDevice, Logged, Ending, Without, SessionRow

LEMMA LogFollowsStep ==
    ASSUME TypeOK, References, LogFollows, StepFacts, [Next]_vars
    PROVE  LogFollows'
<1> SUFFICES ASSUME NEW s \in Sessions
             PROVE  /\ row'[s].state \notin {"none", "gone"} =>
                          log'[s] = row'[s].state
                    /\ row'[s].state = "none" => log'[s] = "none"
  BY DEF LogFollows
<1>1. row'[s].state = "none" => row[s].state = "none"
  BY Kept
<1>2. CASE DeleteDevice
  BY <1>1, <1>2, DeviceStep DEF LogFollows
<1>3. CASE ~DeleteDevice
  BY <1>1, <1>3, LogStep DEF LogFollows
<1> QED BY <1>2, <1>3

LEMMA SweepStep ==
    ASSUME TypeOK, [Next]_vars
    PROVE  \/ sweep' = sweep
           \/ ExpireAccessSessions
           \/ sweep'.stage # "cleanup"
<1>1. CASE Sweep
  BY <1>1 DEF Sweep, StartSweep, CleanupAuthSessions, NoSweep
<1>2. CASE Accounts \/ Opening
  BY <1>2
  DEF Accounts, CreateAuthSession, UpdateUser, DeleteUser, SaveAccessPolicy,
      DeleteAccessPolicy, PolicyClock, RevokeAuthSession, Opening,
      ResolveAuthSession, TouchAuthSession, Authorize, Refuse,
      CreateAccessSession
<1>3. CASE Gateway
  BY <1>3 DEF Gateway, ExchangeAccessGrant, ResolveAccessGrant,
              TouchAccessSession
<1> QED
  BY <1>1, <1>2, <1>3 DEF Next, vars, Tick, DeleteDevice, RevokeAccessSession

\* A login that a row refers to does not fall behind the sweep.
LEMMA SweptFirstStep ==
    ASSUME TypeOK, TypeOK', References, Clock, Fresh, SweptFirst, StepFacts,
           [Next]_vars
    PROVE  SweptFirst'
<1> SUFFICES ASSUME sweep'.stage = "cleanup", NEW s \in Sessions,
                    row'[s].state = "active", ~row'[s].late
             PROVE  /\ sweep'.at < login'[row'[s].login].expires
                    /\ sweep'.at < login'[row'[s].login].seen + Retention
  BY DEF SweptFirst
<1> USE AccessSessionsAssumption
<1> DEFINE l == row'[s].login
<1>1. CASE ExpireAccessSessions
  <2>1. row[s].state = "active" /\ row'[s].login = row[s].login
        /\ sweep'.at = sweep.at /\ login' = login
        /\ Serves(s, sweep.at)
    BY <1>1 DEF ExpireAccessSessions, Rows, Ending, TypeOK, SessionRow
  <2>2. /\ l \in Logins /\ login[l].seen \in Nat
        /\ login[l].expires \in Nat /\ sweep.at \in Nat
    BY <2>1 DEF References, TypeOK, SessionRow, LoginRow
  <2> QED BY <2>1, <2>2 DEF Serves, LoginServes
<1>2. CASE sweep' = sweep
  <2>1. CASE row[s].state # "none"
    <3>1. /\ l = row[s].login /\ l \in Logins /\ login[l].state # "none"
          /\ sweep.at < login[l].expires
          /\ sweep.at < login[l].seen + Retention
      BY <1>2, <2>1, Kept DEF SweptFirst
    <3>2. /\ login'[l].seen \in Nat /\ sweep.at \in Nat /\ now \in Nat
          /\ sweep.at <= now
      BY <3>1 DEF Clock, TypeOK, LoginRow
    <3> QED BY <1>2, <3>1, <3>2 DEF StepFacts, LoginStep
  <2>2. CASE row[s].state = "none"
    <3> PICK q \in Requests :
               /\ req[q].op = "opening" /\ req[q].login \in Logins
               /\ l = req[q].login /\ login[l].state = "active"
               /\ ~(now >= login[l].expires)
      BY <2>2, NewRows
    <3>1. /\ login[l].seen \in Nat /\ login'[l].seen \in Nat /\ now \in Nat
          /\ login[l].expires \in Nat /\ req[q].at \in Nat /\ sweep.at \in Nat
      BY DEF TypeOK, LoginRow, Request
    <3>2. /\ sweep.at <= now /\ now <= req[q].at + MaxDelay
          /\ req[q].at <= login[l].seen + MaxDelay
      BY DEF Clock, Fresh
    <3> QED BY <1>2, <3>1, <3>2 DEF StepFacts, LoginStep
  <2> QED BY <2>1, <2>2
<1> QED BY <1>1, <1>2, SweepStep

\* Who deletes a row.
LEMMA GoneStep ==
    ASSUME TypeOK, References, [Next]_vars, NEW s \in Sessions,
           row[s].state \notin {"none", "gone"}, row'[s].state = "gone"
    PROVE  \/ DeleteDevice
           \/ \E u \in Users : DeleteUser(u) /\ row[s].login \in LoginsOf(u)
           \/ /\ CleanupAuthSessions
              /\ LET l == login[row[s].login] IN
                 \/ l.expires <= sweep.at
                 \/ l.seen + Retention <= sweep.at
<1>0. row[s] \in SessionRow
  BY DEF TypeOK
<1>1. CASE Tick \/ UNCHANGED vars
  BY <1>1 DEF Tick, vars
<1>2. CASE Accounts
  BY <1>0, <1>2
  DEF Accounts, CreateAuthSession, UpdateUser, DeleteUser, SaveAccessPolicy,
      DeleteAccessPolicy, PolicyClock, RevokeAuthSession, Rows, Without
<1>3. CASE Opening
  <2>1. ASSUME NEW q \in Requests, NEW x \in Sessions,
               NEW t \in Past, CreateAccessSession(q, x, t)
        PROVE  row'[s].state # "gone" \/ row'[s] = row[s]
    BY <2>1 DEF CreateAccessSession, Rows, NewRow, TypeOK
  <2>2. CASE row' = row
    BY <2>2
  <2> QED BY <1>3, <2>1, <2>2
    DEF Opening, ResolveAuthSession, TouchAuthSession, Authorize, Refuse
<1>4. CASE Gateway
  BY <1>0, <1>4
  DEF Gateway, ExchangeAccessGrant, ResolveAccessGrant, TouchAccessSession,
      Seen, Rows, TypeOK, SessionRow
<1>5. CASE StartSweep
  BY <1>5 DEF StartSweep
<1>6. CASE ExpireAccessSessions
  BY <1>0, <1>6 DEF ExpireAccessSessions, Rows, Ending, SessionRow
<1>7. CASE CleanupAuthSessions
  BY <1>0, <1>7 DEF CleanupAuthSessions, Rows, Without
<1>8. ASSUME NEW x \in Sessions, RevokeAccessSession(x)
      PROVE  row'[s].state # "gone"
  BY <1>0, <1>8 DEF RevokeAccessSession, Rows, Ending, SessionRow
<1> QED
  BY <1>1, <1>2, <1>3, <1>4, <1>5, <1>6, <1>7, <1>8 DEF Next, Sweep

LEMMA OpenLogStep ==
    ASSUME TypeOK, References, LogFollows, SweptFirst, OpenLogIsExplained,
           StepFacts, [Next]_vars
    PROVE  OpenLogIsExplained'
<1> SUFFICES ASSUME NEW s \in Sessions, log'[s] = "active",
                    row'[s].state = "gone"
             PROVE  \/ row'[s].late
                    \/ user'[login'[row'[s].login].user].state = "gone"
  BY DEF OpenLogIsExplained
<1>1. row[s].state # "none"
  BY NewRows
<1> DEFINE l == row[s].login
<1>2. /\ row'[s].late = row[s].late /\ row'[s].login = l /\ l \in Logins
      /\ login'[l].user = login[l].user /\ login'[l].user \in Users
  BY <1>1, Kept
<1>3. CASE row[s].state = "gone"
  <2>1. log[s] = "active"
    BY <1>3, DeviceStep, LogStep
  <2> QED BY <1>2, <1>3, <2>1 DEF OpenLogIsExplained, StepFacts, UserStep
<1>4. CASE row[s].state # "gone"
  <2>1. row[s].state = "active" /\ ~DeleteDevice
    BY <1>1, <1>4, DeviceStep, LogStep DEF LogFollows
  <2>2. ASSUME NEW u \in Users, DeleteUser(u), l \in LoginsOf(u)
        PROVE  user'[login'[l].user].state = "gone"
    BY <1>2, <2>2 DEF DeleteUser, LoginsOf, TypeOK, UserRow
  <2>3. CASE /\ CleanupAuthSessions
             /\ \/ login[l].expires <= sweep.at
                \/ login[l].seen + Retention <= sweep.at
    <3>1. sweep.stage = "cleanup"
      BY <2>3 DEF CleanupAuthSessions
    <3>2. /\ login[l].expires \in Nat /\ login[l].seen \in Nat
          /\ sweep.at \in Nat /\ Retention \in Nat
      BY <1>2, AccessSessionsAssumption DEF TypeOK, LoginRow
    <3> QED BY <1>2, <2>1, <2>3, <3>1, <3>2 DEF SweptFirst
  <2> QED BY <1>1, <1>2, <1>4, <2>1, <2>2, <2>3, GoneStep
<1> QED BY <1>3, <1>4

-----------------------------------------------------------------------------
(* A session has one life. *)

LEMMA PhaseType ==
    /\ phase \in [Sessions -> {"none", "live", "ended"}]
    /\ \A s \in Sessions : phase[s] = Phase(s)
    /\ grant \in [Sessions -> {"held", "used"}]
  BY DEF phase, grant, Phase

LEMMA PhaseTypeNext ==
    /\ phase' \in [Sessions -> {"none", "live", "ended"}]
    /\ \A s \in Sessions :
          /\ phase'[s] = "none" <=> row'[s].state = "none"
          /\ phase'[s] = "live" <=>
                /\ row'[s].state = "active"
                /\ login'[row'[s].login].state = "active"
                /\ ~(now' >= row'[s].expires + MaxDelay)
                /\ ~(now' >= row'[s].seen + AccessIdle + MaxDelay)
    /\ grant' = [s \in Sessions |->
                    IF row'[s].exchanged THEN "used" ELSE "held"]
  BY DEF phase, grant, Phase, Ended

\* What has ended has ended for good.
LEMMA EndedStays ==
    ASSUME TypeOK, TypeOK', References, StepFacts, NEW s \in Sessions,
           phase[s] = "ended"
    PROVE  phase'[s] = "ended"
<1>1. row[s].state # "none" /\ Ended(s)
  BY PhaseType DEF Phase
<1>2. /\ row'[s].login = row[s].login /\ row'[s].state # "none"
      /\ row'[s].state = "active" => row[s].state = "active"
      /\ login'[row[s].login].state = "active" =>
            login[row[s].login].state = "active"
  BY <1>1, Kept
<1>3. row'[s].expires = row[s].expires /\ row'[s].seen = row[s].seen
  BY <1>1 DEF StepFacts, RowStep
<1>4. /\ now \in Nat /\ now' \in Nat /\ now <= now' /\ row[s].seen \in Nat
      /\ row[s].expires \in Nat /\ AccessIdle \in Nat /\ MaxDelay \in Nat
  BY AccessSessionsAssumption DEF StepFacts, Tick, TypeOK, SessionRow
<1>5. phase'[s] # "live"
  BY <1>1, <1>2, <1>3, <1>4, PhaseTypeNext DEF Ended
<1> QED BY <1>2, <1>5, PhaseTypeNext

\* A step that opens, exchanges and serves nothing ends some sessions.
LEMMA QuietStep ==
    ASSUME TypeOK, TypeOK', References, StepFacts, page' = page,
           \A s \in Sessions : row'[s].exchanged = row[s].exchanged,
           \A s \in Sessions : row[s].state = "none" => row'[s].state = "none"
    PROVE  Life!Next
<1> DEFINE S == {s \in Sessions : phase[s] = "live" /\ phase'[s] = "ended"}
<1>1. \A s \in Sessions : phase[s] = "none" <=> row[s].state = "none"
  BY PhaseType DEF Phase
<1>2. ASSUME NEW s \in Sessions
      PROVE  phase'[s] = IF s \in S THEN "ended" ELSE phase[s]
  <2>1. CASE phase[s] = "none"
    BY <1>1, <2>1, PhaseTypeNext
  <2>2. CASE phase[s] = "ended"
    BY <2>2, EndedStays
  <2>3. CASE phase[s] = "live"
    BY <1>1, <2>3, Kept, PhaseTypeNext
  <2> QED BY <2>1, <2>2, <2>3, PhaseType
<1>3. phase' = [s \in Sessions |-> IF s \in S THEN "ended" ELSE phase[s]]
  BY <1>2, PhaseTypeNext
<1>4. grant' = grant
  BY PhaseTypeNext DEF grant
<1>5. S \in SUBSET Sessions /\ \A s \in S : phase[s] = "live"
  OBVIOUS
<1> QED BY <1>3, <1>4, <1>5 DEF Life!Next, Life!End

LEMMA OpenStep ==
    ASSUME TypeOK, Unused, NEW q \in Requests, NEW s \in Sessions,
           NEW t \in Past, CreateAccessSession(q, s, t)
    PROVE  Life!Next
<1>1. /\ row[s].state = "none" /\ row'[s].state # "none"
      /\ row'[s].exchanged = FALSE /\ page' = page
      /\ \A x \in Sessions \ {s} : row'[x] = row[x]
  BY DEF CreateAccessSession, Rows, NewRow, TypeOK
<1>2. phase[s] = "none" /\ phase'[s] \in {"live", "ended"}
  BY <1>1, PhaseType, PhaseTypeNext DEF Phase
<1>3. \A x \in Sessions \ {s} : phase'[x] = phase[x]
  BY <1>1 DEF phase, Phase, Ended, CreateAccessSession
<1>4. phase' = [phase EXCEPT ![s] = phase'[s]]
  BY <1>3, PhaseType, PhaseTypeNext
<1>5. grant' = grant
  <2>1. \A x \in Sessions : row'[x].exchanged <=> row[x].exchanged
    BY <1>1 DEF Unused
  <2> QED BY <2>1, PhaseTypeNext DEF grant
<1> QED BY <1>1, <1>2, <1>4, <1>5 DEF Life!Next, Life!Open

\* What a grant or a connection does to a session.
LEMMA SameLife ==
    ASSUME TypeOK, TypeOK', References, StepFacts, NEW s \in Sessions,
           NEW t \in Past, Serves(s, t), now' = now, AccessIdle > 0,
           \A x \in Sessions \ {s} : row'[x] = row[x],
           \A l \in Logins : login'[l].state = login[l].state,
           row'[s].state = "active", row'[s].login = row[s].login,
           row'[s].expires = row[s].expires,
           row'[s].seen \in {row[s].seen, t}
    PROVE  phase[s] = "live" /\ phase' = phase
<1>1. ~Ended(s) /\ row[s].state = "active" /\ row[s].login \in Logins
  BY ServedIsLive, Kept DEF Serves
<1>2. phase[s] = "live"
  BY <1>1, PhaseType DEF Phase
<1>3. t \in Nat /\ now \in Nat /\ now <= t + MaxDelay
      /\ AccessIdle \in Nat /\ MaxDelay \in Nat
  BY AccessSessionsAssumption DEF Past, TypeOK
<1>4. phase'[s] = "live"
  BY <1>1, <1>3, PhaseTypeNext DEF Ended
<1>5. ASSUME NEW x \in Sessions \ {s} PROVE phase'[x] = phase[x]
  <2>1. row'[x] = row[x] /\ (row[x].state # "none" => row[x].login \in Logins)
    BY Kept
  <2> QED BY <2>1, PhaseType, PhaseTypeNext DEF Phase, Ended
<1> QED BY <1>2, <1>4, <1>5, PhaseType, PhaseTypeNext

LEMMA ExchangeStep ==
    ASSUME TypeOK, TypeOK', References, StepFacts, NEW s \in Sessions,
           NEW t \in Past, ExchangeAccessGrant(s, t)
    PROVE  Life!Next
<1>1. /\ Serves(s, t) /\ ~row[s].exchanged /\ page' = page /\ now' = now
      /\ login' = login
      /\ row' = [row EXCEPT ![s].exchanged = TRUE]
  BY DEF ExchangeAccessGrant, Rows
<1>2. /\ \A x \in Sessions \ {s} : row'[x] = row[x]
      /\ row'[s].state = row[s].state /\ row'[s].login = row[s].login
      /\ row'[s].expires = row[s].expires /\ row'[s].seen = row[s].seen
      /\ row'[s].exchanged = TRUE
  BY <1>1 DEF TypeOK, SessionRow
<1>3. row[s].state = "active" /\ AccessIdle > 0
  BY <1>1, AccessSessionsAssumption DEF Serves
<1>4. phase[s] = "live" /\ phase' = phase
  BY <1>1, <1>2, <1>3, SameLife
<1>5. grant[s] = "held" /\ grant' = [grant EXCEPT ![s] = "used"]
  <2>1. \A x \in Sessions : grant'[x] = IF x = s THEN "used" ELSE grant[x]
    BY <1>2 DEF grant
  <2> QED BY <1>1, <2>1, PhaseTypeNext DEF grant
<1> QED BY <1>1, <1>4, <1>5 DEF Life!Next, Life!Exchange

LEMMA SeenKeepsLife ==
    ASSUME TypeOK, TypeOK', References, StepFacts, NEW s \in Sessions,
           NEW t \in Past, Serves(s, t), now' = now,
           Seen(s, t) \/ UNCHANGED <<row, log, login>>
    PROVE  phase[s] = "live" /\ phase' = phase /\ grant' = grant
<1>1. row[s].login \in Logins /\ row[s].state = "active" /\ AccessIdle > 0
  BY Kept, AccessSessionsAssumption DEF Serves
<1>2. /\ \A x \in Sessions \ {s} : row'[x] = row[x]
      /\ row'[s].state = row[s].state /\ row'[s].login = row[s].login
      /\ row'[s].expires = row[s].expires /\ row'[s].seen \in {row[s].seen, t}
      /\ row'[s].exchanged = row[s].exchanged
  BY DEF Seen, Rows, TypeOK, SessionRow
<1>3. \A l \in Logins : login'[l].state = login[l].state
  BY DEF Seen, TypeOK, LoginRow
<1>4. phase[s] = "live" /\ phase' = phase
  BY <1>1, <1>2, <1>3, SameLife
<1>5. grant' = grant
  BY <1>2, PhaseTypeNext DEF grant
<1> QED BY <1>4, <1>5

LEMMA ServeStep ==
    ASSUME TypeOK, TypeOK', References, StepFacts, NEW s \in Sessions,
           NEW t \in Past, ResolveAccessGrant(s, t)
    PROVE  Life!Next
<1>1. /\ Serves(s, t) /\ row[s].exchanged /\ page' = [page EXCEPT ![s] = ~@]
      /\ now' = now /\ (Seen(s, t) \/ UNCHANGED <<row, log, login>>)
  BY DEF ResolveAccessGrant
<1>2. phase[s] = "live" /\ phase' = phase /\ grant' = grant
  BY <1>1, SeenKeepsLife
<1>3. grant[s] = "used"
  BY <1>1 DEF grant
<1> QED BY <1>1, <1>2, <1>3 DEF Life!Next, Life!Serve

LEMMA Frame ==
    ASSUME UNCHANGED <<now, row, login, page>>
    PROVE  phase' = phase /\ grant' = grant /\ page' = page
  BY DEF phase, grant, Phase, Ended

\* Statements that end rows leave the grants as they are.
LEMMA EndKeepsGrants ==
    ASSUME TypeOK, References, NEW S, NEW s \in Sessions,
           \/ row' = Ending(S, "revoked") \/ row' = Ending(S, "expired")
           \/ S \subseteq Logins /\ row' = Without(S)
    PROVE  /\ row'[s].exchanged = row[s].exchanged
           /\ row[s].state = "none" => row'[s].state = "none"
<1>1. row[s] \in SessionRow
  BY DEF TypeOK
<1>2. CASE row' = Ending(S, "revoked") \/ row' = Ending(S, "expired")
  BY <1>1, <1>2 DEF Ending, SessionRow
<1>3. CASE S \subseteq Logins /\ row' = Without(S)
  BY <1>1, <1>3, AccessSessionsAssumption DEF Without, References, SessionRow
<1> QED BY <1>2, <1>3

LEMMA LifeStep == IInv /\ [Next]_vars => [Life!Next]_(Life!vars)
<1> SUFFICES ASSUME IInv, [Next]_vars
             PROVE  Life!Next \/ UNCHANGED <<phase, grant, page>>
  BY DEF Life!vars
<1>0. TypeOK /\ TypeOK' /\ References /\ Unused /\ StepFacts
  BY TypeStep, StepLemma DEF IInv
<1> DEFINE Quiet == /\ page' = page
                    /\ \A s \in Sessions :
                          /\ row'[s].exchanged = row[s].exchanged
                          /\ row[s].state = "none" => row'[s].state = "none"
<1>1. ASSUME Quiet PROVE Life!Next
  BY <1>0, <1>1, QuietStep
<1>2. CASE Tick
  BY <1>1, <1>2 DEF Tick
<1>3. CASE Accounts
  <2>1. ASSUME NEW u \in Users, DeleteUser(u) PROVE Quiet
    <3>1. LoginsOf(u) \subseteq Logins
      BY DEF LoginsOf
    <3> QED BY <1>0, <2>1, <3>1, EndKeepsGrants DEF DeleteUser, Rows
  <2>2. CASE ~\E u \in Users : DeleteUser(u)
    BY <1>1, <1>3, <2>2
    DEF Accounts, CreateAuthSession, UpdateUser, SaveAccessPolicy,
        DeleteAccessPolicy, PolicyClock, RevokeAuthSession
  <2> QED BY <1>1, <2>1, <2>2
<1>4. CASE Opening
  <2>1. ASSUME NEW q \in Requests, NEW s \in Sessions,
               NEW t \in Past, CreateAccessSession(q, s, t)
        PROVE  Life!Next
    BY <1>0, <2>1, OpenStep
  <2>2. CASE ~\E q \in Requests, s \in Sessions, t \in Past :
                  CreateAccessSession(q, s, t)
    BY <1>1, <1>4, <2>2
    DEF Opening, ResolveAuthSession, TouchAuthSession, Authorize, Refuse
  <2> QED BY <2>1, <2>2
<1>5. CASE Gateway
  <2> PICK s \in Sessions, t \in Past :
         ExchangeAccessGrant(s, t) \/ ResolveAccessGrant(s, t)
         \/ TouchAccessSession(s, t)
    BY <1>5 DEF Gateway
  <2>1. CASE TouchAccessSession(s, t)
    BY <1>0, <2>1, SeenKeepsLife DEF TouchAccessSession
  <2> QED BY <1>0, <2>1, ExchangeStep, ServeStep
<1>6. CASE Sweep
  <2>1. CASE StartSweep
    BY <2>1, Frame DEF StartSweep
  <2>2. CASE ExpireAccessSessions
    BY <1>0, <1>1, <2>2, EndKeepsGrants DEF ExpireAccessSessions, Rows
  <2>3. CASE CleanupAuthSessions
    <3>1. \E L \in SUBSET Logins : row' = Without(L)
      BY <2>3 DEF CleanupAuthSessions, Rows
    <3> QED BY <1>0, <1>1, <2>3, <3>1, EndKeepsGrants DEF CleanupAuthSessions
  <2> QED BY <1>6, <2>1, <2>2, <2>3 DEF Sweep
<1>7. CASE DeleteDevice
  BY <1>0, <1>1, <1>7, EndKeepsGrants DEF DeleteDevice
<1>8. ASSUME NEW s \in Sessions, RevokeAccessSession(s) PROVE Quiet
  BY <1>0, <1>8, EndKeepsGrants DEF RevokeAccessSession, Rows
<1>9. CASE UNCHANGED vars
  BY <1>9, Frame DEF vars
<1> QED BY <1>1, <1>2, <1>3, <1>4, <1>5, <1>6, <1>7, <1>8, <1>9 DEF Next

-----------------------------------------------------------------------------
(* The theorems. *)

LEMMA IInvStep == IInv /\ [Next]_vars => IInv'
<1> SUFFICES ASSUME IInv, [Next]_vars PROVE IInv'
  OBVIOUS
<1>1. TypeOK' /\ StepFacts
  BY TypeStep, StepLemma DEF IInv
<1> QED
  BY <1>1, ReferencesStep, UnusedStep, ClockStep, FreshStep, CurrentStep, LogFollowsStep,
     SweptFirstStep, OpenLogStep
  DEF IInv

\* The inductive invariant holds of every behaviour of the requests, the sweep
\* and the administrators on the rows of users, logins and sessions.
THEOREM Invariance == Spec => []IInv
<1> QED BY InitIInv, IInvStep, PTL DEF Spec

\* Every reachable state of the rows, the logins and the requests is well
\* typed, for any number of them.
THEOREM TypeCorrect == Spec => []TypeOK
<1>1. IInv => TypeOK
  BY DEF IInv
<1> QED BY <1>1, Invariance, PTL

\* Whoever is served has the role, and as a member the membership, that the
\* session was opened by, wherever an administrator's change falls among the
\* statements of the requests.
THEOREM RightsStayCurrent == Spec => []RightsAreCurrent
<1>1. IInv => RightsAreCurrent
  BY DEF IInv, RightsAreCurrent, Serves, LoginServes, Current, Agrees, UserOf
<1> QED BY <1>1, Invariance, PTL

\* The log of a session stays open after its row only where the user was
\* deleted or the login had ended first: the sweep never deletes the login of
\* a session before it has closed the session, for all delays that are short
\* against the time a revoked login is kept.
THEOREM OpenLogsAreExplained == Spec => []OpenLogIsExplained
<1>1. IInv => OpenLogIsExplained
  BY DEF IInv
<1> QED BY <1>1, Invariance, PTL

\* Access sessions implement SessionLife: a session opens once, its grant is
\* exchanged once and while it lives, it serves only between the exchange and
\* its end, and no late statement on its row, its login or its user brings it
\* back.
THEOREM SessionsHaveOneLife == Spec => OneLife
<1>1. Init => Life!Init
  BY DEF Init, NoRow, phase, grant, Phase, Life!Init
<1> QED BY <1>1, LifeStep, Invariance, PTL DEF Spec, OneLife, Life!Spec

=============================================================================
