------------------------------ MODULE Accounts ------------------------------
(***************************************************************************)
(* Accounts, logins and the second factor: the user rows and login         *)
(* sessions of src/backend/internal/store/users.go, the challenges of      *)
(* store/mfa.go and the handlers of api/api.go that read a row, work on    *)
(* what they read and write later.                                         *)
(*                                                                         *)
(* The store has one connection, so a statement or a transaction is one    *)
(* step; a handler that needs several is a request with a step for each.   *)
(* A refused request that changes nothing is not an action, and neither    *)
(* is a wrong password, which only feeds the limiter.                      *)
(***************************************************************************)
EXTENDS Integers, FiniteSets

CONSTANTS
    Users,         \* user identifiers; a deleted one is never used again
    Handlers,      \* requests that can be in flight together
    Null,          \* no user, no challenge
    Challenges,    \* rows of mfa_challenges a behaviour may create
    MaxAttempts,   \* wrong codes until a challenge is revoked (5)
    MaxNow,        \* bound of the clock, which counts TOTP periods (30 s)
    MaxRequests,   \* bound of the requests of users
    MaxEpoch       \* how far the updates of a user are counted

ASSUME AccountsAssumption ==
    /\ IsFiniteSet(Handlers)
    /\ MaxAttempts \in Nat \ {0}
    /\ Null \notin Users \cup Challenges
    /\ {MaxNow, MaxRequests, MaxEpoch} \subseteq Nat

VARIABLES
    now,      \* the clock
    mfa,      \* mfaEnabled of the configuration, which no step changes
    user,     \* the rows of users, user_mfa and mfa_recovery_codes
    ch,       \* the rows of mfa_challenges
    sessions, \* the active rows of auth_sessions of each user
    req,      \* the requests in flight
    asked,    \* how many requests were made
    made,     \* how many TOTP secrets and sets of recovery codes were made
    epoch,    \* history: how often an administrator updated the user
    spent,    \* history: what has been exchanged for a session
    replayed  \* history: something was exchanged twice

requests == <<req, asked>>

vars == <<now, mfa, user, ch, sessions, req, asked, made, epoch, spent, replayed>>

Methods == {"totp", "email"}

Purposes == {"verify", "onboard", "password"}

\* What a login hands in: a TOTP code of some secret and period, the recovery
\* code of an enrolment, a mailed code, or anything else.
Factor == [kind: {"none", "totp", "recovery", "email"},
           of: Nat, n: Nat]

None == [kind |-> "none", of |-> 0, n |-> 0]

\* A row as INSERT INTO users leaves it: password_change_required is 1. Its
\* email is set together with the method, and tested together with it.
Row == [state |-> "new", admin |-> FALSE, enabled |-> FALSE, change |-> TRUE,
        method |-> "none", secret |-> 0, counter |-> 0,
        codes |-> {}]

\* History of a row: the wrong codes answered for it, and those of them whose
\* count failed.
NoChallenge == [status |-> "free", user |-> Null,
                purpose |-> "verify", method |-> "none", secret |-> 0,
                newPassword |-> FALSE, verified |-> FALSE,
                code |-> 0, attempts |-> 0,
                guesses |-> 0, uncounted |-> 0,
                expired |-> FALSE, epoch |-> 0]

Idle == [op |-> "idle", user |-> Null,
         ch |-> Null, purpose |-> "none",
         method |-> "none", factor |-> None, epoch |-> 0]

UserRow ==
    [state: {"new", "in", "gone"}, admin: BOOLEAN, enabled: BOOLEAN,
     change: BOOLEAN, method: Methods \cup {"none"}, secret: Nat, counter: Nat,
     codes: SUBSET Nat]

\* Codes that are mailed for a challenge are told apart, as far as requests
\* still hold them.
MailedCodes == 1..Cardinality(Handlers) + 1

ChallengeRow ==
    [status: {"free", "active", "over"}, user: Users \cup {Null},
     purpose: Purposes, method: Methods \cup {"none"}, secret: Nat,
     newPassword: BOOLEAN, verified: BOOLEAN, code: MailedCodes \cup {0},
     attempts: 0..MaxAttempts - 1, guesses: Nat, uncounted: Nat,
     expired: BOOLEAN, epoch: Nat]

SessionRow ==
    [by: {"password", "factor", "change"}, ch: Challenges \cup {Null}, epoch: Nat]

Request ==
    [op: {"idle", "login", "password", "mail", "mailcode", "method", "complete",
          "fail", "change"},
     user: Users \cup {Null}, ch: Challenges \cup {Null},
     purpose: Purposes \cup {"none"}, method: Methods \cup {"none", "recovery"},
     factor: Factor, epoch: Nat]

TypeOK ==
    /\ now \in Nat \ {0}
    /\ mfa \in BOOLEAN
    /\ user \in [Users -> UserRow]
    /\ ch \in [Challenges -> ChallengeRow]
    /\ sessions \in [Users -> SUBSET SessionRow]
    /\ req \in [Handlers -> Request]
    /\ asked \in Nat
    /\ made \in Nat
    /\ epoch \in [Users -> Nat]
    /\ spent \in SUBSET Factor
    /\ replayed \in BOOLEAN

-----------------------------------------------------------------------------
\* An installation before its setup, or one whose administrator is enrolled.
Enrolled(m) == [Row EXCEPT !.state = "in", !.admin = TRUE, !.enabled = TRUE,
                           !.change = FALSE, !.method = m,
                           !.secret = 1, !.codes = {1}]

Init ==
    /\ now = 1
    /\ mfa \in BOOLEAN
    /\ user \in {[u \in Users |-> Row]}
                \cup {[[u \in Users |-> Row] EXCEPT ![a] = Enrolled(m)] :
                         a \in Users, m \in Methods}
    /\ ch = [c \in Challenges |-> NoChallenge]
    /\ sessions = [u \in Users |-> {}]
    /\ req = [h \in Handlers |-> Idle]
    /\ asked = 0
    /\ made = 1
    /\ epoch = [u \in Users |-> 0]
    /\ spent = {}
    /\ replayed = FALSE

Exists(u) == user[u].state = "in"

Active(c) == ch[c].status = "active"

Tick ==
    /\ now < MaxNow
    /\ now' = now + 1
    /\ UNCHANGED <<mfa, user, ch, sessions, requests, made, epoch, spent, replayed>>

\* expires_at passes; how long that takes is left open.
Expire(c) ==
    /\ Active(c) /\ ~ch[c].expired
    /\ ch' = [ch EXCEPT ![c] = [@ EXCEPT !.expired = TRUE]]
    /\ UNCHANGED <<now, mfa, user, sessions, requests, made, epoch, spent, replayed>>

\* A challenge that is consumed or revoked: no handler reads its other columns.
Over(c) == [NoChallenge EXCEPT !.status = "over", !.user = ch[c].user,
                               !.guesses = ch[c].guesses,
                               !.uncounted = ch[c].uncounted]

\* UPDATE mfa_challenges SET status='revoked' WHERE user_id=? AND active.
RevokedFor(u) ==
    [c \in Challenges |-> IF Active(c) /\ ch[c].user = u
                          THEN Over(c) ELSE ch[c]]

\* Mistake: the administrator's own row is counted among those that remain.
AnyAdmin(u) == \E v \in Users : Exists(v) /\ user[v].admin /\ user[v].enabled

\* SELECT COUNT(*) ... role='system_admin' AND enabled=1 AND id<>?.
OtherAdmin(u) ==
    \E v \in Users \ {u} : Exists(v) /\ user[v].admin /\ user[v].enabled

IsAdmin(u) == user[u].admin /\ user[u].enabled

-----------------------------------------------------------------------------
(***************************************************************************)
(* Administration. The platform token or an administrator's session        *)
(* authorizes these; each is one transaction.                              *)
(***************************************************************************)
\* POST /setup: the first account.
CreateInitialAdmin(u) ==
    /\ user[u].state = "new"
    /\ \A v \in Users : ~Exists(v)
    /\ user' = [user EXCEPT ![u] = [@ EXCEPT !.state = "in", !.admin = TRUE,
                                             !.enabled = TRUE]]
    /\ UNCHANGED <<now, mfa, ch, sessions, requests, made, epoch, spent, replayed>>

CreateUser(u, admin, enabled) ==
    /\ user[u].state = "new"
    /\ user' = [user EXCEPT ![u] = [@ EXCEPT !.state = "in", !.admin = admin,
                                             !.enabled = enabled]]
    /\ UNCHANGED <<now, mfa, ch, sessions, requests, made, epoch, spent, replayed>>

\* Role, enabled state and, when reset is set, a password of the
\* administrator's choice.
Updated(row, admin, enabled, reset) ==
    [row EXCEPT !.admin = admin, !.enabled = enabled, !.change = @ \/ reset]

\* The login sessions of the user end, the challenges do not.
UpdateUser(u, admin, enabled, reset) ==
    /\ Exists(u)
    /\ IsAdmin(u) /\ ~(admin /\ enabled) => OtherAdmin(u)
    /\ user' = [user EXCEPT ![u] = Updated(@, admin, enabled, reset)]
    /\ sessions' = [sessions EXCEPT ![u] = {}]
    /\ epoch' = [epoch EXCEPT ![u] = IF @ < MaxEpoch THEN @ + 1 ELSE @]
    /\ UNCHANGED <<now, mfa, ch, requests, made, spent, replayed>>

\* The rows that refer to the user go with it (ON DELETE CASCADE).
DeleteUser(u) ==
    /\ Exists(u)
    /\ IsAdmin(u) => OtherAdmin(u)
    /\ user' = [user EXCEPT ![u] = [Row EXCEPT !.state = "gone"]]
    /\ sessions' = [sessions EXCEPT ![u] = {}]
    /\ ch' = RevokedFor(u)
    /\ UNCHANGED <<now, mfa, requests, made, epoch, spent, replayed>>

\* The rows of user_mfa and mfa_recovery_codes go, and a password is set.
WithoutFactor(row) ==
    [row EXCEPT !.method = "none", !.secret = 0, !.counter = 0, !.codes = {},
                !.change = TRUE]

\* Mistake: the logins of the user that are under way are left alone.
ResetKeepsChallenges(u) ==
    /\ Exists(u)
    /\ user' = [user EXCEPT ![u] = WithoutFactor(@)]
    /\ sessions' = [sessions EXCEPT ![u] = {}]
    /\ UNCHANGED <<now, mfa, ch, requests, made, epoch, spent, replayed>>

ResetUserMFA(u) ==
    /\ Exists(u)
    /\ user' = [user EXCEPT ![u] = WithoutFactor(@)]
    /\ ch' = RevokedFor(u)
    /\ sessions' = [sessions EXCEPT ![u] = {}]
    /\ UNCHANGED <<now, mfa, requests, made, epoch, spent, replayed>>

-----------------------------------------------------------------------------
(***************************************************************************)
(* Login: the credential is read and the password checked, then the        *)
(* session or the challenge is written from what was read.                 *)
(***************************************************************************)
Begin(h, r) ==
    /\ req[h] = Idle
    /\ asked < MaxRequests
    /\ asked' = asked + 1
    /\ req' = [req EXCEPT ![h] = r]
    /\ UNCHANGED <<now, mfa, user, ch, sessions, made, epoch, spent, replayed>>

Finish(h) == req' = [req EXCEPT ![h] = Idle] /\ UNCHANGED asked

\* The handler refuses, or its last statement finds no row.
Refused(h) ==
    /\ Finish(h)
    /\ UNCHANGED <<now, mfa, user, ch, sessions, made, epoch, spent, replayed>>

Purpose(u) ==
    IF ~mfa THEN IF user[u].change THEN "password" ELSE "none"
    ELSE IF user[u].change \/ user[u].method = "none"
         THEN "onboard" ELSE "verify"

\* The login handler up to VerifyPassword.
Login(h, u) ==
    /\ Exists(u) /\ user[u].enabled
    /\ Begin(h, [Idle EXCEPT
                   !.op = "login", !.user = u, !.purpose = Purpose(u),
                   !.method = IF mfa /\ user[u].method = "totp"
                              THEN "totp" ELSE "none",
                   !.epoch = epoch[u]])

\* createPasswordSession: a session row, unless the user row has gone.
CreatePasswordSession(h) ==
    LET r == req[h] IN
    /\ r.op = "login" /\ r.purpose = "none"
    /\ sessions' = [sessions EXCEPT ![r.user] =
                      IF Exists(r.user)
                      THEN @ \cup {[by |-> "password", ch |-> Null,
                                     epoch |-> r.epoch]}
                      ELSE @]
    /\ Finish(h)
    /\ UNCHANGED <<now, mfa, user, ch, made, epoch, spent, replayed>>

\* CreateMFAChallenge revokes the user's older challenge. The answer carries
\* the token only if the user is still enabled; before it is sent, the method
\* of an enrolled authenticator is started.
CreateMFAChallenge(h, c) ==
    LET r == req[h] IN
    /\ r.op = "login" /\ r.purpose # "none"
    /\ ch[c].status = "free"
    /\ ch' = IF ~Exists(r.user) THEN ch
             ELSE IF ~user[r.user].enabled THEN RevokedFor(r.user)
             ELSE [RevokedFor(r.user) EXCEPT ![c] =
                     [NoChallenge EXCEPT
                        !.status = "active", !.user = r.user,
                        !.purpose = r.purpose, !.method = r.method,
                        !.epoch = r.epoch]]
    /\ Finish(h)
    /\ UNCHANGED <<now, mfa, user, sessions, made, epoch, spent, replayed>>

-----------------------------------------------------------------------------
(***************************************************************************)
(* The steps of a challenge. Each handler first loads it by its token and  *)
(* decides from what it reads; the update that follows checks again only   *)
(* what its WHERE clause names.                                            *)
(***************************************************************************)
Live(c) == Active(c) /\ ~ch[c].expired

\* MFAChallengeByToken.
Loads(c) == Live(c) /\ user[ch[c].user].enabled /\ ch[c].attempts < MaxAttempts

For(c, op) == [Idle EXCEPT !.op = op, !.user = ch[c].user, !.ch = c]

\* What a handler does to its own challenge is all that it changes.
Updates(h, c, row) ==
    /\ req[h].ch = c
    /\ ch' = [ch EXCEPT ![c] = row]
    /\ UNCHANGED <<now, mfa, user, sessions, epoch, spent, replayed>>

\* The session that ends a challenge: older sessions of the user are revoked
\* in the same transaction, and the challenge and the factor are used up.
Opens(c, by, used) ==
    /\ sessions' = [sessions EXCEPT ![ch[c].user] =
                      {[by |-> by, ch |-> c, epoch |-> ch[c].epoch]}]
    /\ ch' = [ch EXCEPT ![c] = Over(c)]
    /\ spent' = spent \cup used
    /\ replayed' = (replayed \/ ~Active(c) \/ used \cap spent # {})

LoadForPassword(h, c) ==
    /\ Loads(c) /\ ch[c].purpose \in {"onboard", "password"}
    /\ Begin(h, For(c, "password"))

CompletePasswordChange(h, c) ==
    /\ req[h].op = "password" /\ req[h].ch = c
    /\ ch[c].purpose = "password"
    /\ Live(c) /\ user[ch[c].user].enabled
    /\ user' = [user EXCEPT ![ch[c].user] = [@ EXCEPT !.change = FALSE]]
    /\ Opens(c, "password", {})
    /\ Finish(h)
    /\ UNCHANGED <<now, mfa, made, epoch>>

SetOnboardingPassword(h, c) ==
    /\ req[h].op = "password"
    /\ ch[c].purpose = "onboard"
    /\ Live(c) /\ ch[c].attempts < MaxAttempts
    /\ Updates(h, c, [ch[c] EXCEPT !.newPassword = TRUE])
    /\ Finish(h)
    /\ UNCHANGED made

\* A mailed code: a number that no request for the challenge still holds.
NewCode(c) ==
    CHOOSE n \in MailedCodes :
       /\ n # ch[c].code
       /\ \A h \in Handlers : req[h].ch = c => req[h].factor.n # n

Mailed(c) == [ch[c] EXCEPT !.code = NewCode(c), !.expired = FALSE]

LoadForMail(h, c) ==
    /\ Loads(c) /\ ch[c].purpose = "onboard" /\ ch[c].newPassword
    /\ Begin(h, For(c, "mail"))

\* SetOnboardingEmailDelivery, which does not look at expires_at. It refuses a
\* second mail within a minute of the first, as a request may be at any time.
SetOnboardingEmailDelivery(h, c) ==
    /\ req[h].op = "mail"
    /\ Active(c) /\ ch[c].attempts < MaxAttempts
    /\ Updates(h, c, [Mailed(c) EXCEPT !.verified = FALSE])
    /\ Finish(h)
    /\ UNCHANGED made

\* SendCode of the code in force failed, however long it took; a failure of
\* an older one finds another hash and clears nothing.
ClearMFAEmailDelivery(c) ==
    /\ Active(c) /\ ch[c].code # 0
    /\ ch' = [ch EXCEPT ![c] = [@ EXCEPT !.code = 0]]
    /\ UNCHANGED <<now, mfa, user, sessions, requests, made, epoch, spent, replayed>>

LoadForMailCode(h, c, n) ==
    /\ Loads(c) /\ ch[c].purpose = "onboard"
    /\ Begin(h, [For(c, "mailcode") EXCEPT
                   !.factor = [kind |-> "email", of |-> 0, n |-> n]])

\* The code is not accepted: the handler goes on to FailMFAChallenge.
Fails(h, c) ==
    /\ Updates(h, c, ch[c])
    /\ req' = [req EXCEPT ![h] = [@ EXCEPT !.op = "fail"]]
    /\ UNCHANGED <<asked, made>>

VerifyOnboardingEmail(h, c) ==
    /\ req[h].op = "mailcode"
    /\ Active(c) /\ ch[c].code = req[h].factor.n /\ ch[c].code # 0
    /\ Updates(h, c, [ch[c] EXCEPT !.verified = TRUE, !.code = 0])
    /\ Finish(h)
    /\ UNCHANGED made

\* The statement finds no row, or fails: any error is taken for a wrong code.
MailCodeRefused(h, c) == req[h].op = "mailcode" /\ Fails(h, c)

LoadForMethod(h, c, m) ==
    /\ mfa /\ Loads(c)
    /\ ch[c].purpose = "onboard" => ch[c].newPassword /\ ch[c].verified
    /\ ch[c].purpose = "verify" => m = user[ch[c].user].method
    /\ Begin(h, [For(c, "method") EXCEPT !.method = m])

\* SetMFAChallengeMethod: an onboarding authenticator gets a new secret.
StartTOTP(h, c) ==
    /\ req[h].op = "method" /\ req[h].method = "totp"
    /\ Active(c) /\ ch[c].attempts < MaxAttempts
    /\ made' = IF ch[c].purpose = "onboard" THEN made + 1 ELSE made
    /\ Updates(h, c, [ch[c] EXCEPT
                        !.method = "totp", !.code = 0,
                        !.secret = IF ch[c].purpose = "onboard"
                                   THEN made + 1 ELSE 0,
                        !.expired = FALSE])
    /\ Finish(h)

\* The same statement for a mailed code.
StartEmail(h, c) ==
    /\ req[h].op = "method" /\ req[h].method = "email"
    /\ Active(c) /\ ch[c].attempts < MaxAttempts
    /\ Updates(h, c, [Mailed(c) EXCEPT !.method = "email", !.secret = 0])
    /\ Finish(h)
    /\ UNCHANGED made

\* Mistake: the handler stores the count it has read.
FailWithoutCount(h, c) ==
    /\ req[h].op = "fail"
    /\ Updates(h, c, [ch[c] EXCEPT !.guesses = @ + 1, !.attempts = 1])
    /\ Finish(h)
    /\ UNCHANGED made

\* Mistake: the last attempt does not revoke the challenge.
FailWithoutEnd(h, c) ==
    /\ req[h].op = "fail"
    /\ Updates(h, c, [ch[c] EXCEPT !.guesses = @ + 1,
                                   !.attempts = IF Active(c) THEN @ + 1 ELSE @])
    /\ Finish(h)
    /\ UNCHANGED made

\* FailMFAChallenge counts the code, which is then answered as a wrong one.
FailMFAChallenge(h, c) ==
    /\ req[h].op = "fail"
    /\ Updates(h, c, IF ~Active(c)
                     THEN [ch[c] EXCEPT !.guesses = @ + 1]
                     ELSE IF ch[c].attempts + 1 < MaxAttempts
                     THEN [ch[c] EXCEPT !.guesses = @ + 1, !.attempts = @ + 1]
                     ELSE [Over(c) EXCEPT !.guesses = @ + 1])
    /\ Finish(h)
    /\ UNCHANGED made

\* The statement fails (r.Context() has ended, the database refuses): the
\* handlers drop its error and answer the wrong code all the same.
FailUncounted(h, c) ==
    /\ req[h].op = "fail"
    /\ Updates(h, c, [ch[c] EXCEPT !.guesses = @ + 1, !.uncounted = @ + 1])
    /\ Finish(h)
    /\ UNCHANGED made

-----------------------------------------------------------------------------
(***************************************************************************)
(* completeMFA: the code is compared with the challenge as it was read;    *)
(* the transaction then consumes the challenge, the counter or the         *)
(* recovery code as they are by then.                                      *)
(***************************************************************************)
\* The secret the code is compared with; without one the handler stops.
SecretOf(c) ==
    IF ~Active(c) THEN 0
    ELSE IF ch[c].purpose = "onboard" THEN ch[c].secret ELSE user[ch[c].user].secret

IsRecovery(c, f) == f.kind = "recovery" /\ ch[c].purpose = "verify"

Matches(c, f) ==
    \/ /\ ch[c].method = "email"
       /\ f.kind = "email" /\ f.n = ch[c].code /\ f.n # 0
    \/ /\ ch[c].method = "totp"
       /\ f.kind = "totp" /\ f.of = SecretOf(c) /\ f.of # 0
       /\ f.n \in (now - 1)..(now + 1)

\* A right code, or a recovery code, which only the transaction looks up.
PresentCode(h, c, f) ==
    /\ mfa /\ Loads(c)
    /\ IsRecovery(c, f) \/ Matches(c, f)
    /\ Begin(h, [For(c, "complete") EXCEPT
                   !.factor = IF f.kind = "email" THEN None ELSE f,
                   !.method = IF IsRecovery(c, f) THEN "recovery"
                              ELSE ch[c].method])

\* A wrong code, or no method started. Without a secret the handler stops.
PresentWrongCode(h, c) ==
    /\ mfa /\ Loads(c)
    /\ ch[c].method = "totp" => SecretOf(c) # 0
    /\ Begin(h, For(c, "fail"))

CompleteMFAEnrollment(h, c) ==
    LET u == ch[c].user IN
    /\ req[h].op = "complete" /\ req[h].ch = c
    /\ ch[c].purpose = "onboard"
    /\ Live(c) /\ user[u].enabled
    /\ req[h].method \in Methods
    /\ ch[c].verified /\ ch[c].newPassword
    /\ req[h].method = "totp" => ch[c].secret # 0
    /\ made' = made + 1
    /\ user' = [user EXCEPT ![u] =
                  [@ EXCEPT !.change = FALSE,
                            !.method = req[h].method, !.secret = ch[c].secret,
                            !.counter = IF req[h].method = "totp"
                                        THEN req[h].factor.n ELSE 0,
                            !.codes = {made + 1}]]
    /\ Opens(c, "factor", IF req[h].method = "totp" THEN {req[h].factor} ELSE {})
    /\ Finish(h)
    /\ UNCHANGED <<now, mfa, epoch>>

\* Mistake: the code of the period used last is taken again.
SameCounter(u, f) == user[u].method # "none" /\ user[u].counter <= f.n

\* UPDATE user_mfa SET last_totp_counter=? ... AND last_totp_counter<?.
NewCounter(u, f) == user[u].method # "none" /\ user[u].counter < f.n

\* UPDATE mfa_recovery_codes SET used_at=? ... AND used_at IS NULL.
UnusedCode(u, f) == f.of \in user[u].codes

FactorAccepted(h, u) ==
    LET f == req[h].factor IN
    \/ req[h].method = "totp" /\ NewCounter(u, f)
    \/ req[h].method = "recovery" /\ UnusedCode(u, f)
    \/ req[h].method = "email"

\* The period of a TOTP code is stored and a recovery code is used up.
WithUsed(row, m, f) ==
    [row EXCEPT !.counter = IF m = "totp" THEN f.n ELSE @,
                !.codes = IF m = "recovery" THEN @ \ {f.of} ELSE @]

CompleteMFAAuthentication(h, c) ==
    LET u == ch[c].user
        f == req[h].factor
    IN
    /\ req[h].op = "complete" /\ req[h].ch = c
    /\ ch[c].purpose # "onboard"
    /\ Live(c) /\ user[u].enabled
    /\ FactorAccepted(h, u)
    /\ user' = [user EXCEPT ![u] = WithUsed(@, req[h].method, f)]
    /\ Opens(c, "factor", IF req[h].method = "email" THEN {} ELSE {f})
    /\ Finish(h)
    /\ UNCHANGED <<now, mfa, made, epoch>>

\* The transaction rolls back and the handler counts a failed attempt.
CompletionRefused(h, c) ==
    LET u == ch[c].user IN
    /\ req[h].op = "complete" /\ req[h].ch = c
    /\ \/ ~Live(c) \/ ~user[u].enabled
       \/ /\ ch[c].purpose = "onboard"
          /\ \/ ~ch[c].verified \/ ~ch[c].newPassword
             \/ req[h].method = "totp" /\ ch[c].secret = 0
       \/ ch[c].purpose # "onboard" /\ ~FactorAccepted(h, u)
    /\ Fails(h, c)

-----------------------------------------------------------------------------
\* The changePassword handler: requireAuth and the current password.
LoadForChange(h, u) ==
    /\ sessions[u] # {} /\ user[u].enabled
    /\ Begin(h, [Idle EXCEPT !.op = "change", !.user = u, !.epoch = epoch[u]])

\* ChangePassword looks at enabled only; the session behind the request may
\* be revoked by now.
ChangePassword(h) ==
    LET u == req[h].user IN
    /\ req[h].op = "change"
    /\ Exists(u) /\ user[u].enabled
    /\ user' = [user EXCEPT ![u] = [@ EXCEPT !.change = FALSE]]
    /\ sessions' = [sessions EXCEPT ![u] =
                      {[by |-> "change", ch |-> Null, epoch |-> req[h].epoch]}]
    /\ ch' = RevokedFor(u)
    /\ Finish(h)
    /\ UNCHANGED <<now, mfa, made, epoch, spent, replayed>>

\* Logout, an idle session that requireAuth revokes, or its expiry.
SessionEnds(u, s) ==
    /\ s \in sessions[u]
    /\ sessions' = [sessions EXCEPT ![u] = @ \ {s}]
    /\ UNCHANGED <<now, mfa, user, ch, requests, made, epoch, spent, replayed>>

-----------------------------------------------------------------------------
\* What can be handed in for a challenge: codes of its secrets around now,
\* recovery codes of the user, new and spent, the code mailed for it.
Presentable(c) ==
    {[kind |-> "totp", of |-> SecretOf(c), n |-> n] : n \in (now - 1)..(now + 1)}
    \cup {[kind |-> "recovery", of |-> e, n |-> 0] : e \in user[ch[c].user].codes}
    \cup {f \in spent : f.kind = "recovery"}
    \cup {[kind |-> "email", of |-> 0, n |-> ch[c].code]}

Administration ==
    \E u \in Users :
       \/ CreateInitialAdmin(u)
       \/ \E admin, enabled \in BOOLEAN : CreateUser(u, admin, enabled)
       \/ \E admin, enabled, reset \in BOOLEAN :
             UpdateUser(u, admin, enabled, reset)
       \/ DeleteUser(u)
       \/ ResetUserMFA(u)

Loading(h) ==
    \/ \E u \in Users : Login(h, u) \/ LoadForChange(h, u)
    \/ \E c \in Challenges :
          \/ LoadForPassword(h, c) \/ LoadForMail(h, c)
          \/ \E n \in {0, ch[c].code} : LoadForMailCode(h, c, n)
          \/ \E m \in Methods : LoadForMethod(h, c, m)
          \/ Active(c) /\ \E f \in Presentable(c) : PresentCode(h, c, f)
          \/ PresentWrongCode(h, c)

Writing(h) ==
    \/ CreatePasswordSession(h) \/ ChangePassword(h)
    \/ \E c \in Challenges :
          \/ CreateMFAChallenge(h, c)
          \/ CompletePasswordChange(h, c) \/ SetOnboardingPassword(h, c)
          \/ SetOnboardingEmailDelivery(h, c)
          \/ VerifyOnboardingEmail(h, c) \/ MailCodeRefused(h, c)
          \/ StartTOTP(h, c) \/ StartEmail(h, c)
          \/ CompleteMFAEnrollment(h, c) \/ CompleteMFAAuthentication(h, c)
          \/ CompletionRefused(h, c)
          \/ FailMFAChallenge(h, c) \/ FailUncounted(h, c)

\* The rest of a request is not done: its client has gone and r.Context()
\* fails the statements still to come, a WHERE clause finds no row, or the
\* code has been mailed. Only a code that is refused is always answered.
Leave(h) == req[h] # Idle /\ req[h].op \notin {"mailcode", "fail"} /\ Refused(h)

Next ==
    \/ Tick
    \/ Administration
    \/ \E c \in Challenges : Expire(c) \/ ClearMFAEmailDelivery(c)
    \/ \E h \in Handlers : Loading(h) \/ Writing(h) \/ Leave(h)
    \/ \E u \in Users : \E s \in sessions[u] : SessionEnds(u, s)

Spec == Init /\ [][Next]_vars

-----------------------------------------------------------------------------
(***************************************************************************)
(* Properties.                                                             *)
(***************************************************************************)
\* Whatever administrators do to each other, a platform that has an enabled
\* administrator keeps one (the ErrLastAdmin checks of UpdateUser and
\* DeleteUser).
AdminExists == \E u \in Users : Exists(u) /\ IsAdmin(u)

AdminRemains ==
    [][AdminExists => AdminExists']_vars

\* A challenge, a TOTP code and a recovery code open one session at most,
\* however the requests that present them cross (completeMFA).
ExchangedOnce == ~replayed

\* The wrong codes that are answered for a challenge are bounded by the limit,
\* the requests that had read it before the last of them was counted, and
\* those whose count failed: only an error that the handlers drop lets one
\* more through (FailMFAChallenge against MFAChallengeByToken).
GuessesAreBounded ==
    \A c \in Challenges :
       ch[c].guesses <= MaxAttempts - 1 + Cardinality(Handlers) + ch[c].uncounted

\* A session that came from a login has an enrolled second factor behind it,
\* also when an administrator resets the factor while the login is under way.
FactorStandsBehindSession ==
    \A u \in Users : \A s \in sessions[u] :
       s.by = "factor" => user[u].method # "none"

\* users.go:173: "Permission, password, and enabled-state changes take effect
\* immediately": no challenge turns what was checked before the change into a
\* session after it.
ChangesTakeEffect ==
    \A u \in Users : \A s \in sessions[u] :
       s.ch # Null => s.epoch = epoch[u]

=============================================================================
