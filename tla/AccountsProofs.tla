---------------------------- MODULE AccountsProofs ----------------------------
(***************************************************************************)
(* Theorems about Accounts, for any sets of users, challenges and requests *)
(* and any limit of attempts.                                              *)
(***************************************************************************)
EXTENDS Accounts, FiniteSetTheorems, TLAPS

-----------------------------------------------------------------------------
(* The inductive invariant. *)

\* A user without a second factor has no recovery codes.
NoFactorNoCodes == \A u \in Users : user[u].method = "none" => user[u].codes = {}

\* The wrong codes that were answered for a challenge and counted.
Counted(c) == ch[c].guesses - ch[c].uncounted

\* A user has one active challenge, whose counted wrong codes are its attempts.
OneChallenge ==
    /\ \A c \in Challenges : Active(c) => ch[c].user \in Users
                                          /\ Counted(c) = ch[c].attempts
    /\ \A c, d \in Challenges :
          Active(c) /\ Active(d) /\ ch[c].user = ch[d].user => c = d

\* Requests work on challenges that were created; what a request for a code
\* has been handed says what it was handed for.
RequestsFit ==
    /\ \A c \in Challenges : ch[c].status = "free" => Counted(c) = 0
    /\ \A h \in Handlers :
          /\ req[h].ch \in Challenges => ch[req[h].ch].status # "free"
          /\ req[h].op \in {"login", "change"} =>
                req[h].ch = Null /\ req[h].user \in Users
          /\ req[h].op = "login" => req[h].method \in {"none", "totp"}
          /\ req[h].op \in {"mail", "method"} => req[h].factor = None
          /\ req[h].op = "complete" =>
                /\ req[h].method = "totp" =>
                      req[h].factor.kind = "totp" /\ req[h].factor.of # 0
                /\ req[h].method = "recovery" => req[h].factor.kind = "recovery"

\* With the second factor required, no login only changes the password.
PurposesFit ==
    /\ mfa => \A c \in Challenges : Active(c) => ch[c].purpose # "password"
    /\ \A h \in Handlers :
          /\ mfa /\ req[h].op = "login" => req[h].purpose # "password"
          /\ req[h].op = "complete" => mfa

\* A login with the second factor works with that of the user: a reset revokes
\* the challenge.
Enrolling(c) == Active(c) /\ ch[c].purpose = "onboard"
Verifying(c) == Active(c) /\ ch[c].purpose = "verify"

VerifyingIsEnrolled ==
    /\ \A c \in Challenges :
          Verifying(c) /\ ch[c].method = "email" => user[ch[c].user].method # "none"
    /\ \A h \in Handlers : req[h].ch \in Challenges /\ Verifying(req[h].ch) =>
          /\ req[h].op = "method" =>
                user[ch[req[h].ch].user].method = req[h].method
          /\ req[h].op = "complete" /\ req[h].method = "email" =>
                user[ch[req[h].ch].user].method # "none"
          /\ req[h].op = "complete" /\ req[h].method = "totp" =>
                req[h].factor.of = user[ch[req[h].ch].user].secret

\* Who can still have a code of the secret s accepted, or has had one: a
\* challenge that enrolls with it, a user who has it, a session.
Owns(c, s) ==
    /\ Enrolling(c) /\ s # 0
    /\ \/ ch[c].secret = s
       \/ \E h \in Handlers : req[h].op = "complete" /\ req[h].method = "totp"
                              /\ req[h].ch = c /\ req[h].factor.of = s
Has(u, s) == s # 0 /\ user[u].secret = s
IsSpent(s) == \E f \in spent : f.kind = "totp" /\ f.of = s

SecretsApart ==
    /\ \A c \in Challenges, s \in Nat : Owns(c, s) =>
          /\ s <= made /\ ~IsSpent(s)
          /\ \A u \in Users : ~Has(u, s)
          /\ \A d \in Challenges : Owns(d, s) => d = c
    /\ \A u \in Users, s \in Nat : Has(u, s) =>
          /\ s <= made
          /\ \A v \in Users : Has(v, s) => v = u
          /\ \A f \in spent : f.kind = "totp" /\ f.of = s => f.n <= user[u].counter
    /\ \A s \in Nat : IsSpent(s) => s <= made

\* A recovery code is one user's and is not there any more once it is spent.
CodesApart ==
    /\ \A u \in Users : \A e \in user[u].codes :
          /\ e <= made
          /\ \A v \in Users : e \in user[v].codes => v = u
          /\ \A f \in spent : f.kind = "recovery" => f.of # e
    /\ \A f \in spent : f.kind = "recovery" => f.of <= made

\* The requests that may still count a wrong code for the challenge.
Pending(c) ==
    {h \in Handlers : req[h].op \in {"mailcode", "complete", "fail"} /\ req[h].ch = c}

GuessesAreCounted ==
    \A c \in Challenges : ~Active(c) =>
       Counted(c) + Cardinality(Pending(c)) <= MaxAttempts - 1 + Cardinality(Handlers)

IInv ==
    /\ TypeOK /\ NoFactorNoCodes /\ OneChallenge /\ RequestsFit /\ PurposesFit
    /\ VerifyingIsEnrolled /\ SecretsApart /\ CodesApart /\ GuessesAreCounted
    /\ ExchangedOnce /\ FactorStandsBehindSession

-----------------------------------------------------------------------------
(* Rows and the changes that keep them rows. *)

LEMMA Numbers ==
    /\ IsFiniteSet(Handlers) /\ Cardinality(Handlers) \in Nat
    /\ MaxAttempts \in Nat /\ MaxAttempts > 0
    /\ MailedCodes \subseteq Nat /\ 0 \notin MailedCodes
    /\ Null \notin Users /\ Null \notin Challenges
<1>1. IsFiniteSet(Handlers) /\ Cardinality(Handlers) \in Nat
  BY AccountsAssumption, FS_CardinalityType
<1> QED BY <1>1, AccountsAssumption DEF MailedCodes

LEMMA UserRows ==
    ASSUME NEW r \in UserRow, NEW a \in BOOLEAN, NEW e \in BOOLEAN,
           NEW b \in BOOLEAN
    PROVE  /\ [r EXCEPT !.state = "in", !.admin = a, !.enabled = e] \in UserRow
           /\ Updated(r, a, e, b) \in UserRow
           /\ [r EXCEPT !.change = FALSE] \in UserRow
           /\ WithoutFactor(r) \in UserRow
           /\ Row \in UserRow /\ [Row EXCEPT !.state = "gone"] \in UserRow
<1>1. (r.change \/ b) \in BOOLEAN
  BY DEF UserRow
<1> QED BY <1>1 DEF UserRow, WithoutFactor, Updated, Row, Methods

LEMMA EnrolledRows ==
    ASSUME NEW r \in UserRow, NEW m \in Methods, NEW s \in Nat, NEW n \in Nat,
           NEW C \in SUBSET Nat
    PROVE  /\ [r EXCEPT !.change = FALSE, !.method = m, !.secret = s,
                        !.counter = n, !.codes = C] \in UserRow
           /\ [r EXCEPT !.counter = n, !.codes = C] \in UserRow
  BY DEF UserRow

LEMMA NewChallengeRow ==
    ASSUME NEW r \in ChallengeRow, NEW u \in Users, NEW p \in Purposes,
           NEW m \in Methods \cup {"none"}, NEW n \in Nat
    PROVE  [r EXCEPT !.status = "active", !.user = u, !.purpose = p, !.method = m,
                     !.epoch = n] \in ChallengeRow
  BY DEF ChallengeRow

LEMMA ChallengeRows ==
    ASSUME NEW r \in ChallengeRow, NEW n \in MailedCodes \cup {0},
           NEW b \in BOOLEAN, NEW s \in Nat, NEW m \in Methods \cup {"none"}
    PROVE  /\ [r EXCEPT !.expired = b] \in ChallengeRow
           /\ [r EXCEPT !.code = n] \in ChallengeRow
           /\ [r EXCEPT !.newPassword = b] \in ChallengeRow
           /\ [r EXCEPT !.verified = b] \in ChallengeRow
           /\ [r EXCEPT !.verified = b, !.code = n] \in ChallengeRow
           /\ [r EXCEPT !.code = n, !.expired = b] \in ChallengeRow
           /\ [r EXCEPT !.method = m, !.code = n, !.secret = s,
                        !.expired = b] \in ChallengeRow
           /\ [r EXCEPT !.method = m, !.secret = s] \in ChallengeRow
           /\ [r EXCEPT !.guesses = @ + 1] \in ChallengeRow
           /\ [r EXCEPT !.guesses = @ + 1, !.uncounted = @ + 1] \in ChallengeRow
           /\ r.attempts + 1 < MaxAttempts =>
                [r EXCEPT !.guesses = @ + 1, !.attempts = @ + 1] \in ChallengeRow
<1>1. r.guesses + 1 \in Nat /\ r.uncounted + 1 \in Nat /\ r.attempts \in Nat
  BY Numbers DEF ChallengeRow
<1>2. r.attempts + 1 < MaxAttempts => r.attempts + 1 \in 0..MaxAttempts - 1
  BY <1>1, Numbers
<1>3. /\ [r EXCEPT !.expired = b] \in ChallengeRow
      /\ [r EXCEPT !.code = n] \in ChallengeRow
      /\ [r EXCEPT !.newPassword = b] \in ChallengeRow
  BY DEF ChallengeRow
<1>4. /\ [r EXCEPT !.verified = b] \in ChallengeRow
      /\ [r EXCEPT !.verified = b, !.code = n] \in ChallengeRow
      /\ [r EXCEPT !.code = n, !.expired = b] \in ChallengeRow
  BY DEF ChallengeRow
<1>5. [r EXCEPT !.method = m, !.code = n, !.secret = s,
                 !.expired = b] \in ChallengeRow
  BY DEF ChallengeRow
<1>6. [r EXCEPT !.method = m, !.secret = s] \in ChallengeRow
  BY DEF ChallengeRow
<1>7. /\ [r EXCEPT !.guesses = @ + 1] \in ChallengeRow
      /\ [r EXCEPT !.guesses = @ + 1, !.uncounted = @ + 1] \in ChallengeRow
  BY <1>1 DEF ChallengeRow
<1>8. r.attempts + 1 < MaxAttempts =>
        [r EXCEPT !.guesses = @ + 1, !.attempts = @ + 1] \in ChallengeRow
  BY <1>1, <1>2 DEF ChallengeRow
<1> QED BY <1>3, <1>4, <1>5, <1>6, <1>7, <1>8

\* What is left of a challenge that is over.
LEMMA OverRow ==
    ASSUME TypeOK, NEW c \in Challenges
    PROVE  /\ Over(c) \in ChallengeRow
           /\ Over(c).status = "over" /\ Over(c).guesses = ch[c].guesses
           /\ Over(c).uncounted = ch[c].uncounted
           /\ Over(c).user = ch[c].user
<1>1. NoChallenge \in ChallengeRow
  BY Numbers DEF ChallengeRow, NoChallenge, Purposes
<1>2. ch[c] \in ChallengeRow
  BY DEF TypeOK
<1> QED BY <1>1, <1>2 DEF Over, ChallengeRow

\* A new code can be told from the last one and from those that requests hold,
\* one of which is the handler's own.
LEMMA NewCodes ==
    ASSUME TypeOK, NEW h \in Handlers, NEW c \in Challenges,
           req[h].factor = None
    PROVE  NewCode(c) \in MailedCodes
<1> DEFINE N == Cardinality(Handlers)
           Others == Handlers \ {h}
           number == [g \in Others |-> req[g].factor.n]
           Taken == {number[g] : g \in Others}
           All == Taken \cup {ch[c].code}
<1>1. IsFiniteSet(Others) /\ Cardinality(Others) = N - 1 /\ N \in Nat
  BY Numbers, FS_RemoveElement
<1>2. IsFiniteSet(Taken) /\ Cardinality(Taken) <= N - 1
  <2>1. number \in Surjection(Others, Taken)
    BY DEF Surjection
  <2> QED BY <1>1, <2>1, FS_Surjection
<1>3. IsFiniteSet(All) /\ Cardinality(All) <= N
  <2> HIDE DEF Taken
  <2>1. Cardinality(Taken) \in Nat
    BY <1>2, FS_CardinalityType
  <2>2. /\ IsFiniteSet(All)
        /\ Cardinality(All) \in {Cardinality(Taken), Cardinality(Taken) + 1}
    BY <1>2, FS_AddElement
  <2> QED BY <1>1, <1>2, <2>1, <2>2
<1>4. IsFiniteSet(MailedCodes) /\ Cardinality(MailedCodes) = N + 1
  BY <1>1, FS_Interval DEF MailedCodes
<1>5. ~(MailedCodes \subseteq All)
  BY <1>1, <1>3, <1>4, FS_Subset, FS_CardinalityType
<1>6. PICK n \in MailedCodes : n \notin All
  BY <1>5
<1>7. \A g \in Handlers : req[g].ch = c => req[g].factor.n # n
  BY <1>6, Numbers DEF None
<1> QED BY <1>6, <1>7 DEF NewCode

-----------------------------------------------------------------------------
(* Type correctness. *)

Ops == {"idle", "login", "password", "mail", "mailcode", "method", "complete",
        "fail", "change"}

LEMMA BeginTypes ==
    ASSUME TypeOK, NEW h \in Handlers, NEW r \in Request, Begin(h, r)
    PROVE  TypeOK'
<1>1. req' \in [Handlers -> Request] /\ asked' \in Nat
  BY DEF Begin, TypeOK
<1> QED BY <1>1 DEF Begin, TypeOK

LEMMA FinishTypes ==
    ASSUME TypeOK, NEW h \in Handlers, Finish(h)
    PROVE  req' \in [Handlers -> Request] /\ asked' \in Nat
<1>1. Idle \in Request
  BY DEF Idle, Request, None, Factor
<1> QED BY <1>1 DEF TypeOK, Finish

LEMMA RevokedTypes ==
    ASSUME TypeOK, NEW u
    PROVE  RevokedFor(u) \in [Challenges -> ChallengeRow]
<1>1. \A c \in Challenges : Over(c) \in ChallengeRow /\ ch[c] \in ChallengeRow
  BY OverRow DEF TypeOK
<1> QED BY <1>1 DEF RevokedFor

LEMMA UpdatesTypes ==
    ASSUME TypeOK, NEW h \in Handlers, NEW c \in Challenges,
           NEW row \in ChallengeRow, Updates(h, c, row),
           req' \in [Handlers -> Request], asked' \in Nat, made' \in Nat
    PROVE  TypeOK'
<1>1. ch' \in [Challenges -> ChallengeRow]
  BY DEF Updates, TypeOK
<1> QED BY <1>1 DEF Updates, TypeOK

LEMMA OpensTypes ==
    ASSUME TypeOK, NEW c \in Challenges, NEW by \in {"password", "factor"},
           NEW used \in SUBSET Factor, Opens(c, by, used)
    PROVE  /\ sessions' \in [Users -> SUBSET SessionRow]
           /\ ch' \in [Challenges -> ChallengeRow]
           /\ spent' \in SUBSET Factor /\ replayed' \in BOOLEAN
<1>1. [by |-> by, ch |-> c, epoch |-> ch[c].epoch] \in SessionRow
  BY DEF TypeOK, SessionRow, ChallengeRow
<1>2. sessions' \in [Users -> SUBSET SessionRow]
  BY <1>1 DEF Opens, TypeOK
<1>3. ch' \in [Challenges -> ChallengeRow]
  BY OverRow DEF Opens, TypeOK
<1>4. spent' \in SUBSET Factor
  BY DEF Opens, TypeOK
<1>5. replayed' \in BOOLEAN
  BY DEF Opens, TypeOK
<1> QED BY <1>2, <1>3, <1>4, <1>5

LEMMA AdministrationTypes ==
    ASSUME TypeOK, Administration
    PROVE  TypeOK'
<1> PICK u \in Users :
       \/ CreateInitialAdmin(u)
       \/ \E admin, enabled \in BOOLEAN : CreateUser(u, admin, enabled)
       \/ \E admin, enabled, reset \in BOOLEAN :
             UpdateUser(u, admin, enabled, reset)
       \/ DeleteUser(u)
       \/ ResetUserMFA(u)
  BY DEF Administration
<1> USE DEF requests
<1>0. user[u] \in UserRow /\ RevokedFor(u) \in [Challenges -> ChallengeRow]
  BY RevokedTypes DEF TypeOK
<1>1. CASE CreateInitialAdmin(u)
  <2>1. user' \in [Users -> UserRow]
    BY <1>0, <1>1, UserRows DEF CreateInitialAdmin, TypeOK
  <2> QED BY <1>1, <2>1 DEF CreateInitialAdmin, TypeOK
<1>2. ASSUME NEW admin \in BOOLEAN, NEW enabled \in BOOLEAN,
             CreateUser(u, admin, enabled)
      PROVE  TypeOK'
  <2>1. user' \in [Users -> UserRow]
    BY <1>0, <1>2, UserRows DEF CreateUser, TypeOK
  <2> QED BY <1>2, <2>1 DEF CreateUser, TypeOK
<1>3. ASSUME NEW admin \in BOOLEAN, NEW enabled \in BOOLEAN,
             NEW reset \in BOOLEAN, UpdateUser(u, admin, enabled, reset)
      PROVE  TypeOK'
  <2>1. user' \in [Users -> UserRow]
    <3>1. Updated(user[u], admin, enabled, reset) \in UserRow
      BY <1>0, UserRows
    <3> QED BY <1>3, <3>1 DEF UpdateUser, TypeOK
  <2>2. sessions' \in [Users -> SUBSET SessionRow]
    BY <1>3 DEF UpdateUser, TypeOK
  <2>3. epoch' \in [Users -> Nat]
    <3>1. epoch[u] \in Nat /\ epoch[u] + 1 \in Nat
      BY DEF TypeOK
    <3> QED BY <1>3, <3>1 DEF UpdateUser, TypeOK
  <2> QED BY <1>3, <2>1, <2>2, <2>3 DEF UpdateUser, TypeOK
<1>4. CASE DeleteUser(u)
  <2>1. user' \in [Users -> UserRow]
    BY <1>0, <1>4, UserRows DEF DeleteUser, TypeOK
  <2>2. sessions' \in [Users -> SUBSET SessionRow]
    BY <1>4 DEF DeleteUser, TypeOK
  <2> QED BY <1>0, <1>4, <2>1, <2>2 DEF DeleteUser, TypeOK
<1>5. CASE ResetUserMFA(u)
  <2>1. user' \in [Users -> UserRow]
    BY <1>0, <1>5, UserRows DEF ResetUserMFA, TypeOK
  <2>2. sessions' \in [Users -> SUBSET SessionRow]
    BY <1>5 DEF ResetUserMFA, TypeOK
  <2> QED BY <1>0, <1>5, <2>1, <2>2 DEF ResetUserMFA, TypeOK
<1> QED BY <1>1, <1>2, <1>3, <1>4, <1>5

LEMMA LoadingTypes ==
    ASSUME TypeOK, OneChallenge, NEW h \in Handlers, Loading(h)
    PROVE  TypeOK'
<1>0. ASSUME NEW c \in Challenges, NEW op \in Ops PROVE For(c, op) \in Request
  <2>1. ch[c].user \in Users \cup {Null}
    BY DEF TypeOK, ChallengeRow
  <2> QED BY <2>1 DEF For, Request, Idle, None, Factor, Ops
<1>1. ASSUME NEW u \in Users, Login(h, u) PROVE TypeOK'
  <2>1. Purpose(u) \in Purposes \cup {"none"} /\ epoch[u] \in Nat
    BY DEF Purpose, Purposes, TypeOK
  <2>2. (IF mfa /\ user[u].method = "totp" THEN "totp" ELSE "none")
           \in Methods \cup {"none", "recovery"}
    BY DEF Methods
  <2>3. [Idle EXCEPT !.op = "login", !.user = u, !.purpose = Purpose(u),
                     !.method = IF mfa /\ user[u].method = "totp"
                                THEN "totp" ELSE "none",
                     !.epoch = epoch[u]] \in Request
    BY <2>1, <2>2 DEF Request, Idle, None, Factor
  <2> QED BY <1>1, <2>3, BeginTypes DEF Login
<1>2. ASSUME NEW u \in Users, LoadForChange(h, u) PROVE TypeOK'
  <2>1. [Idle EXCEPT !.op = "change", !.user = u, !.epoch = epoch[u]] \in Request
    BY DEF Request, Idle, None, Factor, TypeOK
  <2> QED BY <1>2, <2>1, BeginTypes DEF LoadForChange
<1>3. ASSUME NEW c \in Challenges,
             LoadForPassword(h, c) \/ LoadForMail(h, c) \/ PresentWrongCode(h, c)
      PROVE  TypeOK'
  BY <1>0, <1>3, BeginTypes DEF LoadForPassword, LoadForMail, PresentWrongCode, Ops
<1>4. ASSUME NEW c \in Challenges, NEW n \in {0, ch[c].code}, LoadForMailCode(h, c, n)
      PROVE  TypeOK'
  <2>1. n \in Nat
    BY Numbers DEF TypeOK, ChallengeRow
  <2>2. [kind |-> "email", of |-> 0, n |-> n] \in Factor
    BY <2>1 DEF Factor
  <2>3. For(c, "mailcode") \in Request
    BY <1>0 DEF Ops
  <2>4. [For(c, "mailcode") EXCEPT !.factor = [kind |-> "email", of |-> 0, n |-> n]]
           \in Request
    BY <2>2, <2>3 DEF Request
  <2> QED BY <1>4, <2>4, BeginTypes DEF LoadForMailCode
<1>5. ASSUME NEW c \in Challenges, NEW m \in Methods, LoadForMethod(h, c, m)
      PROVE  TypeOK'
  <2>1. For(c, "method") \in Request
    BY <1>0 DEF Ops
  <2>2. [For(c, "method") EXCEPT !.method = m] \in Request
    BY <2>1 DEF Request
  <2> QED BY <1>5, <2>2, BeginTypes DEF LoadForMethod
<1>6. ASSUME NEW c \in Challenges, NEW f \in Presentable(c), Active(c),
             PresentCode(h, c, f)
      PROVE  TypeOK'
  <2>1. f \in Factor
    <3>1. SecretOf(c) \in Nat
      <4>1. ch[c].user \in Users
        BY <1>6 DEF OneChallenge
      <4>2. ch[c].secret \in Nat /\ user[ch[c].user].secret \in Nat
        BY <4>1 DEF TypeOK, ChallengeRow, UserRow
      <4> QED BY <4>2 DEF SecretOf
    <3>2. \A n \in (now - 1)..(now + 1) : n \in Nat
      BY DEF TypeOK
    <3>3. \A u \in Users : user[u].codes \subseteq Nat
      BY DEF TypeOK, UserRow
    <3>4. ch[c].code \in Nat
      <4>1. ch[c].code \in MailedCodes \cup {0}
        BY DEF TypeOK, ChallengeRow
      <4>2. MailedCodes \cup {0} \subseteq Nat
        BY Numbers
      <4> QED BY <4>1, <4>2
    <3>5. ch[c].user \in Users
      BY <1>6 DEF OneChallenge
    <3>6. spent \subseteq Factor
      BY DEF TypeOK
    <3>7. \A k \in {"none", "totp", "recovery", "email"}, m, n \in Nat :
             [kind |-> k, of |-> m, n |-> n] \in Factor
      BY DEF Factor
    <3>8. CASE f \in {[kind |-> "totp", of |-> SecretOf(c), n |-> n] :
                         n \in (now - 1)..(now + 1)}
      BY <3>1, <3>2, <3>7, <3>8
    <3>9. CASE f \in {[kind |-> "recovery", of |-> e, n |-> 0] :
                         e \in user[ch[c].user].codes}
      BY <3>3, <3>5, <3>7, <3>9
    <3> QED BY <3>4, <3>6, <3>7, <3>8, <3>9 DEF Presentable
  <2>2. For(c, "complete") \in Request /\ None \in Factor
    BY <1>0 DEF Ops, None, Factor
  <2>3. (IF f.kind = "email" THEN None ELSE f) \in Factor
    BY <2>1, <2>2
  <2>4. (IF IsRecovery(c, f) THEN "recovery" ELSE ch[c].method)
           \in Methods \cup {"none", "recovery"}
    BY DEF TypeOK, ChallengeRow
  <2>5. [For(c, "complete") EXCEPT
           !.factor = IF f.kind = "email" THEN None ELSE f,
           !.method = IF IsRecovery(c, f) THEN "recovery" ELSE ch[c].method]
           \in Request
    BY <2>2, <2>3, <2>4 DEF Request
  <2> QED BY <1>6, <2>5, BeginTypes DEF PresentCode
<1> QED BY <1>1, <1>2, <1>3, <1>4, <1>5, <1>6 DEF Loading

-----------------------------------------------------------------------------
(* What a step does. All the requests that are answered, the administration  *)
(* and the clock make Moves; only the two exchanges of a factor for a        *)
(* session do not also satisfy Ordinary.                                     *)

SameFactor(u) ==
    /\ user'[u].method = user[u].method /\ user'[u].secret = user[u].secret
    /\ user'[u].counter = user[u].counter /\ user'[u].codes = user[u].codes

Cleared(u) ==
    /\ user'[u].method = "none" /\ user'[u].secret = 0 /\ user'[u].codes = {}
    /\ sessions'[u] = {}
    /\ \A c \in Challenges : Active(c) /\ ch[c].user = u => ch'[c].status # "active"

Ends(c) ==
    Active(c) /\ ch'[c].status = "over" /\ Counted(c)' = Counted(c)

\* A wrong code that is not counted leaves a challenge that is over as it was.
Rests(c) ==
    ~Active(c) /\ ch'[c].status = ch[c].status /\ Counted(c)' = Counted(c)

SameCourse(c) ==
    /\ Active(c) /\ ch'[c].status = "active"
    /\ ch'[c].user = ch[c].user /\ ch'[c].purpose = ch[c].purpose

\* A new secret is the only change of its step to the challenges.
NewSecret(c) ==
    /\ made' = made + 1 /\ ch'[c].secret = made + 1
    /\ \A d \in Challenges \ {c} : ch'[d] = ch[d]

Stays(c) ==
    /\ SameCourse(c)
    /\ Counted(c)' = Counted(c) /\ ch'[c].attempts = ch[c].attempts
    /\ ch'[c].secret \in {ch[c].secret, 0} \/ NewSecret(c)
    /\ \/ ch'[c].method \in {ch[c].method, "totp"}
       \/ \E h \in Handlers : req[h].op = "method" /\ req[h].method = "email"
                              /\ req[h].ch = c

Begins(c) ==
    /\ ch[c].status = "free" /\ ch'[c].status = "active"
    /\ ch'[c].user \in Users /\ ch'[c].secret = 0 /\ ch'[c].method # "email"
    /\ Counted(c)' = 0 /\ ch'[c].attempts = 0
    /\ \E h \in Handlers : req[h].op = "login" /\ ch'[c].purpose = req[h].purpose
    /\ \A d \in Challenges \ {c} :
          \/ ch'[d] = ch[d] /\ ~(Active(d) /\ ch[d].user = ch'[c].user)
          \/ ch'[d].status = "over"

Counts(c, h) ==
    /\ req[h].op = "fail" /\ req[h].ch = c /\ req'[h] = Idle
    /\ Counted(c)' = Counted(c) + 1
    /\ \/ ~Active(c) /\ ch'[c].status = ch[c].status
       \/ /\ SameCourse(c) /\ ch'[c].attempts = ch[c].attempts + 1
          /\ ch'[c].secret = ch[c].secret /\ ch'[c].method = ch[c].method
       \/ Active(c) /\ ch'[c].status = "over" /\ ch[c].attempts + 1 >= MaxAttempts

ChallengeStep(c) ==
    \/ ch'[c] = ch[c] \/ Rests(c) \/ Ends(c) \/ Stays(c) \/ Begins(c)
    \/ \E h \in Handlers : Counts(c, h)

RequestStep(h) ==
    \/ req'[h] = req[h] \/ req'[h] = Idle
    \/ req[h].op \in {"mailcode", "complete"} /\ req'[h] = [req[h] EXCEPT !.op = "fail"]

Moves ==
    /\ TypeOK' /\ made' \in {made, made + 1} /\ mfa' = mfa
    /\ \A c \in Challenges : ChallengeStep(c)
    /\ \A h \in Handlers : RequestStep(h)

Ordinary ==
    /\ Moves /\ spent' = spent /\ (replayed' => replayed)
    /\ \A u \in Users :
          /\ SameFactor(u) \/ Cleared(u)
          /\ \A s \in sessions'[u] : s.by = "factor" => s \in sessions[u]

LEMMA FinishMoves ==
    ASSUME TypeOK, NEW h \in Handlers, Finish(h)
    PROVE  /\ req'[h] = Idle
           /\ \A g \in Handlers : RequestStep(g)
  BY DEF TypeOK, Finish, RequestStep

LEMMA RevokedMoves ==
    ASSUME TypeOK, NEW u, ch' = RevokedFor(u)
    PROVE  /\ \A c \in Challenges :
                 /\ ChallengeStep(c)
                 /\ Active(c) /\ ch[c].user = u => ch'[c].status # "active"
           /\ ch' \in [Challenges -> ChallengeRow]
<1>1. \A c \in Challenges : /\ Over(c).status = "over"
                             /\ Over(c).guesses = ch[c].guesses
                             /\ Over(c).uncounted = ch[c].uncounted
  BY OverRow
<1>2. ASSUME NEW c \in Challenges
      PROVE  /\ ChallengeStep(c)
             /\ Active(c) /\ ch[c].user = u => ch'[c].status # "active"
  <2>1. ch'[c] = IF Active(c) /\ ch[c].user = u THEN Over(c) ELSE ch[c]
    BY DEF RevokedFor
  <2> QED BY <1>1, <2>1 DEF ChallengeStep, Ends, Counted
<1> QED BY <1>2, RevokedTypes

LEMMA AdministrationMoves ==
    ASSUME TypeOK, Administration
    PROVE  Ordinary
<1> PICK u \in Users :
       \/ CreateInitialAdmin(u)
       \/ \E admin, enabled \in BOOLEAN : CreateUser(u, admin, enabled)
       \/ \E admin, enabled, reset \in BOOLEAN :
             UpdateUser(u, admin, enabled, reset)
       \/ DeleteUser(u)
       \/ ResetUserMFA(u)
  BY DEF Administration
<1>0. TypeOK'
  BY AdministrationTypes
<1>1. req' = req /\ made' = made /\ spent' = spent /\ replayed' = replayed
  BY DEF CreateInitialAdmin, CreateUser, UpdateUser, DeleteUser, ResetUserMFA,
         requests
<1>8. mfa' = mfa
  BY DEF CreateInitialAdmin, CreateUser, UpdateUser, DeleteUser, ResetUserMFA
<1>2. \A h \in Handlers : RequestStep(h)
  BY <1>1 DEF RequestStep
<1>3. ch' = ch \/ ch' = RevokedFor(u)
  BY DEF CreateInitialAdmin, CreateUser, UpdateUser, DeleteUser, ResetUserMFA
<1>4. \A c \in Challenges : ChallengeStep(c)
  BY <1>3, RevokedMoves DEF ChallengeStep
<1>5. Moves
  BY <1>0, <1>1, <1>2, <1>4, <1>8 DEF Moves
<1>6. \A v \in Users : sessions'[v] = sessions[v] \/ sessions'[v] = {}
  BY DEF CreateInitialAdmin, CreateUser, UpdateUser, DeleteUser, ResetUserMFA,
         TypeOK
<1>7. ASSUME NEW v \in Users PROVE SameFactor(v) \/ Cleared(v)
  <2>0. user \in [Users -> UserRow] /\ user[u] \in UserRow
    BY DEF TypeOK
  <2>1. CASE v # u
    BY <2>0, <2>1 DEF SameFactor, CreateInitialAdmin, CreateUser, UpdateUser,
                      DeleteUser, ResetUserMFA
  <2>2. CASE v = u /\ CreateInitialAdmin(u)
    BY <2>0, <2>2 DEF SameFactor, CreateInitialAdmin, UserRow
  <2>3. CASE v = u /\ \E admin, enabled \in BOOLEAN : CreateUser(u, admin, enabled)
    <3>1. PICK admin, enabled \in BOOLEAN :
             user'[u] = [user[u] EXCEPT !.state = "in", !.admin = admin,
                                        !.enabled = enabled]
      BY <2>0, <2>3 DEF CreateUser
    <3>2. /\ user'[u].method = user[u].method /\ user'[u].secret = user[u].secret
          /\ user'[u].counter = user[u].counter /\ user'[u].codes = user[u].codes
      BY <2>0, <3>1 DEF UserRow
    <3> QED BY <2>3, <3>2 DEF SameFactor
  <2>4. CASE v = u /\ \E admin, enabled, reset \in BOOLEAN :
                         UpdateUser(u, admin, enabled, reset)
    <3>1. PICK admin, enabled, reset \in BOOLEAN :
             user'[u] = Updated(user[u], admin, enabled, reset)
      BY <2>0, <2>4 DEF UpdateUser
    <3> DEFINE r == Updated(user[u], admin, enabled, reset)
    <3>3. /\ r.method = user[u].method /\ r.secret = user[u].secret
          /\ r.counter = user[u].counter /\ r.codes = user[u].codes
      BY <2>0 DEF Updated, UserRow
    <3> QED BY <2>4, <3>1, <3>3 DEF SameFactor
  <2>5. CASE v = u /\ DeleteUser(u)
    <3>1. user'[u] = [Row EXCEPT !.state = "gone"] /\ sessions'[u] = {}
          /\ ch' = RevokedFor(u)
      BY <2>0, <2>5 DEF DeleteUser, TypeOK
    <3> QED BY <2>5, <3>1, RevokedMoves DEF Cleared, Row
  <2>6. CASE v = u /\ ResetUserMFA(u)
    <3>1. user'[u] = WithoutFactor(user[u]) /\ sessions'[u] = {}
          /\ ch' = RevokedFor(u)
      BY <2>0, <2>6 DEF ResetUserMFA, TypeOK
    <3> QED BY <2>0, <2>6, <3>1, RevokedMoves DEF Cleared, WithoutFactor, UserRow
  <2> QED BY <2>1, <2>2, <2>3, <2>4, <2>5, <2>6
<1> QED BY <1>1, <1>5, <1>6, <1>7 DEF Ordinary

LEMMA SessionsMove ==
    ASSUME TypeOK, OneChallenge, NEW h \in Handlers,
           CreatePasswordSession(h) \/ ChangePassword(h), RequestsFit
    PROVE  Ordinary
<1> DEFINE u == req[h].user
<1>0. user \in [Users -> UserRow] /\ sessions \in [Users -> SUBSET SessionRow]
      /\ u \in Users /\ req[h].epoch \in Nat
  BY DEF RequestsFit, CreatePasswordSession, ChangePassword, TypeOK, Request
<1>1. Finish(h) /\ made' = made /\ spent' = spent /\ replayed' = replayed
      /\ now' = now /\ mfa' = mfa /\ epoch' = epoch
  BY DEF CreatePasswordSession, ChangePassword
<1>2. ch' \in [Challenges -> ChallengeRow] /\ \A c \in Challenges : ChallengeStep(c)
  BY RevokedMoves DEF CreatePasswordSession, ChangePassword, ChallengeStep, TypeOK
<1>3. \A h_1 \in Handlers : RequestStep(h_1)
  BY <1>1, FinishMoves
<1>4. /\ user' \in [Users -> UserRow]
      /\ \A v \in Users : SameFactor(v)
  <2>1. CASE user' = user
    BY <1>0, <2>1 DEF SameFactor
  <2>2. CASE user' = [user EXCEPT ![u] = [@ EXCEPT !.change = FALSE]]
    <3>1. /\ [user[u] EXCEPT !.change = FALSE] \in UserRow
          /\ user'[u] = [user[u] EXCEPT !.change = FALSE]
          /\ \A v \in Users \ {u} : user'[v] = user[v]
          /\ user[u] \in UserRow
      BY <1>0, <2>2, UserRows
    <3>2. SameFactor(u)
      BY <3>1 DEF SameFactor, UserRow
    <3> QED BY <1>0, <2>2, <3>1, <3>2 DEF SameFactor
  <2> QED BY <2>1, <2>2 DEF CreatePasswordSession, ChangePassword
<1>5. /\ sessions' \in [Users -> SUBSET SessionRow]
      /\ \A v \in Users : \A s \in sessions'[v] : s.by = "factor" => s \in sessions[v]
  <2> DEFINE s1 == [by |-> "password", ch |-> Null, epoch |-> req[h].epoch]
             s2 == [by |-> "change", ch |-> Null, epoch |-> req[h].epoch]
  <2>1. s1 \in SessionRow /\ s2 \in SessionRow /\ s1.by # "factor" /\ s2.by # "factor"
    BY <1>0 DEF SessionRow
  <2> HIDE DEF s1, s2
  <2>2. \A T \in {sessions[u], sessions[u] \cup {s1}, {s2}} :
           /\ T \in SUBSET SessionRow
           /\ \A s \in T : s.by = "factor" => s \in sessions[u]
    BY <1>0, <2>1
  <2>3. \E T \in {sessions[u], sessions[u] \cup {s1}, {s2}} :
           sessions' = [sessions EXCEPT ![u] = T]
    BY <1>0 DEF CreatePasswordSession, ChangePassword, s1, s2
  <2>4. PICK T \in {sessions[u], sessions[u] \cup {s1}, {s2}} :
           sessions' = [sessions EXCEPT ![u] = T]
    BY <2>3
  <2>5. T \in SUBSET SessionRow /\ \A s \in T : s.by = "factor" => s \in sessions[u]
    BY <2>2
  <2> HIDE DEF u
  <2> QED BY <1>0, <2>4, <2>5
<1>6. TypeOK'
  BY <1>1, <1>2, <1>4, <1>5, FinishTypes DEF TypeOK
<1> QED BY <1>1, <1>2, <1>3, <1>4, <1>5, <1>6 DEF Moves, Ordinary

\* The login's challenge replaces those of its user that are active.
LEMMA ChallengeMoves ==
    ASSUME TypeOK, RequestsFit, NEW h \in Handlers, NEW c \in Challenges,
           CreateMFAChallenge(h, c)
    PROVE  Ordinary
<1> DEFINE u == req[h].user
           row == [NoChallenge EXCEPT
                     !.status = "active", !.user = req[h].user,
                     !.purpose = req[h].purpose, !.method = req[h].method,
                     !.epoch = req[h].epoch]
<1>0. req[h] \in Request /\ req[h].op = "login" /\ req[h].purpose # "none"
      /\ u \in Users /\ req[h].method \in {"none", "totp"}
  BY DEF RequestsFit, CreateMFAChallenge, TypeOK
<1>1. row \in ChallengeRow
  <2>1. req[h].purpose \in Purposes /\ req[h].epoch \in Nat
    BY <1>0 DEF Request
  <2>2. NoChallenge \in ChallengeRow
    BY Numbers DEF ChallengeRow, NoChallenge, Purposes
  <2> QED BY <1>0, <2>1, <2>2, NewChallengeRow DEF Methods
<1>2. row.status = "active" /\ row.user = u /\ row.secret = 0 /\ row.method # "email"
      /\ row.guesses = 0 /\ row.uncounted = 0 /\ row.attempts = 0
      /\ row.purpose = req[h].purpose
  BY <1>0 DEF NoChallenge
<1> HIDE DEF row
<1>3. RevokedFor(u) \in [Challenges -> ChallengeRow]
  BY RevokedTypes
<1>4. /\ ch' \in [Challenges -> ChallengeRow]
      /\ \A d \in Challenges : ChallengeStep(d)
  <2>1. CASE ch' = ch
    BY <2>1 DEF ChallengeStep, TypeOK
  <2>2. CASE ch' = RevokedFor(u)
    BY <2>2, RevokedMoves
  <2>3. CASE ch' = [RevokedFor(u) EXCEPT ![c] = row]
    <3>1. ch' \in [Challenges -> ChallengeRow]
      BY <1>1, <1>3, <2>3
    <3>2. ch'[c] = row /\ \A d \in Challenges \ {c} : ch'[d] = RevokedFor(u)[d]
      BY <1>3, <2>3
    <3>3. ASSUME NEW d \in Challenges \ {c}
          PROVE  \/ ch'[d] = ch[d] /\ ~(Active(d) /\ ch[d].user = u)
                 \/ Active(d) /\ ch'[d].status = "over"
                    /\ Counted(d)' = Counted(d)
      BY <3>2, OverRow DEF RevokedFor, Counted
    <3>4. Begins(c)
      <4>1. Counted(c)' = 0
        BY <1>2, <3>2 DEF Counted
      <4>2. ch[c].status = "free"
        BY DEF CreateMFAChallenge
      <4> QED BY <1>0, <1>2, <3>2, <3>3, <4>1, <4>2 DEF Begins
    <3> QED BY <3>1, <3>3, <3>4 DEF ChallengeStep, Ends
  <2> QED BY <2>1, <2>2, <2>3 DEF CreateMFAChallenge, row
<1>5. Finish(h) /\ made' = made /\ spent' = spent /\ replayed' = replayed
      /\ now' = now /\ mfa' = mfa /\ epoch' = epoch
      /\ user' = user /\ sessions' = sessions
  BY DEF CreateMFAChallenge
<1>6. TypeOK'
  BY <1>4, <1>5, FinishTypes DEF TypeOK
<1> QED BY <1>4, <1>5, <1>6, FinishMoves DEF Moves, Ordinary, SameFactor

\* A handler that updates its challenge and is done, or goes on to count the
\* code as a wrong one.
Answers(h) ==
    \/ Finish(h)
    \/ /\ req[h].op \in {"mailcode", "complete"}
       /\ req' = [req EXCEPT ![h] = [@ EXCEPT !.op = "fail"]] /\ UNCHANGED asked

LEMMA AnswerMoves ==
    ASSUME TypeOK, NEW h \in Handlers, Answers(h)
    PROVE  /\ req' \in [Handlers -> Request] /\ asked' \in Nat
           /\ \A g \in Handlers : RequestStep(g)
<1>1. CASE Finish(h)
  BY <1>1, FinishTypes, FinishMoves
<1>2. CASE ~Finish(h)
  <2>1. req[h] \in Request /\ req \in [Handlers -> Request]
    BY DEF TypeOK
  <2>2. [req[h] EXCEPT !.op = "fail"] \in Request
    BY <2>1 DEF Request
  <2>3. /\ req[h].op \in {"mailcode", "complete"}
        /\ req' = [req EXCEPT ![h] = [req[h] EXCEPT !.op = "fail"]]
        /\ asked' = asked
    BY <1>2 DEF Answers
  <2> QED BY <2>1, <2>2, <2>3 DEF RequestStep, TypeOK
<1> QED BY <1>1, <1>2

LEMMA UpdateMoves ==
    ASSUME TypeOK, NEW h \in Handlers, NEW c \in Challenges, NEW row \in ChallengeRow,
           Updates(h, c, row), Answers(h), made' \in {made, made + 1},
           ch'[c] = row => ChallengeStep(c)
    PROVE  Ordinary
<1>1. TypeOK'
  <2>1. made' \in Nat
    BY DEF TypeOK
  <2> QED BY <2>1, AnswerMoves, UpdatesTypes
<1>2. ch'[c] = row /\ \A d \in Challenges \ {c} : ch'[d] = ch[d]
  BY DEF Updates, TypeOK
<1>3. \A d \in Challenges : ChallengeStep(d)
  BY <1>2 DEF ChallengeStep
<1> QED BY <1>1, <1>3, AnswerMoves DEF Moves, Ordinary, SameFactor, Updates

\* A row that leaves the challenge on its course.
Keeps(c, row) ==
    /\ row.status = ch[c].status /\ row.user = ch[c].user
    /\ row.purpose = ch[c].purpose /\ row.guesses = ch[c].guesses
    /\ row.uncounted = ch[c].uncounted /\ row.attempts = ch[c].attempts

LEMMA RowStays ==
    ASSUME NEW c \in Challenges, NEW row, Active(c), Keeps(c, row),
           row.secret = ch[c].secret, row.method = ch[c].method, ch'[c] = row
    PROVE  Stays(c)
  BY DEF Keeps, Active, Stays, SameCourse, Counted

LEMMA ClockMoves ==
    ASSUME TypeOK, Tick \/ \E c \in Challenges : Expire(c) \/ ClearMFAEmailDelivery(c)
    PROVE  Ordinary
<1>1. CASE Tick
  BY <1>1 DEF Tick, TypeOK, Moves, Ordinary, SameFactor, ChallengeStep, RequestStep,
              requests
<1>2. ASSUME NEW c \in Challenges, Expire(c) \/ ClearMFAEmailDelivery(c)
      PROVE  Ordinary
  <2>0. ch[c] \in ChallengeRow /\ ch \in [Challenges -> ChallengeRow] /\ Active(c)
    BY <1>2 DEF TypeOK, Expire, ClearMFAEmailDelivery
  <2>1. PICK row \in {[ch[c] EXCEPT !.expired = TRUE], [ch[c] EXCEPT !.code = 0]} :
           ch' = [ch EXCEPT ![c] = row]
    BY <1>2 DEF Expire, ClearMFAEmailDelivery
  <2>2. row \in ChallengeRow
    <3>1. \A r \in ChallengeRow : /\ [r EXCEPT !.expired = TRUE] \in ChallengeRow
                                 /\ [r EXCEPT !.code = 0] \in ChallengeRow
      BY DEF ChallengeRow
    <3> QED BY <2>0, <3>1
  <2>3. ch'[c] = row /\ \A d \in Challenges \ {c} : ch'[d] = ch[d]
    BY <2>0, <2>1
  <2>4. Stays(c)
    <3>1. /\ Keeps(c, row) /\ row.secret = ch[c].secret
          /\ row.method = ch[c].method
      BY <2>0, <2>1 DEF Keeps, ChallengeRow
    <3> QED BY <2>0, <2>3, <3>1, RowStays
  <2>5. UNCHANGED <<now, mfa, user, sessions, requests, made, epoch, spent, replayed>>
    BY <1>2 DEF Expire, ClearMFAEmailDelivery
  <2>6. TypeOK'
    BY <2>0, <2>1, <2>2, <2>5 DEF TypeOK, requests
  <2> QED BY <2>3, <2>4, <2>5, <2>6 DEF Moves, Ordinary, SameFactor, ChallengeStep,
                                        RequestStep, requests
<1> QED BY <1>1, <1>2

LEMMA OnboardingMoves ==
    ASSUME TypeOK, RequestsFit, NEW h \in Handlers, NEW c \in Challenges,
           \/ SetOnboardingPassword(h, c) \/ SetOnboardingEmailDelivery(h, c)
           \/ VerifyOnboardingEmail(h, c)
    PROVE  Ordinary
<1>0. ch[c] \in ChallengeRow /\ req[h] \in Request
  BY DEF TypeOK
<1>1. CASE SetOnboardingPassword(h, c)
  <2> DEFINE row == [ch[c] EXCEPT !.newPassword = TRUE]
  <2>1. row \in ChallengeRow
    BY <1>0, ChallengeRows DEF Methods
  <2>2. Active(c) /\ Updates(h, c, row) /\ Answers(h) /\ made' = made
    BY <1>1 DEF SetOnboardingPassword, Live, Answers
  <2>3. ch'[c] = row => ChallengeStep(c)
    <3>1. Keeps(c, row) /\ row.secret = ch[c].secret /\ row.method = ch[c].method
      BY <1>0 DEF Keeps, ChallengeRow
    <3> QED BY <2>2, <3>1, RowStays DEF ChallengeStep
  <2> HIDE DEF row
  <2> QED BY <2>1, <2>2, <2>3, UpdateMoves
<1>2. CASE SetOnboardingEmailDelivery(h, c)
  <2> DEFINE row == [Mailed(c) EXCEPT !.verified = FALSE]
  <2>0. req[h].factor = None
    BY <1>2 DEF RequestsFit, SetOnboardingEmailDelivery
  <2>1. NewCode(c) \in MailedCodes \cup {0}
    BY <2>0, NewCodes
  <2>2. row \in ChallengeRow
    <3>1. [ch[c] EXCEPT !.code = NewCode(c), !.expired = FALSE] \in ChallengeRow
      BY <1>0, <2>1, ChallengeRows
    <3> QED BY <3>1, ChallengeRows DEF Mailed
  <2>3. Active(c) /\ Updates(h, c, row) /\ Answers(h) /\ made' = made
    BY <1>2 DEF SetOnboardingEmailDelivery, Answers
  <2>4. ch'[c] = row => ChallengeStep(c)
    <3>1. Keeps(c, row) /\ row.secret = ch[c].secret /\ row.method = ch[c].method
      BY <1>0 DEF Keeps, ChallengeRow, Mailed
    <3> QED BY <2>3, <3>1, RowStays DEF ChallengeStep
  <2> HIDE DEF row
  <2> QED BY <2>2, <2>3, <2>4, UpdateMoves
<1>3. CASE VerifyOnboardingEmail(h, c)
  <2> DEFINE row == [ch[c] EXCEPT !.verified = TRUE, !.code = 0]
  <2>1. row \in ChallengeRow
    BY <1>0, ChallengeRows
  <2>2. Active(c) /\ Updates(h, c, row) /\ Answers(h) /\ made' = made
    BY <1>3 DEF VerifyOnboardingEmail, Answers
  <2>3. ch'[c] = row => ChallengeStep(c)
    <3>1. Keeps(c, row) /\ row.secret = ch[c].secret /\ row.method = ch[c].method
      BY <1>0 DEF Keeps, ChallengeRow
    <3> QED BY <2>2, <3>1, RowStays DEF ChallengeStep
  <2> HIDE DEF row
  <2> QED BY <2>1, <2>2, <2>3, UpdateMoves
<1> QED BY <1>1, <1>2, <1>3

LEMMA MethodMoves ==
    ASSUME TypeOK, RequestsFit, NEW h \in Handlers, NEW c \in Challenges,
           StartTOTP(h, c) \/ StartEmail(h, c)
    PROVE  Ordinary
<1>0. /\ ch[c] \in ChallengeRow /\ Active(c) /\ made \in Nat
      /\ ch \in [Challenges -> ChallengeRow]
  BY DEF TypeOK, StartTOTP, StartEmail
<1>1. CASE StartTOTP(h, c)
  <2> DEFINE s == IF ch[c].purpose = "onboard" THEN made + 1 ELSE 0
             row == [ch[c] EXCEPT !.method = "totp", !.code = 0, !.secret = s,
                                  !.expired = FALSE]
  <2>1. s \in Nat
    BY <1>0
  <2>2. /\ Updates(h, c, row) /\ Answers(h)
        /\ made' = IF ch[c].purpose = "onboard" THEN made + 1 ELSE made
    BY <1>1 DEF StartTOTP, Answers
  <2>3. s = 0 \/ (s = made + 1 /\ made' = made + 1)
    BY <2>2
  <2>4. made' \in {made, made + 1}
    BY <2>2
  <2> HIDE DEF s
  <2>5. row \in ChallengeRow
    BY <1>0, <2>1, ChallengeRows DEF Methods
  <2>6. \A d \in Challenges \ {c} : ch'[d] = ch[d]
    BY <1>0, <2>2 DEF Updates
  <2>7. ASSUME ch'[c] = row PROVE ChallengeStep(c)
    <3>1. /\ SameCourse(c) /\ Counted(c)' = Counted(c)
          /\ ch'[c].attempts = ch[c].attempts
          /\ ch'[c].secret = s /\ ch'[c].method = "totp"
      <4>1. Keeps(c, row) /\ row.secret = s /\ row.method = "totp"
        BY <1>0 DEF Keeps, ChallengeRow
      <4> QED BY <1>0, <2>7, <4>1 DEF Keeps, SameCourse, Active, Counted
    <3> QED BY <2>3, <2>6, <3>1 DEF ChallengeStep, Stays, NewSecret
  <2> HIDE DEF row
  <2> QED BY <2>2, <2>4, <2>5, <2>7, UpdateMoves
<1>2. CASE StartEmail(h, c)
  <2> DEFINE row == [Mailed(c) EXCEPT !.method = "email", !.secret = 0]
  <2>0. req[h].factor = None /\ req[h].op = "method" /\ req[h].method = "email"
    BY <1>2 DEF RequestsFit, StartEmail
  <2>1. NewCode(c) \in MailedCodes \cup {0}
    BY <2>0, NewCodes
  <2>2. row \in ChallengeRow
    <3>1. [ch[c] EXCEPT !.code = NewCode(c), !.expired = FALSE] \in ChallengeRow
      BY <1>0, <2>1, ChallengeRows
    <3> QED BY <3>1, ChallengeRows DEF Mailed, Methods
  <2>3. Updates(h, c, row) /\ Answers(h) /\ made' = made /\ req[h].ch = c
    BY <1>2 DEF StartEmail, Answers, Updates
  <2>4. ASSUME ch'[c] = row PROVE ChallengeStep(c)
    <3>1. /\ SameCourse(c) /\ Counted(c)' = Counted(c)
          /\ ch'[c].attempts = ch[c].attempts /\ ch'[c].secret = 0
      <4>1. Keeps(c, row) /\ row.secret = 0
        BY <1>0 DEF Keeps, ChallengeRow, Mailed
      <4> QED BY <1>0, <2>4, <4>1 DEF Keeps, SameCourse, Active, Counted
    <3> QED BY <2>0, <2>3, <3>1 DEF ChallengeStep, Stays
  <2> HIDE DEF row
  <2> QED BY <2>2, <2>3, <2>4, UpdateMoves
<1> QED BY <1>1, <1>2

LEMMA RefusalMoves ==
    ASSUME TypeOK, NEW h \in Handlers, NEW c \in Challenges,
           CompletionRefused(h, c) \/ MailCodeRefused(h, c)
    PROVE  Ordinary
<1>1. Updates(h, c, ch[c]) /\ Answers(h) /\ made' = made
  BY DEF CompletionRefused, MailCodeRefused, Fails, Answers
<1>2. ch[c] \in ChallengeRow
  BY DEF TypeOK
<1> QED BY <1>1, <1>2, UpdateMoves DEF ChallengeStep

\* A wrong code is counted; the last one that is counted ends the challenge.
LEMMA CountMoves ==
    ASSUME TypeOK, NEW h \in Handlers, NEW c \in Challenges,
           FailMFAChallenge(h, c)
    PROVE  Ordinary
<1>0. ch[c] \in ChallengeRow /\ Over(c) \in ChallengeRow
      /\ Over(c).status = "over" /\ Over(c).guesses = ch[c].guesses
      /\ Over(c).uncounted = ch[c].uncounted
      /\ ch[c].guesses \in Nat /\ ch[c].uncounted \in Nat
  BY OverRow DEF TypeOK, ChallengeRow
<1>1. /\ req[h].op = "fail" /\ req[h].ch = c /\ Finish(h) /\ Answers(h)
      /\ made' = made
  BY DEF FailMFAChallenge, Updates, Answers
<1>2. req'[h] = Idle
  BY <1>1, FinishMoves
<1>3. CASE ~Active(c)
  <2> DEFINE row == [ch[c] EXCEPT !.guesses = @ + 1]
  <2>1. row \in ChallengeRow /\ row.status = ch[c].status
        /\ row.guesses = ch[c].guesses + 1 /\ row.uncounted = ch[c].uncounted
    <3>1. row \in ChallengeRow
      BY <1>0, ChallengeRows DEF Methods
    <3> QED BY <1>0, <3>1 DEF ChallengeRow
  <2>2. Updates(h, c, row)
    BY <1>3 DEF FailMFAChallenge
  <2> HIDE DEF row
  <2>3. ch'[c] = row => Counts(c, h)
    BY <1>0, <1>1, <1>2, <1>3, <2>1 DEF Counts, Counted
  <2> QED BY <1>1, <2>1, <2>2, <2>3, UpdateMoves DEF ChallengeStep
<1>4. CASE Active(c) /\ ch[c].attempts + 1 < MaxAttempts
  <2> DEFINE row == [ch[c] EXCEPT !.guesses = @ + 1, !.attempts = @ + 1]
  <2>1. row \in ChallengeRow
    BY <1>0, <1>4, ChallengeRows DEF Methods
  <2>2. /\ row.status = ch[c].status /\ row.user = ch[c].user
        /\ row.purpose = ch[c].purpose /\ row.secret = ch[c].secret
        /\ row.method = ch[c].method
        /\ row.guesses = ch[c].guesses + 1 /\ row.attempts = ch[c].attempts + 1
        /\ row.uncounted = ch[c].uncounted
    BY <1>0 DEF ChallengeRow
  <2>3. Updates(h, c, row)
    BY <1>4 DEF FailMFAChallenge
  <2> HIDE DEF row
  <2>4. ch'[c] = row => Counts(c, h)
    BY <1>0, <1>1, <1>2, <1>4, <2>2 DEF Counts, SameCourse, Active, Counted
  <2> QED BY <1>1, <2>1, <2>3, <2>4, UpdateMoves DEF ChallengeStep
<1>5. CASE Active(c) /\ ~(ch[c].attempts + 1 < MaxAttempts)
  <2> DEFINE row == [Over(c) EXCEPT !.guesses = @ + 1]
  <2>1. row \in ChallengeRow
    BY <1>0, ChallengeRows DEF Methods
  <2>2. row.status = "over" /\ row.guesses = ch[c].guesses + 1
        /\ row.uncounted = ch[c].uncounted
    BY <1>0 DEF ChallengeRow
  <2>3. Updates(h, c, row)
    BY <1>5 DEF FailMFAChallenge
  <2>4. ch[c].attempts + 1 >= MaxAttempts
    BY <1>0, <1>5, Numbers DEF ChallengeRow
  <2> HIDE DEF row
  <2>5. ch'[c] = row => Counts(c, h)
    BY <1>0, <1>1, <1>2, <1>5, <2>2, <2>4 DEF Counts, Counted
  <2> QED BY <1>1, <2>1, <2>3, <2>5, UpdateMoves DEF ChallengeStep
<1> QED BY <1>3, <1>4, <1>5

\* A wrong code whose count fails leaves the challenge on its course.
LEMMA MissMoves ==
    ASSUME TypeOK, NEW h \in Handlers, NEW c \in Challenges, FailUncounted(h, c)
    PROVE  Ordinary
<1> DEFINE row == [ch[c] EXCEPT !.guesses = @ + 1, !.uncounted = @ + 1]
<1>0. ch[c] \in ChallengeRow /\ ch[c].guesses \in Nat /\ ch[c].uncounted \in Nat
  BY DEF TypeOK, ChallengeRow
<1>1. row \in ChallengeRow
  BY <1>0, ChallengeRows DEF Methods
<1>2. /\ row.status = ch[c].status /\ row.user = ch[c].user
      /\ row.purpose = ch[c].purpose /\ row.secret = ch[c].secret
      /\ row.method = ch[c].method /\ row.attempts = ch[c].attempts
      /\ row.guesses - row.uncounted = ch[c].guesses - ch[c].uncounted
  BY <1>0 DEF ChallengeRow
<1>3. Updates(h, c, row) /\ Answers(h) /\ made' = made
  BY DEF FailUncounted, Answers
<1> HIDE DEF row
<1>4. ch'[c] = row => Stays(c) \/ Rests(c)
  BY <1>2 DEF Stays, Rests, SameCourse, Active, Counted
<1> QED BY <1>1, <1>3, <1>4, UpdateMoves DEF ChallengeStep

LEMMA OpensMoves ==
    ASSUME TypeOK, OneChallenge, NEW h \in Handlers, NEW c \in Challenges, Active(c),
           NEW by \in {"password", "factor"}, NEW used \in SUBSET Factor,
           Opens(c, by, used), Finish(h), made' \in {made, made + 1},
           user' \in [Users -> UserRow], UNCHANGED <<now, mfa, epoch>>
    PROVE  /\ Moves
           /\ ch[c].user \in Users /\ ch'[c].status = "over"
           /\ \A d \in Challenges \ {c} : ch'[d] = ch[d]
           /\ sessions'[ch[c].user] = {[by |-> by, ch |-> c, epoch |-> ch[c].epoch]}
           /\ \A v \in Users \ {ch[c].user} : sessions'[v] = sessions[v]
           /\ spent' = spent \cup used
           /\ used \cap spent = {} => (replayed' => replayed)
<1>1. TypeOK'
  <2>1. made' \in Nat
    BY DEF TypeOK
  <2> QED BY <2>1, OpensTypes, FinishTypes DEF TypeOK
<1>2. ch'[c] = Over(c) /\ \A d \in Challenges \ {c} : ch'[d] = ch[d]
  BY DEF Opens, TypeOK
<1>3. \A d \in Challenges : ChallengeStep(d)
  BY <1>2, OverRow DEF ChallengeStep, Ends, Counted
<1>4. Moves
  BY <1>1, <1>3, FinishMoves DEF Moves
<1>5. ch[c].user \in Users
  BY DEF OneChallenge
<1> QED BY <1>2, <1>4, <1>5, OverRow DEF Opens, TypeOK

LEMMA PasswordMoves ==
    ASSUME TypeOK, OneChallenge, NEW h \in Handlers, NEW c \in Challenges,
           CompletePasswordChange(h, c)
    PROVE  Ordinary
<1> DEFINE u == ch[c].user
<1>1. Active(c) /\ u \in Users /\ user \in [Users -> UserRow] /\ user[u] \in UserRow
  BY DEF CompletePasswordChange, Live, OneChallenge, TypeOK
<1>2. [user[u] EXCEPT !.change = FALSE] \in UserRow
  BY <1>1, UserRows
<1>3. /\ user' = [user EXCEPT ![u] = [user[u] EXCEPT !.change = FALSE]]
      /\ Opens(c, "password", {}) /\ Finish(h)
      /\ made' = made /\ UNCHANGED <<now, mfa, epoch>>
  BY DEF CompletePasswordChange
<1>4. user' \in [Users -> UserRow]
  BY <1>1, <1>2, <1>3
<1>5. \A v \in Users : SameFactor(v)
  <2>1. /\ user'[u] = [user[u] EXCEPT !.change = FALSE]
        /\ \A v \in Users \ {u} : user'[v] = user[v]
    BY <1>1, <1>3
  <2>2. SameFactor(u)
    BY <1>1, <2>1 DEF SameFactor, UserRow
  <2> QED BY <2>1, <2>2 DEF SameFactor
<1>6. /\ Moves
      /\ sessions'[u] = {[by |-> "password", ch |-> c, epoch |-> ch[c].epoch]}
      /\ \A v \in Users \ {u} : sessions'[v] = sessions[v]
      /\ spent' = spent \cup {}
      /\ {} \cap spent = {} => (replayed' => replayed)
  <2>1. {} \in SUBSET Factor /\ made' \in {made, made + 1}
    BY <1>3
  <2> QED BY <1>1, <1>3, <1>4, <2>1, OpensMoves
<1>7. ASSUME NEW v \in Users, NEW s \in sessions'[v], s.by = "factor"
      PROVE  s \in sessions[v]
  BY <1>1, <1>6, <1>7
<1> QED BY <1>5, <1>6, <1>7 DEF Ordinary

LEMMA LeaveMoves ==
    ASSUME TypeOK, \/ \E h \in Handlers : Leave(h)
                   \/ \E u \in Users : \E s \in sessions[u] : SessionEnds(u, s)
    PROVE  Ordinary
<1>1. ASSUME NEW h \in Handlers, Leave(h) PROVE Ordinary
  <2>1. Finish(h) /\ UNCHANGED <<now, mfa, user, ch, sessions, made, epoch, spent, replayed>>
    BY <1>1 DEF Leave, Refused
  <2>2. TypeOK'
    BY <2>1, FinishTypes DEF TypeOK
  <2> QED BY <2>1, <2>2, FinishMoves DEF Moves, Ordinary, ChallengeStep, SameFactor
<1>2. ASSUME NEW u \in Users, NEW s \in sessions[u], SessionEnds(u, s) PROVE Ordinary
  <2>1. /\ sessions' = [sessions EXCEPT ![u] = sessions[u] \ {s}]
        /\ UNCHANGED <<now, mfa, user, ch, requests, made, epoch, spent, replayed>>
    BY <1>2 DEF SessionEnds
  <2>2. TypeOK'
    BY <2>1 DEF TypeOK, requests
  <2>3. \A v \in Users : sessions'[v] \subseteq sessions[v]
    BY <2>1 DEF TypeOK
  <2> QED BY <2>1, <2>2, <2>3 DEF Moves, Ordinary, ChallengeStep, RequestStep,
                                 SameFactor, requests
<1> QED BY <1>1, <1>2

LEMMA WritingMoves ==
    ASSUME TypeOK, OneChallenge, RequestsFit, NEW h \in Handlers, Writing(h)
    PROVE  \/ Ordinary
           \/ \E c \in Challenges :
                 CompleteMFAEnrollment(h, c) \/ CompleteMFAAuthentication(h, c)
  BY SessionsMove, ChallengeMoves, OnboardingMoves, MethodMoves, RefusalMoves,
     CountMoves, MissMoves, PasswordMoves DEF Writing

\* A request that begins fits the challenge that it has read.
Fits(r) ==
    /\ r.ch \in Challenges => Active(r.ch)
    /\ r.op \in {"login", "change"} => r.ch = Null /\ r.user \in Users
    /\ r.op = "login" => r.method \in {"none", "totp"}
    /\ r.op \in {"mail", "method"} => r.factor = None
    /\ r.op = "method" /\ r.ch \in Challenges /\ Verifying(r.ch) =>
          user[ch[r.ch].user].method = r.method
    /\ mfa /\ r.op = "login" => r.purpose # "password"
    /\ r.op = "complete" =>
          /\ mfa
          /\ r.method = "recovery" => r.factor.kind = "recovery"
          /\ r.method = "email" => ch[r.ch].method = "email"
          /\ r.method = "totp" => /\ r.factor.kind = "totp" /\ r.factor.of # 0
                                  /\ r.factor.of = SecretOf(r.ch)

Loaded(h) ==
    /\ TypeOK' /\ req[h] = Idle /\ Fits(req'[h])
    /\ \A g \in Handlers \ {h} : req'[g] = req[g]
    /\ UNCHANGED <<mfa, user, ch, sessions, made, spent, replayed>>

LEMMA LoadingMoves ==
    ASSUME TypeOK, OneChallenge, NEW h \in Handlers, Loading(h)
    PROVE  Loaded(h)
<1>0. TypeOK'
  BY LoadingTypes
<1>1. ASSUME NEW r, Begin(h, r), Fits(r) PROVE Loaded(h)
  BY <1>0, <1>1 DEF Begin, Loaded, TypeOK
<1>2. ASSUME NEW u \in Users, Login(h, u) PROVE Loaded(h)
  <2> DEFINE r == [Idle EXCEPT
                     !.op = "login", !.user = u, !.purpose = Purpose(u),
                     !.method = IF mfa /\ user[u].method = "totp"
                                THEN "totp" ELSE "none",
                     !.epoch = epoch[u]]
  <2>1. /\ r.op = "login" /\ r.ch = Null /\ r.user = u
        /\ r.method \in {"none", "totp"} /\ r.purpose = Purpose(u)
    BY DEF Idle
  <2>2. Begin(h, r) /\ (mfa => Purpose(u) # "password")
    BY <1>2 DEF Login, Purpose
  <2> HIDE DEF r
  <2> QED BY <1>1, <2>1, <2>2, Numbers DEF Fits
<1>3. ASSUME NEW u \in Users, LoadForChange(h, u) PROVE Loaded(h)
  <2> DEFINE r == [Idle EXCEPT !.op = "change", !.user = u, !.epoch = epoch[u]]
  <2>1. r.op = "change" /\ r.ch = Null /\ r.user = u
    BY DEF Idle
  <2>2. Begin(h, r)
    BY <1>3 DEF LoadForChange
  <2> HIDE DEF r
  <2> QED BY <1>1, <2>1, <2>2, Numbers DEF Fits
<1>4. ASSUME NEW c \in Challenges, NEW op,
             op \in {"password", "mail", "fail"}, Begin(h, For(c, op)), Active(c)
      PROVE  Loaded(h)
  <2>1. For(c, op).op = op /\ For(c, op).ch = c /\ For(c, op).factor = None
    BY DEF For, Idle
  <2> QED BY <1>1, <1>4, <2>1 DEF Fits
<1>5. ASSUME NEW c \in Challenges, NEW n, LoadForMailCode(h, c, n) PROVE Loaded(h)
  <2> DEFINE r == [For(c, "mailcode") EXCEPT
                     !.factor = [kind |-> "email", of |-> 0, n |-> n]]
  <2>1. r.op = "mailcode" /\ r.ch = c
    BY DEF For, Idle
  <2>2. Begin(h, r) /\ Active(c)
    BY <1>5 DEF LoadForMailCode, Loads, Live
  <2> HIDE DEF r
  <2> QED BY <1>1, <2>1, <2>2 DEF Fits
<1>6. ASSUME NEW c \in Challenges, NEW m \in Methods, LoadForMethod(h, c, m)
      PROVE  Loaded(h)
  <2> DEFINE r == [For(c, "method") EXCEPT !.method = m]
  <2>1. r.op = "method" /\ r.ch = c /\ r.factor = None /\ r.method = m
    BY DEF For, Idle
  <2>2. Begin(h, r) /\ Active(c) /\ (Verifying(c) => user[ch[c].user].method = m)
    BY <1>6 DEF LoadForMethod, Loads, Live, Verifying
  <2> HIDE DEF r
  <2> QED BY <1>1, <2>1, <2>2 DEF Fits
<1>7. ASSUME NEW c \in Challenges, NEW f, PresentCode(h, c, f) PROVE Loaded(h)
  <2> DEFINE r == [For(c, "complete") EXCEPT
                     !.factor = IF f.kind = "email" THEN None ELSE f,
                     !.method = IF IsRecovery(c, f) THEN "recovery"
                                ELSE ch[c].method]
  <2>1. /\ r.op = "complete" /\ r.ch = c
        /\ r.factor = IF f.kind = "email" THEN None ELSE f
        /\ r.method = IF IsRecovery(c, f) THEN "recovery" ELSE ch[c].method
    BY DEF For, Idle
  <2>2. mfa /\ Begin(h, r) /\ Active(c) /\ (IsRecovery(c, f) \/ Matches(c, f))
    BY <1>7 DEF PresentCode, Loads, Live
  <2> HIDE DEF r
  <2>3. CASE IsRecovery(c, f)
    BY <1>1, <2>1, <2>2, <2>3 DEF Fits, IsRecovery
  <2>4. CASE ~IsRecovery(c, f) /\ Matches(c, f)
    BY <1>1, <2>1, <2>2, <2>4 DEF Fits, Matches
  <2> QED BY <2>2, <2>3, <2>4
<1>8. ASSUME NEW c \in Challenges,
             LoadForPassword(h, c) \/ LoadForMail(h, c) \/ PresentWrongCode(h, c)
      PROVE  Loaded(h)
  BY <1>4, <1>8 DEF LoadForPassword, LoadForMail, PresentWrongCode, Loads, Live
<1> QED BY <1>2, <1>3, <1>5, <1>6, <1>7, <1>8 DEF Loading

-----------------------------------------------------------------------------
(* The conjuncts of the invariant, one by one. *)

\* What becomes of an active challenge and of those who work on it.
LEMMA ActiveChallenges ==
    ASSUME TypeOK, OneChallenge, RequestsFit, Moves, NEW c \in Challenges,
           ch'[c].status = "active"
    PROVE  \/ /\ SameCourse(c) /\ ch[c].user \in Users
              /\ Counted(c)' - ch'[c].attempts = Counted(c) - ch[c].attempts
           \/ Begins(c)
<1>1. ch[c] \in ChallengeRow
  BY DEF TypeOK
<1>2. Counted(c) \in Int /\ ch[c].attempts \in Int
  BY <1>1, Numbers DEF ChallengeRow, Counted
<1>3. CASE ch'[c] = ch[c]
  BY <1>3 DEF SameCourse, OneChallenge, Active, Counted
<1>4. CASE Stays(c)
  BY <1>4 DEF Stays, SameCourse, OneChallenge
<1>5. ASSUME NEW h \in Handlers, Counts(c, h)
      PROVE  /\ SameCourse(c) /\ ch[c].user \in Users
             /\ Counted(c)' - ch'[c].attempts = Counted(c) - ch[c].attempts
  <2>1. SameCourse(c) /\ ch'[c].attempts = ch[c].attempts + 1
        /\ Counted(c)' = Counted(c) + 1
    BY <1>5 DEF Counts, Active
  <2> QED BY <1>2, <2>1 DEF OneChallenge, SameCourse
<1> QED BY <1>3, <1>4, <1>5 DEF Moves, ChallengeStep, Ends, Rests, Active

LEMMA OneChallengeStays ==
    ASSUME TypeOK, OneChallenge, RequestsFit, Moves
    PROVE  OneChallenge'
<1>0. ASSUME NEW c \in Challenges
      PROVE  Counted(c) \in Int /\ ch[c].attempts \in Int
             /\ Counted(c)' \in Int /\ ch'[c].attempts \in Int
  <2>1. ch[c] \in ChallengeRow /\ ch'[c] \in ChallengeRow
    BY DEF TypeOK, Moves
  <2> QED BY <2>1, Numbers DEF ChallengeRow, Counted
<1>1. ASSUME NEW c \in Challenges, ch'[c].status = "active"
      PROVE  ch'[c].user \in Users /\ Counted(c)' = ch'[c].attempts
  <2>1. CASE Begins(c)
    BY <2>1 DEF Begins
  <2>2. CASE /\ SameCourse(c) /\ ch[c].user \in Users
             /\ Counted(c)' - ch'[c].attempts = Counted(c) - ch[c].attempts
    BY <1>0, <2>2 DEF SameCourse, OneChallenge
  <2> QED BY <1>1, <2>1, <2>2, ActiveChallenges
<1>2. ASSUME NEW c \in Challenges, NEW d \in Challenges,
             ch'[c].status = "active", ch'[d].status = "active",
             ch'[c].user = ch'[d].user
      PROVE  c = d
  <2>1. SameCourse(c) \/ Begins(c)
    BY <1>2, ActiveChallenges
  <2>2. SameCourse(d) \/ Begins(d)
    BY <1>2, ActiveChallenges
  <2>3. CASE SameCourse(c) /\ SameCourse(d)
    BY <1>2, <2>3 DEF SameCourse, OneChallenge
  <2>4. CASE Begins(c) /\ c # d
    BY <1>2, <2>2, <2>4 DEF Begins, SameCourse, Active
  <2>5. CASE Begins(d) /\ c # d
    BY <1>2, <2>1, <2>5 DEF Begins, SameCourse, Active
  <2> QED BY <2>1, <2>2, <2>3, <2>4, <2>5
<1> QED BY <1>1, <1>2 DEF OneChallenge, Active

\* Requests that are answered or go on to fail fit as before.
LEMMA RequestsStayFit ==
    ASSUME TypeOK, RequestsFit, Moves
    PROVE  RequestsFit'
<1>0. \A c \in Challenges : ch[c] \in ChallengeRow
  BY DEF TypeOK
<1>1. ASSUME NEW c \in Challenges, ch'[c].status = "free"
      PROVE  ch[c].status = "free" /\ Counted(c)' = 0
  <2>1. CASE ch'[c] = ch[c]
    BY <1>1, <2>1 DEF RequestsFit, Counted
  <2> QED BY <1>1, <2>1 DEF RequestsFit, Moves, ChallengeStep, Rests, Ends, Stays,
                            SameCourse, Begins, Counts, Active
<1>2. ASSUME NEW h \in Handlers
      PROVE  \/ req'[h] = req[h] \/ req'[h] = Idle
             \/ req'[h].op = "fail" /\ req'[h].ch = req[h].ch
  <2>1. req[h] \in Request
    BY DEF TypeOK
  <2> QED BY <2>1 DEF Moves, RequestStep, Request
<1>3. Idle.ch = Null /\ Idle.op = "idle"
  BY DEF Idle
<1>4. ASSUME NEW h \in Handlers
      PROVE  /\ req'[h].ch \in Challenges => ch'[req'[h].ch].status # "free"
             /\ req'[h].op \in {"login", "change"} =>
                   req'[h].ch = Null /\ req'[h].user \in Users
             /\ req'[h].op = "login" => req'[h].method \in {"none", "totp"}
             /\ req'[h].op \in {"mail", "method"} => req'[h].factor = None
             /\ req'[h].op = "complete" =>
                   /\ req'[h].method = "totp" =>
                         req'[h].factor.kind = "totp" /\ req'[h].factor.of # 0
                   /\ req'[h].method = "recovery" => req'[h].factor.kind = "recovery"
  BY <1>1, <1>2, <1>3, Numbers DEF RequestsFit
<1> QED BY <1>1, <1>4 DEF RequestsFit

\* The users of the challenges that go on keep their factors.
FactorsKept ==
    \A c \in Challenges : Active(c) /\ ch'[c].status = "active" =>
       SameFactor(ch[c].user)

LEMMA PurposesStayFit ==
    ASSUME TypeOK, OneChallenge, RequestsFit, PurposesFit, Moves
    PROVE  PurposesFit'
<1>1. ASSUME NEW c \in Challenges, ch'[c].status = "active", mfa
      PROVE  ch'[c].purpose # "password"
  BY <1>1, ActiveChallenges DEF PurposesFit, SameCourse, Begins
<1>2. ASSUME NEW h \in Handlers
      PROVE  /\ mfa /\ req'[h].op = "login" => req'[h].purpose # "password"
             /\ req'[h].op = "complete" => mfa
  <2>1. req[h] \in Request /\ Idle.op = "idle"
    BY DEF TypeOK, Idle
  <2> QED BY <2>1 DEF PurposesFit, Moves, RequestStep, Request
<1>3. mfa' = mfa
  BY DEF Moves
<1> QED BY <1>1, <1>2, <1>3 DEF PurposesFit, Active

LEMMA VerifyingStaysEnrolled ==
    ASSUME TypeOK, OneChallenge, RequestsFit, VerifyingIsEnrolled, Moves, FactorsKept
    PROVE  VerifyingIsEnrolled'
<1>1. ASSUME NEW c \in Challenges, ch'[c].status = "active", Active(c)
      PROVE  /\ SameCourse(c)
             /\ user'[ch'[c].user].method = user[ch[c].user].method
             /\ user'[ch'[c].user].secret = user[ch[c].user].secret
  <2>1. SameCourse(c)
    BY <1>1, ActiveChallenges DEF Begins, Active
  <2> QED BY <1>1, <2>1 DEF FactorsKept, SameFactor, SameCourse
<1>2. ASSUME NEW c \in Challenges, ch'[c].status = "active",
             ch'[c].purpose = "verify", ch'[c].method = "email"
      PROVE  user'[ch'[c].user].method # "none"
  <2>1. ~Begins(c)
    BY <1>2 DEF Begins
  <2>2. Active(c) /\ SameCourse(c)
    BY <1>2, <2>1, ActiveChallenges DEF SameCourse
  <2>3. Verifying(c)
    BY <1>2, <2>2 DEF Verifying, SameCourse
  <2>4. CASE ch[c].method = "email"
    BY <1>1, <1>2, <2>2, <2>3, <2>4 DEF VerifyingIsEnrolled
  <2>5. CASE ch[c].method # "email"
    <3>1. Stays(c)
      BY <1>2, <2>1, <2>5 DEF Moves, ChallengeStep, Rests, Ends, Counts, Active
    <3>2. PICK h \in Handlers : req[h].op = "method" /\ req[h].method = "email"
                                /\ req[h].ch = c
      BY <1>2, <2>5, <3>1 DEF Stays
    <3>3. user[ch[c].user].method = "email"
      BY <2>3, <3>2 DEF VerifyingIsEnrolled
    <3> QED BY <1>1, <1>2, <2>2, <3>3
  <2> QED BY <2>4, <2>5
<1>3. ASSUME NEW h \in Handlers, req'[h].ch \in Challenges,
             ch'[req'[h].ch].status = "active", ch'[req'[h].ch].purpose = "verify"
      PROVE  /\ req'[h].op = "method" =>
                   user'[ch'[req'[h].ch].user].method = req'[h].method
             /\ req'[h].op = "complete" /\ req'[h].method = "email" =>
                   user'[ch'[req'[h].ch].user].method # "none"
             /\ req'[h].op = "complete" /\ req'[h].method = "totp" =>
                   req'[h].factor.of = user'[ch'[req'[h].ch].user].secret
  <2>0. req[h] \in Request
    BY DEF TypeOK
  <2>1. CASE req'[h] = Idle
    BY <1>3, <2>1, Numbers DEF Idle
  <2>2. CASE req'[h] = [req[h] EXCEPT !.op = "fail"]
    BY <2>0, <2>2 DEF Request
  <2>3. CASE req'[h] = req[h]
    <3>1. ch[req[h].ch].status # "free"
      BY <1>3, <2>3 DEF RequestsFit
    <3>2. SameCourse(req[h].ch)
      BY <1>3, <2>3, <3>1, ActiveChallenges DEF Begins
    <3>3. Verifying(req[h].ch)
      BY <1>3, <2>3, <3>2 DEF Verifying, SameCourse
    <3> QED BY <1>1, <1>3, <2>3, <3>2, <3>3 DEF VerifyingIsEnrolled, SameCourse
  <2> QED BY <2>1, <2>2, <2>3 DEF Moves, RequestStep
<1> QED BY <1>2, <1>3 DEF VerifyingIsEnrolled, Verifying, Active

\* Who owns a secret after a step did so before, or the secret is new.
LEMMA Owners ==
    ASSUME TypeOK, OneChallenge, RequestsFit, Moves, NEW c \in Challenges,
           NEW s \in Nat, Owns(c, s)'
    PROVE  /\ SameCourse(c)
           /\ \/ Owns(c, s)
              \/ /\ s = made + 1 /\ made' = made + 1 /\ ch'[c].secret # ch[c].secret
                 /\ \A d \in Challenges \ {c} : ch'[d] = ch[d]
<1>1. /\ ch'[c].status = "active" /\ ch'[c].purpose = "onboard" /\ s # 0
      /\ \/ ch'[c].secret = s
         \/ \E h \in Handlers : req'[h].op = "complete" /\ req'[h].method = "totp"
                                /\ req'[h].ch = c /\ req'[h].factor.of = s
  BY DEF Owns, Enrolling, Active
<1>2. ASSUME NEW h \in Handlers, req'[h].op = "complete", req'[h].ch = c
      PROVE  req'[h] = req[h] /\ ~Begins(c)
  <2>1. req'[h] = req[h]
    <3>1. req[h] \in Request /\ Idle.op = "idle"
      BY DEF TypeOK, Idle
    <3> QED BY <1>2, <3>1 DEF Moves, RequestStep, Request
  <2> QED BY <1>2, <2>1 DEF RequestsFit, Begins
<1>3. ~Begins(c)
  BY <1>1, <1>2 DEF Begins
<1>4. SameCourse(c) /\ Enrolling(c)
  BY <1>1, <1>3, ActiveChallenges DEF SameCourse, Enrolling
<1>5. CASE \E h \in Handlers : req'[h].op = "complete" /\ req'[h].method = "totp"
                               /\ req'[h].ch = c /\ req'[h].factor.of = s
  BY <1>1, <1>2, <1>4, <1>5 DEF Owns
<1>6. CASE ch'[c].secret = s
  <2>1. \/ ch'[c].secret \in {ch[c].secret, 0} \/ NewSecret(c)
    BY <1>1, <1>3 DEF Moves, ChallengeStep, Rests, Ends, Stays, Counts, Active
  <2> QED BY <1>1, <1>4, <1>6, <2>1 DEF Owns, NewSecret
<1> QED BY <1>1, <1>4, <1>5, <1>6

LEMMA SecretsStayApart ==
    ASSUME TypeOK, OneChallenge, RequestsFit, SecretsApart, Ordinary
    PROVE  SecretsApart'
<1>1. made \in Nat /\ made' \in Nat /\ made' >= made /\ spent' = spent /\ Moves
  BY DEF TypeOK, Ordinary, Moves
<1>2. ASSUME NEW u \in Users, NEW s \in Nat, Has(u, s)'
      PROVE  Has(u, s) /\ user'[u].counter = user[u].counter
  BY <1>2 DEF Ordinary, SameFactor, Cleared, Has
<1>3. ASSUME NEW s \in Nat PROVE IsSpent(s)' <=> IsSpent(s)
  BY <1>1 DEF IsSpent
<1>4. ASSUME NEW c \in Challenges, NEW s \in Nat, Owns(c, s)'
      PROVE  /\ s <= made' /\ ~IsSpent(s)'
             /\ \A u \in Users : ~Has(u, s)'
             /\ \A d \in Challenges : Owns(d, s)' => d = c
  <2>1. CASE Owns(c, s)
    <3>1. s <= made /\ ~IsSpent(s) /\ \A u \in Users : ~Has(u, s)
      BY <2>1 DEF SecretsApart
    <3>2. ASSUME NEW d \in Challenges, Owns(d, s)' PROVE d = c
      <4>1. Owns(d, s)
        BY <1>1, <3>1, <3>2, Owners
      <4> QED BY <2>1, <4>1 DEF SecretsApart
    <3> QED BY <1>1, <1>2, <1>3, <3>1, <3>2
  <2>2. CASE ~Owns(c, s)
    <3>1. /\ s = made + 1 /\ made' = made + 1 /\ ch'[c].secret # ch[c].secret
          /\ \A d \in Challenges \ {c} : ch'[d] = ch[d]
      BY <1>1, <1>4, <2>2, Owners
    <3>2. ~IsSpent(s) /\ \A u \in Users : ~Has(u, s)
      BY <1>1, <3>1 DEF SecretsApart
    <3>3. ASSUME NEW d \in Challenges, Owns(d, s)' PROVE d = c
      <4>1. ~Owns(d, s)
        BY <1>1, <3>1 DEF SecretsApart
      <4>2. ch'[d].secret # ch[d].secret
        BY <1>1, <3>3, <4>1, Owners
      <4> QED BY <3>1, <4>2
    <3> QED BY <1>1, <1>2, <1>3, <3>1, <3>2, <3>3
  <2> QED BY <2>1, <2>2
<1>5. ASSUME NEW u \in Users, NEW s \in Nat, Has(u, s)'
      PROVE  /\ s <= made'
             /\ \A v \in Users : Has(v, s)' => v = u
             /\ \A f \in spent' :
                   f.kind = "totp" /\ f.of = s => f.n <= user'[u].counter
  <2>1. Has(u, s) /\ user'[u].counter = user[u].counter
    BY <1>2, <1>5
  <2>2. /\ s <= made
        /\ \A f \in spent : f.kind = "totp" /\ f.of = s => f.n <= user[u].counter
    BY <2>1 DEF SecretsApart
  <2>3. ASSUME NEW v \in Users, Has(v, s)' PROVE v = u
    <3>1. Has(v, s)
      BY <1>2, <2>3
    <3> QED BY <2>1, <3>1 DEF SecretsApart
  <2> QED BY <1>1, <2>1, <2>2, <2>3
<1>6. ASSUME NEW s \in Nat, IsSpent(s)' PROVE s <= made'
  BY <1>1, <1>3, <1>6 DEF SecretsApart
<1> QED BY <1>4, <1>5, <1>6 DEF SecretsApart

LEMMA CodesStayApart ==
    ASSUME TypeOK, CodesApart, Ordinary
    PROVE  CodesApart'
<1>1. made \in Nat /\ made' >= made /\ made' \in Nat /\ spent' = spent
      /\ spent \subseteq Factor
  BY DEF TypeOK, Ordinary, Moves
<1>2. \A u \in Users : user'[u].codes \subseteq user[u].codes
  BY DEF Ordinary, SameFactor, Cleared
<1>3. \A u \in Users : user[u].codes \subseteq Nat
  BY DEF TypeOK, UserRow
<1>4. ASSUME NEW u \in Users, NEW e \in user'[u].codes
      PROVE  /\ e <= made'
             /\ \A v \in Users : e \in user'[v].codes => v = u
             /\ \A f \in spent' : f.kind = "recovery" => f.of # e
  <2>1. e \in user[u].codes /\ e \in Nat /\ e <= made
    BY <1>2, <1>3 DEF CodesApart
  <2> QED BY <1>1, <1>2, <2>1 DEF CodesApart
<1>5. ASSUME NEW f \in spent', f.kind = "recovery" PROVE f.of <= made'
  <2>1. f.of \in Nat /\ f.of <= made
    BY <1>1, <1>5 DEF CodesApart, Factor
  <2> QED BY <1>1, <2>1
<1> QED BY <1>4, <1>5 DEF CodesApart

LEMMA GuessesStayCounted ==
    ASSUME TypeOK, OneChallenge, GuessesAreCounted, Moves
    PROVE  GuessesAreCounted'
<1> DEFINE N == Cardinality(Handlers)
<1>0. N \in Nat /\ IsFiniteSet(Handlers) /\ MaxAttempts \in Nat
  BY Numbers
<1>1. ASSUME NEW c \in Challenges, NEW T \in SUBSET Handlers
      PROVE  IsFiniteSet(T) /\ Cardinality(T) \in Nat /\ Cardinality(T) <= N
  BY <1>0, FS_Subset, FS_CardinalityType
<1>2. ASSUME NEW c \in Challenges PROVE Pending(c)' \subseteq Pending(c)
  <2>1. ASSUME NEW h \in Handlers, h \in Pending(c)' PROVE h \in Pending(c)
    <3>1. req[h] \in Request /\ Idle.op = "idle"
      BY DEF TypeOK, Idle
    <3>2. req'[h].op \in {"mailcode", "complete", "fail"} /\ req'[h].ch = c
      BY <2>1 DEF Pending
    <3> QED BY <3>1, <3>2 DEF Moves, RequestStep, Request, Pending
  <2> QED BY <2>1 DEF Pending
<1>3. ASSUME NEW c \in Challenges, ch'[c].status # "active"
      PROVE  Counted(c)' + Cardinality(Pending(c)') <= MaxAttempts - 1 + N
  <2>0. ch[c] \in ChallengeRow
    BY DEF TypeOK
  <2>1. /\ Counted(c) \in Int /\ ch[c].attempts \in Nat
        /\ ch[c].attempts <= MaxAttempts - 1
    BY <1>0, <2>0 DEF ChallengeRow, Counted
  <2>2. Pending(c) \subseteq Handlers /\ Pending(c)' \subseteq Handlers
    BY DEF Pending
  <2>3. /\ Cardinality(Pending(c)) \in Nat /\ Cardinality(Pending(c)') \in Nat
        /\ IsFiniteSet(Pending(c)) /\ Cardinality(Pending(c)') <= N
    BY <1>1, <2>2
  <2>4. Cardinality(Pending(c)') <= Cardinality(Pending(c))
    BY <1>2, <2>3, FS_Subset
  <2>5. CASE ch'[c] = ch[c] \/ Rests(c)
    <3>0. ~Active(c) /\ Counted(c)' = Counted(c)
      BY <1>3, <2>5 DEF Rests, Active, Counted
    <3>1. Counted(c) + Cardinality(Pending(c)) <= MaxAttempts - 1 + N
      BY <3>0 DEF GuessesAreCounted
    <3> QED BY <1>0, <2>1, <2>3, <2>4, <3>0, <3>1
  <2>6. CASE Ends(c)
    <3>1. Counted(c)' = ch[c].attempts
      BY <2>6 DEF Ends, OneChallenge
    <3> QED BY <1>0, <2>1, <2>3, <3>1
  <2>7. ASSUME NEW h \in Handlers, Counts(c, h)
        PROVE  Counted(c)' + Cardinality(Pending(c)') <= MaxAttempts - 1 + N
    <3>1. h \in Pending(c) /\ h \notin Pending(c)'
      BY <2>7 DEF Counts, Pending, Idle
    <3>2. Counted(c)' = Counted(c) + 1
      BY <2>7 DEF Counts
    <3>3. CASE Active(c)
      <4>1. Counted(c) <= MaxAttempts - 1
        BY <2>1, <3>3 DEF OneChallenge
      <4>2. Pending(c)' \subseteq Handlers \ {h}
        BY <2>2, <3>1
      <4>3. IsFiniteSet(Handlers \ {h}) /\ Cardinality(Handlers \ {h}) = N - 1
        BY <1>0, FS_RemoveElement
      <4>4. Cardinality(Pending(c)') <= N - 1
        BY <4>2, <4>3, FS_Subset
      <4> QED BY <1>0, <2>1, <2>3, <3>2, <4>1, <4>4
    <3>4. CASE ~Active(c)
      <4>1. Counted(c) + Cardinality(Pending(c)) <= MaxAttempts - 1 + N
        BY <3>4 DEF GuessesAreCounted
      <4>2. Pending(c)' \subseteq Pending(c) \ {h}
        BY <1>2, <3>1
      <4>3. /\ IsFiniteSet(Pending(c) \ {h})
            /\ Cardinality(Pending(c) \ {h}) = Cardinality(Pending(c)) - 1
        BY <2>3, <3>1, FS_RemoveElement
      <4>4. Cardinality(Pending(c)') <= Cardinality(Pending(c)) - 1
        BY <4>2, <4>3, FS_Subset
      <4> QED BY <1>0, <2>1, <2>3, <3>2, <4>1, <4>4
    <3> QED BY <3>3, <3>4
  <2> QED BY <1>3, <2>5, <2>6, <2>7 DEF Moves, ChallengeStep, Stays, SameCourse, Begins
<1> QED BY <1>3 DEF GuessesAreCounted, Active

-----------------------------------------------------------------------------
(* The invariant is kept by ordinary steps, by requests that begin and by the *)
(* two exchanges.                                                             *)

LEMMA OrdinaryKeeps ==
    ASSUME IInv, Ordinary
    PROVE  IInv'
<1> USE DEF IInv
<1>1. TypeOK' /\ Moves
  BY DEF Ordinary, Moves
<1>2. NoFactorNoCodes'
  BY DEF NoFactorNoCodes, Ordinary, SameFactor, Cleared
<1>3. OneChallenge' /\ RequestsFit' /\ PurposesFit' /\ GuessesAreCounted'
  BY <1>1, OneChallengeStays, RequestsStayFit, PurposesStayFit, GuessesStayCounted
<1>4. FactorsKept
  BY DEF FactorsKept, Ordinary, Cleared, OneChallenge
<1>5. VerifyingIsEnrolled'
  BY <1>1, <1>4, VerifyingStaysEnrolled
<1>6. SecretsApart' /\ CodesApart'
  BY SecretsStayApart, CodesStayApart
<1>7. ExchangedOnce' /\ FactorStandsBehindSession'
  BY DEF ExchangedOnce, FactorStandsBehindSession, Ordinary, SameFactor, Cleared
<1> QED BY <1>1, <1>2, <1>3, <1>5, <1>6, <1>7

LEMMA LoadedKeeps ==
    ASSUME IInv, NEW h \in Handlers, Loaded(h)
    PROVE  IInv'
<1> USE DEF IInv
<1>0. /\ TypeOK' /\ req[h] = Idle /\ Fits(req'[h])
      /\ \A g \in Handlers \ {h} : req'[g] = req[g]
      /\ mfa' = mfa
      /\ user' = user /\ ch' = ch /\ sessions' = sessions /\ made' = made
      /\ spent' = spent /\ replayed' = replayed
  BY DEF Loaded
<1>1. NoFactorNoCodes' /\ OneChallenge' /\ CodesApart' /\ ExchangedOnce'
      /\ FactorStandsBehindSession'
  BY <1>0 DEF NoFactorNoCodes, OneChallenge, CodesApart, ExchangedOnce,
              FactorStandsBehindSession, Active, Counted
<1>2. RequestsFit'
  <2>1. ASSUME NEW g \in Handlers
        PROVE  /\ req'[g].ch \in Challenges => ch[req'[g].ch].status # "free"
               /\ req'[g].op \in {"login", "change"} =>
                     req'[g].ch = Null /\ req'[g].user \in Users
               /\ req'[g].op = "login" => req'[g].method \in {"none", "totp"}
               /\ req'[g].op \in {"mail", "method"} => req'[g].factor = None
               /\ req'[g].op = "complete" =>
                     /\ req'[g].method = "totp" =>
                           req'[g].factor.kind = "totp" /\ req'[g].factor.of # 0
                     /\ req'[g].method = "recovery" => req'[g].factor.kind = "recovery"
    <3>1. CASE g = h
      BY <1>0, <3>1 DEF Fits, Active
    <3>2. CASE g # h
      BY <1>0, <3>2 DEF RequestsFit
    <3> QED BY <3>1, <3>2
  <2> QED BY <1>0, <2>1 DEF RequestsFit, Counted
<1>6. PurposesFit'
  <2>1. ASSUME NEW g \in Handlers
        PROVE  /\ mfa /\ req'[g].op = "login" => req'[g].purpose # "password"
               /\ req'[g].op = "complete" => mfa
    BY <1>0 DEF Fits, PurposesFit
  <2> QED BY <1>0, <2>1 DEF PurposesFit, Active
<1>3. VerifyingIsEnrolled'
  <2>1. ASSUME NEW g \in Handlers, req'[g].ch \in Challenges, Verifying(req'[g].ch)
        PROVE  /\ req'[g].op = "method" =>
                     user[ch[req'[g].ch].user].method = req'[g].method
               /\ req'[g].op = "complete" /\ req'[g].method = "email" =>
                     user[ch[req'[g].ch].user].method # "none"
               /\ req'[g].op = "complete" /\ req'[g].method = "totp" =>
                     req'[g].factor.of = user[ch[req'[g].ch].user].secret
    <3>1. CASE g = h
      BY <1>0, <2>1, <3>1 DEF Fits, VerifyingIsEnrolled, SecretOf, Verifying
    <3>2. CASE g # h
      BY <1>0, <2>1, <3>2 DEF VerifyingIsEnrolled
    <3> QED BY <3>1, <3>2
  <2> QED BY <1>0, <2>1 DEF VerifyingIsEnrolled, Verifying, Active
<1>4. SecretsApart'
  <2>1. ASSUME NEW c \in Challenges, NEW s \in Nat, Owns(c, s)' PROVE Owns(c, s)
    <3>1. Enrolling(c) /\ s # 0
      BY <1>0, <2>1 DEF Owns, Enrolling, Active
    <3>2. CASE ch[c].secret = s
      BY <3>1, <3>2 DEF Owns
    <3>3. CASE ch[c].secret # s
      <4>1. PICK g \in Handlers : req'[g].op = "complete" /\ req'[g].method = "totp"
                                  /\ req'[g].ch = c /\ req'[g].factor.of = s
        BY <1>0, <2>1, <3>3 DEF Owns
      <4>2. g # h
        BY <1>0, <3>1, <3>3, <4>1 DEF Fits, SecretOf, Enrolling
      <4> QED BY <1>0, <3>1, <4>1, <4>2 DEF Owns
    <3> QED BY <3>2, <3>3
  <2>2. \A u \in Users, s \in Nat : Has(u, s)' <=> Has(u, s)
    BY <1>0 DEF Has
  <2>3. \A s \in Nat : IsSpent(s)' <=> IsSpent(s)
    BY <1>0 DEF IsSpent
  <2> QED BY <1>0, <2>1, <2>2, <2>3 DEF SecretsApart
<1>5. GuessesAreCounted'
  <2>1. ASSUME NEW c \in Challenges, ~Active(c) PROVE Pending(c)' = Pending(c)
    <3>1. h \notin Pending(c)
      BY <1>0 DEF Pending, Idle
    <3>2. req'[h].ch # c
      BY <1>0, <2>1 DEF Fits
    <3> QED BY <1>0, <3>1, <3>2 DEF Pending
  <2> QED BY <1>0, <2>1 DEF GuessesAreCounted, Active, Counted
<1> QED BY <1>0, <1>1, <1>2, <1>3, <1>4, <1>5, <1>6

LEMMA InitIInv == Init => IInv
<1> SUFFICES ASSUME Init PROVE IInv
  OBVIOUS
<1>1. Row \in UserRow /\ \A m \in Methods : Enrolled(m) \in UserRow
  <2>1. Row \in UserRow
    BY DEF Row, UserRow
  <2>2. ASSUME NEW r \in UserRow, NEW m \in Methods, NEW a \in BOOLEAN,
               NEW b \in BOOLEAN, NEW C \in SUBSET Nat
        PROVE  [r EXCEPT !.state = "in", !.admin = a, !.enabled = a, !.change = b,
                         !.method = m, !.secret = 1, !.codes = C] \in UserRow
    BY DEF UserRow
  <2>3. {1} \in SUBSET Nat /\ TRUE \in BOOLEAN /\ FALSE \in BOOLEAN
    OBVIOUS
  <2> QED BY <2>1, <2>2, <2>3 DEF Enrolled
<1>2. user \in [Users -> UserRow]
  BY <1>1 DEF Init
<1>3. ASSUME NEW u \in Users
      PROVE  /\ user[u].method = "none" => user[u].codes = {}
             /\ user[u].secret \in {0, 1} /\ user[u].codes \subseteq {1}
             /\ \A v \in Users : /\ user[u].secret = 1 /\ user[v].secret = 1 => v = u
                                 /\ user[u].codes # {} /\ user[v].codes # {} => v = u
  <2>1. CASE user = [v \in Users |-> Row]
    BY <2>1 DEF Row
  <2>2. ASSUME NEW a \in Users, NEW m \in Methods,
               user = [[v \in Users |-> Row] EXCEPT ![a] = Enrolled(m)]
        PROVE  /\ user[u].method = "none" => user[u].codes = {}
               /\ user[u].secret \in {0, 1} /\ user[u].codes \subseteq {1}
               /\ \A v \in Users : /\ user[u].secret = 1 /\ user[v].secret = 1 => v = u
                                   /\ user[u].codes # {} /\ user[v].codes # {} => v = u
    <3>1. user[a] = Enrolled(m) /\ \A v \in Users \ {a} : user[v] = Row
      BY <2>2
    <3>2. Row.method = "none" /\ Row.codes = {} /\ Row.secret = 0
      BY DEF Row
    <3>3. Enrolled(m).method = m /\ Enrolled(m).codes = {1} /\ Enrolled(m).secret = 1
      BY DEF Enrolled, Row
    <3> QED BY <3>1, <3>2, <3>3 DEF Methods
  <2> QED BY <2>1, <2>2 DEF Init
<1>4. NoChallenge \in ChallengeRow /\ Idle \in Request
  <2>1. NoChallenge \in ChallengeRow
    BY Numbers DEF ChallengeRow, NoChallenge, Purposes
  <2>2. None \in Factor
    BY DEF None, Factor
  <2>3. Idle \in Request
    BY <2>2 DEF Idle, Request
  <2> QED BY <2>1, <2>3
<1>5. TypeOK
  <2>1. /\ now \in Nat \ {0} /\ asked \in Nat /\ made \in Nat
    BY DEF Init
  <2>4. mfa \in BOOLEAN
    BY DEF Init
  <2>5. replayed \in BOOLEAN
    BY DEF Init
  <2>6. spent \in SUBSET Factor
    BY DEF Init
  <2>2. /\ ch \in [Challenges -> ChallengeRow] /\ req \in [Handlers -> Request]
        /\ epoch \in [Users -> Nat]
    BY <1>4 DEF Init
  <2>3. sessions \in [Users -> SUBSET SessionRow]
    BY DEF Init
  <2> QED BY <1>2, <2>1, <2>2, <2>3, <2>4, <2>5, <2>6 DEF TypeOK
<1>6. \A c \in Challenges : ~Active(c) /\ ch[c].status = "free" /\ Counted(c) = 0
  BY DEF Init, Active, NoChallenge, Counted
<1>7. \A h \in Handlers : req[h] = Idle
  BY DEF Init
<1>8. NoFactorNoCodes /\ OneChallenge /\ ExchangedOnce /\ FactorStandsBehindSession
  BY <1>3, <1>6 DEF Init, NoFactorNoCodes, OneChallenge, ExchangedOnce,
                    FactorStandsBehindSession
<1>9. RequestsFit /\ PurposesFit /\ VerifyingIsEnrolled
  BY <1>6, <1>7, Numbers DEF RequestsFit, PurposesFit, VerifyingIsEnrolled, Verifying,
                             Idle
<1>10. SecretsApart
  BY <1>3, <1>6 DEF Init, SecretsApart, Owns, Enrolling, Has, IsSpent
<1>11. CodesApart
  BY <1>3 DEF Init, CodesApart
<1>12. GuessesAreCounted
  <2>1. \A c \in Challenges : Pending(c) = {}
    BY <1>7 DEF Pending, Idle
  <2>2. Cardinality({}) = 0
    BY FS_EmptySet
  <2>3. 0 <= MaxAttempts - 1 + Cardinality(Handlers)
    BY Numbers
  <2>4. ASSUME NEW c \in Challenges
        PROVE  Counted(c) + Cardinality(Pending(c))
                  <= MaxAttempts - 1 + Cardinality(Handlers)
    BY <1>6, <2>1, <2>2, <2>3
  <2> QED BY <2>4 DEF GuessesAreCounted
<1> QED BY <1>5, <1>8, <1>9, <1>10, <1>11, <1>12 DEF IInv

\* What both exchanges do to the challenges: one ends, and with it the only
\* active challenge of its user.
Exchanges(c) ==
    /\ Moves /\ Active(c) /\ ch'[c].status = "over"
    /\ \A d \in Challenges \ {c} : ch'[d] = ch[d]
    /\ \A v \in Users \ {ch[c].user} :
          user'[v] = user[v] /\ sessions'[v] = sessions[v]

LEMMA ExchangeKeeps ==
    ASSUME IInv, NEW c \in Challenges, Exchanges(c)
    PROVE  /\ TypeOK' /\ OneChallenge' /\ RequestsFit' /\ GuessesAreCounted'
           /\ PurposesFit' /\ VerifyingIsEnrolled'
           /\ \A d \in Challenges, s \in Nat : Owns(d, s)' => d # c /\ Owns(d, s)
<1>1. TypeOK' /\ OneChallenge' /\ RequestsFit' /\ GuessesAreCounted' /\ PurposesFit'
  BY OneChallengeStays, RequestsStayFit, PurposesStayFit, GuessesStayCounted
     DEF IInv, Exchanges, Moves
<1>2. FactorsKept
  BY DEF FactorsKept, Exchanges, IInv, OneChallenge, SameFactor, Active
<1>3. VerifyingIsEnrolled'
  BY <1>2, VerifyingStaysEnrolled DEF IInv, Exchanges
<1>4. ASSUME NEW d \in Challenges, NEW s \in Nat, Owns(d, s)'
      PROVE  d # c /\ Owns(d, s)
  <2>1. SameCourse(d)
        /\ (Owns(d, s) \/ ch'[d].secret # ch[d].secret)
    BY <1>4, Owners DEF IInv, Exchanges
  <2>2. d # c
    BY <2>1 DEF SameCourse, Exchanges
  <2> QED BY <2>1, <2>2 DEF Exchanges
<1> QED BY <1>1, <1>3, <1>4

LEMMA EnrollmentKeeps ==
    ASSUME IInv, NEW h \in Handlers, NEW c \in Challenges, CompleteMFAEnrollment(h, c)
    PROVE  IInv'
<1> DEFINE u == ch[c].user
           f == req[h].factor
           t == ch[c].secret
           m == req[h].method
           n == IF m = "totp" THEN f.n ELSE 0
           used == IF m = "totp" THEN {f} ELSE {}
           row == [user[u] EXCEPT !.change = FALSE, !.method = m, !.secret = t,
                                  !.counter = n, !.codes = {made + 1}]
<1>1. /\ TypeOK /\ OneChallenge /\ Active(c) /\ ch[c].purpose = "onboard"
      /\ req[h].op = "complete" /\ req[h].ch = c /\ m \in Methods
      /\ (m = "totp" => t # 0)
      /\ user' = [user EXCEPT ![u] = row] /\ made' = made + 1
      /\ Opens(c, "factor", used) /\ Finish(h) /\ UNCHANGED <<now, mfa, epoch>>
  BY DEF CompleteMFAEnrollment, Live, IInv
<1>2. /\ user \in [Users -> UserRow] /\ u \in Users /\ user[u] \in UserRow
      /\ t \in Nat /\ f \in Factor /\ made \in Nat /\ spent \subseteq Factor
  BY <1>1 DEF TypeOK, OneChallenge, ChallengeRow, Request
<1>3. f.of \in Nat /\ f.n \in Nat /\ n \in Nat
  BY <1>2 DEF Factor
<1>4. used \in SUBSET Factor
  BY <1>2
<1>5. row \in UserRow
  <2>1. {made + 1} \in SUBSET Nat
    BY <1>2
  <2> HIDE DEF n
  <2> QED BY <1>1, <1>2, <1>3, <2>1, EnrolledRows
<1>6. /\ row.method = m /\ row.secret = t /\ row.counter = n
      /\ row.codes = {made + 1}
  BY <1>2 DEF UserRow
<1>7. m = "totp" => f.kind = "totp" /\ f.of # 0
  BY <1>1 DEF IInv, RequestsFit
<1>8. Enrolling(c)
  BY <1>1 DEF Enrolling
<1>9. /\ t # 0 => Owns(c, t)
      /\ m = "totp" => Owns(c, f.of)
  BY <1>1, <1>7, <1>8 DEF Owns
<1> HIDE DEF row, used, n
<1>10. /\ user' \in [Users -> UserRow] /\ user'[u] = row
       /\ \A v \in Users \ {u} : user'[v] = user[v]
  BY <1>1, <1>2, <1>5
<1>11. /\ Moves /\ ch'[c].status = "over"
       /\ \A d \in Challenges \ {c} : ch'[d] = ch[d]
       /\ sessions'[u] = {[by |-> "factor", ch |-> c, epoch |-> ch[c].epoch]}
       /\ \A v \in Users \ {u} : sessions'[v] = sessions[v]
       /\ spent' = spent \cup used
       /\ used \cap spent = {} => (replayed' => replayed)
  <2>1. made' \in {made, made + 1}
    BY <1>1
  <2> QED BY <1>1, <1>4, <1>10, <2>1, OpensMoves
<1>12. Exchanges(c)
  BY <1>1, <1>10, <1>11 DEF Exchanges
<1>13. /\ TypeOK' /\ OneChallenge' /\ RequestsFit' /\ GuessesAreCounted'
       /\ PurposesFit' /\ VerifyingIsEnrolled'
       /\ \A d \in Challenges, s \in Nat : Owns(d, s)' => d # c /\ Owns(d, s)
  BY <1>12, ExchangeKeeps
<1>14. NoFactorNoCodes' /\ FactorStandsBehindSession'
  <2>1. user'[u].method # "none"
    BY <1>1, <1>6, <1>10 DEF Methods
  <2> QED BY <1>10, <1>11, <2>1 DEF IInv, NoFactorNoCodes, FactorStandsBehindSession
<1>15. \A g \in used : g = f /\ m = "totp"
  BY DEF used
<1>16. ExchangedOnce'
  <2>1. used \cap spent = {}
    <3>1. ASSUME m = "totp", f \in spent PROVE FALSE
      <4>1. IsSpent(f.of)
        BY <1>7, <3>1 DEF IsSpent
      <4> QED BY <1>3, <1>9, <3>1, <4>1 DEF IInv, SecretsApart
    <3> QED BY <1>15, <3>1
  <2> QED BY <1>11, <2>1 DEF IInv, ExchangedOnce
<1>17. SecretsApart'
  <2>0. ASSUME NEW s \in Nat, IsSpent(s)'
        PROVE  IsSpent(s) \/ (m = "totp" /\ s = f.of)
    BY <1>11, <1>15, <2>0 DEF IsSpent
  <2>1. ASSUME NEW v \in Users, NEW s \in Nat, Has(v, s)'
        PROVE  \/ v # u /\ Has(v, s) /\ user'[v].counter = user[v].counter
               \/ v = u /\ s = t /\ s # 0
    BY <1>6, <1>10, <2>1 DEF Has
  <2>2. ASSUME NEW d \in Challenges, NEW s \in Nat, Owns(d, s)'
        PROVE  /\ s <= made' /\ ~IsSpent(s)'
               /\ \A v \in Users : ~Has(v, s)'
               /\ \A e \in Challenges : Owns(e, s)' => e = d
    <3>1. d # c /\ Owns(d, s)
      BY <1>13, <2>2
    <3>2. /\ s <= made /\ ~IsSpent(s) /\ \A v \in Users : ~Has(v, s)
          /\ \A e \in Challenges : Owns(e, s) => e = d
      BY <3>1 DEF IInv, SecretsApart
    <3>3. ~Owns(c, s)
      BY <3>1, <3>2
    <3> QED BY <1>1, <1>2, <1>9, <1>13, <2>0, <2>1, <3>2, <3>3
  <2>3. ASSUME NEW v \in Users, NEW s \in Nat, Has(v, s)'
        PROVE  /\ s <= made'
               /\ \A w \in Users : Has(w, s)' => w = v
               /\ \A g \in spent' :
                     g.kind = "totp" /\ g.of = s => g.n <= user'[v].counter
    <3>1. CASE v = u
      <4>1. s = t /\ Owns(c, s)
        BY <1>9, <2>1, <2>3, <3>1
      <4>2. s <= made /\ ~IsSpent(s) /\ \A w \in Users : ~Has(w, s)
        BY <4>1 DEF IInv, SecretsApart
      <4>3. ASSUME NEW g \in spent', g.kind = "totp", g.of = s
            PROVE  g.n <= user'[u].counter
        <5>1. g = f /\ m = "totp"
          BY <1>11, <1>15, <4>2, <4>3 DEF IsSpent
        <5> QED BY <1>3, <1>6, <1>10, <5>1 DEF n
      <4> QED BY <1>1, <1>2, <2>1, <3>1, <4>2, <4>3
    <3>2. CASE v # u
      <4>1. Has(v, s) /\ user'[v].counter = user[v].counter
        BY <2>1, <2>3, <3>2
      <4>2. /\ s <= made
            /\ \A g \in spent : g.kind = "totp" /\ g.of = s => g.n <= user[v].counter
            /\ \A w \in Users : Has(w, s) => w = v
            /\ ~Owns(c, s)
        BY <4>1 DEF IInv, SecretsApart
      <4> QED BY <1>1, <1>2, <1>9, <1>11, <1>15, <2>1, <4>1, <4>2
    <3> QED BY <3>1, <3>2
  <2>4. ASSUME NEW s \in Nat, IsSpent(s)' PROVE s <= made'
    <3>1. s <= made
      BY <1>9, <2>0, <2>4 DEF IInv, SecretsApart
    <3> QED BY <1>1, <1>2, <3>1
  <2> QED BY <2>2, <2>3, <2>4 DEF SecretsApart
<1>18. CodesApart'
  <2>1. \A g \in spent' : g.kind = "recovery" => g \in spent
    BY <1>7, <1>11, <1>15
  <2>2. \A v \in Users : user[v].codes \subseteq Nat
    BY <1>2 DEF UserRow
  <2>3. \A g \in spent : g.kind = "recovery" => g.of \in Nat /\ g.of <= made
    BY <1>2 DEF IInv, CodesApart, Factor
  <2>4. ASSUME NEW v \in Users, NEW e \in user'[v].codes
        PROVE  /\ e <= made'
               /\ \A w \in Users : e \in user'[w].codes => w = v
               /\ \A g \in spent' : g.kind = "recovery" => g.of # e
    <3>1. \A w \in Users \ {u} : \A d \in user[w].codes : d \in Nat /\ d <= made
      BY <2>2 DEF IInv, CodesApart
    <3>2. CASE v = u
      BY <1>1, <1>2, <1>6, <1>10, <2>1, <2>3, <2>4, <3>1, <3>2
    <3>3. CASE v # u
      <4>1. e \in user[v].codes /\ e \in Nat /\ e <= made /\ e # made + 1
        BY <1>2, <1>10, <2>4, <3>1, <3>3
      <4> QED BY <1>1, <1>2, <1>6, <1>10, <2>1, <3>3, <4>1 DEF IInv, CodesApart
    <3> QED BY <3>2, <3>3
  <2> QED BY <1>1, <1>2, <2>1, <2>3, <2>4 DEF CodesApart
<1> QED BY <1>13, <1>14, <1>16, <1>17, <1>18 DEF IInv

LEMMA AuthenticationKeeps ==
    ASSUME IInv, NEW h \in Handlers, NEW c \in Challenges,
           CompleteMFAAuthentication(h, c)
    PROVE  IInv'
<1> DEFINE u == ch[c].user
           f == req[h].factor
           m == req[h].method
           n == IF m = "totp" THEN f.n ELSE user[u].counter
           left == IF m = "recovery" THEN user[u].codes \ {f.of} ELSE user[u].codes
           used == IF m = "email" THEN {} ELSE {f}
           row == WithUsed(user[u], m, f)
<1>1. /\ TypeOK /\ OneChallenge /\ Active(c) /\ ch[c].purpose = "verify"
      /\ req[h].op = "complete" /\ req[h].ch = c
      /\ made' = made
      /\ Opens(c, "factor", used) /\ Finish(h) /\ UNCHANGED <<now, mfa, epoch>>
  <2>1. ch[c].purpose # "onboard" /\ ch[c].purpose # "password"
    BY DEF CompleteMFAAuthentication, Live, IInv, PurposesFit
  <2>2. ch[c].purpose \in Purposes
    BY DEF IInv, TypeOK, ChallengeRow
  <2> QED BY <2>1, <2>2 DEF CompleteMFAAuthentication, Live, IInv, Purposes
<1>2. /\ user \in [Users -> UserRow] /\ u \in Users /\ user[u] \in UserRow
      /\ f \in Factor /\ made \in Nat /\ spent \subseteq Factor
  BY <1>1 DEF TypeOK, OneChallenge, Request
<1>3. /\ f.of \in Nat /\ f.n \in Nat /\ n \in Nat /\ left \in SUBSET Nat
      /\ user[u].counter \in Nat /\ user[u].secret \in Nat
  BY <1>2 DEF Factor, UserRow
<1>4. used \in SUBSET Factor
  BY <1>2
<1>5. /\ row \in UserRow
      /\ row.method = user[u].method /\ row.secret = user[u].secret
      /\ row.counter = n /\ row.codes = left
  <2> HIDE DEF n, left
  <2>1. row = [user[u] EXCEPT !.counter = n, !.codes = left]
    BY DEF WithUsed, n, left
  <2> HIDE DEF row
  <2>2. row \in UserRow
    BY <1>2, <1>3, <2>1 DEF UserRow
  <2> QED BY <1>2, <2>1, <2>2 DEF UserRow
<1>6. user' = [user EXCEPT ![u] = row]
  BY <1>2 DEF CompleteMFAAuthentication
\* The factor that is taken: a code of a later period than the last, or a code
\* that is still there, or one that was mailed.
<1>7. \/ m = "totp" /\ user[u].counter < f.n /\ user[u].method # "none"
      \/ m = "recovery" /\ f.of \in user[u].codes
      \/ m = "email"
  BY DEF CompleteMFAAuthentication, FactorAccepted, NewCounter, UnusedCode
<1>8. /\ m = "totp" => f.kind = "totp" /\ f.of # 0
      /\ m = "recovery" => f.kind = "recovery"
  BY <1>1 DEF IInv, RequestsFit
<1>9. /\ m = "totp" => f.of = user[u].secret
      /\ m = "email" => user[u].method # "none"
  BY <1>1 DEF IInv, VerifyingIsEnrolled, Verifying
<1>10. m = "totp" => Has(u, f.of)
  BY <1>8, <1>9 DEF Has
<1>11. user[u].method # "none"
  BY <1>2, <1>7, <1>9 DEF IInv, NoFactorNoCodes
<1> HIDE DEF row
<1>12. /\ user' \in [Users -> UserRow] /\ user'[u] = row
       /\ \A v \in Users \ {u} : user'[v] = user[v]
  BY <1>2, <1>5, <1>6
<1>13. /\ Moves /\ ch'[c].status = "over"
       /\ \A d \in Challenges \ {c} : ch'[d] = ch[d]
       /\ sessions'[u] = {[by |-> "factor", ch |-> c, epoch |-> ch[c].epoch]}
       /\ \A v \in Users \ {u} : sessions'[v] = sessions[v]
       /\ spent' = spent \cup used
       /\ used \cap spent = {} => (replayed' => replayed)
  <2> HIDE DEF used
  <2>1. made' \in {made, made + 1}
    BY <1>1
  <2> QED BY <1>1, <1>4, <1>12, <2>1, OpensMoves
<1>14. Exchanges(c)
  BY <1>1, <1>12, <1>13 DEF Exchanges
<1>15. /\ TypeOK' /\ OneChallenge' /\ RequestsFit' /\ GuessesAreCounted'
       /\ PurposesFit' /\ VerifyingIsEnrolled'
       /\ \A d \in Challenges, s \in Nat : Owns(d, s)' => d # c /\ Owns(d, s)
  BY <1>14, ExchangeKeeps
<1>16. NoFactorNoCodes' /\ FactorStandsBehindSession'
  <2>1. user'[u].method # "none"
    BY <1>5, <1>11, <1>12
  <2> QED BY <1>12, <1>13, <2>1 DEF IInv, NoFactorNoCodes, FactorStandsBehindSession
<1>17. \A g \in used : g = f /\ m # "email"
  BY DEF used
<1>18. ExchangedOnce'
  <2>1. used \cap spent = {}
    <3>1. ASSUME m = "totp", f \in spent PROVE FALSE
      <4>1. f.n <= user[u].counter
        BY <1>2, <1>3, <1>8, <1>10, <3>1 DEF IInv, SecretsApart
      <4> QED BY <1>3, <1>7, <3>1, <4>1
    <3>2. ASSUME m = "recovery", f \in spent PROVE FALSE
      BY <1>2, <1>7, <1>8, <3>2 DEF IInv, CodesApart
    <3> QED BY <1>7, <1>17, <3>1, <3>2
  <2> QED BY <1>13, <2>1 DEF IInv, ExchangedOnce
<1>19. SecretsApart'
  <2>0. ASSUME NEW s \in Nat, IsSpent(s)'
        PROVE  IsSpent(s) \/ (m = "totp" /\ s = f.of)
    BY <1>7, <1>8, <1>13, <1>17, <2>0 DEF IsSpent
  <2>1. ASSUME NEW v \in Users, NEW s \in Nat
        PROVE  Has(v, s)' <=> Has(v, s)
    BY <1>5, <1>12 DEF Has
  <2>2. ASSUME NEW d \in Challenges, NEW s \in Nat, Owns(d, s)'
        PROVE  /\ s <= made' /\ ~IsSpent(s)'
               /\ \A v \in Users : ~Has(v, s)'
               /\ \A e \in Challenges : Owns(e, s)' => e = d
    <3>1. Owns(d, s)
      BY <1>15, <2>2
    <3>2. /\ s <= made /\ ~IsSpent(s) /\ \A v \in Users : ~Has(v, s)
          /\ \A e \in Challenges : Owns(e, s) => e = d
      BY <3>1 DEF IInv, SecretsApart
    <3> QED BY <1>1, <1>2, <1>10, <1>15, <2>0, <2>1, <3>2
  <2>3. ASSUME NEW v \in Users, NEW s \in Nat, Has(v, s)'
        PROVE  /\ s <= made'
               /\ \A w \in Users : Has(w, s)' => w = v
               /\ \A g \in spent' :
                     g.kind = "totp" /\ g.of = s => g.n <= user'[v].counter
    <3>1. Has(v, s)
      BY <2>1, <2>3
    <3>2. /\ s <= made
          /\ \A g \in spent : g.kind = "totp" /\ g.of = s => g.n <= user[v].counter
          /\ \A w \in Users : Has(w, s) => w = v
      BY <3>1 DEF IInv, SecretsApart
    <3>3. ASSUME NEW g \in spent', g.kind = "totp", g.of = s
          PROVE  g.n <= user'[v].counter
      <4>1. CASE g = f /\ m = "totp"
        <5>1. v = u
          BY <1>2, <1>10, <3>2, <3>3, <4>1
        <5> QED BY <1>3, <1>5, <1>12, <4>1, <5>1
      <4>2. CASE g \in spent
        <5>1. g.n <= user[v].counter /\ g.n \in Nat
          BY <1>2, <3>2, <3>3, <4>2 DEF Factor
        <5>2. CASE v = u
          BY <1>3, <1>5, <1>7, <1>12, <5>1, <5>2
        <5>3. CASE v # u
          BY <1>12, <5>1, <5>3
        <5> QED BY <5>2, <5>3
      <4> QED BY <1>7, <1>8, <1>13, <1>17, <3>3, <4>1, <4>2
    <3> QED BY <1>1, <2>1, <3>2, <3>3
  <2>4. ASSUME NEW s \in Nat, IsSpent(s)' PROVE s <= made'
    BY <1>1, <1>2, <1>10, <2>0, <2>4 DEF IInv, SecretsApart
  <2> QED BY <2>2, <2>3, <2>4 DEF SecretsApart
<1>20. CodesApart'
  <2>1. \A v \in Users : user'[v].codes \subseteq user[v].codes
    BY <1>5, <1>12
  <2>2. ASSUME NEW g \in spent', g.kind = "recovery"
        PROVE  g \in spent \/ (g = f /\ m = "recovery")
    BY <1>7, <1>8, <1>13, <1>17, <2>2
  <2>3. ASSUME NEW v \in Users, NEW e \in user'[v].codes
        PROVE  /\ e <= made'
               /\ \A w \in Users : e \in user'[w].codes => w = v
               /\ \A g \in spent' : g.kind = "recovery" => g.of # e
    <3>1. e \in user[v].codes
      BY <2>1
    <3>2. /\ e <= made
          /\ \A w \in Users : e \in user[w].codes => w = v
          /\ \A g \in spent : g.kind = "recovery" => g.of # e
      BY <3>1 DEF IInv, CodesApart
    <3>3. ASSUME m = "recovery" PROVE f.of # e
      BY <1>2, <1>5, <1>7, <1>12, <2>3, <3>2, <3>3
    <3> QED BY <1>1, <2>1, <2>2, <3>2, <3>3
  <2>4. ASSUME NEW g \in spent', g.kind = "recovery" PROVE g.of <= made'
    BY <1>1, <1>2, <1>7, <2>2, <2>4 DEF IInv, CodesApart
  <2> QED BY <2>3, <2>4 DEF CodesApart
<1> QED BY <1>15, <1>16, <1>18, <1>19, <1>20 DEF IInv

-----------------------------------------------------------------------------
(* The theorems. *)

LEMMA NextIInv == IInv /\ [Next]_vars => IInv'
<1> SUFFICES ASSUME IInv, [Next]_vars PROVE IInv'
  OBVIOUS
<1>1. CASE UNCHANGED vars
  BY <1>1 DEF vars, requests, IInv, TypeOK, NoFactorNoCodes, OneChallenge, RequestsFit,
              PurposesFit, VerifyingIsEnrolled, SecretsApart, CodesApart,
              GuessesAreCounted, Counted, ExchangedOnce, FactorStandsBehindSession, Active, Verifying, Enrolling,
              Owns, Has, IsSpent, Pending
<1>2. ASSUME Ordinary PROVE IInv'
  BY <1>2, OrdinaryKeeps
<1>3. CASE Tick \/ \E c \in Challenges : Expire(c) \/ ClearMFAEmailDelivery(c)
  BY <1>2, <1>3, ClockMoves DEF IInv
<1>4. CASE Administration
  BY <1>2, <1>4, AdministrationMoves DEF IInv
<1>5. ASSUME NEW h \in Handlers, Loading(h) PROVE IInv'
  BY <1>5, LoadingMoves, LoadedKeeps DEF IInv
<1>6. ASSUME NEW h \in Handlers, Writing(h) PROVE IInv'
  BY <1>2, <1>6, WritingMoves, EnrollmentKeeps, AuthenticationKeeps DEF IInv
<1>7. CASE \/ \E h \in Handlers : Leave(h)
           \/ \E u \in Users : \E s \in sessions[u] : SessionEnds(u, s)
  BY <1>2, <1>7, LeaveMoves DEF IInv
<1> QED BY <1>1, <1>3, <1>4, <1>5, <1>6, <1>7 DEF Next

\* The inductive invariant holds of every behaviour of the handlers of
\* api/api.go on the rows of store/users.go and store/mfa.go.
THEOREM Invariance == Spec => []IInv
<1>1. Init => IInv
  BY InitIInv
<1>2. IInv /\ [Next]_vars => IInv'
  BY NextIInv
<1> QED BY <1>1, <1>2, PTL DEF Spec

\* The rows of users, challenges and sessions and the requests in flight keep
\* their form; in particular an active challenge has attempts left.
THEOREM TypeCorrect == Spec => []TypeOK
<1>1. IInv => TypeOK
  BY DEF IInv
<1> QED BY <1>1, Invariance, PTL

\* A challenge, a TOTP code and a recovery code open one session at most, for
\* any number of users, challenges and requests in flight (completeMFA).
THEOREM CodesOpenOneSession == Spec => []ExchangedOnce
<1>1. IInv => ExchangedOnce
  BY DEF IInv
<1> QED BY <1>1, Invariance, PTL

\* The wrong codes answered for a challenge stay within the limit, the requests
\* that read it before and those whose count failed, any number of them
\* (FailMFAChallenge against MFAChallengeByToken).
THEOREM GuessesStayBounded == Spec => []GuessesAreBounded
<1>1. IInv => GuessesAreBounded
  <2> SUFFICES ASSUME IInv, NEW c \in Challenges
               PROVE  ch[c].guesses <= MaxAttempts - 1 + Cardinality(Handlers)
                                         + ch[c].uncounted
    BY DEF GuessesAreBounded
  <2>1. ch[c] \in ChallengeRow /\ TypeOK
    BY DEF IInv, TypeOK
  <2>2. /\ ch[c].guesses \in Nat /\ ch[c].uncounted \in Nat
        /\ ch[c].attempts \in Nat /\ ch[c].attempts <= MaxAttempts - 1
        /\ Counted(c) = ch[c].guesses - ch[c].uncounted
    BY <2>1, Numbers DEF ChallengeRow, Counted
  <2>3. CASE Active(c)
    BY <2>2, <2>3, Numbers DEF IInv, OneChallenge
  <2>4. CASE ~Active(c)
    <3>1. Pending(c) \subseteq Handlers
      BY DEF Pending
    <3>2. Cardinality(Pending(c)) \in Nat
      BY <3>1, Numbers, FS_Subset, FS_CardinalityType
    <3>3. Counted(c) + Cardinality(Pending(c))
             <= MaxAttempts - 1 + Cardinality(Handlers)
      BY <2>4 DEF IInv, GuessesAreCounted
    <3> QED BY <2>2, <3>2, <3>3, Numbers
  <2> QED BY <2>3, <2>4
<1> QED BY <1>1, Invariance, PTL

\* No session of a login with a second factor outlives the factor, whatever an
\* administrator resets while the login is under way (completeMFA, ResetUserMFA).
THEOREM SessionsHaveFactors == Spec => []FactorStandsBehindSession
<1>1. IInv => FactorStandsBehindSession
  BY DEF IInv
<1> QED BY <1>1, Invariance, PTL

-----------------------------------------------------------------------------
(* The last administrator. *)

SameStanding(v) ==
    /\ user'[v].state = user[v].state /\ user'[v].admin = user[v].admin
    /\ user'[v].enabled = user[v].enabled

\* Only the administration changes who is an administrator.
LEMMA LoginsKeepStanding ==
    ASSUME TypeOK, Next, ~Administration, NEW v \in Users
    PROVE  SameStanding(v)
<1>0. user \in [Users -> UserRow] /\ user[v] \in UserRow
  BY DEF TypeOK
<1>1. CASE user' = user
  BY <1>1 DEF SameStanding
<1>2. ASSUME NEW u, NEW row, user' = [user EXCEPT ![u] = row],
             u \in Users =>
                /\ row.state = user[u].state /\ row.admin = user[u].admin
                /\ row.enabled = user[u].enabled
      PROVE  SameStanding(v)
  <2>1. CASE v = u
    BY <1>0, <1>2, <2>1 DEF SameStanding
  <2>2. CASE v # u
    BY <1>0, <1>2, <2>2 DEF SameStanding
  <2> QED BY <2>1, <2>2
<1>3. ASSUME NEW h \in Handlers, NEW c \in Challenges, CompletePasswordChange(h, c)
      PROVE  SameStanding(v)
  <2> DEFINE u == ch[c].user
             row == [user[u] EXCEPT !.change = FALSE]
  <2>1. user' = [user EXCEPT ![u] = row]
    BY <1>3 DEF CompletePasswordChange
  <2>2. u \in Users => /\ row.state = user[u].state /\ row.admin = user[u].admin
                       /\ row.enabled = user[u].enabled
    BY <1>0 DEF UserRow
  <2> HIDE DEF row, u
  <2> QED BY <1>2, <2>1, <2>2
<1>4. ASSUME NEW h \in Handlers, ChangePassword(h) PROVE SameStanding(v)
  <2> DEFINE u == req[h].user
             row == [user[u] EXCEPT !.change = FALSE]
  <2>1. user' = [user EXCEPT ![u] = row]
    BY <1>4 DEF ChangePassword
  <2>2. u \in Users => /\ row.state = user[u].state /\ row.admin = user[u].admin
                       /\ row.enabled = user[u].enabled
    BY <1>0 DEF UserRow
  <2> HIDE DEF row, u
  <2> QED BY <1>2, <2>1, <2>2
<1>5. ASSUME NEW h \in Handlers, NEW c \in Challenges, CompleteMFAEnrollment(h, c)
      PROVE  SameStanding(v)
  <2> DEFINE u == ch[c].user
             n == IF req[h].method = "totp" THEN req[h].factor.n ELSE 0
             row == [user[u] EXCEPT !.change = FALSE, !.method = req[h].method,
                                    !.secret = ch[c].secret, !.counter = n,
                                    !.codes = {made + 1}]
  <2>1. user' = [user EXCEPT ![u] = row]
    BY <1>5 DEF CompleteMFAEnrollment
  <2> HIDE DEF n
  <2>2. u \in Users => /\ row.state = user[u].state /\ row.admin = user[u].admin
                       /\ row.enabled = user[u].enabled
    BY <1>0 DEF UserRow
  <2> HIDE DEF row, u
  <2> QED BY <1>2, <2>1, <2>2
<1>6. ASSUME NEW h \in Handlers, NEW c \in Challenges, CompleteMFAAuthentication(h, c)
      PROVE  SameStanding(v)
  <2> DEFINE u == ch[c].user
             row == WithUsed(user[u], req[h].method, req[h].factor)
  <2>1. user' = [user EXCEPT ![u] = row]
    BY <1>6 DEF CompleteMFAAuthentication
  <2>2. u \in Users => /\ row.state = user[u].state /\ row.admin = user[u].admin
                       /\ row.enabled = user[u].enabled
    BY <1>0 DEF UserRow, WithUsed
  <2> HIDE DEF row, u
  <2> QED BY <1>2, <2>1, <2>2
<1>7. ASSUME NEW h \in Handlers, Loading(h) PROVE user' = user
  BY <1>7 DEF Loading, Login, LoadForChange, LoadForPassword, LoadForMail,
              LoadForMailCode, LoadForMethod, PresentCode, PresentWrongCode, Begin
<1>8. ASSUME NEW h \in Handlers, CreatePasswordSession(h) PROVE user' = user
  BY <1>8 DEF CreatePasswordSession
<1>9. ASSUME NEW h \in Handlers, NEW c \in Challenges,
             \/ CreateMFAChallenge(h, c)
             \/ SetOnboardingPassword(h, c) \/ SetOnboardingEmailDelivery(h, c)
             \/ VerifyOnboardingEmail(h, c) \/ MailCodeRefused(h, c)
             \/ StartTOTP(h, c) \/ StartEmail(h, c) \/ CompletionRefused(h, c)
             \/ FailMFAChallenge(h, c) \/ FailUncounted(h, c)
      PROVE  user' = user
  BY <1>9 DEF CreateMFAChallenge, SetOnboardingPassword,
              SetOnboardingEmailDelivery, VerifyOnboardingEmail, StartTOTP,
              StartEmail, CompletionRefused, MailCodeRefused, Fails,
              FailMFAChallenge, FailUncounted, Updates
<1>10. ASSUME NEW h \in Handlers, Writing(h) PROVE SameStanding(v)
  BY <1>1, <1>3, <1>4, <1>5, <1>6, <1>8, <1>9, <1>10 DEF Writing
<1>11. CASE \/ Tick \/ \E c \in Challenges : Expire(c) \/ ClearMFAEmailDelivery(c)
            \/ \E h \in Handlers : Leave(h)
            \/ \E u \in Users : \E s \in sessions[u] : SessionEnds(u, s)
  BY <1>1, <1>11 DEF Tick, Expire, ClearMFAEmailDelivery, Leave, Refused, SessionEnds
<1> QED BY <1>1, <1>7, <1>10, <1>11 DEF Next

LEMMA AdminsRemain ==
    ASSUME TypeOK, Next, AdminExists
    PROVE  AdminExists'
<1>0. user \in [Users -> UserRow]
  BY DEF TypeOK
<1>1. PICK a \in Users : Exists(a) /\ IsAdmin(a)
  BY DEF AdminExists
\* An administrator whose row stays as it is.
<1>2. ASSUME NEW v \in Users, Exists(v), IsAdmin(v), SameStanding(v)
      PROVE  AdminExists'
  BY <1>2 DEF AdminExists, Exists, IsAdmin, SameStanding
<1>3. CASE ~Administration
  BY <1>1, <1>2, <1>3, LoginsKeepStanding
<1>4. CASE Administration
  <2>1. PICK u \in Users :
           \/ CreateInitialAdmin(u)
           \/ \E admin, enabled \in BOOLEAN : CreateUser(u, admin, enabled)
           \/ \E admin, enabled, reset \in BOOLEAN :
                 UpdateUser(u, admin, enabled, reset)
           \/ DeleteUser(u)
           \/ ResetUserMFA(u)
    BY <1>4 DEF Administration
  <2>2. ASSUME NEW v \in Users, v # u PROVE SameStanding(v)
    BY <1>0, <2>1, <2>2 DEF SameStanding, CreateInitialAdmin, CreateUser, UpdateUser,
                            DeleteUser, ResetUserMFA
  <2>3. CASE a # u
    BY <1>1, <1>2, <2>2, <2>3
  <2>4. CASE OtherAdmin(u)
    BY <1>2, <2>2, <2>4 DEF OtherAdmin, IsAdmin
  <2>5. CASE a = u /\ ~OtherAdmin(u)
    <3>1. ~CreateInitialAdmin(u) /\ ~DeleteUser(u)
          /\ ~\E admin, enabled \in BOOLEAN : CreateUser(u, admin, enabled)
      BY <1>1, <2>5 DEF CreateInitialAdmin, DeleteUser, CreateUser, Exists
    <3>2. ASSUME NEW admin \in BOOLEAN, NEW enabled \in BOOLEAN,
                 NEW reset \in BOOLEAN, UpdateUser(u, admin, enabled, reset)
          PROVE  AdminExists'
      <4>1. admin /\ enabled
        BY <1>1, <2>5, <3>2 DEF UpdateUser
      <4>2. user'[u] = Updated(user[u], admin, enabled, reset)
        BY <1>0, <3>2 DEF UpdateUser
      <4>3. user[u] \in UserRow /\ user[u].state = "in"
        BY <1>0, <1>1, <2>5 DEF Exists
      <4>4. user'[u].state = "in"
        BY <4>2, <4>3 DEF Updated, UserRow
      <4>5. user'[u].admin
        BY <4>1, <4>2, <4>3 DEF Updated, UserRow
      <4>6. user'[u].enabled
        BY <4>1, <4>2, <4>3 DEF Updated, UserRow
      <4> QED BY <4>4, <4>5, <4>6 DEF AdminExists, Exists, IsAdmin
    <3>3. CASE ResetUserMFA(u)
      <4>1. user'[u] = WithoutFactor(user[u]) /\ user[u] \in UserRow
        BY <1>0, <3>3 DEF ResetUserMFA
      <4>2. SameStanding(u)
        BY <4>1 DEF SameStanding, WithoutFactor, UserRow
      <4> QED BY <1>1, <1>2, <2>5, <4>2
    <3> QED BY <2>1, <3>1, <3>2, <3>3
  <2> QED BY <2>3, <2>4, <2>5
<1> QED BY <1>3, <1>4

\* A platform that has an enabled administrator keeps one, whatever its
\* administrators do to each other (UpdateUser, DeleteUser).
THEOREM AdminAlwaysRemains == Spec => AdminRemains
<1>1. TypeOK /\ [Next]_vars => [AdminExists => AdminExists']_vars
  BY AdminsRemain
<1> QED BY <1>1, TypeCorrect, PTL DEF Spec, AdminRemains

=============================================================================
