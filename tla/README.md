# Device management platform: TLA+ models, checks and proofs

This directory verifies the parts of the backend (`src/backend`) whose
correctness depends on the order of things: gateways that must cut connections
when a session ends, rows that must stay in step with tasks on a remote node,
scans that must not outlive their project, logins that cross an administrator's
changes, credentials that must survive a failed update. It holds

- a TLA+ module for each such part, translated from the Go source,
- `MC*.tla` and `*.cfg`, which instantiate them for TLC on small instances,
- `*Proofs.tla`, theorems that TLAPS checks for every value of the constants,
- `PROJECT.json`, which maps each definition to its source lines and lists the
  runs, the mutants (deliberate mistakes, the operators commented *Mistake*,
  which must break the property named with them), the hazards and the findings.

Contents: [The system](#the-system) · [The modules](#the-modules) ·
[Runs](#runs) · [Proofs](#proofs) · [Findings](#findings) ·
[What is left out](#what-is-left-out) · [Plan](#plan) · [Use](#use)

## The system

One Go process serves the panel's API, a Web gateway and a WebSSH gateway, runs
a lifecycle sweep and scans, and keeps everything in one SQLite database. It
controls *nodes* (NPS servers) over a signed HTTP API; a node forwards ports and
runs a SOCKS tunnel per client through which devices are reached.

### Components

| Component | State | Operations | What makes it correct |
| --- | --- | --- | --- |
| Web access gateway `access/gateway.go` | under `activeMu`: `active` (session → open upstream connections), `transports`, `revoked` (tombstones, 10 min); per transport an activity tracker with `lastPersisted` | `ServeHTTP`, `trackWebActivityConn`, `Read`/`Write`/`Close`, `Revoke`, `pruneRevokedLocked` | no connection of a revoked session survives; traffic ends soon after any other end of a session |
| WebSSH gateway `access/ssh_gateway.go` | registry of cancel functions, tombstones; per terminal an activity monitor | `ServeHTTP`, `registerSSHConnection`, `Revoke`, `monitorSSHActivity` | the same for terminals; the idle sweep does not end a busy one |
| Port forwards `store/port_forwards.go`, handlers in `api/api.go`, `nodeadapter/adapter.go` | rows (status, port, `node_task_id`, expiry); tasks on the node | create, start, stop, delete, closing the forwards of a device or project | a row's reference fits its task; one task per port; no task without a row; expiry happens |
| Lifecycle sweep `lifecycle/manager.go` | none | every minute: expire access sessions, release expired forwards | works from rows read earlier without harm; retries what failed |
| Discovery `discovery/manager.go`, `store/discovery.go` | under `mu`: `cancels`, `finished`; rows of jobs and results | `Start`, `run`, `Cancel`, `Verify` | no scan outlives its project, final states are final, every scan ends |
| Projects and devices `api/api.go`, `store/projects.go`, `store/devices.go` | rows; `resourceMu` | create, update, delete (with cleanup first), verify, import | nothing of a deleted resource goes on |
| Access sessions `store/access_sessions.go` | rows with hashed one-time tickets, grants, `last_seen_at`, `expires_at`; a log kept by triggers | create, exchange, resolve, touch, expire, revoke | a ticket opens once; an ended session stays ended; it is used under the rights its user has now |
| Access policies `store/policies.go` | a temporary user's capabilities with a schedule | save, delete, look up | decides when a session is opened |
| Accounts `store/users.go`, `api/api.go` | users, roles, login sessions | login, logout, update, delete, change of password | one enabled administrator remains; changes take effect at once |
| Multi-factor login `store/mfa.go`, `auth/mfa.go`, `auth/email.go` | challenges (10 min, five attempts), TOTP counter, recovery codes, e-mail cooldown | begin, verify, enrol, recover, reset | no replay, a bounded number of attempts, a challenge is consumed once, no session without a factor |
| Login limiter `auth/login_limiter.go` | fixed-window map of at most 4096 keys | `Blocked`, `Failure`, `Success` | the limit holds for keys that are not evicted; the map is bounded |
| Credential vault `secrets/`, nodes `store/nodes.go` | encrypted rows; a rollback closure per save; the rows that refer to them | `Save`, `SaveSSH`, rollback, `Resolve`, `Delete` | what exists can be reached; a failed update leaves the credential of the last successful one |
| Node adapter, SOCKS dialer | none | calls with deadlines; each can fail before or after it took effect | callers survive every such failure |
| Process life `cmd/server/main.go` | HTTP servers, one set of gateways per `run()` | start, settings reload **in the same process**, shutdown (15 s) | nothing of the replaced set goes on |
| Database `store/store.go`, `migrations.go`, `restore.go` | one file, **one connection** | transactions, backup, restore | every statement or transaction is atomic; a restore survives a crash |
| Settings, audit log, identifiers, frontend | rows and files | single transactions, pure functions | not a matter of order |

### How they interact

- A handler that revokes sessions first changes rows, then calls `Revoke` of
  both gateways. The gateways read the database when a request arrives
  (`ResolveAccessGrant`) and again at most every 30 s (`TouchAccessSession`).
  **Nothing else tells them that a session has ended**: logout, a changed user,
  expiry and the sweep only write rows.
- `server.resourceMu` is held by `createPortForward`, `deleteProject`,
  `updateDevice`, `deleteDevice`, `verifyDevice`, `createDiscoveryJob` and
  the creation of access sessions, over their calls to the node. It is *not*
  held by `setPortForward`, `deletePortForward`, `setManagedTunnel`,
  `cancelDiscoveryJob`, `revokeAccessSession`, imports, or the sweep.
- `deleteProject`, `updateDevice` and `deleteDevice` release everything that
  belongs to the resource (scans, sessions, forwards, tunnel) before they touch
  its row, in loops over rows read at the start.
- `Manager.Cancel` waits for the scan's goroutine while its caller may hold
  `resourceMu`.
- A request to the panel passes `requireAuth`, which reads login and user once;
  the handler decides with that principal, however long it waits for a mutex or
  a node. Deletions cascade: a user takes logins, challenges, policies and, with
  the logins, access sessions along; the log of access sessions is kept by
  triggers on insert and update only.
- Handlers that store a credential save it first, write the row that uses it,
  and call the rollback closure if that fails. Those of nodes take no lock, nor
  does `createDevice`, which accepts any identifiers for its services;
  `updateDevice` and `deleteDevice` hold `resourceMu`.
- SQLite's single connection makes every statement or transaction atomic; every
  call to a node is a separate step. One that fails, because its client hung up,
  its twelve seconds were over or its answer was lost, may have had its effect, have
  none, or have it later, when its caller has gone on.

### What is hard

Races of a dial against a revocation; caches of a positive check; steps under
`resourceMu` against steps that do not take it; a node call that is given up and
takes effect later; errors that the code drops; a client that hangs up half way (statements under `r.Context()` fail,
those under `context.WithoutCancel` do not); a restart between two steps; a
settings reload that leaves hijacked connections of the old gateway behind.
`PROJECT.json` lists each such place (`hazards`) with the properties that would
notice it going wrong, or why none does yet.

## The modules

Every module reads the same way: constants with their assumptions, variables
(each with the Go state it stands for), `TypeOK`, `Init`, helpers, one action
per critical section, statement or call, `Next`, `Spec` (with `Fairness` and
`FairSpec` where something must happen in the end), properties. Variables commented *history* exist only for the
properties: no action's guard reads one.

### WebGateway

A session's row is its `status` and whether its `login` is live, idle or ended
(the conditions in the SQL of `ResolveAccessGrant` and `TouchAccessSession`).
An upstream connection goes `free → resolved → dialing → open → closing →
closed`.

| Action | Code |
| --- | --- |
| `ServeHTTP` | the grant cookie resolves; the request does not look again |
| `ProxyTransport` | the session's cached transport, or a new one with a new activity tracker |
| `TrackConn` | `trackWebActivityConn`: the tombstone decides, under `activeMu` |
| `Read`, `WriteStarts`, `WriteReturns`, `TouchRefused` | `Read`/`Write` with a touch throttled by `webActivityPersistInterval`; a `Write` blocks between its check and its return, and both put the deadline forward from the time they took before it |
| `CloseConn`, `Unregister` | `Close` and its own critical section |
| `RevokeRows`, `GatewayRevoke`, `RevokeCloses`, `RevokeProceeds` | rows, then `Revoke`'s critical section, then `Close` on each collected connection outside the lock (`closeOnce`: whoever comes second waits) |
| `LoginLapses`, `LoginTouched`, `ExpireSweep` | ends the gateway is not told of |
| `Restart`, `Reload` | crash; settings reload, after which open connections belong to a replaced gateway (`stale`) whose store is closed |
| `Tick` | time; a request may not stay in flight longer than `MaxInFlight` |

`MaxInFlight <= TombstoneTTL` stands for the time limits on the way from the
resolved grant to the registration (node client and SOCKS dialer, seconds)
against the ten minutes a tombstone lives. The tombstone argument needs it, and
nothing smaller: the proof uses exactly this.

Bytes pass at a moment of their own: those of a `Write` from `WriteStarts` on
(`sending` keeps the time it was let pass with) until it returns, the connection
closes or its `deadline` strikes; so no property says that bytes pass soon
after their check, and `StaleTrafficIsBounded` is about the calls and the deadlines.

### SSHGateway

One handler per WebSocket: `free → accepted → connecting → terminal → closed`.
Bytes are signalled when they are read and pass later, through a queue of 32 chunks
and blocking writes: `Signal` leaves a signal in a channel of capacity one
(`pending`), and passing the bytes is no action, since nothing in the code depends
on when it happens; they may pass as long as the terminal is there.
`MonitorTakes` consumes the signal and asks the store unless it did less than
`TouchInterval` ago; the query has its effect (`TouchLands`) and its answer
(`MonitorAnswered`) at times of their own, within `TouchTimeout`, and a refused or
failed one cancels the handler. `IdleTimeout` is the monitor's own timer. The deadline
(`expires_at`) is part of the handler's context, so here, unlike in WebGateway,
`expiresAt` and `lastSeen` are times and `LiveAt` is the arithmetic of the SQL.
`Revoke` cancels what it has collected, and `Return` runs the handler's deferred calls.

`MaxInFlight` bounds the time from the grant to the registration, which is the
WebSocket handshake. Nothing bounds the time from there to the terminal: the network
deadline is cleared before the session, the terminal and the shell are requested,
so `Ready` may come at any time while the context lasts.

### PortForwards

Rows (`status`, `endpoint`, `port`, `task`, `expiry`), tasks of a node (`up`,
`taskPort`, `taskTarget`), the endpoints' addresses (`target`), `resourceMu`
(`mutex`) and one program counter per request and for the sweep.

| Actions | Code |
| --- | --- |
| `Reserve`, `CreateLooks`, `CreateAdds`, `CreateVerifies`, `CreateStarts`, `Activate`, `Rollback`, `Unreserve`, `Release` | `createPortForward` with the adapter's `CreatePortForward`: look at the node's tasks and adopt one that fits, else add one and look for it, start it, write the reference; undo on failure |
| `SetReads`, `SetOnNode`, `SetRecords` | `setPortForward`: read, call, write the status, without the mutex |
| `DeleteReads` | `deletePortForward`, without the mutex |
| `CloseReads`, `CloseApplies` | `updateDevice`, `deleteDevice`, `deleteProject`: the forwards of a set of endpoints, then the change of the device itself |
| `SweepReads`, `SweepEnds`, `Expires` | `lifecycle.Manager.Sweep`, time |
| `TakeNext`, `TaskDeleted`, `TaskKept`, `RowDeleted` | the release of one forward, shared by all of the above |
| `LateCall`, `LateAdd` | the node acts on a call that its process has given up |
| `Restart` | handlers and mutex are lost, rows and tasks remain; also what a settings reload means to them |

A call to the node that fails is kept in `late` (a start, stop or deletion) or
`lateAdds`, and may take effect at any later time, once, also after `resourceMu` was
released or the platform restarted. Tasks that are made so are the `stray` ones.
Statements under the request's context may
fail; those under `context.WithoutCancel` do not. The node never reuses a task's
id. Reservations that fail (port in use, endpoint gone) change nothing and are
left out.

### Discovery

Jobs (`status`, `done`), the manager's maps (`listed` stands for both, they
change together), the goroutine of each job (`stage`), its context
(`cancelled`), the project's tunnel with the one who started it (`tunnel`), and
the requests: `createDiscoveryJob`, `cancelDiscoveryJob`, `deleteProject` with
its loop over live jobs and its closing of the tunnel, and the users of the
tunnel under and outside `resourceMu`. `SetManagedTunnel` is two steps, the status
query (`InspectsTunnel`, `StopInspects`, `VisitInspects`), after which it may find
nothing to do, and the call (`OpensTunnel`, `Stops`, `UsesTunnel`). The call may fail
with its effect, without it, or before it: `late` holds the effects still to come, and
`LateCall` lets one happen. Which start a tunnel comes from is kept (`LateScan`,
`LateVisit`), as the properties tell them apart. A result and the progress after it are saved in one step.
`missed` records jobs that a cancel request looked for before they were
registered, `stranded` live rows without a goroutine (a restart, or a
cancellation whose client went away between the wait and the write).

### Accounts

The rows of `users` with `user_mfa` and the recovery codes (`user`), of
`mfa_challenges` (`ch`) and of the active `auth_sessions` (`sessions`), and the
requests in flight with what they have read (`req`). The switch `mfa` is the
configuration's and does not change.

| Actions | Code |
| --- | --- |
| `CreateInitialAdmin`, `CreateUser`, `UpdateUser`, `DeleteUser`, `ResetUserMFA` | administration, each one transaction |
| `Login`, `CreatePasswordSession`, `CreateMFAChallenge` | `login`: the credential is read and checked, then the session or the challenge is written from what was read |
| `LoadForPassword`, `SetOnboardingPassword`, `CompletePasswordChange` | a new password, for onboarding or for a required change |
| `LoadForMail`, `SetOnboardingEmailDelivery`, `ClearMFAEmailDelivery`, `LoadForMailCode`, `VerifyOnboardingEmail`, `MailCodeRefused` | the address of an onboarding user |
| `LoadForMethod`, `StartTOTP`, `StartEmail` | `startMFA` |
| `PresentCode`, `PresentWrongCode`, `CompleteMFAEnrollment`, `CompleteMFAAuthentication`, `CompletionRefused`, `FailMFAChallenge`, `FailUncounted` | `completeMFA`: load, check, then a transaction that checks again what its statements name; the count of a wrong code, whose error is dropped |
| `LoadForChange`, `ChangePassword`, `SessionEnds` | a session changes the password; logout and expiry |
| `Leave` | the client hangs up, or the handler refuses without a change; not while a code is being refused, which is always answered |
| `Tick`, `Expire` | TOTP periods; a challenge expires at any time |

A challenge that is over keeps only its user and its count of guesses. Wrong codes
are counted where they are written (`FailMFAChallenge`); those whose count failed
are answered all the same (`FailUncounted`, in the history `uncounted`). The address and the
method of a user are set together and are one field. The pause between two
mails and the login limiter only refuse, which `Leave` and absence cover.

### AccessSessions and SessionLife

Users with their membership of one project, their policy for it, logins, access
sessions and the log of these, as rows with the columns the SQL compares; the
time a statement is given may be up to `MaxDelay` old, since its caller read the
clock before it waited for the connection. The sweep, which talks to the nodes in
between, may be as old as it likes. `Serves` is the `WHERE` clause that exchange,
resolve and touch share.

| Actions | Code |
| --- | --- |
| `CreateAuthSession`, `RevokeAuthSession` | login, logout and `requireAuth` on an idle login |
| `UpdateUser`, `DeleteUser`, `SaveAccessPolicy`, `DeleteAccessPolicy`, `PolicyClock` | administration; a policy's schedule |
| `ResolveAuthSession`, `TouchAuthSession`, `Authorize`, `CreateAccessSession`, `Refuse` | `requireAuth`, then `createAccessSessionForRequest` under `resourceMu` |
| `ExchangeAccessGrant`, `ResolveAccessGrant`, `TouchAccessSession` | the gateways |
| `RevokeAccessSession`, `DeleteDevice` | ends by a person |
| `StartSweep`, `ExpireAccessSessions`, `CleanupAuthSessions` | the sweep |

`SessionLife` is the abstract specification: `none → live → ended`, a grant used
once, pages served only between the two. `AccessSessions` implements it under the
mapping

- `phase`: *ended* when the row or its login is not active any more, or when
  every time a statement could still be given (`MaxDelay` included) lies past
  `expires_at` or the idle limit; else *live*;
- `grant`: *used* once `grant_exchanged_at` is set.

The mapping does not look at the login's own `last_seen_at`: a login that fell
idle can be used again by a panel request admitted before, and its access
sessions with it. That is not a revival in this sense, and the session's own idle limit,
which nothing but its own traffic moves, is what ends it.

### Credentials

The rows of nodes and SSH services (`row`), of `node_credentials` (`vault`, where
a key is a number) and the requests in flight: `resolve` (the credential in
force completes what was sent), `old` (read once more for the rollback), `save`,
`write` (the row), then `rollback` if that failed, or `forget` after the
deletion of a node.

| Actions | Code |
| --- | --- |
| `Create`, `CreateGiven`, `UpdateNode`, `UpdateDevice`, `AddService` | `createNode`, `updateNode`, `createDevice` (without and with identifiers of its client's), `updateDevice` with `prepareSSHCredentials` |
| `Resolve`, `ReadOld`, `SaveNodeCredential`, `Refuse` | `Save`, `SaveSSH`; an error of reading the old credential is taken for there being none (`Unread`) |
| `WriteRow`, `WriteFails`, `ReadBackFails`, `Rollback` | the row's transaction, its failure, the failure of reading the row after the commit; the closure |
| `DeleteNode`, `DeleteNodeCredential`, `CleanupFails` | `deleteNode`; errors of cleanups are dropped |
| `UseKeyFile`, `RemoveService` | a service that changes to a key file, or goes; its credential stays in the vault |
| `Restart` | requests in flight are lost |

A request is about one owner: the services of a device are saved and undone one
by one in the same way. `createDevice` does not ask whose the identifiers are that it
is sent; `Sent` lets them be those of services that exist or did, or new ones. Its
insertion of an existing one fails, but only after the credential has been saved over.
References of the time before the vault (`env://`, `file://` of nodes)
are not modelled.

## Runs

Sizes are of the machine the project was written on. Deadlock is checked where the system
never stops (the gateways, whose clock and restarts go on); the requests of
the other modules are used up, so there TLC may end.

### Passing

**web_gateway** (`MCWebGateway.cfg`): one session, two connections of one transport
and its throttle, one revoker, a persist interval of two ticks, the other limits one,
clock to 3; 1.1 million states. With a second transport only the throttles would be
two; sharing one lets a connection pass bytes on what another has asked.

- `RevokedIsCut`: an open connection of a revoked session is one that some
  `Revoke` has still to reach. Two connections let one be registered while the
  other is in flight; the clock lets the tombstone be pruned.
- `RevocationCompletes`: a connection open at a revocation closes.
- `StaleTrafficIsBounded`: however a session ends, no call that passes bytes is made
  `PersistInterval` or more later. A `Write` let pass before may block and pass its
  bytes much later; what bounds it is the connection's deadline, `IdleTTL` after the
  last such call or after the registration. With the constants of the code: nothing is
  let pass 30 s after the end, and nothing passes 15 min and 30 s after it.

**ssh_gateway** (`MCSSHGateway.cfg`): one session, one WebSocket, one revoker; an
interval of two ticks, an idle limit of three (so that a touch can succeed), a touch of up
to one, clock to 7, past the sum of these; 1.6 million states. Terminals of one session meet only in the row's
`last_seen_at`, which a touch made earlier may put back; that case, and
any number of terminals, are covered by the proofs.

- `RevokedIsCut`, `RevocationCompletes` as above.
- `EndedTerminalIsCut`: the terminal, and with it what is still queued in it, is cut
  within an interval, an idle limit and a query, though nothing more may be read.
- `LateTrafficCutsTerminal`: what it reads a `TouchInterval` after the end or later is
  its last: the monitor has the signal, asks the store, or has cancelled.
- `LastSeenFollowsTraffic`: the row lags behind what a terminal has read since it
  opened by less than the throttle and one query (30 s and 5 s, against 15 min), so
  that the sweep does not take a terminal in use for idle, however long it
  took to connect.

**port_forwards** (`MCPortForwards.cfg`): three requests of any kind and the
sweep on one endpoint with two addresses and one port, two rows, two tasks, one
restart; 1.1 million states, from one address of the device (they are interchangeable,
`FairSpecFromOneAddress`). One port forces every reuse; the second row takes the
place of the first, the second address makes adoption of a wrong task possible.
Three requests are one creation with two that interfere; every call may fail and
take effect later.

- `ReferencesAreRight`: the task a row refers to, if the node has it, listens on the row's port
  and forwards to the endpoint's present address, although tasks are adopted and
  devices change address meanwhile.
- `OneTaskPerPort`: of two tasks on one port one was made late, after its call was
  given up; the handlers never add the second, which rests on `resourceMu`, that
  only some of them take.
- `OrphansAreExplained`: a task without a row comes from a failed call, a
  restart, or the deletion of an activated row; `CleanupComesFirst`: the last of
  these happens only to one who read the row before its activation.
- `ExpiredIsReleased`: an expired row goes in the end.

**discovery** (`MCDiscovery.cfg`): three requests, two jobs of two results, one
restart; 457 000 states. The second job can start after the first was
cancelled; two results let a cancellation fall between them.

- `DeletionWaitsForScans`, `TunnelStaysDown`: when the project is gone no scan
  works, and its tunnel runs for no scan or visitor but by the two ways named
  below: a missed scan, or a start that was given up and that the node acted on late.
- `CompletedMeansScanned`, `CancelEnds`: the final status tells the truth and is
  final, whatever is written late.
- `ScansEnd`, `MutexIsReleased`: a live job ends; `resourceMu` is released
  although its holder waits for goroutines.

**accounts** (`MCAccounts.cfg`): two handlers, two challenges, a limit of two
attempts, two TOTP periods, seven requests, so that an onboarding (six requests)
and one that crosses it fit; 1.7 million states. Users do not interact but through
the count of administrators: two accounts are explored for the first three
requests (`OneAccountOrFewRequests`) and one beyond. The initial states are an
empty platform and ones with an enrolled administrator of either method, with the
second factor switched on and off.

- `ExchangedOnce`: no challenge, TOTP code or recovery code opens two sessions,
  however the requests that present it cross.
- `GuessesAreBounded`: the wrong codes answered for a challenge exceed the limit
  by at most the requests in flight, and not by one per crossing, plus those whose
  count failed.
- `FactorStandsBehindSession`: a session that came from a completed second factor
  never outlives a reset of that factor.
- `AdminRemains`: whatever administrators do to each other.

**access_sessions** (`MCAccessSessions.cfg`): one user, login, session and request;
login idle limit 2, session idle limit 1, login life 3, statements with times one
tick old, one change by an administrator, clock to 4; 1.6 million states. The clock
lets an idle login, an idle session, an expiry and the cleanup of the login
follow each other. Rows of several sessions meet only in the sweep, whose
statements treat each alike.

- `OneLife`: AccessSessions implements `SessionLife`.
- `RightsAreCurrent`: a session that serves was given under the role and the
  membership its user has now, although requests are authorized with what was
  read before a change.
- `OpenLogIsExplained`: a log stays open only after the deletion of its user, or
  if the login had ended before the session was written.
- `EndedIsClosed`: a session that ended by itself is closed in the end.

**credentials** (`MCCredentials.cfg`): one node and one service, two requests of any
kind at a time, two keys, restarts at any time; 665 000 states. Two requests are two
updates that cross, or one with a deletion or a new device; as many as the keys allow
follow each other, and the proofs hold for any number at once.

- `NodeResolves`: a node that exists has a credential, however updates,
  rollbacks and deletions cross. The exception is what the code does not prevent: a
  request that failed to read the old credential and then failed to write the row
  deletes it (`lost`).
- `LastAnswerCounts`: with nothing in flight the credential in force is the one
  confirmed last, but for owners of requests that crossed without a lock, of requests
  whose cleanup failed or was cut off, and of lost credentials. Requests of
  `updateDevice` never count as crossing: that is what the lock is worth.
- `ServiceResolves`: a service that refers to the vault finds a credential there, but
  for lost ones, for requests that cross with a new device that was sent with its
  identifier, and for updates that failed after their row was committed (`halfway`).

### Violations

`ssh_reload`, `forwards_sweep`, `accounts_reset`, `discovery_cancel`,
`discovery_race`: each checks one claim of the repository on the smallest
instance that refutes it. See [Findings](#findings).

### Fairness

- Gateways: a handler that has revoked rows goes on to call `Revoke` and to
  close what it collected, and a `Close` that has begun ends: goroutines of a
  running process, with no waiting but for each other. A terminal's handler whose
  context is done returns. Nothing obliges users, requests, the clock or the
  sweep.
- PortForwards: the sweep's steps (a ticker and a loop), and strong fairness of
  the successful deletion of one forward's task: the node, asked again and
  again, some day agrees. Without it the row is rightly kept for ever. Requests
  are owed nothing.
- Discovery: goroutines and handlers go on; every call they make has a deadline.
- AccessSessions: weak fairness of the sweep's steps, a ticker and three
  statements in a row. Nothing else is owed.

## Proofs

`WebGatewayProofs` proves, for any sets of sessions, connections, transports and
revokers and all intervals with `MaxInFlight <= TombstoneTTL`:

| Theorem | Says | Argument |
| --- | --- | --- |
| `TypeCorrect` | `Spec => []TypeOK` | inductive as it stands, one step per action |
| `RevokedConnectionsAreCut` | `Spec => []RevokedIsCut` | `RevocationInv` |
| `StaleTrafficEnds` | `Spec => []StaleTrafficIsBounded` | `TrafficInv` |

`RevokedIsCut` is not inductive: it says nothing of connections still in flight,
and those are where it could go wrong. `RevocationInv` adds

- `InFlightIsRecent`: a request in flight resolved its grant at most
  `MaxInFlight` ago;
- `OvertakenIsMarked`: if the session of one in flight is revoked, then `Revoke`
  is still to be called, or a tombstone exists and is no older than the
  request.

When such a connection asks to be registered, pruning cannot have removed the
tombstone (`PruneKeepsYoung`: it is no older than the request, hence not older than
`TombstoneTTL`), so it is refused. `Revoke` collects every open connection at the
moment it leaves the tombstone, and rows are revoked before `Revoke` is called.

`StaleTrafficIsBounded` needs the state of the throttles. `TrafficInv` adds

- `TrackersMatch`: the tracker of a dialed or open connection belongs to the
  connection's session;
- `ConfirmedWhileLive`: the last success of a tracker is not later than the end
  of its session;
- `TimesHavePassed`: a request in flight resolved its grant before the end, and the
  times that `sending` and `deadline` come from lie in the past.

A call passes without a question less than `PersistInterval` after a success
(`TouchIsTimely`), which came before the end; the deadline counts from such a call, or
from the registration of a connection whose request had resolved its grant.

`SSHGatewayProofs` proves `TypeCorrect`, `RevokedTerminalsAreCut` (`Spec =>
[]RevokedIsCut`), `EndedTerminalsAreCut` (`[]EndedTerminalIsCut`), `LateTrafficIsLast`
(`[]LateTrafficCutsTerminal`) and `LastSeenFollows` (`[]LastSeenFollowsTraffic`) under
the same assumption and `TouchTimeout <= IdleTTL`. Its
`RevocationInv` has the same parts as that of the Web gateway, with the accepted
WebSockets as those in flight; besides, cancellation must be stable: `cancelled` is
never taken back before the handler returns and `expires_at` never moves, so a
handler once `Cut` stays so. Six of the actions only move or end one handler and
share `HandlerStepKeepsRevocation`.

The three properties of traffic have one invariant, `TrafficInv`. What connects
reading, the store and the end of the session is `persisted`, the time of the store's
last answer for the terminal. `AnswerFits` says that this answer came before the end
and not later than `last_seen_at` and one query (or is the opening of the terminal);
`SignalFits`, that what was read `TouchInterval` later than it is signalled, being
asked about or has cancelled the handler; `IdleFits`, that a terminal not cut asks
within an interval and an idle limit of it; `TouchFits`, what a query under way knows.
`last_seen_at` is not monotonic, since touches of two terminals land in any order:
`RowsMove` says how far back a step may put it.

`PortForwardsProofs`, for any sets of requests, endpoints, addresses and ports and
any numbers of rows, tasks and restarts: `TypeCorrect`, `ReferencesStayRight`,
`OneTaskOnAPort`, `OrphansExplained` and the action property `CleanupFirst`. The
invariant says what each program counter knows, and it needs no more about the
processes that do not take `resourceMu` than `Follows`: who works from a reference
it has read works from the present one, because a row never changes its reference
while it exists, and a task that has gone does not come back, late calls
included: they are about tasks that were there. `Creates` and `Closes`
are the two uses of the mutex. While a forward is created, its row has no reference,
its endpoint stays, and at `adding` no task on the node has its port but stray ones (nobody else
could have added one); while endpoints are closed, every row left on them is
still in the queue, so an address changes only under no row at all. `Numbered`
says that identifiers are new when given out.

`DiscoveryProofs`, for any set of requests and any number of jobs, results and
restarts: `TypeCorrect`, `DeletionWaits`, `TunnelIsDown`, `CompletedIsScanned`,
`CanceledIsOver`. The heart is `Cancels` with `Holds`: a request that waits for a
job's goroutine waits for the only one it will have (`NotStarting`), and one that
found none either makes the job `missed` or holds the mutex that `Start` needs.
`Deletion` then follows the loop of `deleteProject`: the live jobs are those in
its queue and the one it is at; at the deletion there is none, and the tunnel is
down, somebody else's, or a late start. `WorkIsLive` turns "no live job" into "no goroutine at
work" but for the missed ones.

`AccountsProofs`, for any sets of users, challenges and requests in flight and any
limit of attempts: `TypeCorrect`, `CodesOpenOneSession` (`[]ExchangedOnce`),
`GuessesStayBounded`, `SessionsHaveFactors` (`[]FactorStandsBehindSession`) and
`AdminAlwaysRemains`. `ExchangedOnce` speaks of a history, so the invariant
must say why no code in it is accepted again: `SecretsApart`, every TOTP secret has
one owner, an enrolling challenge or a user, and what was spent of a user's
secret does not exceed the stored counter; `CodesApart`, a recovery code is one
user's and goes when it is spent. `VerifyingIsEnrolled` says that a verifying
login and the requests under way in it use the user's present factor, which holds
because a reset revokes the challenges in the same transaction.
`GuessesAreCounted` bounds the counted wrong codes of a closed challenge together
with the requests that may still count one; the uncounted ones are a term of their own. Every step but the two exchanges moves
these parts in a few ways (`Ordinary`, `Loaded`), so each of the parts is proved
once for all of these steps and once for each exchange. The administrators are a
matter of one transaction, but of two users: `OtherAdmin` must see one who stays
in that very step.

`AccessSessionsProofs`, for any sets of users, logins, sessions and requests and any
delay that is short against `Retention`: `TypeCorrect`, `RightsStayCurrent`,
`OpenLogsAreExplained` and the refinement `SessionsHaveOneLife` (`Spec =>
OneLife`: every step maps to a step of `SessionLife` or to a stutter).
`RightsAreCurrent` rests on `Current`: what was read of a user under a login still
holds while the login is active, because every change of the user ends the logins
in the same transaction. `OpenLogIsExplained` rests on `SweptFirst`: between the
two statements of a sweep, no login of a session that is still active can be
deleted by the second, since a session the first left alone has seen its login
recently (`Fresh`, `Clock`). The refinement uses `ServedIsLive`: what a
statement serves by any time it may have been given has not `Ended`. All
depend on the steps only through `StepFacts`, one formula for each row.

`CredentialsProofs`, for any sets of nodes, services and requests: `TypeCorrect`,
`NodesResolve`, `ServicesResolve` and `LastAnswerInForce`. `NodeResolves` alone is not inductive: a
rollback or a late deletion could take the credential away. `IInv` adds `Pending`,
what each request for a node relies on (`Prepared`): while it creates the node no
other request knows of it, and what it has saved is in the vault when it writes
the row; the rollback of an update would write a credential, because it was read
while the node existed, or comes when the node is gone, or is that of a request that
could not read it; a credential is deleted
only after its node. The other two have an invariant of their own, `LastInv`:
requests for one owner follow each other or are known to cross (`Alone`, for
services by `resourceMu`), and one that is alone knows the confirmed credential
from its reading on, or could not read it (`Knows`), so that its rollback restores
exactly that. `Serves` is what a request for a service relies on: what it saved is
there, and what its rollback writes is a credential if the service refers to one.

Assumptions on the constants, each evaluated by TLC in the run of its module:
the intervals are positive where the code's are; `MaxInFlight <= TombstoneTTL`;
`TouchTimeout <= IdleTTL` (5 seconds, 15 minutes);
`AccessIdle <= AuthIdle <= AuthLife`, and `AccessIdle + MaxDelay` and `2 * MaxDelay`
below `Retention` (15 minutes, and statements that wait seconds, against 24 hours);
`MaxForwards` at least one; finitely many requests in flight in Accounts, where
they are counted; no set empty and no null value a member, where that matters. The bounds of
clocks and counters are parameters like the others: what is proved holds for
each of their values.

The inductive invariants were run through TLC before they were proved. Every
invariant and every safety property of the passing runs now has its theorem.
Only model-checked are

- the liveness properties, `RevocationCompletes` of both gateways,
  `ExpiredIsReleased`, `ScansEnd`, `MutexIsReleased` and `EndedIsClosed`: the
  provers do not deal with `ENABLED`, which fairness is defined by;
- the claims of the runs that end with a violation, which are false.

There is no recursion over data in the modules.

## Findings

Each is a run that TLC ends with a trace, and an entry of `PROJECT.json` that
quotes the line disagreed with.

1. `ssh_reload`: a settings reload builds new gateways in the same process;
   `http.Server.Shutdown` does not wait for hijacked connections. An open
   terminal stays registered with the old gateway, and `Revoke` of the new
   one, said to terminate every active connection, does not reach it.
2. `forwards_sweep`: `Sweep` deletes a row from what it read earlier. A forward
   listed while provisioning has no task reference; if it is activated before its
   turn, the row goes and the task stays.
3. `accounts_reset`: a change of a user ends the login sessions but not the
   challenges: a login under way, checked against the old password and rights,
   becomes a session afterwards. A challenge that asks for a new password even
   replaces the one the administrator has just set.
4. `discovery_cancel`: deleting a project with a live scan cancels it and waits
   for its goroutine, which writes the final status itself; the handler's own
   write then finds no live row, and the deletion ends with
   `discovery_cancel_failed`. A second attempt succeeds.
5. `discovery_race`: a cancellation that falls between the insertion of a job's
   row and its registration cannot wait for it. The scan goes on with a row
   marked as cancelled, and the deletion of the project does not wait either.

## What is left out

- Bytes: header, cookie and URL rewriting, terminal contents, JSON, signing, the
  SOCKS protocol, the probes of the discovery protocols, encryption, hashes.
- Single transactions with nothing beside them: settings, audit rows,
  identifiers, most create and update handlers.
- `deleteProject` appears in PortForwards for its forwards and in Discovery for
  its scans and tunnel; the two are checked apart, as they share only the order
  of the handler's loops.
- Wall-clock details: time counts whole ticks. Timestamps are compared as
  text in the database; the error of that comparison is below a second.
- The frontend, build files and scripts.
- The login limiter, which can only refuse, and the steps of a restore with a
  crash between them (both planned).

Met while modelling and left without a run, since no document promises otherwise
or it takes no interleaving:

- `updateDevice` with a new SSH service succeeds without it: the service is given
  an identifier before `replaceDeviceEndpointsTx` (`store/devices.go:371`), which
  writes services with identifiers by `UPDATE`. Its credential stays in the vault.
- `SetManagedTunnel(false)` makes no call when it finds the tunnel down
  (`nodeadapter/adapter.go:655`). A scan cancelled while the node works on its
  `/index/start/` has given that call up; the deletion of the project waits for the
  scan, finds the tunnel down and ends, and then the node starts it.
  `TunnelStaysDown` names this way (`LateScan`) and shows that no other is open
  to a scan that was waited for.
- Credentials of services are never deleted with them.
- `createPortForward` answers that a task was rolled back whether or not the node
  agreed to delete it (`api/api.go:1896`).
- Sessions opened under an access policy go on when the policy is deleted.

Each component is in `PROJECT.json` with its status and the reason.

## Plan

Done, in order of importance: WebGateway, SSHGateway, PortForwards, Discovery,
Accounts, AccessSessions with SessionLife, Credentials, each with the theorems
for its safety properties. Next:

1. **Gateways and sessions together**: that the `Live` of the gateways is what
   AccessSessions promises of a session, as a refinement of the rows each
   gateway sees.
2. **LoginLimiter**: bounded map with fixed windows and eviction; small enough
   to be proved whole.
3. **Restore**: its steps with a crash between any two.

## Use

    tlasany WebGateway.tla
    tlc -workers 2 -config MCWebGateway.cfg MCWebGateway
    tlapm WebGatewayProofs.tla

Each passing run takes up to four minutes, the proofs of a module, `*Proofs.tla`,
up to ten. A run that
refutes a claim prints its trace, which names the actions above.
