----------------------------- MODULE Credentials -----------------------------
(***************************************************************************)
(* The credentials of nodes and of SSH services: the rows of               *)
(* node_credentials, written by src/backend/internal/secrets, and the rows *)
(* of nodes and endpoints that refer to them, written by store/nodes.go    *)
(* and store/devices.go. A handler of api/api.go that stores a credential  *)
(* saves it first, writes the row that uses it, and undoes the first when  *)
(* the second fails. Handlers of nodes take no lock, nor does createDevice, *)
(* which accepts any identifiers for its services; updateDevice and        *)
(* deleteDevice hold resourceMu.                                           *)
(*                                                                         *)
(* A request carries the credential of one owner: those of the other       *)
(* services of a device are saved and restored one by one in the same way. *)
(***************************************************************************)
EXTENDS Integers

CONSTANTS
    Nodes,      \* node identifiers; a deleted one is never used again
    Endpoints,  \* identifiers of SSH services, likewise
    Handlers,   \* requests that can be in flight together
    Null,       \* no owner
    MaxKeys     \* bound of the keys that users enter

Owners == Nodes \cup Endpoints

ASSUME CredentialsAssumption ==
    /\ Nodes \cap Endpoints = {}
    /\ Null \notin Owners
    /\ MaxKeys \in Nat

VARIABLES
    row,         \* the rows of nodes and endpoints, and what they refer to
    vault,       \* the rows of node_credentials; 0 when there is none
    req,         \* the requests in flight
    made,        \* how many keys were entered
    confirmed,   \* history: the credential a user was told is stored
    crossed,     \* history: owners of two requests that no lock keeps apart
    interrupted, \* history: owners of a request that could not clean up
    lost,        \* history: owners whose credential a rollback deleted because
                 \* the request had not been able to read it
    halfway      \* history: services whose row was changed by a request that
                 \* then failed

history == <<confirmed, crossed, interrupted, lost, halfway>>

vars == <<row, vault, req, made, confirmed, crossed, interrupted, lost, halfway>>

Idle == [op |-> "idle", kind |-> "none", owner |-> Null, key |-> 0, old |-> 0]

\* The old credential, when the vault could not be read.
Unread == -1

\* What a request is doing: the vault is read for the key in force and once
\* more for the rollback, written, and then the row is.
Ops == {"resolve", "old", "save", "write", "rollback", "forget"}

Busy(h) == req[h].op # "idle"

Request == [op: Ops \cup {"idle"},
            kind: {"none", "create", "given", "update", "add", "delete"},
            owner: Owners \cup {Null}, key: Nat, old: Nat \cup {Unread}]

\* "file" is a key file on the server, or no credential at all; the vault is
\* not read for it.
TypeOK ==
    /\ row \in [Owners -> {"none", "vault", "file", "gone"}]
    /\ \A n \in Nodes : row[n] # "file"
    /\ vault \in [Owners -> Nat]
    /\ req \in [Handlers -> Request]
    /\ \A h \in Handlers : Busy(h) => req[h].owner # Null
    /\ \A h \in Handlers :
          req[h].op \in {"old", "save", "write"} => req[h].key # 0
    /\ made \in Nat
    /\ confirmed \in [Owners -> Nat]
    /\ crossed \subseteq Owners /\ interrupted \subseteq Owners
    /\ lost \subseteq Owners /\ halfway \subseteq Endpoints

Init ==
    /\ row = [o \in Owners |-> "none"]
    /\ vault = [o \in Owners |-> 0]
    /\ req = [h \in Handlers |-> Idle]
    /\ made = 0
    /\ confirmed = [o \in Owners |-> 0]
    /\ crossed = {} /\ interrupted = {} /\ lost = {} /\ halfway = {}

-----------------------------------------------------------------------------
On(o) == {h \in Handlers : Busy(h) /\ req[h].owner = o}

\* Mistake: updateDevice and deleteDevice do not lock.
AlwaysFree == TRUE

\* The requests that hold resourceMu: those of updateDevice.
Locked(kind, o) == o \in Endpoints /\ kind \in {"update", "add"}

\* resourceMu.
Free == \A h \in Handlers : Busy(h) => ~Locked(req[h].kind, req[h].owner)

Begin(h, o, kind, op, key) ==
    /\ ~Busy(h)
    /\ req' = [req EXCEPT ![h] = [op |-> op, kind |-> kind, owner |-> o,
                                  key |-> key, old |-> 0]]
    /\ crossed' = IF \A g \in On(o) : Locked(kind, o) /\ Locked(req[g].kind, o)
                  THEN crossed ELSE crossed \cup {o}
    /\ UNCHANGED <<confirmed, interrupted, lost, halfway>>

\* A key that is entered, or none, so that the one in force is kept.
Entered(key) == key = made + 1 /\ key <= MaxKeys /\ made' = key

Kept(key) == key = 0 /\ UNCHANGED made

Finish(h) == req' = [req EXCEPT ![h] = Idle]

\* An identifier that was just generated.
Fresh(o) ==
    row[o] = "none" /\ vault[o] = 0 /\ On(o) = {} /\ o \notin interrupted

\* createNode, and createDevice for a service with a password and without an
\* identifier: there is nothing to keep.
Create(h, o, key) ==
    /\ Fresh(o) /\ Entered(key)
    /\ Begin(h, o, "create", "old", key)
    /\ UNCHANGED <<row, vault>>

\* What a client of createDevice can send as an identifier: that of a service
\* it was shown, or one it makes up.
Sent(e) == row[e] # "none" \/ \A h \in On(e) : req[h].kind = "given"

\* createDevice for a service with a password and an identifier. It is not
\* checked: the service may exist, its credential is then completed and saved
\* over, without resourceMu.
CreateGiven(h, e, key) ==
    /\ Sent(e)
    /\ \/ row[e] = "vault" /\ (Entered(key) \/ Kept(key))
          /\ Begin(h, e, "given", "resolve", key)
       \/ row[e] # "vault" /\ Entered(key)
          /\ Begin(h, e, "given", "old", key)
    /\ UNCHANGED <<row, vault>>

\* updateNode reads the reference of the node.
UpdateNode(h, n, key) ==
    /\ row[n] = "vault"
    /\ Entered(key) \/ Kept(key)
    /\ Begin(h, n, "update", "resolve", key)
    /\ UNCHANGED <<row, vault>>

\* updateDevice with a password for one of its services. What a key file
\* holds is not a credential, so nothing is kept of it.
UpdateDevice(h, e, key) ==
    /\ Free
    /\ \/ row[e] = "vault" /\ (Entered(key) \/ Kept(key))
          /\ Begin(h, e, "update", "resolve", key)
       \/ row[e] = "file" /\ Entered(key)
          /\ Begin(h, e, "update", "old", key)
    /\ UNCHANGED <<row, vault>>

\* updateDevice with a new service, whose identifier prepareSSHCredentials
\* generates.
AddService(h, e, key) ==
    /\ Free
    /\ Fresh(e) /\ Entered(key)
    /\ Begin(h, e, "add", "old", key)
    /\ UNCHANGED <<row, vault>>

-----------------------------------------------------------------------------
(***************************************************************************)
(* Save and SaveSSH.                                                       *)
(***************************************************************************)
\* Mistake: an empty key is stored.
AnyCredential(key) == TRUE

\* The checks of the credential before it is encrypted.
ValidCredential(key) == key # 0

\* The credential in force, if it can be read, completes the one sent.
Resolve(h) ==
    LET key == IF req[h].key = 0 THEN vault[req[h].owner] ELSE req[h].key IN
    /\ req[h].op = "resolve"
    /\ req' = [req EXCEPT ![h] = IF ValidCredential(key)
                                 THEN [@ EXCEPT !.op = "old", !.key = key]
                                 ELSE Idle]
    /\ UNCHANGED <<row, vault, made, history>>

\* The credential that a rollback would restore. Any error of reading it is
\* taken for a vault without one, and the request goes on.
ReadOld(h) ==
    /\ req[h].op = "old"
    /\ \E old \in {vault[req[h].owner], Unread} :
          /\ old = Unread => vault[req[h].owner] # 0
          /\ req' = [req EXCEPT ![h].op = "save", ![h].old = old]
    /\ UNCHANGED <<row, vault, made, history>>

SaveNodeCredential(h) ==
    /\ req[h].op = "save"
    /\ vault' = [vault EXCEPT ![req[h].owner] = req[h].key]
    /\ req' = [req EXCEPT ![h].op = "write"]
    /\ UNCHANGED <<row, made, history>>

\* An invalid request, a failing statement or a client that left, before
\* anything is saved.
Refuse(h) ==
    /\ req[h].op \in {"resolve", "old", "save"}
    /\ Finish(h)
    /\ UNCHANGED <<row, vault, made, history>>

-----------------------------------------------------------------------------
(***************************************************************************)
(* The row that uses the credential.                                       *)
(***************************************************************************)
\* The endpoint that an update adds has an identifier by now, so it is written
\* by an UPDATE that finds no row, and the request succeeds without it.
Written(h) == IF req[h].kind = "add" THEN row[req[h].owner] ELSE "vault"

\* The rows that can be written: an UPDATE that finds none fails, and so does
\* an INSERT of an identifier that is there.
CanWrite(h) ==
    LET r == row[req[h].owner] IN
    /\ req[h].kind = "update" => r \in {"vault", "file"}
    /\ req[h].kind = "given" => r \in {"none", "gone"}

\* CreateNode, CreateDevice, UpdateNode, UpdateDevice.
WriteRow(h) ==
    LET o == req[h].owner IN
    /\ req[h].op = "write" /\ CanWrite(h)
    /\ row' = [row EXCEPT ![o] = Written(h)]
    /\ confirmed' = [confirmed EXCEPT ![o] = req[h].key]
    /\ Finish(h)
    /\ UNCHANGED <<vault, made, crossed, interrupted, lost, halfway>>

\* Mistake: the request ends there.
EndsThere(h) == Finish(h)

RollsBack(h) == req' = [req EXCEPT ![h].op = "rollback"]

\* The validation of the node, sessions of the device that cannot be closed,
\* a conflict, a row that has gone, or a client that has.
WriteFails(h) ==
    /\ req[h].op = "write"
    /\ RollsBack(h)
    /\ UNCHANGED <<row, vault, made, history>>

\* UpdateNode and UpdateDevice read the row again once it is committed. When
\* that fails, the request does, and the row stays.
ReadBackFails(h) ==
    LET o == req[h].owner IN
    /\ req[h].op = "write" /\ req[h].kind \in {"update", "add"} /\ CanWrite(h)
    /\ row' = [row EXCEPT ![o] = Written(h)]
    /\ halfway' = IF row' = row THEN halfway ELSE halfway \cup {o}
    /\ RollsBack(h)
    /\ UNCHANGED <<vault, made, confirmed, crossed, interrupted, lost>>

\* Mistake: the rollback always deletes.
NothingRestored(h) == 0

\* What the rollback writes; 0 deletes the row.
Restored(h) == IF req[h].old = Unread THEN 0 ELSE req[h].old

Rollback(h) ==
    LET o == req[h].owner IN
    /\ req[h].op = "rollback"
    /\ vault' = [vault EXCEPT ![o] = Restored(h)]
    /\ lost' = IF req[h].old = Unread THEN lost \cup {o} ELSE lost
    /\ Finish(h)
    /\ UNCHANGED <<row, made, confirmed, crossed, interrupted, halfway>>

\* deleteNode: the row of a node without projects, then its credential.
DeleteNode(h, n) ==
    /\ row[n] = "vault"
    /\ row' = [row EXCEPT ![n] = "gone"]
    /\ Begin(h, n, "delete", "forget", 0)
    /\ UNCHANGED <<vault, made>>

DeleteNodeCredential(h) ==
    LET n == req[h].owner IN
    /\ req[h].op = "forget"
    /\ vault' = [vault EXCEPT ![n] = 0]
    /\ confirmed' = [confirmed EXCEPT ![n] = 0]
    /\ Finish(h)
    /\ UNCHANGED <<row, made, crossed, interrupted, lost, halfway>>

\* The errors of a rollback and of the deletion of a credential are dropped.
CleanupFails(h) ==
    /\ req[h].op \in {"rollback", "forget"}
    /\ interrupted' = interrupted \cup {req[h].owner}
    /\ Finish(h)
    /\ UNCHANGED <<row, vault, made, confirmed, crossed, lost, halfway>>

\* createDevice, with an identifier or without, or updateDevice, with a key
\* file for the service. The vault is left alone.
UseKeyFile(e) ==
    /\ \/ row[e] \in {"none", "gone"} /\ Sent(e)
       \/ row[e] = "vault" /\ Free
    /\ row' = [row EXCEPT ![e] = "file"]
    /\ UNCHANGED <<vault, req, made, history>>

\* deleteDevice, or updateDevice without the service; likewise.
RemoveService(e) ==
    /\ Free /\ row[e] \in {"vault", "file"}
    /\ row' = [row EXCEPT ![e] = "gone"]
    /\ UNCHANGED <<vault, req, made, history>>

\* The process ends with requests in flight, and starts again.
Restart ==
    /\ \E h \in Handlers : Busy(h)
    /\ interrupted' = interrupted \cup
          {o \in Owners : \E h \in On(o) :
                             req[h].op \in {"write", "rollback", "forget"}}
    /\ req' = [h \in Handlers |-> Idle]
    /\ UNCHANGED <<row, vault, made, confirmed, crossed, lost, halfway>>

-----------------------------------------------------------------------------
Starts(h) ==
    \E key \in {0, made + 1} :
       \/ \E o \in Owners : Create(h, o, key)
       \/ \E n \in Nodes : UpdateNode(h, n, key)
       \/ \E e \in Endpoints :
             CreateGiven(h, e, key) \/ UpdateDevice(h, e, key) \/ AddService(h, e, key)

Proceeds(h) ==
    \/ Resolve(h) \/ ReadOld(h) \/ SaveNodeCredential(h) \/ Refuse(h)
    \/ WriteRow(h) \/ WriteFails(h) \/ ReadBackFails(h) \/ Rollback(h)
    \/ DeleteNodeCredential(h) \/ CleanupFails(h)

Next ==
    \/ \E h \in Handlers :
          Starts(h) \/ Proceeds(h) \/ \E n \in Nodes : DeleteNode(h, n)
    \/ \E e \in Endpoints : UseKeyFile(e) \/ RemoveService(e)
    \/ Restart

Spec == Init /\ [][Next]_vars

-----------------------------------------------------------------------------
(***************************************************************************)
(* Properties.                                                             *)
(***************************************************************************)
\* A node can always be reached: however updates, their rollbacks and
\* deletions cross, a node that exists has a credential (its credential_ref
\* names the row of node_credentials that Save writes first). Only a request
\* that failed to read the old credential, and then fails, takes it away.
NodeResolves ==
    \A n \in Nodes : row[n] = "vault" => vault[n] # 0 \/ n \in lost

\* A service whose row refers to the vault has a credential there as well, and
\* loses it in three ways only: as a node does, by a device created with its
\* identifier while another request deals with it, and by an update that is
\* rolled back after its row was committed.
ServiceResolves ==
    \A e \in Endpoints :
       row[e] = "vault" => vault[e] # 0 \/ e \in lost \cup crossed \cup halfway

\* With no request under way, the credential in force is the one that was
\* confirmed last: a refused one is gone, and so is that of a deleted node.
\* Requests that cross without a lock break this, those of nodes and those of
\* new devices with the identifiers of others; resourceMu keeps the rest of the
\* requests for a service apart. A request that was cut off after its save
\* breaks it as well, and so does one that could not read what it replaced.
LastAnswerCounts ==
    \A o \in Owners :
       On(o) = {} => vault[o] = confirmed[o] \/ o \in crossed \cup interrupted \cup lost

=============================================================================
