-------------------------- MODULE CredentialsProofs --------------------------
(***************************************************************************)
(* Theorems about Credentials, for any sets of nodes, services and         *)
(* requests and any number of keys.                                        *)
(***************************************************************************)
EXTENDS Credentials, TLAPS

-----------------------------------------------------------------------------
(* Type correctness. *)

\* What holds of the requests alone.
ReqType ==
    /\ req \in [Handlers -> Request]
    /\ \A h \in Handlers : Busy(h) => req[h].owner # Null
    /\ \A h \in Handlers :
          req[h].op \in {"old", "save", "write"} => req[h].key # 0

LEMMA BeginTypes ==
    ASSUME TypeOK, NEW h \in Handlers, NEW o \in Owners,
           NEW kind \in {"create", "given", "update", "add", "delete"},
           NEW op \in {"resolve", "old", "forget"}, NEW key \in Nat,
           op = "old" => key # 0,
           Begin(h, o, kind, op, key)
    PROVE  ReqType' /\ UNCHANGED <<confirmed, interrupted, lost, halfway>>
           /\ crossed' \subseteq Owners
  BY CredentialsAssumption
  DEF TypeOK, ReqType, Begin, Busy, Ops, Owners, Request

LEMMA IdleIsRequest == Idle \in Request /\ Idle.op = "idle"
  BY DEF Idle, Request

LEMMA FinishTypes ==
    ASSUME TypeOK, NEW h \in Handlers, Finish(h)
    PROVE  ReqType'
  BY IdleIsRequest DEF TypeOK, ReqType, Finish, Busy

LEMMA KeyTypes ==
    ASSUME TypeOK, NEW key, Entered(key) \/ Kept(key)
    PROVE  key \in Nat /\ made' \in Nat /\ (Entered(key) => key # 0)
  BY DEF TypeOK, Entered, Kept

LEMMA OwnerOfBusy ==
    ASSUME TypeOK, NEW h \in Handlers, Busy(h)
    PROVE  req[h].owner \in Owners
  BY DEF TypeOK, Request

LEMMA TypeStep == TypeOK /\ [Next]_vars => TypeOK'
<1> SUFFICES ASSUME TypeOK, [Next]_vars PROVE TypeOK'
  OBVIOUS
<1> USE DEF ReqType
<1>1. ASSUME NEW h \in Handlers, Starts(h) PROVE TypeOK'
  <2> PICK key \in {0, made + 1} :
         \/ \E o \in Owners : Create(h, o, key)
         \/ \E n \in Nodes : UpdateNode(h, n, key)
         \/ \E e \in Endpoints :
               CreateGiven(h, e, key) \/ UpdateDevice(h, e, key)
                 \/ AddService(h, e, key)
    BY <1>1 DEF Starts
  <2>0. key \in Nat
    BY DEF TypeOK
  <2>1. ASSUME NEW o \in Owners, Create(h, o, key) PROVE TypeOK'
    BY <2>0, <2>1, BeginTypes, KeyTypes DEF Create, TypeOK
  <2>2. ASSUME NEW n \in Nodes, UpdateNode(h, n, key) PROVE TypeOK'
    BY <2>0, <2>2, BeginTypes, KeyTypes DEF UpdateNode, TypeOK, Owners
  <2>3. ASSUME NEW e \in Endpoints, UpdateDevice(h, e, key) PROVE TypeOK'
    <3>1. e \in Owners
      BY DEF Owners
    <3>2. CASE row[e] = "vault" /\ (Entered(key) \/ Kept(key))
               /\ Begin(h, e, "update", "resolve", key)
      BY <2>0, <2>3, <3>1, <3>2, BeginTypes, KeyTypes DEF UpdateDevice, TypeOK
    <3>3. CASE row[e] = "file" /\ Entered(key)
               /\ Begin(h, e, "update", "old", key)
      BY <2>0, <2>3, <3>1, <3>3, BeginTypes, KeyTypes DEF UpdateDevice, TypeOK
    <3> QED BY <2>3, <3>2, <3>3 DEF UpdateDevice
  <2>4. ASSUME NEW e \in Endpoints, AddService(h, e, key) PROVE TypeOK'
    BY <2>0, <2>4, BeginTypes, KeyTypes DEF AddService, TypeOK, Owners
  <2>5. ASSUME NEW e \in Endpoints, CreateGiven(h, e, key) PROVE TypeOK'
    <3>1. e \in Owners
      BY DEF Owners
    <3>2. CASE row[e] = "vault" /\ (Entered(key) \/ Kept(key))
               /\ Begin(h, e, "given", "resolve", key)
      BY <2>0, <2>5, <3>1, <3>2, BeginTypes, KeyTypes DEF CreateGiven, TypeOK
    <3>3. CASE row[e] # "vault" /\ Entered(key)
               /\ Begin(h, e, "given", "old", key)
      BY <2>0, <2>5, <3>1, <3>3, BeginTypes, KeyTypes DEF CreateGiven, TypeOK
    <3> QED BY <2>5, <3>2, <3>3 DEF CreateGiven
  <2> QED BY <2>1, <2>2, <2>3, <2>4, <2>5
<1>2. ASSUME NEW h \in Handlers, Proceeds(h) PROVE TypeOK'
  <2>1. CASE Resolve(h)
    <3>1. req[h].owner \in Owners
      BY <2>1, OwnerOfBusy DEF Resolve, Busy
    <3> DEFINE k == IF req[h].key = 0 THEN vault[req[h].owner]
                    ELSE req[h].key
               r == IF ValidCredential(k)
                    THEN [req[h] EXCEPT !.op = "old", !.key = k] ELSE Idle
    <3>2. k \in Nat
      BY <3>1 DEF TypeOK, Request
    <3>3. r \in Request /\ (r.op # "idle" => r.owner # Null)
          /\ (r.op \in {"old", "save", "write"} => r.key # 0)
      BY <2>1, <3>1, <3>2, IdleIsRequest, CredentialsAssumption
      DEF Resolve, TypeOK, Request, Ops, ValidCredential
    <3>4. req' = [req EXCEPT ![h] = r]
      BY <2>1 DEF Resolve
    <3> HIDE DEF r
    <3>5. ReqType'
      BY <3>3, <3>4 DEF TypeOK, Busy
    <3> QED BY <2>1, <3>5 DEF Resolve, TypeOK, history
  <2>2. CASE ReadOld(h)
    <3>1. req[h].owner \in Owners
      BY <2>2, OwnerOfBusy DEF ReadOld, Busy
    <3> PICK old \in {vault[req[h].owner], Unread} :
           req' = [req EXCEPT ![h].op = "save", ![h].old = old]
      BY <2>2 DEF ReadOld
    <3> DEFINE r == [req[h] EXCEPT !.op = "save", !.old = old]
    <3>5. /\ old \in Nat \cup {Unread} /\ req[h] \in Request
          /\ req[h].key # 0 /\ req[h].owner # Null
      BY <2>2, <3>1, CredentialsAssumption DEF ReadOld, TypeOK
    <3>2. r \in Request /\ r.op = "save" /\ r.owner # Null /\ r.key # 0
      BY <3>5 DEF Request, Ops
    <3>3. req' = [req EXCEPT ![h] = r]
      BY DEF TypeOK, Request
    <3> HIDE DEF r
    <3>4. ReqType'
      BY <3>2, <3>3 DEF TypeOK, Busy
    <3> QED BY <2>2, <3>4 DEF ReadOld, TypeOK, history
  <2>3. CASE SaveNodeCredential(h)
    BY <2>3 DEF SaveNodeCredential, TypeOK, Request, Ops, Busy, history
  <2>4. CASE Refuse(h)
    BY <2>4, FinishTypes DEF Refuse, TypeOK, history
  <2>5. CASE WriteRow(h)
    <3>1. req[h].owner \in Owners /\ req[h].key \in Nat
      BY <2>5, OwnerOfBusy DEF WriteRow, Busy, TypeOK, Request
    <3>2. row' \in [Owners -> {"none", "vault", "file", "gone"}]
          /\ \A n \in Nodes : row'[n] # "file"
      BY <2>5, <3>1 DEF WriteRow, Written, TypeOK, Owners
    <3> QED BY <2>5, <3>1, <3>2, FinishTypes DEF WriteRow, TypeOK
  <2>6. CASE WriteFails(h)
    BY <2>6 DEF WriteFails, RollsBack, TypeOK, Request, Ops, Busy, history
  <2>7. CASE Rollback(h)
    <3>1. req[h].owner \in Owners /\ Restored(h) \in Nat
      BY <2>7, OwnerOfBusy DEF Rollback, Busy, Restored, TypeOK, Request
    <3> QED BY <2>7, <3>1, FinishTypes DEF Rollback, TypeOK
  <2>8. CASE DeleteNodeCredential(h)
    BY <2>8, FinishTypes DEF DeleteNodeCredential, TypeOK
  <2>9. CASE CleanupFails(h)
    <3>1. req[h].owner \in Owners
      BY <2>9, OwnerOfBusy DEF CleanupFails, Busy
    <3> QED BY <2>9, <3>1, FinishTypes DEF CleanupFails, TypeOK
  <2>10. CASE ReadBackFails(h)
    <3>1. req[h].owner \in Owners
      BY <2>10, OwnerOfBusy DEF ReadBackFails, Busy
    <3>2. ReqType'
      BY <2>10 DEF ReadBackFails, RollsBack, TypeOK, Request, Ops, Busy
    <3>3. row' \in [Owners -> {"none", "vault", "file", "gone"}]
          /\ \A n \in Nodes : row'[n] # "file"
      BY <2>10, <3>1 DEF ReadBackFails, Written, TypeOK, Owners
    <3>4. halfway' \subseteq Endpoints
      <4>1. CASE req[h].owner \in Endpoints
        BY <2>10, <4>1 DEF ReadBackFails, TypeOK
      <4>2. CASE req[h].owner \in Nodes
        <5>1. row[req[h].owner] = Written(h)
          BY <2>10, <4>2, CredentialsAssumption
          DEF ReadBackFails, CanWrite, Written, TypeOK
        <5>2. row' = row
          BY <2>10, <3>1, <5>1 DEF ReadBackFails, TypeOK
        <5> QED BY <2>10, <5>2 DEF ReadBackFails, TypeOK
      <4> QED BY <3>1, <4>1, <4>2 DEF Owners
    <3> QED BY <2>10, <3>2, <3>3, <3>4 DEF ReadBackFails, TypeOK
  <2> QED
    BY <1>2, <2>1, <2>2, <2>3, <2>4, <2>5, <2>6, <2>7, <2>8, <2>9, <2>10
    DEF Proceeds
<1>3. ASSUME NEW h \in Handlers, NEW n \in Nodes, DeleteNode(h, n) PROVE TypeOK'
  BY <1>3, BeginTypes DEF DeleteNode, TypeOK, Owners
<1>4. ASSUME NEW e \in Endpoints, UseKeyFile(e) PROVE TypeOK'
  BY <1>4, CredentialsAssumption DEF UseKeyFile, TypeOK, history, Busy, Owners
<1>5. ASSUME NEW e \in Endpoints, RemoveService(e) PROVE TypeOK'
  BY <1>5, CredentialsAssumption DEF RemoveService, TypeOK, history, Busy, Owners
<1>6. CASE Restart
  BY <1>6, IdleIsRequest DEF Restart, TypeOK, Busy
<1>7. CASE UNCHANGED vars
  BY <1>7 DEF vars, TypeOK, Busy
<1> QED BY <1>1, <1>2, <1>3, <1>4, <1>5, <1>6, <1>7 DEF Next

\* Every state is well typed: in particular no request saves an empty key.
THEOREM TypeCorrect == Spec => []TypeOK
<1>1. Init => TypeOK
  BY IdleIsRequest, CredentialsAssumption DEF Init, TypeOK, Busy, Owners
<1> QED BY <1>1, TypeStep, PTL DEF Spec

-----------------------------------------------------------------------------
(* A node that exists has a credential. *)

\* What a request for a node relies on. A node's identifier is known to the
\* others once its row is written; an update of it cannot bring it back to
\* life; and what its rollback would write is a credential, or comes too late
\* to matter, or the node has lost its credential before.
Prepared(h) ==
    LET n == req[h].owner IN
    /\ req[h].kind \in {"create", "update", "delete"}
    /\ req[h].kind = "create" =>
          /\ row[n] = "none"
          /\ \A g \in Handlers : Busy(g) /\ req[g].owner = n => g = h
          /\ req[h].op # "forget"
          /\ req[h].op = "write" => vault[n] # 0
    /\ req[h].kind = "update" =>
          /\ row[n] \in {"vault", "gone"}
          /\ req[h].op # "forget"
          /\ req[h].op \in {"save", "write", "rollback"} =>
                row[n] = "gone" \/ req[h].old # 0 \/ n \in lost
    /\ req[h].kind = "delete" => row[n] = "gone" /\ req[h].op = "forget"

Pending ==
    \A h \in Handlers : Busy(h) /\ req[h].owner \in Nodes => Prepared(h)

IInv == TypeOK /\ NodeResolves /\ Pending

\* What the actions of a request have in common: its own record changes, and
\* nothing else that another request relies on.
LEMMA Others ==
    ASSUME IInv, TypeOK', NEW h \in Handlers, NEW o \in Owners,
           \A g \in Handlers \ {h} : req'[g] = req[g],
           req[h].owner = o /\ Busy(h),
           req'[h].owner = o \/ ~Busy(h)',
           \A p \in Owners \ {o} : row'[p] = row[p] /\ vault'[p] = vault[p],
           lost \subseteq lost',
           o \in Nodes =>
              \/ row'[o] = row[o]
              \/ row[o] = "none" /\ req[h].kind = "create"
    PROVE  \A g \in Handlers \ {h} :
              Busy(g)' /\ req'[g].owner \in Nodes => Prepared(g)'
<1> SUFFICES ASSUME NEW g \in Handlers \ {h}, Busy(g)', req'[g].owner \in Nodes
             PROVE  Prepared(g)'
  OBVIOUS
<1>1. Busy(g) /\ req[g].owner \in Nodes /\ Prepared(g)
  BY DEF IInv, Pending, Busy
<1>2. CASE req[g].owner = o
  <2>1. o \in Nodes /\ Prepared(h)
    BY <1>1, <1>2 DEF IInv, Pending
  <2>2. req[h].kind # "create" /\ req[g].kind # "create"
    BY <1>1, <1>2, <2>1 DEF Prepared
  <2>3. row'[o] = row[o]
    BY <2>1, <2>2
  <2> QED BY <1>1, <1>2, <2>2, <2>3 DEF Prepared, Busy
<1>3. CASE req[g].owner # o
  <2>1. req[g].owner \in Owners
    BY <1>1 DEF Owners
  <2> QED BY <1>1, <1>3, <2>1 DEF Prepared, Busy
<1> QED BY <1>2, <1>3

\* A request that begins for a node whose row is written, or that no request
\* is about, disturbs none.
LEMMA OthersThanNew ==
    ASSUME IInv, NEW h \in Handlers, NEW o \in Owners,
           NEW kind, NEW op, NEW key, Begin(h, o, kind, op, key),
           row[o] # "none" \/ On(o) = {},
           vault' = vault,
           row' = row \/ (row[o] # "none" /\ row' = [row EXCEPT ![o] = "gone"])
    PROVE  \A g \in Handlers \ {h} :
              Busy(g)' /\ req'[g].owner \in Nodes => Prepared(g)'
<1> SUFFICES ASSUME NEW g \in Handlers \ {h}, Busy(g)', req'[g].owner \in Nodes
             PROVE  Prepared(g)'
  OBVIOUS
<1>0. req'[h].owner = o /\ lost' = lost
      /\ \A f \in Handlers \ {h} : req'[f] = req[f]
  BY DEF Begin, IInv, TypeOK
<1>1. Busy(g) /\ req[g].owner \in Nodes /\ Prepared(g)
  BY <1>0 DEF IInv, Pending, Busy
<1>2. req[g].kind = "create" => req[g].owner # o
  BY <1>1 DEF Prepared, On
<1>3. req[g].owner \in Owners
  BY <1>1 DEF Owners
<1>4. row'[req[g].owner] =
        IF row' # row /\ req[g].owner = o THEN "gone" ELSE row[req[g].owner]
  BY <1>3 DEF IInv, TypeOK
<1> QED BY <1>0, <1>1, <1>2, <1>4 DEF Prepared, Busy

LEMMA ResolvesStep == IInv /\ [Next]_vars => NodeResolves'
<1> SUFFICES ASSUME IInv, [Next]_vars PROVE NodeResolves'
  OBVIOUS
<1> USE DEF IInv
<1>1. ASSUME NEW h \in Handlers, Starts(h) PROVE NodeResolves'
  <2>1. UNCHANGED <<row, vault, lost>>
    BY <1>1
    DEF Starts, Create, CreateGiven, UpdateNode, UpdateDevice, AddService, Begin
  <2> QED BY <2>1 DEF NodeResolves
<1>2. ASSUME NEW h \in Handlers, Proceeds(h) PROVE NodeResolves'
  <2> DEFINE o == req[h].owner
  <2>0. lost \subseteq lost'
    BY <1>2 DEF Proceeds, Resolve, ReadOld, SaveNodeCredential, Refuse,
       WriteRow, WriteFails, ReadBackFails, Rollback, DeleteNodeCredential,
       CleanupFails, history
  <2>1. CASE Resolve(h) \/ ReadOld(h) \/ Refuse(h) \/ WriteFails(h)
              \/ CleanupFails(h)
    <3>1. UNCHANGED <<row, vault>>
      BY <2>1 DEF Resolve, ReadOld, Refuse, WriteFails, CleanupFails
    <3> QED BY <2>0, <3>1 DEF NodeResolves
  <2>2. CASE SaveNodeCredential(h)
    <3>1. req[h].key # 0
      BY <2>2 DEF SaveNodeCredential, TypeOK
    <3> QED BY <2>0, <2>2, <3>1
      DEF SaveNodeCredential, NodeResolves, TypeOK, Owners
  <2>3. CASE WriteRow(h) \/ ReadBackFails(h)
    <3>1. o \in Owners
      BY <2>3, OwnerOfBusy DEF WriteRow, ReadBackFails, Busy
    <3>2. o \in Nodes => vault[o] # 0 \/ o \in lost
      BY <2>3, <3>1
      DEF WriteRow, ReadBackFails, CanWrite, Pending, Prepared, Busy,
          NodeResolves, TypeOK
    <3>3. UNCHANGED vault /\ row' = [row EXCEPT ![o] = Written(h)]
      BY <2>3 DEF WriteRow, ReadBackFails
    <3> QED BY <2>0, <3>1, <3>2, <3>3
      DEF Written, NodeResolves, TypeOK, Owners
  <2>4. CASE Rollback(h)
    <3>1. o \in Owners
      BY <2>4, OwnerOfBusy DEF Rollback, Busy
    <3>2. o \in Nodes => row[o] # "vault" \/ req[h].old # 0 \/ o \in lost
      BY <2>4, <3>1 DEF Rollback, Pending, Prepared, Busy, TypeOK
    <3>3. req[h].old = Unread => o \in lost'
      BY <2>4 DEF Rollback
    <3> QED
      BY <2>0, <2>4, <3>1, <3>2, <3>3
      DEF Rollback, Restored, NodeResolves, TypeOK, Owners
  <2>5. CASE DeleteNodeCredential(h)
    <3>1. o \in Owners
      BY <2>5, OwnerOfBusy DEF DeleteNodeCredential, Busy
    <3>2. o \in Nodes => row[o] = "gone"
      BY <2>5, <3>1 DEF DeleteNodeCredential, Pending, Prepared, Busy, TypeOK
    <3> QED
      BY <2>0, <2>5, <3>1, <3>2
      DEF DeleteNodeCredential, NodeResolves, TypeOK, Owners
  <2> QED BY <1>2, <2>1, <2>2, <2>3, <2>4, <2>5 DEF Proceeds
<1>3. ASSUME NEW h \in Handlers, NEW n \in Nodes, DeleteNode(h, n)
      PROVE NodeResolves'
  BY <1>3 DEF DeleteNode, Begin, NodeResolves, TypeOK, Owners
<1>4. ASSUME NEW e \in Endpoints, UseKeyFile(e) \/ RemoveService(e)
      PROVE NodeResolves'
  BY <1>4, CredentialsAssumption
  DEF UseKeyFile, RemoveService, NodeResolves, TypeOK, Owners, history
<1>5. CASE Restart \/ UNCHANGED vars
  BY <1>5 DEF Restart, vars, NodeResolves
<1> QED BY <1>1, <1>2, <1>3, <1>4, <1>5 DEF Next

LEMMA PendingStep == IInv /\ TypeOK' /\ [Next]_vars => Pending'
<1> SUFFICES ASSUME IInv, TypeOK', [Next]_vars PROVE Pending'
  OBVIOUS
<1>1. ASSUME NEW h \in Handlers, Starts(h) PROVE Pending'
  <2> PICK key \in {0, made + 1} :
         \/ \E o \in Owners : Create(h, o, key)
         \/ \E n \in Nodes : UpdateNode(h, n, key)
         \/ \E e \in Endpoints :
               CreateGiven(h, e, key) \/ UpdateDevice(h, e, key)
                 \/ AddService(h, e, key)
    BY <1>1 DEF Starts
  <2>1. ASSUME NEW o \in Owners, Create(h, o, key) PROVE Pending'
    <3>1. \A g \in Handlers \ {h} :
             Busy(g)' /\ req'[g].owner \in Nodes => Prepared(g)'
      BY <2>1, OthersThanNew DEF Create, Fresh
    <3>2. req'[h].owner \in Nodes => Prepared(h)'
      BY <2>1 DEF Create, Fresh, Begin, Prepared, On, Busy, IInv, TypeOK
    <3> QED BY <3>1, <3>2 DEF Pending
  <2>2. ASSUME NEW n \in Nodes, UpdateNode(h, n, key) PROVE Pending'
    <3>1. \A g \in Handlers \ {h} :
             Busy(g)' /\ req'[g].owner \in Nodes => Prepared(g)'
      BY <2>2, OthersThanNew DEF UpdateNode, Owners
    <3>2. Prepared(h)'
      BY <2>2 DEF UpdateNode, Begin, Prepared, IInv, TypeOK
    <3> QED BY <3>1, <3>2 DEF Pending
  <2>3. ASSUME NEW e \in Endpoints,
               CreateGiven(h, e, key) \/ UpdateDevice(h, e, key)
                 \/ AddService(h, e, key)
        PROVE Pending'
    <3>1. e \in Owners /\ e \notin Nodes
      BY CredentialsAssumption DEF Owners
    <3>2. PICK kind, op : Begin(h, e, kind, op, key)
      BY <2>3 DEF CreateGiven, UpdateDevice, AddService
    <3>3. req'[h].owner = e /\ UNCHANGED <<row, vault, lost>>
          /\ \A g \in Handlers \ {h} : req'[g] = req[g]
      BY <2>3, <3>2
      DEF CreateGiven, UpdateDevice, AddService, Begin, IInv, TypeOK
    <3>4. \A g \in Handlers \ {h} :
             Busy(g)' /\ req'[g].owner \in Nodes => Prepared(g)'
      <4> SUFFICES ASSUME NEW g \in Handlers \ {h}, Busy(g)', req'[g].owner \in Nodes
                   PROVE  Prepared(g)'
        OBVIOUS
      <4>1. Busy(g) /\ req'[g] = req[g] /\ Prepared(g)
        BY <3>3 DEF IInv, Pending, Busy
      <4> QED BY <3>1, <3>3, <4>1 DEF Prepared, Busy
    <3> QED BY <3>1, <3>3, <3>4 DEF Pending
  <2> QED BY <2>1, <2>2, <2>3
<1>2. ASSUME NEW h \in Handlers, Proceeds(h) PROVE Pending'
  <2> DEFINE o == req[h].owner
  <2>1. Busy(h) /\ o \in Owners
    <3>1. Busy(h)
      BY <1>2 DEF Proceeds, Resolve, ReadOld, SaveNodeCredential, Refuse,
         WriteRow, WriteFails, ReadBackFails, Rollback,
         DeleteNodeCredential, CleanupFails,
         Busy
    <3> QED BY <3>1, OwnerOfBusy DEF IInv
  <2>2. o \in Nodes => Prepared(h)
    BY <2>1 DEF IInv, Pending
  <2>3. \A g \in Handlers \ {h} : req'[g] = req[g]
    BY <1>2 DEF Proceeds, Resolve, ReadOld, SaveNodeCredential, Refuse,
       WriteRow, WriteFails, ReadBackFails, Rollback,
         DeleteNodeCredential, CleanupFails,
       Finish, RollsBack, IInv, TypeOK
  <2>4. req'[h].owner = o \/ ~Busy(h)'
    <3>1. CASE Resolve(h)
      <4> DEFINE k == IF req[h].key = 0 THEN vault[o] ELSE req[h].key
                 r == IF ValidCredential(k)
                      THEN [req[h] EXCEPT !.op = "old", !.key = k] ELSE Idle
      <4>1. req' = [req EXCEPT ![h] = r]
        BY <3>1 DEF Resolve
      <4>2. r.owner = o \/ r.op = "idle"
        BY IdleIsRequest DEF IInv, TypeOK, Request
      <4> HIDE DEF r
      <4> QED BY <4>1, <4>2 DEF Busy, IInv, TypeOK
    <3>2. CASE Finish(h)
      BY <3>2, IdleIsRequest DEF Finish, Busy, IInv, TypeOK
    <3>3. CASE ReadOld(h) \/ SaveNodeCredential(h) \/ WriteFails(h)
               \/ ReadBackFails(h)
      BY <3>3 DEF ReadOld, SaveNodeCredential, WriteFails, ReadBackFails,
         RollsBack, IInv, TypeOK, Request
    <3> QED BY <1>2, <3>1, <3>2, <3>3
      DEF Proceeds, Refuse, WriteRow, Rollback, DeleteNodeCredential,
          CleanupFails
  <2>5. \A p \in Owners \ {o} : row'[p] = row[p] /\ vault'[p] = vault[p]
    BY <1>2
    DEF Proceeds, Resolve, ReadOld, SaveNodeCredential, Refuse,
       WriteRow, WriteFails, ReadBackFails, Rollback,
         DeleteNodeCredential, CleanupFails,
       IInv, TypeOK
  <2>6. o \in Nodes =>
           \/ row'[o] = row[o]
           \/ row[o] = "none" /\ req[h].kind = "create"
    <3>1. CASE WriteRow(h) \/ ReadBackFails(h)
      BY <2>1, <2>2, <3>1
      DEF WriteRow, ReadBackFails, CanWrite, Written, Prepared, IInv, TypeOK
    <3>2. CASE row' = row
      BY <3>2
    <3> QED BY <1>2, <3>1, <3>2
      DEF Proceeds, Resolve, ReadOld, SaveNodeCredential, Refuse,
          WriteFails, Rollback, DeleteNodeCredential, CleanupFails
  <2>9. lost \subseteq lost'
    BY <1>2 DEF Proceeds, Resolve, ReadOld, SaveNodeCredential, Refuse,
       WriteRow, WriteFails, ReadBackFails, Rollback, DeleteNodeCredential,
       CleanupFails, history
  <2>7. \A g \in Handlers \ {h} :
           Busy(g)' /\ req'[g].owner \in Nodes => Prepared(g)'
    BY <2>1, <2>3, <2>4, <2>5, <2>6, <2>9, Others
  <2>8. ASSUME Busy(h)', req'[h].owner \in Nodes PROVE Prepared(h)'
    <3>1. o \in Nodes /\ Prepared(h) /\ req'[h].owner = o
      BY <2>2, <2>4, <2>8
    <3>2. \A g \in Handlers : Busy(g)' /\ req'[g].owner = o
                               => Busy(g) /\ req[g].owner = o
      BY <2>1, <2>3 DEF Busy
    <3>3. CASE Resolve(h)
      BY <3>1, <3>2, <3>3, <2>8, IdleIsRequest
      DEF Resolve, Prepared, Busy, IInv, TypeOK, Request
    <3>4. CASE ReadOld(h)
      BY <3>1, <3>2, <3>4, <2>1
      DEF ReadOld, Prepared, Busy, IInv, TypeOK, Request, NodeResolves, Unread,
          history
    <3>5. CASE SaveNodeCredential(h)
      BY <3>1, <3>2, <3>5, <2>1
      DEF SaveNodeCredential, Prepared, Busy, IInv, TypeOK, Request, history
    <3>6. CASE WriteFails(h) \/ ReadBackFails(h)
      <4>1. req'[h] = [req[h] EXCEPT !.op = "rollback"] /\ req[h].op = "write"
            /\ UNCHANGED lost
        BY <3>6 DEF WriteFails, ReadBackFails, RollsBack, history, IInv, TypeOK
      <4>2. row'[o] = row[o]
        BY <3>1, <3>6, <2>1
        DEF WriteFails, ReadBackFails, CanWrite, Written, Prepared, IInv, TypeOK
      <4> QED BY <3>1, <3>2, <4>1, <4>2, <2>1
        DEF Prepared, Busy, IInv, TypeOK, Request
    <3>7. CASE Finish(h)
      BY <2>8, <3>7, IdleIsRequest DEF Finish, Busy, IInv, TypeOK
    <3> QED BY <1>2, <3>3, <3>4, <3>5, <3>6, <3>7
      DEF Proceeds, Refuse, WriteRow, Rollback, DeleteNodeCredential,
          CleanupFails
  <2> QED BY <2>7, <2>8 DEF Pending
<1>3. ASSUME NEW h \in Handlers, NEW n \in Nodes, DeleteNode(h, n)
      PROVE Pending'
  <2>1. \A g \in Handlers \ {h} :
           Busy(g)' /\ req'[g].owner \in Nodes => Prepared(g)'
    BY <1>3, OthersThanNew DEF DeleteNode, Owners
  <2>2. Prepared(h)'
    BY <1>3 DEF DeleteNode, Begin, Prepared, IInv, TypeOK, Owners
  <2> QED BY <2>1, <2>2 DEF Pending
<1>4. ASSUME NEW e \in Endpoints, UseKeyFile(e) \/ RemoveService(e)
      PROVE Pending'
  BY <1>4, CredentialsAssumption
  DEF UseKeyFile, RemoveService, Pending, Prepared, Busy, IInv, TypeOK, Owners,
      history
<1>5. CASE Restart
  BY <1>5, IdleIsRequest DEF Restart, Pending, Busy
<1>6. CASE UNCHANGED vars
  BY <1>6 DEF vars, IInv, Pending, Prepared, Busy
<1> QED BY <1>1, <1>2, <1>3, <1>4, <1>5, <1>6 DEF Next

\* A node can always be reached: while it exists it has a credential, however
\* many requests create, update and delete nodes together, wherever they fail,
\* roll back or are cut off by a restart, unless one of them could not read the
\* old credential and then failed.
THEOREM NodesResolve == Spec => []NodeResolves
<1>1. Init => IInv
  BY IdleIsRequest, CredentialsAssumption
  DEF Init, IInv, TypeOK, NodeResolves, Pending, Busy, Owners
<1>2. IInv /\ [Next]_vars => IInv'
  BY TypeStep, ResolvesStep, PendingStep DEF IInv
<1>3. IInv => NodeResolves
  BY DEF IInv
<1> QED BY <1>1, <1>2, <1>3, PTL DEF Spec

-----------------------------------------------------------------------------
(* The credential in force is the one that was confirmed last.  A request    *)
(* saves before it knows whether its row will be written: what it found      *)
(* there is what was confirmed, as long as it is alone with its owner.  The  *)
(* same invariant says that services find the credential they refer to.      *)

Excused(o) == o \in crossed \cup interrupted \cup lost

\* Requests for one owner come one after the other, or are known to cross.
Alone ==
    \A g, h \in Handlers :
        Busy(g) /\ Busy(h) /\ req[g].owner = req[h].owner
          => g = h \/ req[g].owner \in crossed

\* Up to the save the vault holds what was confirmed, and from the reading of
\* the old credential on the request knows it, or could not read it.
Knows(h) ==
    LET o == req[h].owner IN
    \/ Excused(o)
    \/ /\ req[h].op \in {"resolve", "old", "save"} => vault[o] = confirmed[o]
       /\ req[h].op \in {"save", "write", "rollback"}
             => req[h].old \in {confirmed[o], Unread}
       /\ req[h].op = "write" => vault[o] = req[h].key

\* The services that may be without the credential they refer to.
Bare(e) == e \in lost \cup crossed \cup halfway

\* What a request for a service relies on: what it saved is there, and what its
\* rollback would write is a credential if the service refers to one.
Serves(h) ==
    LET e == req[h].owner IN
    e \in Endpoints =>
       \/ Bare(e)
       \/ /\ req[h].op # "forget"
          /\ req[h].op = "write" => vault[e] # 0
          /\ req[h].op \in {"save", "write", "rollback"}
                => row[e] # "vault" \/ req[h].old # 0

LastInv ==
    /\ TypeOK /\ Alone /\ LastAnswerCounts /\ ServiceResolves
    /\ \A h \in Handlers : Busy(h) => Knows(h) /\ Serves(h)

\* A step of a request: it concerns its owner, and leaves behind what the next
\* one relies on.
Proceeding(h, o) ==
    /\ Busy(h) /\ req[h].owner = o
    /\ \A g \in Handlers \ {h} : req'[g] = req[g]
    /\ \A p \in Owners \ {o} : vault'[p] = vault[p] /\ confirmed'[p] = confirmed[p]
                               /\ row'[p] = row[p]
    /\ crossed' = crossed /\ interrupted \subseteq interrupted'
    /\ lost \subseteq lost' /\ halfway \subseteq halfway'
    /\ o \in Endpoints => (row'[o] = "vault" => vault'[o] # 0 \/ Bare(o)')
    /\ \/ req'[h] = Idle /\ (Excused(o)' \/ vault'[o] = confirmed'[o])
       \/ Busy(h)' /\ req'[h].owner = o /\ Knows(h)' /\ Serves(h)'

LEMMA ProceedingKeeps ==
    ASSUME LastInv, TypeOK', NEW h \in Handlers, NEW o \in Owners, Proceeding(h, o)
    PROVE  LastInv'
<1> USE DEF LastInv
<1>1. \A g \in Handlers : Busy(g)' =>
         /\ Busy(g) /\ req'[g].owner = req[g].owner
         /\ g # h => req'[g] = req[g]
  BY IdleIsRequest DEF Proceeding, Busy
<1>2. crossed' = crossed /\ interrupted \subseteq interrupted'
      /\ lost \subseteq lost' /\ halfway \subseteq halfway'
  BY DEF Proceeding
<1>3. Alone'
  BY <1>1, <1>2 DEF Alone
<1>4. ASSUME NEW g \in Handlers, Busy(g)', req'[g].owner = o, g # h
      PROVE  o \in crossed'
  BY <1>1, <1>2, <1>4 DEF Alone, Proceeding
<1>5. ServiceResolves'
  <2> SUFFICES ASSUME NEW e \in Endpoints, row'[e] = "vault"
               PROVE  vault'[e] # 0 \/ Bare(e)'
    BY DEF ServiceResolves, Bare
  <2>1. CASE e = o
    BY <2>1 DEF Proceeding
  <2>2. CASE e # o
    <3>1. row[e] = "vault" /\ vault'[e] = vault[e]
      BY <2>2 DEF Proceeding, Owners
    <3> QED BY <1>2, <3>1 DEF ServiceResolves, Bare
  <2> QED BY <2>1, <2>2
<1>6. ASSUME NEW g \in Handlers, Busy(g)' PROVE Knows(g)' /\ Serves(g)'
  <2>1. CASE g = h
    BY <1>6, <2>1, IdleIsRequest DEF Proceeding, Busy
  <2>2. CASE g # h /\ req[g].owner = o
    BY <1>1, <1>4, <1>6, <2>2 DEF Knows, Serves, Bare, Excused
  <2>3. CASE g # h /\ req[g].owner # o
    <3>1. req'[g] = req[g] /\ Knows(g) /\ Serves(g) /\ req[g].owner \in Owners
      BY <1>1, <1>6, <2>3, OwnerOfBusy
    <3>2. /\ vault'[req[g].owner] = vault[req[g].owner]
          /\ confirmed'[req[g].owner] = confirmed[req[g].owner]
          /\ row'[req[g].owner] = row[req[g].owner]
      BY <2>3, <3>1 DEF Proceeding
    <3>3. Knows(g)'
      BY <1>2, <3>1, <3>2 DEF Knows, Excused
    <3>4. Serves(g)'
      BY <1>2, <3>1, <3>2 DEF Serves, Bare
    <3> QED BY <3>3, <3>4
  <2> QED BY <2>1, <2>2, <2>3
<1>7. ASSUME NEW p \in Owners, On(p)' = {}
      PROVE  vault'[p] = confirmed'[p] \/ Excused(p)'
  <2>1. CASE p = o
    <3>1. ~Busy(h)' \/ req'[h].owner # o
      BY <1>7, <2>1 DEF On
    <3> QED BY <2>1, <3>1 DEF Proceeding
  <2>2. CASE p # o
    <3>1. On(p) = {}
      <4>1. ASSUME NEW g \in Handlers, Busy(g), req[g].owner = p PROVE FALSE
        <5>1. req'[g] = req[g]
          BY <2>2, <4>1 DEF Proceeding
        <5> QED BY <1>7, <4>1, <5>1 DEF On, Busy
      <4> QED BY <4>1 DEF On
    <3>2. vault[p] = confirmed[p] \/ Excused(p)
      BY <3>1 DEF LastAnswerCounts, Excused
    <3> QED BY <1>2, <2>2, <3>2 DEF Proceeding, Excused
  <2> QED BY <2>1, <2>2
<1>8. LastAnswerCounts'
  BY <1>7 DEF LastAnswerCounts, Excused
<1> QED BY <1>3, <1>5, <1>6, <1>8

\* A request that begins is alone with its owner, or crosses another.
LEMMA BeginningKeeps ==
    ASSUME LastInv, TypeOK', NEW h \in Handlers, NEW o \in Owners,
           NEW kind, NEW op \in {"resolve", "old", "forget"}, NEW key,
           Begin(h, o, kind, op, key), vault' = vault,
           \A e \in Endpoints : row'[e] = row[e],
           Locked(kind, o) => Free, op = "forget" => o \in Nodes
    PROVE  LastInv'
<1> USE DEF LastInv
<1>1. /\ ~Busy(h) /\ req'[h].op = op /\ req'[h].owner = o
      /\ \A g \in Handlers \ {h} : req'[g] = req[g]
      /\ UNCHANGED <<confirmed, interrupted, lost, halfway>>
      /\ crossed \subseteq crossed'
  BY DEF Begin, TypeOK
<1>2. Busy(h)' /\ \A g \in Handlers \ {h} : Busy(g)' <=> Busy(g)
  BY <1>1 DEF Busy
<1>3. On(o) # {} => o \in crossed'
  <2> SUFFICES ASSUME NEW g \in On(o) PROVE o \in crossed'
    OBVIOUS
  <2>1. Locked(kind, o) => ~Locked(req[g].kind, o)
    BY DEF Free, On
  <2> QED BY <2>1 DEF Begin
<1>4. \A g \in Handlers : Busy(g) /\ req[g].owner = o => o \in crossed'
  BY <1>3 DEF On
<1>5. Alone'
  BY <1>1, <1>2, <1>4 DEF Alone
<1>6. ServiceResolves'
  BY <1>1 DEF ServiceResolves
<1>8. ASSUME NEW g \in Handlers, Busy(g)' PROVE Knows(g)' /\ Serves(g)'
  <2>1. CASE g = h
    <3>1. CASE On(o) = {}
      <4>1. vault[o] = confirmed[o] \/ Excused(o)
        BY <3>1 DEF LastAnswerCounts, Excused
      <4>2. Knows(h)'
        BY <1>1, <4>1 DEF Knows, Excused
      <4>3. Serves(h)'
        BY <1>1, CredentialsAssumption DEF Serves
      <4> QED BY <2>1, <4>2, <4>3
    <3>2. CASE On(o) # {}
      BY <1>1, <1>3, <2>1, <3>2 DEF Knows, Excused, Serves, Bare
    <3> QED BY <3>1, <3>2
  <2>2. CASE g # h
    <3>1. req'[g] = req[g] /\ Knows(g) /\ Serves(g)
      BY <1>1, <1>2, <1>8, <2>2
    <3>2. Knows(g)'
      BY <1>1, <3>1 DEF Knows, Excused
    <3>3. Serves(g)'
      BY <1>1, <3>1 DEF Serves, Bare
    <3> QED BY <3>2, <3>3
  <2> QED BY <2>1, <2>2
<1>9. LastAnswerCounts'
  <2> SUFFICES ASSUME NEW p \in Owners, On(p)' = {}
               PROVE  vault'[p] = confirmed'[p] \/ Excused(p)'
    BY DEF LastAnswerCounts, Excused
  <2>1. On(p) = {}
    <3>1. ASSUME NEW g \in Handlers, Busy(g), req[g].owner = p PROVE FALSE
      <4>1. g # h /\ req'[g] = req[g] /\ Busy(g)'
        BY <1>1, <1>2, <3>1
      <4> QED BY <3>1, <4>1 DEF On
    <3> QED BY <3>1 DEF On
  <2>2. vault[p] = confirmed[p] \/ Excused(p)
    BY <2>1 DEF LastAnswerCounts, Excused
  <2> QED BY <1>1, <2>2 DEF Excused
<1> QED BY <1>5, <1>6, <1>8, <1>9

LEMMA BusyProceeds ==
    ASSUME TypeOK, NEW h \in Handlers, Proceeds(h)
    PROVE  Busy(h) /\ req[h].owner \in Owners
<1>1. Busy(h)
  BY DEF Proceeds, Resolve, ReadOld, SaveNodeCredential, Refuse, WriteRow,
     WriteFails, ReadBackFails, Rollback, DeleteNodeCredential, CleanupFails,
     Busy
<1> QED BY <1>1, OwnerOfBusy

LEMMA ProceedsIsProceeding ==
    ASSUME LastInv, NEW h \in Handlers, NEW o \in Owners, req[h].owner = o,
           Proceeds(h)
    PROVE  Proceeding(h, o)
<1> USE DEF LastInv
<1>1. Busy(h)
  BY BusyProceeds
<1>2. \A g \in Handlers \ {h} : req'[g] = req[g]
  BY DEF Proceeds, Resolve, ReadOld, SaveNodeCredential, Refuse,
     WriteRow, WriteFails, ReadBackFails, Rollback, DeleteNodeCredential,
     CleanupFails, Finish, RollsBack, TypeOK
<1>3. \A p \in Owners \ {o} : vault'[p] = vault[p] /\ confirmed'[p] = confirmed[p]
                              /\ row'[p] = row[p]
  BY DEF Proceeds, Resolve, ReadOld, SaveNodeCredential, Refuse,
     WriteRow, WriteFails, ReadBackFails, Rollback, DeleteNodeCredential,
     CleanupFails, TypeOK, history
<1>4. crossed' = crossed /\ interrupted \subseteq interrupted'
      /\ lost \subseteq lost' /\ halfway \subseteq halfway'
  BY DEF Proceeds, Resolve, ReadOld, SaveNodeCredential, Refuse,
     WriteRow, WriteFails, ReadBackFails, Rollback, DeleteNodeCredential,
     CleanupFails, history
<1>5. Knows(h) /\ Serves(h) /\ req[h] \in Request /\ vault[o] \in Nat
  BY <1>1 DEF TypeOK
<1>6. Finish(h) => req'[h] = Idle
  BY DEF Finish, TypeOK
<1>7. o \in Endpoints /\ row[o] = "vault" => vault[o] # 0 \/ Bare(o)
  BY DEF ServiceResolves, Bare
<1>8. Bare(o) => Bare(o)'
  BY <1>4 DEF Bare
<1> DEFINE Refers == o \in Endpoints => (row'[o] = "vault" => vault'[o] # 0 \/ Bare(o)')
           Over == req'[h] = Idle /\ (Excused(o)' \/ vault'[o] = confirmed'[o])
           GoesOn == Busy(h)' /\ req'[h].owner = o /\ Knows(h)' /\ Serves(h)'
<1>9. Refers /\ (Over \/ GoesOn)
  <2>1. CASE Resolve(h)
    <3> DEFINE k == IF req[h].key = 0 THEN vault[req[h].owner] ELSE req[h].key
               r == [req[h] EXCEPT !.op = "old", !.key = k]
    <3>1. vault[o] = confirmed[o] \/ Excused(o)
      BY <1>5, <2>1 DEF Resolve, Knows
    <3>2. UNCHANGED <<row, vault, confirmed, interrupted, crossed, lost, halfway>>
      BY <2>1 DEF Resolve, history
    <3>3. Excused(o)' = Excused(o)
      BY <3>2 DEF Excused
    <3>4. req'[h] = IF ValidCredential(k) THEN r ELSE Idle
      BY <2>1 DEF Resolve, TypeOK
    <3>5. r.op = "old" /\ r.owner = o
      BY <1>5 DEF Request
    <3> HIDE DEF k, r
    <3>6. CASE ValidCredential(k)
      <4>1. Knows(h)' /\ Busy(h)'
        BY <3>1, <3>2, <3>3, <3>4, <3>5, <3>6 DEF Knows, Busy
      <4>2. Serves(h)'
        BY <3>4, <3>5, <3>6 DEF Serves
      <4> QED BY <1>7, <1>8, <3>2, <3>4, <3>5, <3>6, <4>1, <4>2
    <3>7. CASE ~ValidCredential(k)
      BY <1>7, <1>8, <3>1, <3>2, <3>3, <3>4, <3>7
    <3> QED BY <3>6, <3>7
  <2>2. CASE ReadOld(h)
    <3> PICK old \in {vault[o], Unread} :
           req' = [req EXCEPT ![h].op = "save", ![h].old = old]
      BY <2>2 DEF ReadOld
    <3>1. vault[o] = confirmed[o] \/ Excused(o)
      BY <1>5, <2>2 DEF ReadOld, Knows
    <3>2. UNCHANGED <<row, vault, confirmed, interrupted, crossed, lost, halfway>>
      BY <2>2 DEF ReadOld, history
    <3>3. req'[h].op = "save" /\ req'[h].owner = o /\ req'[h].old = old
      BY <1>5 DEF TypeOK, Request
    <3>4. Knows(h)' /\ Busy(h)'
      BY <3>1, <3>2, <3>3 DEF Knows, Busy, Excused
    <3>5. Serves(h)'
      BY <1>7, <1>8, <3>2, <3>3 DEF Serves, Unread
    <3> QED BY <1>7, <1>8, <3>2, <3>3, <3>4, <3>5
  <2>3. CASE SaveNodeCredential(h)
    <3>1. req[h].old \in {confirmed[o], Unread} \/ Excused(o)
      BY <1>5, <2>3 DEF SaveNodeCredential, Knows
    <3>2. UNCHANGED <<row, confirmed, interrupted, crossed, lost, halfway>>
      BY <2>3 DEF SaveNodeCredential, history
    <3>3. /\ req'[h].op = "write" /\ req'[h].owner = o
          /\ req'[h].old = req[h].old /\ req'[h].key = req[h].key
      BY <1>5, <2>3 DEF SaveNodeCredential, TypeOK, Request
    <3>4. vault'[o] = req[h].key /\ req[h].key # 0
      BY <2>3 DEF SaveNodeCredential, TypeOK
    <3>5. Knows(h)' /\ Busy(h)'
      BY <3>1, <3>2, <3>3, <3>4 DEF Knows, Busy, Excused
    <3>6. Serves(h)'
      BY <1>5, <1>8, <2>3, <3>2, <3>3, <3>4 DEF Serves, SaveNodeCredential
    <3> QED BY <3>3, <3>4, <3>5, <3>6
  <2>4. CASE Refuse(h)
    <3>1. vault[o] = confirmed[o] \/ Excused(o)
      BY <1>5, <2>4 DEF Refuse, Knows
    <3> QED BY <1>6, <1>7, <1>8, <2>4, <3>1 DEF Refuse, history, Excused
  <2>5. CASE WriteRow(h)
    <3>1. vault[o] = req[h].key \/ Excused(o)
      BY <1>5, <2>5 DEF WriteRow, Knows
    <3>2. confirmed'[o] = req[h].key /\ vault' = vault
      BY <2>5 DEF WriteRow, TypeOK
    <3>3. o \in Endpoints => vault[o] # 0 \/ Bare(o)
      BY <1>5, <2>5 DEF WriteRow, Serves
    <3> QED BY <1>6, <1>8, <2>5, <3>1, <3>2, <3>3 DEF WriteRow, Excused
  <2>6. CASE WriteFails(h) \/ ReadBackFails(h)
    <3>1. req[h].old \in {confirmed[o], Unread} \/ Excused(o)
      BY <1>5, <2>6 DEF WriteFails, ReadBackFails, Knows
    <3>2. UNCHANGED <<vault, confirmed, interrupted, crossed, lost>>
      BY <2>6 DEF WriteFails, ReadBackFails, history
    <3>3. /\ req'[h].op = "rollback" /\ req'[h].owner = o
          /\ req'[h].old = req[h].old
      BY <1>5, <2>6 DEF WriteFails, ReadBackFails, RollsBack, TypeOK, Request
    <3>4. Knows(h)' /\ Busy(h)'
      BY <3>1, <3>2, <3>3 DEF Knows, Busy, Excused
    <3>5. row' = row \/ o \in halfway'
      BY <2>6 DEF WriteFails, ReadBackFails
    <3>6. o \in Endpoints => vault[o] # 0 \/ Bare(o)
      BY <1>5, <2>6 DEF WriteFails, ReadBackFails, Serves
    <3>7. Serves(h)'
      <4>1. o \in Endpoints => req[h].old # 0 \/ row[o] # "vault" \/ Bare(o)
        BY <1>5, <2>6 DEF WriteFails, ReadBackFails, Serves
      <4> QED BY <1>8, <3>3, <3>5, <4>1 DEF Serves, Bare
    <3> QED BY <1>8, <3>2, <3>3, <3>4, <3>6, <3>7
  <2>7. CASE Rollback(h)
    <3>1. req[h].old \in {confirmed[o], Unread} \/ Excused(o)
      BY <1>5, <2>7 DEF Rollback, Knows
    <3>2. vault'[o] = Restored(h) /\ UNCHANGED <<row, confirmed>>
      BY <2>7 DEF Rollback, TypeOK
    <3>3. req[h].old = Unread => o \in lost'
      BY <2>7 DEF Rollback
    <3>4. Excused(o)' \/ vault'[o] = confirmed'[o]
      BY <1>4, <3>1, <3>2, <3>3 DEF Restored, Excused
    <3>5. o \in Endpoints => row[o] # "vault" \/ req[h].old # 0 \/ Bare(o)
      BY <1>5, <2>7 DEF Rollback, Serves
    <3> QED BY <1>6, <1>8, <2>7, <3>2, <3>3, <3>4, <3>5
         DEF Rollback, Restored, Bare
  <2>8. CASE DeleteNodeCredential(h)
    <3>1. vault'[o] = 0 /\ confirmed'[o] = 0
      BY <2>8 DEF DeleteNodeCredential, TypeOK
    <3>2. o \in Endpoints => Bare(o)
      BY <1>5, <2>8 DEF DeleteNodeCredential, Serves
    <3> QED BY <1>6, <1>8, <2>8, <3>1, <3>2 DEF DeleteNodeCredential
  <2>9. CASE CleanupFails(h)
    BY <1>6, <1>7, <1>8, <2>9 DEF CleanupFails, Excused
  <2> QED
    BY <2>1, <2>2, <2>3, <2>4, <2>5, <2>6, <2>7, <2>8, <2>9 DEF Proceeds
<1> QED BY <1>1, <1>2, <1>3, <1>4, <1>9 DEF Proceeding

LEMMA LastStep == LastInv /\ TypeOK' /\ [Next]_vars => LastInv'
<1> SUFFICES ASSUME LastInv, TypeOK', [Next]_vars PROVE LastInv'
  OBVIOUS
<1> USE DEF LastInv
<1>1. ASSUME NEW h \in Handlers, Starts(h) PROVE LastInv'
  <2> PICK key \in {0, made + 1} :
         \/ \E o \in Owners : Create(h, o, key)
         \/ \E n \in Nodes : UpdateNode(h, n, key)
         \/ \E e \in Endpoints :
               CreateGiven(h, e, key) \/ UpdateDevice(h, e, key)
                 \/ AddService(h, e, key)
    BY <1>1 DEF Starts
  <2>1. ASSUME NEW o \in Owners, Create(h, o, key) PROVE LastInv'
    BY <2>1, BeginningKeeps DEF Create, Locked
  <2>2. ASSUME NEW n \in Nodes, UpdateNode(h, n, key) PROVE LastInv'
    <3>1. n \in Owners /\ ~Locked("update", n)
      BY CredentialsAssumption DEF Owners, Locked
    <3> QED BY <2>2, <3>1, BeginningKeeps DEF UpdateNode
  <2>3. ASSUME NEW e \in Endpoints,
               CreateGiven(h, e, key) \/ UpdateDevice(h, e, key)
                 \/ AddService(h, e, key)
        PROVE LastInv'
    <3>1. e \in Owners
      BY DEF Owners
    <3>2. PICK kind \in {"given", "update", "add"}, op \in {"resolve", "old"} :
             Begin(h, e, kind, op, key) /\ (kind \in {"update", "add"} => Free)
      BY <2>3 DEF CreateGiven, UpdateDevice, AddService
    <3>3. UNCHANGED <<row, vault>>
      BY <2>3 DEF CreateGiven, UpdateDevice, AddService
    <3> QED BY <3>1, <3>2, <3>3, BeginningKeeps DEF Locked
  <2> QED BY <2>1, <2>2, <2>3
<1>2. ASSUME NEW h \in Handlers, Proceeds(h) PROVE LastInv'
  <2>1. PICK o \in Owners : req[h].owner = o
    BY <1>2, BusyProceeds
  <2> QED BY <1>2, <2>1, ProceedsIsProceeding, ProceedingKeeps
<1>3. ASSUME NEW h \in Handlers, NEW n \in Nodes, DeleteNode(h, n)
      PROVE  LastInv'
  <2>1. n \in Owners /\ ~Locked("delete", n)
    BY DEF Owners, Locked
  <2>2. \A e \in Endpoints : row'[e] = row[e]
    BY <1>3, CredentialsAssumption DEF DeleteNode, TypeOK, Owners
  <2> QED BY <1>3, <2>1, <2>2, BeginningKeeps DEF DeleteNode
<1>4. ASSUME NEW e \in Endpoints, UseKeyFile(e) \/ RemoveService(e)
      PROVE  LastInv'
  <2>1. UNCHANGED <<vault, req, confirmed, crossed, interrupted, lost, halfway>>
    BY <1>4 DEF UseKeyFile, RemoveService, history
  <2>2. \A p \in Owners : row'[p] = row[p] \/ row'[p] # "vault"
    BY <1>4 DEF UseKeyFile, RemoveService, TypeOK
  <2>3. ServiceResolves'
    BY <2>1, <2>2 DEF ServiceResolves, Owners
  <2>4. ASSUME NEW h \in Handlers, Busy(h)' PROVE Knows(h)' /\ Serves(h)'
    <3>1. Busy(h) /\ Knows(h) /\ Serves(h)
      BY <2>1, <2>4 DEF Busy
    <3>2. Knows(h)'
      BY <2>1, <3>1 DEF Knows, Excused
    <3>3. Serves(h)'
      BY <2>1, <2>2, <3>1 DEF Serves, Bare, Owners
    <3> QED BY <3>2, <3>3
  <2>5. Alone' /\ LastAnswerCounts'
    BY <2>1 DEF Alone, LastAnswerCounts, On, Busy
  <2> QED BY <2>3, <2>4, <2>5
<1>5. CASE Restart
  <2>1. \A h \in Handlers : ~Busy(h)'
    BY <1>5, IdleIsRequest DEF Restart, Busy
  <2>2. /\ UNCHANGED <<row, vault, confirmed, crossed, lost, halfway>>
        /\ interrupted \subseteq interrupted'
    BY <1>5 DEF Restart
  <2>3. ASSUME NEW o \in Owners PROVE vault'[o] = confirmed'[o] \/ Excused(o)'
    <3>1. CASE On(o) = {}
      BY <2>2, <3>1 DEF LastAnswerCounts, Excused
    <3>2. ASSUME NEW h \in On(o) PROVE vault'[o] = confirmed'[o] \/ Excused(o)'
      <4>1. h \in Handlers /\ Busy(h) /\ req[h].owner = o /\ Knows(h)
        BY <3>2 DEF On
      <4>2. CASE req[h].op \in {"write", "rollback", "forget"}
        BY <1>5, <4>2 DEF Restart, Excused
      <4>3. CASE req[h].op \in {"resolve", "old", "save"}
        BY <2>2, <4>1, <4>3 DEF Knows, Excused
      <4> QED BY <4>1, <4>2, <4>3 DEF Busy, TypeOK, Request, Ops
    <3> QED BY <3>1, <3>2
  <2>4. Alone' /\ LastAnswerCounts' /\ ServiceResolves'
    BY <2>1, <2>2, <2>3 DEF Alone, LastAnswerCounts, Excused, ServiceResolves
  <2> QED BY <2>1, <2>4
<1>6. CASE UNCHANGED vars
  <2>1. UNCHANGED <<row, vault, req, confirmed, crossed, interrupted, lost, halfway>>
    BY <1>6 DEF vars
  <2>2. \A h \in Handlers : Busy(h)' => Knows(h)' /\ Serves(h)'
    BY <2>1 DEF Busy, Knows, Serves, Excused, Bare
  <2> QED BY <2>1, <2>2
    DEF Alone, LastAnswerCounts, ServiceResolves, On, Busy
<1> QED BY <1>1, <1>2, <1>3, <1>4, <1>5, <1>6 DEF Next

LEMMA LastInvariant == Spec => []LastInv
<1>1. Init => LastInv
  <2> SUFFICES ASSUME Init PROVE LastInv
    OBVIOUS
  <2>1. TypeOK
    BY IdleIsRequest, CredentialsAssumption DEF Init, TypeOK, Busy, Owners
  <2>2. \A h \in Handlers : ~Busy(h)
    BY IdleIsRequest DEF Init, Busy
  <2>3. ServiceResolves
    BY DEF Init, ServiceResolves, Owners
  <2> QED BY <2>1, <2>2, <2>3 DEF Init, LastInv, Alone, LastAnswerCounts
<1>2. LastInv /\ [Next]_vars => LastInv'
  BY TypeStep, LastStep DEF LastInv
<1> QED BY <1>1, <1>2, PTL DEF Spec

\* A service that refers to the vault finds its credential there, whatever is
\* updated, refused and rolled back meanwhile: resourceMu keeps the updates of a
\* service apart, and the three ways in which the code does lose a credential
\* are the only ones.
THEOREM ServicesResolve == Spec => []ServiceResolves
<1>1. LastInv => ServiceResolves
  BY DEF LastInv
<1> QED BY <1>1, LastInvariant, PTL

\* Whatever requests were refused, rolled back or deleted in between, the
\* credential in force is the one a user was last told is stored, unless requests
\* that no lock keeps apart dealt with its owner together, a restart or a failing
\* clean-up cut one off after its save, or one that could not read the old
\* credential was rolled back.
THEOREM LastAnswerInForce == Spec => []LastAnswerCounts
<1>1. LastInv => LastAnswerCounts
  BY DEF LastInv
<1> QED BY <1>1, LastInvariant, PTL

=============================================================================
