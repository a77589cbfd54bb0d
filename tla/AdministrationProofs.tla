------------------------- MODULE AdministrationProofs -------------------------
(***************************************************************************)
(* Proofs about module Administration, for every set of accounts, names,   *)
(* workers and nodes, and any number of restarts, tokens and interleaved   *)
(* requests.                                                               *)
(*                                                                         *)
(* OneAdminRemains says what a step does: what it writes depends on what   *)
(* its request has read before.  AdminInv says of a request under way that *)
(* would take an administrator away, on a token that named its row, that   *)
(* the row is another one's; FactorInv that a confirmation under way has   *)
(* proved the secret there is, unless that has been replaced meanwhile;    *)
(* AlarmInv that a message that is due says what is stored.                *)
(***************************************************************************)
EXTENDS Administration, TLAPS

\* The requests that take the role of an administrator from a row.
Removes(r) == r.do = "delete" \/ (r.do = "update" /\ r.role # "admin")

AdminInv ==
  \A w \in Workers : Removes(request[w]) /\ request[w].fresh =>
    /\ request[w].by \in Token /\ request[w].by.role = "admin"
    /\ request[w].by.id # request[w].on

FactorInv ==
  /\ \A w \in Workers : Does(w, "confirm") => users[request[w].on].role # "none"
  /\ \A u \in Accounts : users[u].role \notin Roles => ~mfa[u].enabled
  /\ EnabledFactorIsProved
  /\ \A w \in Workers : Does(w, "confirm") /\ Present(request[w].on) /\ request[w].on \notin crossed =>
       mfa[request[w].on].secret /\ mfa[request[w].on].proved

AlarmInv ==
  /\ ToldIsStored
  /\ \A n \in Nodes : loop.sends = n => (n \in down <=> n \notin loop.ok)

IInv == AdministrationTypeOK /\ AdminInv /\ FactorInv /\ AlarmInv

AccessMoves == AccessStep /\ UNCHANGED <<alertVars, restarts>>
Alerts == AlertStep \/ \E w \in Workers : SaveSettings(w)
AlertMoves == Alerts /\ UNCHANGED <<accessVars, restarts>>

-----------------------------------------------------------------------------
(* Types *)

\* What a request reads is typed, and so is what is kept of it.
LEMMA RequestTypes ==
  /\ Idle \in Requests
  /\ \A t \in Token \cup {Outsider}, u \in Accounts, r \in Roles, f \in BOOLEAN :
       [do |-> "update", by |-> t, on |-> u, role |-> r, fresh |-> f] \in Requests
  /\ \A t \in Token \cup {Outsider}, u \in Accounts, f \in BOOLEAN :
       [do |-> "delete", by |-> t, on |-> u, fresh |-> f] \in Requests
  /\ \A u \in Accounts : [do |-> "confirm", on |-> u] \in Requests
  BY DEF Requests

\* A request that does something else than another is of its own shape.
LEMMA RequestShapes ==
  ASSUME AccessTypeOK, NEW w \in Workers
  PROVE  /\ Does(w, "update") => /\ request[w].by \in Token \cup {Outsider}
                                 /\ request[w].on \in Accounts /\ request[w].role \in Roles
         /\ Does(w, "delete") => /\ request[w].by \in Token \cup {Outsider}
                                 /\ request[w].on \in Accounts
         /\ Does(w, "confirm") => request[w].on \in Accounts
  <1>1. request[w] \in Requests
    BY DEF AccessTypeOK
  <1> QED
    BY <1>1 DEF Requests, Does, Idle

\* The columns of the second factor when there is none.
LEMMA NoMfaTyped == NoMfa \in [secret : BOOLEAN, enabled : BOOLEAN, proved : BOOLEAN]
  BY DEF NoMfa

\* A new secret in the columns leaves the others.
LEMMA SecretAlone ==
  ASSUME NEW r \in [secret : BOOLEAN, enabled : BOOLEAN, proved : BOOLEAN]
  PROVE  [r EXCEPT !.secret = TRUE].enabled = r.enabled
  OBVIOUS

\* What statements do to the lock and the connections keeps their types.
LEMMA StatementTypes ==
  ASSUME DatabaseTypeOK, NEW t,
         \/ Reads(t) \/ Commit(t) \/ LockedOut(t) \/ ThreadEnds(t)
         \/ t \in Threads /\ Violate(t)
  PROVE  DatabaseTypeOK'
  BY DEF DatabaseTypeOK, Reads, Commit, Violate, LockedOut, ThreadEnds

\* Users' steps keep the types of the database.
LEMMA AccessDatabase ==
  ASSUME AdministrationTypeOK, AccessStep
  PROVE  DatabaseTypeOK'
  <1>0. DatabaseTypeOK /\ Workers \subseteq Threads
    BY DEF AdministrationTypeOK, Threads
  <1>1. CASE Expire
    BY <1>0, <1>1 DEF Expire, dbVars, DatabaseTypeOK
  <1>2. ASSUME NEW w \in Workers,
               \/ Look(w) \/ Refused(w) \/ WorkerEnds(w) \/ Login(w) \/ Setup(w) \/ Disable(w)
               \/ CreateUser(w) \/ WriteUpdate(w) \/ WriteDelete(w) \/ WriteConfirm(w)
               \/ ReadUpdate(w) \/ ReadDelete(w) \/ ReadConfirm(w)
        PROVE  DatabaseTypeOK'
    <2>1. Reads(w) \/ Commit(w) \/ Violate(w) \/ LockedOut(w) \/ ThreadEnds(w)
      BY <1>2 DEF Look, Refused, WorkerEnds, Login, Setup, Disable, CreateUser, WriteUpdate,
                  WriteDelete, WriteConfirm, ReadUpdate, ReadDelete, ReadConfirm, Starts
    <2> QED
      BY <1>0, <2>1, StatementTypes
  <1> QED
    BY <1>1, <1>2 DEF AccessStep

\* Users' steps keep the types.
LEMMA AccessTypes ==
  ASSUME AdministrationTypeOK, AccessStep
  PROVE  AccessTypeOK'
  <1> USE DEF AdministrationTypeOK, AccessTypeOK
  <1>1. CASE Expire
    BY <1>1 DEF Expire
  <1>2. ASSUME NEW w \in Workers, Login(w) PROVE AccessTypeOK'
    BY <1>2 DEF Login, Row, Token, Present
  <1>3. ASSUME NEW w \in Workers, CreateUser(w) PROVE AccessTypeOK'
    BY <1>3 DEF CreateUser
  <1>4. ASSUME NEW w \in Workers, ReadUpdate(w) PROVE AccessTypeOK'
    <2>1. request' \in [Workers -> Requests]
      <3>1. PICK t \in Administrators, u \in Accounts, r \in Roles :
              Starts(w, [do |-> "update", by |-> t, on |-> u, role |-> r, fresh |-> Current(t)])
        BY <1>4 DEF ReadUpdate
      <3>2. t \in Token \cup {Outsider} /\ Current(t) \in BOOLEAN
        BY DEF Administrators, Current
      <3> QED
        BY <3>1, <3>2, RequestTypes DEF Starts
    <2> QED
      BY <1>4, <2>1 DEF ReadUpdate
  <1>5. ASSUME NEW w \in Workers, WriteUpdate(w) PROVE AccessTypeOK'
    <2>1. users' \in [Accounts -> [name : Names, role : Roles \cup {"none", "deleted"}]]
      BY <1>5, RequestShapes DEF WriteUpdate
    <2>2. request' \in [Workers -> Requests]
      BY <1>5, RequestTypes DEF WriteUpdate, Done
    <2> QED
      BY <1>5, <2>1, <2>2 DEF WriteUpdate
  <1>6. ASSUME NEW w \in Workers, ReadDelete(w) PROVE AccessTypeOK'
    <2>1. request' \in [Workers -> Requests]
      <3>1. PICK t \in Administrators, u \in Accounts :
              Starts(w, [do |-> "delete", by |-> t, on |-> u, fresh |-> Current(t)])
        BY <1>6 DEF ReadDelete
      <3>2. t \in Token \cup {Outsider} /\ Current(t) \in BOOLEAN
        BY DEF Administrators, Current
      <3> QED
        BY <3>1, <3>2, RequestTypes DEF Starts
    <2> QED
      BY <1>6, <2>1 DEF ReadDelete
  <1>7. ASSUME NEW w \in Workers, WriteDelete(w) PROVE AccessTypeOK'
    <2>1. FirstName \in Names
      BY AccessAssumption
    <2>2. users' \in [Accounts -> [name : Names, role : Roles \cup {"none", "deleted"}]]
      BY <1>7, <2>1, RequestShapes DEF WriteDelete
    <2>3. mfa' \in [Accounts -> [secret : BOOLEAN, enabled : BOOLEAN, proved : BOOLEAN]]
      BY <1>7, RequestShapes, NoMfaTyped DEF WriteDelete
    <2>4. request' \in [Workers -> Requests]
      BY <1>7, RequestTypes DEF WriteDelete, Done
    <2> QED
      BY <1>7, <2>2, <2>3, <2>4 DEF WriteDelete
  <1>8. ASSUME NEW w \in Workers, Setup(w) PROVE AccessTypeOK'
    <2>1. [NoMfa EXCEPT !.secret = TRUE] \in [secret : BOOLEAN, enabled : BOOLEAN, proved : BOOLEAN]
      BY DEF NoMfa
    <2>2. mfa' \in [Accounts -> [secret : BOOLEAN, enabled : BOOLEAN, proved : BOOLEAN]]
      BY <1>8, <2>1 DEF Setup, Replace
    <2>3. crossed' \subseteq Accounts
      BY <1>8 DEF Setup, Renewed, Token
    <2> QED
      BY <1>8, <2>2, <2>3 DEF Setup
  <1>9. ASSUME NEW w \in Workers, ReadConfirm(w) PROVE AccessTypeOK'
    <2>1. request' \in [Workers -> Requests]
      BY <1>9, RequestTypes DEF ReadConfirm, Starts, Token
    <2>2. mfa' \in [Accounts -> [secret : BOOLEAN, enabled : BOOLEAN, proved : BOOLEAN]]
      <3>1. PICK t \in tokens : mfa' = [mfa EXCEPT ![t.id].proved = TRUE]
        BY <1>9 DEF ReadConfirm
      <3>2. [mfa[t.id] EXCEPT !.proved = TRUE] \in [secret : BOOLEAN, enabled : BOOLEAN, proved : BOOLEAN]
        BY DEF Token
      <3> QED
        BY <3>1, <3>2
    <2> QED
      BY <1>9, <2>1, <2>2 DEF ReadConfirm
  <1>10. ASSUME NEW w \in Workers, WriteConfirm(w) PROVE AccessTypeOK'
    <2> DEFINE u == request[w].on
    <2>1. u \in Accounts
      BY <1>10, RequestShapes DEF WriteConfirm
    <2>2. [mfa[u] EXCEPT !.enabled = TRUE] \in [secret : BOOLEAN, enabled : BOOLEAN, proved : BOOLEAN]
      BY <2>1
    <2>3. mfa' \in [Accounts -> [secret : BOOLEAN, enabled : BOOLEAN, proved : BOOLEAN]]
      BY <1>10, <2>1, <2>2 DEF WriteConfirm, Replace
    <2>4. request' \in [Workers -> Requests]
      BY <1>10, RequestTypes DEF WriteConfirm, Done
    <2> QED
      BY <1>10, <2>3, <2>4 DEF WriteConfirm
  <1>11. ASSUME NEW w \in Workers, Disable(w) PROVE AccessTypeOK'
    <2>1. mfa' \in [Accounts -> [secret : BOOLEAN, enabled : BOOLEAN, proved : BOOLEAN]]
      BY <1>11, NoMfaTyped DEF Disable, Replace
    <2>2. crossed' \subseteq Accounts
      BY <1>11 DEF Disable, Renewed, Token
    <2> QED
      BY <1>11, <2>1, <2>2 DEF Disable
  <1>12. ASSUME NEW w \in Workers, Look(w) \/ Refused(w) \/ WorkerEnds(w) PROVE AccessTypeOK'
    BY <1>12 DEF Look, Refused, WorkerEnds, accessVars
  <1> QED
    BY <1>1, <1>2, <1>3, <1>4, <1>5, <1>6, <1>7, <1>8, <1>9, <1>10, <1>11, <1>12 DEF AccessStep

\* The alarms' steps keep the types.
LEMMA AlertTypes ==
  ASSUME AdministrationTypeOK, Alerts
  PROVE  AlertTypeOK'
  <1> USE DEF AdministrationTypeOK, AlertTypeOK, Settings
  <1>1. CASE NodeChanges
    BY <1>1 DEF NodeChanges, Flip
  <1>2. ASSUME NEW w \in Workers, SaveSettings(w) PROVE AlertTypeOK'
    BY <1>2 DEF SaveSettings
  <1>3. CASE Probe
    BY <1>3 DEF Probe
  <1>4. ASSUME NEW n \in Nodes, Unchanged(n) PROVE AlertTypeOK'
    BY <1>4 DEF Unchanged, Proceed, Asleep
  <1>5. ASSUME NEW n \in Nodes, Store(n) PROVE AlertTypeOK'
    <2>1. down' \subseteq Nodes /\ missed' \subseteq Nodes
      BY <1>5 DEF Store, Flip
    <2>2. loop' \in [on : Pool \cup {NoOne}, nodes : BOOLEAN, ok : SUBSET Nodes,
                  todo : SUBSET Nodes, sends : Nodes \cup {NoNode}]
      <3>1. CASE loop.nodes
        BY <1>5, <3>1 DEF Store
      <3>2. CASE ~loop.nodes
        <4>1. Proceed(n)
          BY <1>5, <3>2 DEF Store
        <4> QED
          BY <4>1 DEF Proceed, Asleep
      <3> QED
        BY <3>1, <3>2
    <2> QED
      BY <1>5, <2>1, <2>2 DEF Store
  <1>6. ASSUME NEW n \in Nodes, StoreFails(n) PROVE AlertTypeOK'
    BY <1>6 DEF StoreFails, Asleep
  <1>7. ASSUME NEW n \in Nodes, Send(n) PROVE AlertTypeOK'
    BY <1>7 DEF Send, Proceed, Asleep
  <1>8. CASE PoolWorks
    BY <1>8 DEF PoolWorks, alertVars
  <1> QED
    BY <1>1, <1>2, <1>3, <1>4, <1>5, <1>6, <1>7, <1>8 DEF Alerts, AlertStep, Check

\* The alarms' steps keep the types of the database.
LEMMA AlertDatabase ==
  ASSUME AdministrationTypeOK, Alerts
  PROVE  DatabaseTypeOK'
  <1>0. DatabaseTypeOK
    BY DEF AdministrationTypeOK
  <1>1. CASE dbVars' = dbVars
    BY <1>0, <1>1 DEF dbVars, DatabaseTypeOK
  <1>2. CASE \E t : Reads(t) \/ Commit(t) \/ LockedOut(t)
    BY <1>0, <1>2, StatementTypes
  <1>3. NodeChanges \/ (\E n \in Nodes : Send(n)) => dbVars' = dbVars
    BY DEF NodeChanges, Send
  <1>4. ASSUME NEW w \in Workers, SaveSettings(w) PROVE \E t : Commit(t)
    BY <1>4 DEF SaveSettings
  <1>5. PoolWorks => \E t : Reads(t) \/ Commit(t) \/ LockedOut(t)
    BY DEF PoolWorks
  <1>6. Probe => \E t : Reads(t)
    BY DEF Probe
  <1>7. ASSUME NEW n \in Nodes, Unchanged(n) \/ Store(n) \/ StoreFails(n)
        PROVE  \E t : Reads(t) \/ Commit(t) \/ LockedOut(t)
    BY <1>7 DEF Unchanged, Store, StoreFails
  <1> QED
    BY <1>1, <1>2, <1>3, <1>4, <1>5, <1>6, <1>7 DEF Alerts, AlertStep, Check

\* The initial states are typed.
LEMMA InitTypes == Init => AdministrationTypeOK
  <1> SUFFICES ASSUME Init PROVE AdministrationTypeOK
    OBVIOUS
  <1>1. DatabaseTypeOK /\ restarts \in 0..MaxRestarts
    BY RestartAssumption DEF Init, DatabaseInit, DatabaseTypeOK
  <1>2. users \in [Accounts -> [name : Names, role : Roles \cup {"none", "deleted"}]]
    BY AccessAssumption DEF Init, AccessInit, Roles
  <1>3. AccessTypeOK
    BY <1>2, NoMfaTyped, RequestTypes DEF Init, AccessInit, AccessTypeOK
  <1>4. AlertTypeOK
    BY DEF Init, AlertInit, AlertTypeOK, Asleep
  <1> QED
    BY <1>1, <1>3, <1>4 DEF AdministrationTypeOK

\* A restart keeps the types.
LEMMA RestartTypes ==
  ASSUME AdministrationTypeOK, Restart
  PROVE  AdministrationTypeOK'
  BY RequestTypes, RestartAssumption
     DEF Restart, DatabaseRestart, AccessRestart, AlertRestart, AdministrationTypeOK,
         DatabaseTypeOK, AccessTypeOK, AlertTypeOK, Asleep

\* Every step keeps the types.
LEMMA NextTypes ==
  ASSUME AdministrationTypeOK, [Next]_vars
  PROVE  AdministrationTypeOK'
  <1> USE DEF AdministrationTypeOK
  <1>1. CASE AccessMoves
    BY <1>1, AccessTypes, AccessDatabase DEF AccessMoves, alertVars, AlertTypeOK
  <1>2. CASE AlertMoves
    BY <1>2, AlertTypes, AlertDatabase DEF AlertMoves, accessVars, AccessTypeOK
  <1>3. CASE Restart
    BY <1>3, RestartTypes
  <1>4. CASE UNCHANGED vars
    BY <1>4 DEF vars, dbVars, accessVars, alertVars, AccessTypeOK, AlertTypeOK, DatabaseTypeOK
  <1> QED
    BY <1>1, <1>2, <1>3, <1>4 DEF Next, AccessMoves, AlertMoves, Alerts

\* Every reachable state is typed, for instances of any size.
THEOREM TypesHold == Spec => []AdministrationTypeOK
  BY InitTypes, NextTypes, PTL DEF Spec

-----------------------------------------------------------------------------
(* An administrator remains. *)

\* The initial states satisfy the invariant.
LEMMA InitInvariant == Init => IInv
  <1> SUFFICES ASSUME Init PROVE IInv
    OBVIOUS
  <1>1. AdministrationTypeOK
    BY InitTypes
  <1>2. AdminInv
    BY DEF Init, AccessInit, AdminInv, Removes, Idle
  <1>3. FactorInv
    BY DEF Init, AccessInit, FactorInv, EnabledFactorIsProved, NoMfa, Does, Idle
  <1>4. AlarmInv
    BY NodesAssumption DEF Init, AlertInit, AlarmInv, ToldIsStored, Asleep, NoNode
  <1> QED
    BY <1>1, <1>2, <1>3, <1>4 DEF IInv

\* A token that is current is its row's.
LEMMA CurrentIsRow ==
  ASSUME NEW t \in Token, Current(t)
  PROVE  users[t.id].name = t.name /\ users[t.id].role = t.role
  BY DEF Current, Row, Token

\* The row of an administrator whose token is current remains as it is, or at
\* least as an administrator's, when the row of another user is written.
LEMMA OthersRow ==
  ASSUME NEW t \in Token, Current(t), t.role = "admin", NEW u \in Accounts, t.id # u,
         users'[t.id] = users[t.id]
  PROVE  Admins' # {}
  BY CurrentIsRow DEF Admins, Token

\* A change of a user, on a token that was and is its row's, leaves an
\* administrator.
LEMMA WriteUpdateAdmin ==
  ASSUME AdministrationTypeOK, AdminInv, NEW w \in Workers, WriteUpdate(w), Admins # {},
         request[w].fresh, Current(request[w].by)
  PROVE  Admins' # {}
  <1> DEFINE u == request[w].on
             t == request[w].by
  <1>1. Does(w, "update") /\ u \in Accounts /\ request[w].role \in Roles
    BY RequestShapes DEF WriteUpdate, AdministrationTypeOK
  <1>2. users \in [Accounts -> [name : Names, role : Roles \cup {"none", "deleted"}]]
    BY DEF AdministrationTypeOK, AccessTypeOK
  <1>3. CASE users' = users
    BY <1>3 DEF Admins
  <1>4. CASE users' # users
    <2>1. PICK n \in Names : users' = [users EXCEPT ![u] = [name |-> n, role |-> request[w].role]]
      BY <1>4 DEF WriteUpdate
    <2>2. CASE request[w].role = "admin"
      BY <1>1, <1>2, <2>1, <2>2 DEF Admins
    <2>3. CASE request[w].role # "admin"
      <3>1. t \in Token /\ t.role = "admin" /\ t.id # u
        BY <1>1, <2>3 DEF AdminInv, Removes, Does
      <3>2. users'[t.id] = users[t.id]
        BY <1>2, <2>1, <3>1 DEF Token
      <3> QED
        BY <1>1, <3>1, <3>2, OthersRow
    <2> QED
      BY <2>2, <2>3
  <1> QED
    BY <1>3, <1>4

\* So does a deletion.
LEMMA WriteDeleteAdmin ==
  ASSUME AdministrationTypeOK, AdminInv, NEW w \in Workers, WriteDelete(w),
         request[w].fresh, Current(request[w].by)
  PROVE  Admins' # {}
  <1> DEFINE u == request[w].on
             t == request[w].by
  <1>1. Does(w, "delete") /\ u \in Accounts
    BY RequestShapes DEF WriteDelete, AdministrationTypeOK
  <1>2. t \in Token /\ t.role = "admin" /\ t.id # u
    BY <1>1 DEF AdminInv, Removes, Does
  <1>3. users \in [Accounts -> [name : Names, role : Roles \cup {"none", "deleted"}]]
    BY DEF AdministrationTypeOK, AccessTypeOK
  <1>4. users'[t.id] = users[t.id]
    BY <1>2, <1>3 DEF WriteDelete, Token
  <1> QED
    BY <1>1, <1>2, <1>4, OthersRow

\* A request that a worker begins keeps the invariant about the requests under
\* way, if it would take no administrator away or is another one's.
LEMMA NewRequest ==
  ASSUME AdministrationTypeOK, AdminInv, NEW w \in Workers, NEW r, Starts(w, r),
         Removes(r) /\ r.fresh => r.by \in Token /\ r.by.role = "admin" /\ r.by.id # r.on
  PROVE  AdminInv'
  <1>1. request \in [Workers -> Requests] /\ request' = [request EXCEPT ![w] = r]
    BY DEF AdministrationTypeOK, AccessTypeOK, Starts
  <1>2. \A v \in Workers : request'[v] = IF v = w THEN r ELSE request[v]
    BY <1>1
  <1> QED
    BY <1>2 DEF AdminInv

\* The comparison of names tells the row of a current token from the others.
LEMMA OtherOne ==
  ASSUME AdministrationTypeOK, NEW t \in Administrators, Current(t), NEW u \in Accounts, ~Own(t, u)
  PROVE  t \in Token /\ t.role = "admin" /\ t.id # u
  <1>1. t \in Token /\ t.role = "admin"
    BY DEF Administrators, Current, AdministrationTypeOK, AccessTypeOK
  <1>2. users[t.id].name = t.name /\ users[u].name # t.name
    BY <1>1, CurrentIsRow DEF Own, Current
  <1> QED
    BY <1>1, <1>2

\* What a request reads keeps the invariant: one that would take an
\* administrator away is made by another one.
LEMMA ReadUpdateAdmin ==
  ASSUME AdministrationTypeOK, AdminInv, NEW w \in Workers, ReadUpdate(w)
  PROVE  AdminInv'
  <1>1. PICK t \in Administrators, u \in Accounts, r \in Roles :
          /\ ~(Own(t, u) /\ r # "admin")
          /\ Starts(w, [do |-> "update", by |-> t, on |-> u, role |-> r, fresh |-> Current(t)])
    BY DEF ReadUpdate
  <1> DEFINE q == [do |-> "update", by |-> t, on |-> u, role |-> r, fresh |-> Current(t)]
  <1>2. Removes(q) /\ q.fresh => r # "admin" /\ Current(t)
    BY DEF Removes
  <1>3. Removes(q) /\ q.fresh => q.by \in Token /\ q.by.role = "admin" /\ q.by.id # q.on
    BY <1>1, <1>2, OtherOne
  <1> QED
    BY <1>1, <1>3, NewRequest

\* The same for a deletion.
LEMMA ReadDeleteAdmin ==
  ASSUME AdministrationTypeOK, AdminInv, NEW w \in Workers, ReadDelete(w)
  PROVE  AdminInv'
  <1>1. PICK t \in Administrators, u \in Accounts :
          ~Own(t, u) /\ Starts(w, [do |-> "delete", by |-> t, on |-> u, fresh |-> Current(t)])
    BY DEF ReadDelete
  <1> DEFINE q == [do |-> "delete", by |-> t, on |-> u, fresh |-> Current(t)]
  <1>2. q.fresh => q.by \in Token /\ q.by.role = "admin" /\ q.by.id # q.on
    BY <1>1, OtherOne
  <1> QED
    BY <1>1, <1>2, NewRequest

\* A request that ends keeps the invariant.
LEMMA EndedRequest ==
  ASSUME AdministrationTypeOK, AdminInv, NEW w \in Workers, Done(w)
  PROVE  AdminInv'
  <1>1. request \in [Workers -> Requests] /\ request' = [request EXCEPT ![w] = Idle]
    BY DEF AdministrationTypeOK, AccessTypeOK, Done
  <1>2. \A v \in Workers : request'[v] = IF v = w THEN Idle ELSE request[v]
    BY <1>1
  <1> QED
    BY <1>2 DEF AdminInv, Removes, Idle

\* Users' steps keep the invariant about administrators.
LEMMA AccessAdmin ==
  ASSUME AdministrationTypeOK, AdminInv, AccessStep
  PROVE  AdminInv'
  <1>1. CASE UNCHANGED request
    BY <1>1 DEF AdminInv
  <1>2. ASSUME NEW w \in Workers, ReadUpdate(w) PROVE AdminInv'
    BY <1>2, ReadUpdateAdmin
  <1>3. ASSUME NEW w \in Workers, ReadDelete(w) PROVE AdminInv'
    BY <1>3, ReadDeleteAdmin
  <1>4. ASSUME NEW w \in Workers, WriteUpdate(w) \/ WriteDelete(w) \/ WriteConfirm(w) PROVE AdminInv'
    BY <1>4, EndedRequest DEF WriteUpdate, WriteDelete, WriteConfirm
  <1>5. ASSUME NEW w \in Workers, ReadConfirm(w) PROVE AdminInv'
    <2>1. PICK t \in tokens : Starts(w, [do |-> "confirm", on |-> t.id])
      BY <1>5 DEF ReadConfirm
    <2>2. ~Removes([do |-> "confirm", on |-> t.id])
      BY DEF Removes
    <2> QED
      BY <2>1, <2>2, NewRequest
  <1>6. ASSUME NEW w \in Workers,
               \/ Login(w) \/ CreateUser(w) \/ Setup(w) \/ Disable(w)
               \/ Look(w) \/ Refused(w) \/ WorkerEnds(w)
        PROVE  UNCHANGED request
    BY <1>6 DEF Login, CreateUser, Setup, Disable, Look, Refused, WorkerEnds, accessVars
  <1>7. CASE Expire
    BY <1>1, <1>7 DEF Expire
  <1> QED
    BY <1>1, <1>2, <1>3, <1>4, <1>5, <1>6, <1>7 DEF AccessStep

\* A user's step that takes the last administrator away is the last of a request
\* on a token that was not its row's when it read or is not when it writes.
LEMMA LastAdmin ==
  ASSUME AdministrationTypeOK, AdminInv, AccessStep, Admins # {}, Admins' = {}
  PROVE  \E w \in Workers : /\ request[w].do \in {"update", "delete"} /\ request'[w] = Idle
                            /\ ~request[w].fresh \/ ~Current(request[w].by)
  <1>1. request \in [Workers -> Requests]
        /\ users \in [Accounts -> [name : Names, role : Roles \cup {"none", "deleted"}]]
    BY DEF AdministrationTypeOK, AccessTypeOK
  <1>2. CASE UNCHANGED users
    BY <1>2 DEF Admins
  <1>3. ASSUME NEW w \in Workers, CreateUser(w) PROVE Admins \subseteq Admins'
    BY <1>1, <1>3 DEF CreateUser, Admins
  <1>4. CASE \E w \in Workers : WriteUpdate(w)
    <2>1. PICK w \in Workers : WriteUpdate(w)
      BY <1>4
    <2>2. ~request[w].fresh \/ ~Current(request[w].by)
      BY <2>1, WriteUpdateAdmin
    <2>3. request[w].do = "update" /\ request'[w] = Idle
      BY <1>1, <2>1 DEF WriteUpdate, Does, Done
    <2> QED
      BY <2>2, <2>3
  <1>5. CASE \E w \in Workers : WriteDelete(w)
    <2>1. PICK w \in Workers : WriteDelete(w)
      BY <1>5
    <2>2. ~request[w].fresh \/ ~Current(request[w].by)
      BY <2>1, WriteDeleteAdmin
    <2>3. request[w].do = "delete" /\ request'[w] = Idle
      BY <1>1, <2>1 DEF WriteDelete, Does, Done
    <2> QED
      BY <2>2, <2>3
  <1>6. ASSUME NEW w \in Workers,
               \/ Login(w) \/ ReadUpdate(w) \/ ReadDelete(w)
               \/ Setup(w) \/ ReadConfirm(w) \/ WriteConfirm(w) \/ Disable(w)
               \/ Look(w) \/ Refused(w) \/ WorkerEnds(w)
        PROVE  UNCHANGED users
    BY <1>6 DEF Login, ReadUpdate, ReadDelete, Setup, ReadConfirm, WriteConfirm, Disable,
                Look, Refused, WorkerEnds, accessVars
  <1>7. Expire => UNCHANGED users
    BY DEF Expire
  <1> QED
    BY <1>2, <1>3, <1>4, <1>5, <1>6, <1>7 DEF AccessStep

-----------------------------------------------------------------------------
(* An enabled factor is a proved one. *)

\* A step that leaves the users' rows there, keeps the factors and starts no
\* confirmation keeps the invariant about them.
LEMMA FactorsKept ==
  ASSUME FactorInv, mfa' = mfa, crossed' = crossed,
         \A u \in Accounts : users[u].role # "none" => users'[u].role # "none",
         \A u \in Accounts : users[u].role \notin Roles \cup {"none"} => users'[u].role \notin Roles,
         \A u \in Accounts : users'[u].role \notin Roles => users[u].role \notin Roles,
         \A v \in Workers : Does(v, "confirm") => request[v].on \in Accounts,
         \A v \in Workers : request'[v] = request[v] \/ request'[v].do # "confirm"
  PROVE  FactorInv'
  <1>1. ASSUME NEW v \in Workers, Does(v, "confirm")'
        PROVE  /\ request'[v] = request[v] /\ Does(v, "confirm")
               /\ users'[request[v].on].role # "none"
               /\ Present(request[v].on)' => Present(request[v].on)
    <2>1. request'[v] = request[v] /\ Does(v, "confirm")
      BY <1>1 DEF Does
    <2>2. users[request[v].on].role # "none" /\ request[v].on \in Accounts
      BY <2>1 DEF FactorInv
    <2> QED
      BY <2>1, <2>2 DEF Present
  <1>2. ASSUME NEW v \in Workers, Does(v, "confirm")', users'[request'[v].on].role \in Roles,
               request'[v].on \notin crossed'
        PROVE  mfa'[request'[v].on].secret /\ mfa'[request'[v].on].proved
    BY <1>1, <1>2 DEF FactorInv, Present
  <1>3. EnabledFactorIsProved'
    BY DEF FactorInv, EnabledFactorIsProved
  <1>4. \A u \in Accounts : users'[u].role \notin Roles => ~mfa'[u].enabled
    BY DEF FactorInv
  <1> QED
    BY <1>1, <1>2, <1>3, <1>4 DEF FactorInv, Present

\* A step that replaces the factor of a user by one that is not enabled keeps
\* the invariant: the user is crossed if a confirmation of another secret is
\* under way.
LEMMA FactorReplaced ==
  ASSUME AdministrationTypeOK, FactorInv, NEW u \in Accounts, NEW value,
         value.enabled = FALSE, Replace(u, value), crossed' = Renewed(u),
         UNCHANGED <<users, request>>
  PROVE  FactorInv'
  <1>1. mfa \in [Accounts -> [secret : BOOLEAN, enabled : BOOLEAN, proved : BOOLEAN]]
    BY DEF AdministrationTypeOK, AccessTypeOK
  <1>2. ~mfa'[u].enabled
    BY <1>1 DEF Replace, FactorInv, Present
  <1>3. \A v \in Accounts : v # u => mfa'[v] = mfa[v] /\ (v \in crossed' <=> v \in crossed)
    BY <1>1 DEF Replace, Renewed
  <1>4. \A w \in Workers : Does(w, "confirm")' => Does(w, "confirm") /\ request'[w].on = request[w].on
    BY DEF Does
  <1>5. ASSUME NEW w \in Workers, Does(w, "confirm")', users'[request'[w].on].role \in Roles,
               request'[w].on \notin crossed'
        PROVE  mfa'[request'[w].on].secret /\ mfa'[request'[w].on].proved
    <2>1. request[w].on \in Accounts
      BY <1>4, <1>5, RequestShapes DEF AdministrationTypeOK
    <2>2. request[w].on # u
      BY <1>4, <1>5 DEF Renewed
    <2> QED
      BY <1>3, <1>4, <1>5, <2>1, <2>2 DEF FactorInv, Present
  <1>6. ASSUME NEW v \in Accounts \ crossed', mfa'[v].enabled
        PROVE  mfa'[v].secret /\ mfa'[v].proved
    BY <1>2, <1>3, <1>6 DEF FactorInv, EnabledFactorIsProved
  <1>7. \A w \in Workers : Does(w, "confirm")' => users'[request'[w].on].role # "none"
    BY <1>4 DEF FactorInv
  <1>8. \A v \in Accounts : users'[v].role \notin Roles => ~mfa'[v].enabled
    BY <1>2, <1>3 DEF FactorInv
  <1> QED
    BY <1>5, <1>6, <1>7, <1>8 DEF FactorInv, EnabledFactorIsProved, Present

\* The right code proves the secret there is, for this confirmation as well as
\* for any other one of the same user.
LEMMA ReadConfirmFactor ==
  ASSUME AdministrationTypeOK, FactorInv, NEW w \in Workers, ReadConfirm(w)
  PROVE  FactorInv'
  <1>1. PICK t \in tokens : /\ Present(t.id) /\ mfa[t.id].secret
                            /\ Starts(w, [do |-> "confirm", on |-> t.id])
                            /\ mfa' = [mfa EXCEPT ![t.id].proved = TRUE]
    BY DEF ReadConfirm
  <1>2. /\ UNCHANGED <<users, crossed>>
        /\ mfa \in [Accounts -> [secret : BOOLEAN, enabled : BOOLEAN, proved : BOOLEAN]]
        /\ request \in [Workers -> Requests] /\ t.id \in Accounts
    BY DEF ReadConfirm, AdministrationTypeOK, AccessTypeOK, Token
  <1>3. \A u \in Accounts : mfa'[u] = IF u = t.id THEN [mfa[u] EXCEPT !.proved = TRUE] ELSE mfa[u]
    BY <1>1, <1>2
  <1>4. \A u \in Accounts : /\ mfa'[u].enabled => mfa[u].enabled
                            /\ mfa[u].secret => mfa'[u].secret
                            /\ mfa[u].proved => mfa'[u].proved
    BY <1>2, <1>3
  <1>5. mfa'[t.id].secret /\ mfa'[t.id].proved
    BY <1>1, <1>2, <1>3
  <1>6. request' = [request EXCEPT ![w] = [do |-> "confirm", on |-> t.id]]
    BY <1>1 DEF Starts
  <1>7. \A v \in Workers : Does(v, "confirm")' =>
          \/ request'[v].on = t.id
          \/ Does(v, "confirm") /\ request'[v].on = request[v].on
    BY <1>2, <1>6 DEF Does
  <1>8. users[t.id].role # "none"
    BY <1>1 DEF Present, Roles
  <1>9. \A v \in Workers : Does(v, "confirm") => request[v].on \in Accounts
    BY RequestShapes DEF AdministrationTypeOK
  <1>10. ASSUME NEW v \in Workers, Does(v, "confirm")', users'[request'[v].on].role \in Roles,
                request'[v].on \notin crossed'
         PROVE  mfa'[request'[v].on].secret /\ mfa'[request'[v].on].proved
    <2>1. CASE request'[v].on = t.id
      BY <1>5, <2>1
    <2>2. CASE Does(v, "confirm") /\ request'[v].on = request[v].on
      <3> DEFINE x == request[v].on
      <3>1. x \notin crossed /\ x \in Accounts /\ Present(x) /\ Does(v, "confirm")
        BY <1>2, <1>9, <1>10, <2>2 DEF Present
      <3>2. mfa[x].secret /\ mfa[x].proved
        BY <3>1, Zenon DEF FactorInv
      <3>3. mfa'[x].secret /\ mfa'[x].proved
        BY <1>4, <3>1, <3>2, Zenon
      <3> QED
        BY <2>2, <3>3, Zenon
    <2> QED
      BY <1>7, <1>10, <2>1, <2>2, Zenon
  <1>11. ASSUME NEW u \in Accounts \ crossed', mfa'[u].enabled
         PROVE  mfa'[u].secret /\ mfa'[u].proved
    <2>1. u \in Accounts \ crossed
      BY <1>2
    <2>2. mfa[u].secret /\ mfa[u].proved
      BY <1>4, <1>11, <2>1, Zenon DEF FactorInv, EnabledFactorIsProved
    <2> QED
      BY <1>4, <2>2, Zenon
  <1>12. \A v \in Workers : Does(v, "confirm")' => users'[request'[v].on].role # "none"
    BY <1>2, <1>7, <1>8 DEF FactorInv
  <1>13. \A u \in Accounts : users'[u].role \notin Roles => ~mfa'[u].enabled
    BY <1>2, <1>4 DEF FactorInv
  <1> QED
    BY <1>10, <1>11, <1>12, <1>13, Zenon DEF FactorInv, EnabledFactorIsProved, Present

\* What is enabled has been proved when the confirmation began, unless its
\* secret was replaced meanwhile.
LEMMA WriteConfirmFactor ==
  ASSUME AdministrationTypeOK, FactorInv, NEW w \in Workers, WriteConfirm(w)
  PROVE  FactorInv'
  <1> DEFINE u == request[w].on
  <1>1. /\ UNCHANGED <<users, crossed>>
        /\ mfa \in [Accounts -> [secret : BOOLEAN, enabled : BOOLEAN, proved : BOOLEAN]]
        /\ request \in [Workers -> Requests] /\ Does(w, "confirm")
        /\ request' = [request EXCEPT ![w] = Idle]
    BY DEF WriteConfirm, AdministrationTypeOK, AccessTypeOK, Done
  <1>2. u \in Accounts
    BY <1>1, RequestShapes DEF AdministrationTypeOK
  <1>3. \A v \in Accounts : /\ mfa[v].secret => mfa'[v].secret
                            /\ mfa[v].proved => mfa'[v].proved
                            /\ mfa'[v].enabled => mfa[v].enabled \/ (v = u /\ Present(u))
    BY <1>1, <1>2 DEF WriteConfirm, Replace
  <1>4. \A v \in Workers : Does(v, "confirm")' => Does(v, "confirm") /\ request'[v].on = request[v].on
    BY <1>1 DEF Does, Idle
  <1>5. \A v \in Workers : Does(v, "confirm") => request[v].on \in Accounts
    BY RequestShapes DEF AdministrationTypeOK
  <1>6. ASSUME NEW v \in Workers, Does(v, "confirm")', users'[request'[v].on].role \in Roles,
               request'[v].on \notin crossed'
        PROVE  mfa'[request'[v].on].secret /\ mfa'[request'[v].on].proved
    <2> DEFINE x == request[v].on
    <2>1. x \notin crossed /\ x \in Accounts /\ Present(x) /\ Does(v, "confirm") /\ request'[v].on = x
      BY <1>1, <1>4, <1>5, <1>6 DEF Present
    <2>2. mfa[x].secret /\ mfa[x].proved
      BY <2>1, Zenon DEF FactorInv
    <2>3. mfa'[x].secret /\ mfa'[x].proved
      BY <1>3, <2>1, <2>2, Zenon
    <2> QED
      BY <2>1, <2>3, Zenon
  <1>7. ASSUME NEW v \in Accounts \ crossed', mfa'[v].enabled
        PROVE  mfa'[v].secret /\ mfa'[v].proved
    <2>1. v \in Accounts \ crossed /\ v \notin crossed
      BY <1>1
    <2>2. CASE mfa[v].enabled
      BY <2>1, <2>2, <1>3, Zenon DEF FactorInv, EnabledFactorIsProved
    <2>3. CASE v = u /\ Present(u)
      <3>1. mfa[u].secret /\ mfa[u].proved
        BY <1>1, <2>1, <2>3, Zenon DEF FactorInv
      <3> QED
        BY <1>2, <1>3, <2>3, <3>1, Zenon
    <2> QED
      BY <1>3, <1>7, <2>2, <2>3, Zenon
  <1>8. \A v \in Workers : Does(v, "confirm")' => users'[request'[v].on].role # "none"
    BY <1>1, <1>4 DEF FactorInv
  <1>9. \A v \in Accounts : users'[v].role \notin Roles => ~mfa'[v].enabled
    BY <1>1, <1>3 DEF FactorInv, Present
  <1> QED
    BY <1>6, <1>7, <1>8, <1>9, Zenon DEF FactorInv, EnabledFactorIsProved, Present

\* A deletion takes the factor with the row.
LEMMA WriteDeleteFactor ==
  ASSUME AdministrationTypeOK, FactorInv, NEW w \in Workers, WriteDelete(w)
  PROVE  FactorInv'
  <1> DEFINE u == request[w].on
  <1>1. /\ request \in [Workers -> Requests] /\ crossed' = crossed
        /\ users \in [Accounts -> [name : Names, role : Roles \cup {"none", "deleted"}]]
        /\ mfa \in [Accounts -> [secret : BOOLEAN, enabled : BOOLEAN, proved : BOOLEAN]]
        /\ request' = [request EXCEPT ![w] = Idle] /\ Does(w, "delete")
    BY DEF WriteDelete, AdministrationTypeOK, AccessTypeOK, Done
  <1>2. u \in Accounts /\ "deleted" \notin Roles
    BY <1>1, RequestShapes DEF AdministrationTypeOK, Roles
  <1>3. \A v \in Workers : request'[v] = request[v] \/ request'[v].do # "confirm"
    BY <1>1 DEF Idle
  <1>4. \A v \in Workers : Does(v, "confirm") => request[v].on \in Accounts
    BY RequestShapes DEF AdministrationTypeOK
  <1>5. CASE UNCHANGED <<users, mfa>>
    BY <1>1, <1>3, <1>4, <1>5, FactorsKept
  <1>6. CASE users' = [users EXCEPT ![u] = [name |-> FirstName, role |-> "deleted"]]
             /\ mfa' = [mfa EXCEPT ![u] = NoMfa]
    <2>1. \A x \in Accounts : x # u => users'[x] = users[x] /\ mfa'[x] = mfa[x]
      BY <1>1, <1>6
    <2>2. users'[u].role = "deleted" /\ mfa'[u].enabled = FALSE
      BY <1>1, <1>2, <1>6 DEF NoMfa
    <2>3. \A v \in Workers : Does(v, "confirm")' =>
            /\ Does(v, "confirm") /\ request'[v].on = request[v].on /\ request[v].on \in Accounts
      BY <1>3, <1>4 DEF Does
    <2>4. \A v \in Workers : Does(v, "confirm")' => users'[request'[v].on].role # "none"
      BY <2>1, <2>2, <2>3 DEF FactorInv
    <2>5. ASSUME NEW v \in Workers, Does(v, "confirm")', users'[request'[v].on].role \in Roles,
                 request'[v].on \notin crossed'
          PROVE  mfa'[request'[v].on].secret /\ mfa'[request'[v].on].proved
      BY <1>1, <1>2, <2>1, <2>2, <2>3, <2>5 DEF FactorInv, Present
    <2>6. EnabledFactorIsProved'
      BY <1>1, <2>1, <2>2 DEF FactorInv, EnabledFactorIsProved
    <2>7. \A x \in Accounts : users'[x].role \notin Roles => ~mfa'[x].enabled
      BY <2>1, <2>2 DEF FactorInv
    <2> QED
      BY <2>4, <2>5, <2>6, <2>7, Zenon DEF FactorInv, Present
  <1> QED
    BY <1>5, <1>6 DEF WriteDelete

\* Users' steps keep the invariant about factors.
LEMMA AccessFactor ==
  ASSUME AdministrationTypeOK, FactorInv, AccessStep
  PROVE  FactorInv'
  <1>0. /\ request \in [Workers -> Requests]
        /\ users \in [Accounts -> [name : Names, role : Roles \cup {"none", "deleted"}]]
        /\ \A v \in Workers : Does(v, "confirm") => request[v].on \in Accounts
        /\ "none" \notin Roles /\ tokens \subseteq Token
    BY RequestShapes DEF AdministrationTypeOK, AccessTypeOK, Roles
  <1>1. CASE UNCHANGED <<users, mfa, request, crossed>>
    BY <1>0, <1>1, FactorsKept
  <1>2. ASSUME NEW w \in Workers, CreateUser(w) PROVE FactorInv'
    <2>1. \A u \in Accounts : users[u].role # "none" => users'[u] = users[u]
      BY <1>0, <1>2 DEF CreateUser
    <2>2. \A u \in Accounts : users[u].role # "none" => users'[u].role # "none"
      BY <2>1
    <2>3. \A u \in Accounts : users[u].role \notin Roles \cup {"none"} => users'[u].role \notin Roles
      BY <2>1
    <2>4. \A u \in Accounts : users'[u].role \notin Roles => users[u].role \notin Roles
      BY <1>0, <2>1
    <2> QED
      BY <1>0, <1>2, <2>2, <2>3, <2>4, FactorsKept DEF CreateUser
  <1>3. ASSUME NEW w \in Workers, ReadUpdate(w) PROVE FactorInv'
    <2>1. \A v \in Workers : request'[v] = request[v] \/ request'[v].do # "confirm"
      BY <1>0, <1>3 DEF ReadUpdate, Starts
    <2> QED
      BY <1>0, <1>3, <2>1, FactorsKept DEF ReadUpdate
  <1>4. ASSUME NEW w \in Workers, WriteUpdate(w) PROVE FactorInv'
    <2>1. request[w].on \in Accounts /\ request[w].role \in Roles
      BY <1>4, RequestShapes DEF WriteUpdate, AdministrationTypeOK
    <2>2. \A u \in Accounts : users[u].role # "none" => users'[u].role # "none"
      BY <1>0, <1>4, <2>1 DEF WriteUpdate, Present
    <2>5. \A u \in Accounts : users[u].role \notin Roles \cup {"none"} => users'[u].role \notin Roles
      BY <1>0, <1>4, <2>1 DEF WriteUpdate, Present
    <2>6. \A u \in Accounts : users'[u].role \notin Roles => users[u].role \notin Roles
      BY <1>0, <1>4, <2>1 DEF WriteUpdate, Present
    <2>3. \A v \in Workers : request'[v] = request[v] \/ request'[v].do # "confirm"
      BY <1>0, <1>4 DEF WriteUpdate, Done, Idle
    <2>4. mfa' = mfa /\ crossed' = crossed
      BY <1>4 DEF WriteUpdate
    <2> QED
      BY <1>0, <2>2, <2>3, <2>4, <2>5, <2>6, FactorsKept
  <1>5. ASSUME NEW w \in Workers, ReadDelete(w) PROVE FactorInv'
    <2>1. \A v \in Workers : request'[v] = request[v] \/ request'[v].do # "confirm"
      BY <1>0, <1>5 DEF ReadDelete, Starts
    <2> QED
      BY <1>0, <1>5, <2>1, FactorsKept DEF ReadDelete
  <1>6. ASSUME NEW w \in Workers, WriteDelete(w) PROVE FactorInv'
    BY <1>6, WriteDeleteFactor
  <1>7. ASSUME NEW w \in Workers, Setup(w) PROVE FactorInv'
    <2>1. PICK t \in tokens : /\ Replace(t.id, [NoMfa EXCEPT !.secret = TRUE])
                              /\ crossed' = Renewed(t.id)
      BY <1>7 DEF Setup
    <2>2. t.id \in Accounts
      BY <1>0 DEF Token
    <2>3. [NoMfa EXCEPT !.secret = TRUE].enabled = NoMfa.enabled /\ NoMfa.enabled = FALSE
      BY NoMfaTyped, SecretAlone DEF NoMfa
    <2> QED
      BY <1>7, <2>1, <2>2, <2>3, FactorReplaced DEF Setup
  <1>8. ASSUME NEW w \in Workers, ReadConfirm(w) PROVE FactorInv'
    BY <1>8, ReadConfirmFactor
  <1>9. ASSUME NEW w \in Workers, WriteConfirm(w) PROVE FactorInv'
    BY <1>9, WriteConfirmFactor
  <1>10. ASSUME NEW w \in Workers, Disable(w) PROVE FactorInv'
    <2>1. PICK t \in tokens : Replace(t.id, NoMfa) /\ crossed' = Renewed(t.id)
      BY <1>10 DEF Disable
    <2>2. t.id \in Accounts /\ NoMfa.enabled = FALSE
      BY <1>0 DEF Token, NoMfa
    <2> QED
      BY <1>10, <2>1, <2>2, FactorReplaced DEF Disable
  <1>11. ASSUME NEW w \in Workers, Login(w) PROVE FactorInv'
    BY <1>1, <1>11 DEF Login
  <1>12. CASE Expire
    BY <1>1, <1>12 DEF Expire
  <1>13. ASSUME NEW w \in Workers, Look(w) \/ Refused(w) \/ WorkerEnds(w) PROVE FactorInv'
    BY <1>1, <1>13 DEF Look, Refused, WorkerEnds, accessVars
  <1> QED
    BY <1>2, <1>3, <1>4, <1>5, <1>6, <1>7, <1>8, <1>9, <1>10, <1>11, <1>12, <1>13 DEF AccessStep

-----------------------------------------------------------------------------
(* What the recipients believe is what is stored. *)

\* The alarms' steps keep the invariant about them.
LEMMA AlertAlarm ==
  ASSUME AdministrationTypeOK, AlarmInv, Alerts
  PROVE  AlarmInv'
  <1> DEFINE Agrees == \A n \in Nodes \ (missed \cup {loop.sends}) : n \in told <=> n \in down
             Due == \A n \in Nodes : loop.sends = n => (n \in down <=> n \notin loop.ok)
  <1>0. Agrees /\ Due /\ NoNode \notin Nodes
    BY NodesAssumption DEF AlarmInv, ToldIsStored, NoNode
  <1>1. SUFFICES Agrees' /\ Due'
    BY DEF AlarmInv, ToldIsStored
  <1>t. loop \in [on : Pool \cup {NoOne}, nodes : BOOLEAN, ok : SUBSET Nodes,
                  todo : SUBSET Nodes, sends : Nodes \cup {NoNode}]
    BY DEF AdministrationTypeOK, AlertTypeOK
  <1>2. ASSUME loop'.sends \in {loop.sends, NoNode}, loop.sends = NoNode, UNCHANGED <<told, down, missed>>
        PROVE  Agrees' /\ Due'
    BY <1>0, <1>2
  <1>3. CASE NodeChanges \/ PoolWorks \/ \E w \in Workers : SaveSettings(w)
    BY <1>0, <1>3 DEF NodeChanges, SaveSettings, PoolWorks, alertVars
  <1>4. CASE Probe
    BY <1>2, <1>4 DEF Probe, Sleeps
  <1>5. ASSUME NEW n \in Nodes, Unchanged(n) PROVE Agrees' /\ Due'
    BY <1>2, <1>5, <1>t DEF Unchanged, Compares, Proceed, Asleep
  <1>6. ASSUME NEW n \in Nodes, Store(n) PROVE Agrees' /\ Due'
    <2>1. loop.sends = NoNode /\ (n \in down <=> n \in loop.ok) /\ told' = told
          /\ \A k \in Nodes : k \in down' <=> (IF k = n THEN k \notin down ELSE k \in down)
      BY <1>6 DEF Store, Compares, Changed, Flip
    <2>2. CASE loop.nodes
      <3>1. loop' = [loop EXCEPT !.sends = n] /\ missed' = missed
        BY <1>6, <2>2 DEF Store
      <3>2. loop'.sends = n /\ loop'.ok = loop.ok
        BY <1>t, <3>1
      <3> QED
        BY <1>0, <2>1, <3>1, <3>2
    <2>3. CASE ~loop.nodes
      <3>1. Proceed(n) /\ missed' = missed \cup {n}
        BY <1>6, <2>3 DEF Store
      <3>2. loop'.sends = NoNode
        BY <1>t, <3>1 DEF Proceed, Asleep
      <3> QED
        BY <1>0, <2>1, <3>1, <3>2
    <2> QED
      BY <2>2, <2>3
  <1>7. ASSUME NEW n \in Nodes, StoreFails(n) PROVE Agrees' /\ Due'
    BY <1>2, <1>7 DEF StoreFails, Compares, Asleep
  <1>8. ASSUME NEW n \in Nodes, Send(n) PROVE Agrees' /\ Due'
    <2>1. loop.sends = n /\ down' = down /\ (n \in down <=> n \notin loop.ok) /\ Proceed(n)
      BY <1>0, <1>8 DEF Send
    <2>2. loop'.sends = NoNode
      BY <1>t, <2>1 DEF Proceed, Asleep
    <2>3. CASE missed' = missed \ {n} /\ told' = IF n \in loop.ok THEN told \ {n} ELSE told \cup {n}
      BY <1>0, <2>1, <2>2, <2>3
    <2>4. CASE missed' = missed \cup {n} /\ told' = told
      BY <1>0, <2>1, <2>2, <2>4
    <2> QED
      BY <1>8, <2>3, <2>4 DEF Send
  <1> QED
    BY <1>3, <1>4, <1>5, <1>6, <1>7, <1>8 DEF Alerts, AlertStep, Check

\* A restart keeps the invariants: no request is under way after it, and a
\* message that was due is missed.
LEMMA RestartInvariant ==
  ASSUME AdministrationTypeOK, AdminInv, FactorInv, AlarmInv, Restart
  PROVE  AdminInv' /\ FactorInv' /\ AlarmInv'
  <1>1. /\ UNCHANGED <<users, mfa, crossed, down, told>>
        /\ request' = [w \in Workers |-> Idle] /\ loop' = Asleep
        /\ missed' = missed \cup ({loop.sends} \cap Nodes)
    BY DEF Restart, AccessRestart, AlertRestart
  <1>2. AdminInv'
    <2>1. \A w \in Workers : ~Removes(request'[w])
      BY <1>1 DEF Removes, Idle
    <2> QED
      BY <2>1 DEF AdminInv
  <1>3. FactorInv'
    <2>1. \A w \in Workers : ~Does(w, "confirm")'
      BY <1>1 DEF Does, Idle
    <2>2. EnabledFactorIsProved'
      BY <1>1 DEF FactorInv, EnabledFactorIsProved
    <2> QED
      BY <1>1, <2>1, <2>2 DEF FactorInv
  <1>4. AlarmInv'
    <2>1. loop'.sends = NoNode /\ NoNode \notin Nodes
      BY <1>1, NodesAssumption DEF Asleep, NoNode
    <2> QED
      BY <1>1, <2>1 DEF AlarmInv, ToldIsStored
  <1> QED
    BY <1>2, <1>3, <1>4

\* The invariant is inductive.
LEMMA NextInvariant ==
  ASSUME IInv, [Next]_vars
  PROVE  IInv'
  <1> USE DEF IInv
  <1>0. AdministrationTypeOK'
    BY NextTypes
  <1>1. CASE AccessMoves
    <2>1. AlarmInv'
      BY <1>1 DEF AccessMoves, alertVars, AlarmInv, ToldIsStored
    <2> QED
      BY <1>0, <1>1, <2>1, AccessAdmin, AccessFactor DEF AccessMoves
  <1>2. CASE AlertMoves
    <2>1. AdminInv'
      BY <1>2 DEF AlertMoves, accessVars, AdminInv
    <2>2. FactorInv'
      BY <1>2 DEF AlertMoves, accessVars, FactorInv, EnabledFactorIsProved, Does, Present
    <2> QED
      BY <1>0, <1>2, <2>1, <2>2, AlertAlarm DEF AlertMoves
  <1>3. CASE UNCHANGED <<accessVars, alertVars>>
    <2>1. AdminInv'
      BY <1>3 DEF accessVars, AdminInv
    <2>2. FactorInv'
      BY <1>3 DEF accessVars, FactorInv, EnabledFactorIsProved, Does, Present
    <2>3. AlarmInv'
      BY <1>3 DEF alertVars, AlarmInv, ToldIsStored
    <2> QED
      BY <1>0, <2>1, <2>2, <2>3
  <1>4. CASE Restart
    BY <1>0, <1>4, RestartInvariant
  <1>5. [Next]_vars => AccessMoves \/ AlertMoves \/ Restart \/ UNCHANGED <<accessVars, alertVars>>
    BY DEF Next, vars, AccessMoves, AlertMoves, Alerts
  <1> QED
    BY <1>1, <1>2, <1>3, <1>4, <1>5

\* The invariant holds in every reachable state.
LEMMA InvariantHolds == Spec => []IInv
  BY InitInvariant, NextInvariant, PTL DEF Spec

\* Whatever requests have interleaved, renamed, demoted and deleted before, only
\* one on a token that does not name its row takes the last administrator away.
THEOREM OneAdminRemainsHolds == Spec => OneAdminRemains
  <1> DEFINE Kept == Admins # {} /\ Admins' = {} =>
               \E w \in Workers :
                 /\ request[w].do \in {"update", "delete"} /\ request'[w] = Idle
                 /\ ~request[w].fresh \/ ~Current(request[w].by)
  <1>1. ASSUME IInv, [Next]_vars PROVE [Kept]_accessVars
    <2>1. CASE AccessMoves
      BY <1>1, <2>1, LastAdmin DEF AccessMoves, IInv
    <2>2. CASE UNCHANGED accessVars
      BY <2>2
    <2>3. CASE Restart
      BY <2>3 DEF Restart, AccessRestart, Admins
    <2> QED
      BY <1>1, <2>1, <2>2, <2>3 DEF Next, vars, AccessMoves
  <1> QED
    BY <1>1, InvariantHolds, PTL DEF Spec, OneAdminRemains

\* A second factor that is asked for is one the user has given a code of.
THEOREM EnabledFactorIsProvedHolds == Spec => []EnabledFactorIsProved
  <1>1. IInv => EnabledFactorIsProved
    BY DEF IInv, FactorInv, EnabledFactorIsProved
  <1> QED
    BY <1>1, InvariantHolds, PTL

\* The recipients believe of a node what is stored of it, unless the last
\* message about it was not delivered.
THEOREM ToldIsStoredHolds == Spec => []ToldIsStored
  <1>1. IInv => ToldIsStored
    BY DEF IInv, AlarmInv
  <1> QED
    BY <1>1, InvariantHolds, PTL
=============================================================================
