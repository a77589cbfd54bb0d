------------------------------- MODULE Access -------------------------------
(***************************************************************************)
(* Users (app/routers/users.py, app/auth.py, app/services/totp.py): their  *)
(* names and roles, the tokens that carry both from the login until they   *)
(* expire, and the second factor.  Requests read, then write, on worker    *)
(* threads, with the steps of other requests in between.                   *)
(*                                                                         *)
(* Roles viewer and operator are one; passwords, audit rows and the        *)
(* counter of failed logins are left out.                                  *)
(***************************************************************************)
EXTENDS Database

CONSTANTS
  Accounts,   \* rows of table users, one after the other
  First,      \* the one seed_admin creates
  Names,
  FirstName

ASSUME AccessAssumption == First \in Accounts /\ FirstName \in Names

VARIABLES
  users,    \* users[u]: name and role; role "none" before creation, "deleted" after deletion
  mfa,      \* mfa[u]: columns totp_secret (set or not) and totp_enabled, and a
            \* history variable: a code of the present secret has been given
  tokens,   \* tokens issued and not expired
  request,  \* request[w]: what worker w has read and is about to write; fresh (a
            \* history variable): its token was then name and role of a row
  crossed   \* history variable: users whose secret was last replaced while a code
            \* for it was checked

accessVars == <<users, mfa, tokens, request, crossed>>

-----------------------------------------------------------------------------
Roles == {"operator", "admin"}
Token == [id : Accounts, name : Names, role : Roles]
\* An API token, or a user of the LDAP directory.
Outsider == [id |-> NoOne, name |-> NoOne, role |-> "admin"]
NoMfa == [secret |-> FALSE, enabled |-> FALSE, proved |-> FALSE]
Idle == [do |-> "idle"]
Requests ==
  {Idle} \cup [do : {"update"}, by : Token \cup {Outsider}, on : Accounts, role : Roles, fresh : BOOLEAN]
         \cup [do : {"delete"}, by : Token \cup {Outsider}, on : Accounts, fresh : BOOLEAN]
         \cup [do : {"confirm"}, on : Accounts]

Present(u) == users[u].role \in Roles
Admins == {u \in Accounts : users[u].role = "admin"}
Taken(n) == \E u \in Accounts : Present(u) /\ users[u].name = n
Row(u) == [id |-> u, name |-> users[u].name, role |-> users[u].role]
Current(t) == t # Outsider /\ Row(t.id) = t
Administrators == {t \in tokens : t.role = "admin"} \cup {Outsider}
Own(t, u) == t # Outsider /\ users[u].name = t.name
Does(w, what) == request[w].do = what
\* A request that reads on a stale connection comes to nothing: see Refused.
Starts(w, r) ==
  /\ Does(w, "idle") /\ ~Stale(w)
  /\ Reads(w)
  /\ request' = [request EXCEPT ![w] = r]
Done(w) == request' = [request EXCEPT ![w] = Idle]

AccessInit ==
  /\ users = [u \in Accounts |->
       [name |-> FirstName, role |-> IF u = First THEN "admin" ELSE "none"]]
  /\ mfa = [u \in Accounts |-> NoMfa]
  /\ tokens = {}
  /\ request = [w \in Workers |-> Idle]
  /\ crossed = {}

\* POST /auth/login; its audit row is committed before the token is returned.
Login(w) ==
  /\ Does(w, "idle")
  /\ Commit(w)
  /\ \E u \in Accounts : Present(u) /\ tokens' = tokens \cup {Row(u)}
  /\ UNCHANGED <<users, mfa, request, crossed>>

Expire ==
  /\ \E t \in tokens : tokens' = tokens \ {t}
  /\ UNCHANGED <<users, mfa, request, crossed, dbVars>>

\* Any request that only reads.
Look(w) ==
  /\ Does(w, "idle")
  /\ Reads(w)
  /\ UNCHANGED accessVars

\* Any request that reads and writes here in one step and is locked out, or whose
\* reading was stale: an exception, and nothing of it is done.
Refused(w) ==
  /\ Does(w, "idle")
  /\ LockedOut(w)
  /\ UNCHANGED accessVars

\* External: worker threads that are idle for a while end.
WorkerEnds(w) ==
  /\ Does(w, "idle")
  /\ ThreadEnds(w)
  /\ UNCHANGED accessVars

-----------------------------------------------------------------------------
(* Administration *)

\* mutant: the role is not compared with ROLE_LEVEL
CreateUserUnchecked(w) ==
  /\ Does(w, "idle")
  /\ Commit(w)
  /\ \E u \in Accounts, n \in Names, r \in Roles \cup {"root"} :
       /\ users[u].role = "none" /\ ~Taken(n)
       /\ users' = [users EXCEPT ![u] = [name |-> n, role |-> r]]
  /\ UNCHANGED <<mfa, tokens, request, crossed>>

\* A name that is taken violates its constraint.
CreateUser(w) ==
  /\ Does(w, "idle")
  /\ \E u \in Accounts, n \in Names, r \in Roles :
       /\ users[u].role = "none"
       /\ \/ ~Taken(n) /\ Commit(w) /\ users' = [users EXCEPT ![u] = [name |-> n, role |-> r]]
          \/ Taken(n) /\ Violate(w) /\ UNCHANGED users
  /\ UNCHANGED <<mfa, tokens, request, crossed>>

ReadUpdate(w) ==
  /\ \E t \in Administrators, u \in Accounts, r \in Roles :
       /\ Present(u)
       /\ ~(Own(t, u) /\ r # "admin")
       /\ Starts(w, [do |-> "update", by |-> t, on |-> u, role |-> r, fresh |-> Current(t)])
  /\ UNCHANGED <<users, mfa, tokens, crossed>>

\* An UPDATE, of no row if the user is gone.
WriteUpdate(w) ==
  /\ Does(w, "update")
  /\ LET u == request[w].on
     IN \E n \in Names :
          LET taken == Taken(n) /\ users[u].name # n
          IN \/ /\ Commit(w)
                /\ Present(u) => ~taken
                /\ users' = IF Present(u)
                              THEN [users EXCEPT ![u] = [name |-> n, role |-> request[w].role]]
                              ELSE users
             \/ Present(u) /\ taken /\ Violate(w) /\ UNCHANGED users
             \/ LockedOut(w) /\ UNCHANGED users
  /\ Done(w)
  /\ UNCHANGED <<mfa, tokens, crossed>>

\* mutant: one's own user can be deleted
ReadDeleteAny(w) ==
  /\ \E t \in Administrators, u \in Accounts :
       /\ Present(u)
       /\ Starts(w, [do |-> "delete", by |-> t, on |-> u, fresh |-> Current(t)])
  /\ UNCHANGED <<users, mfa, tokens, crossed>>

ReadDelete(w) ==
  /\ \E t \in Administrators, u \in Accounts :
       /\ Present(u)
       /\ ~Own(t, u)
       /\ Starts(w, [do |-> "delete", by |-> t, on |-> u, fresh |-> Current(t)])
  /\ UNCHANGED <<users, mfa, tokens, crossed>>

WriteDelete(w) ==
  /\ Does(w, "delete")
  /\ LET u == request[w].on
     IN \/ /\ Commit(w)
           /\ users' = [users EXCEPT ![u] = [name |-> FirstName, role |-> "deleted"]]
           /\ mfa' = [mfa EXCEPT ![u] = NoMfa]
        \/ LockedOut(w) /\ UNCHANGED <<users, mfa>>
  /\ Done(w)
  /\ UNCHANGED <<tokens, crossed>>

-----------------------------------------------------------------------------
(* The second factor of one's own user; a row that is gone is not updated. *)

Replace(u, value) == mfa' = IF Present(u) THEN [mfa EXCEPT ![u] = value] ELSE mfa
Renewed(u) ==
  IF \E w \in Workers : Does(w, "confirm") /\ request[w].on = u
    THEN crossed \cup {u} ELSE crossed \ {u}

\* mutant: a new secret leaves the factor enabled
SetupKeeping(w) ==
  /\ Does(w, "idle")
  /\ Commit(w)
  /\ \E t \in tokens : /\ Replace(t.id, [mfa[t.id] EXCEPT !.secret = TRUE, !.proved = FALSE])
                       /\ crossed' = Renewed(t.id)
  /\ UNCHANGED <<users, tokens, request>>

Setup(w) ==
  /\ Does(w, "idle")
  /\ Commit(w)
  /\ \E t \in tokens : /\ Replace(t.id, [NoMfa EXCEPT !.secret = TRUE])
                       /\ crossed' = Renewed(t.id)
  /\ UNCHANGED <<users, tokens, request>>

\* A right code for the secret there is.
ReadConfirm(w) ==
  /\ \E t \in tokens : /\ Present(t.id) /\ mfa[t.id].secret
                       /\ Starts(w, [do |-> "confirm", on |-> t.id])
                       /\ mfa' = [mfa EXCEPT ![t.id].proved = TRUE]
  /\ UNCHANGED <<users, tokens, crossed>>

WriteConfirm(w) ==
  /\ Does(w, "confirm")
  /\ \/ Commit(w) /\ Replace(request[w].on, [mfa[request[w].on] EXCEPT !.enabled = TRUE])
     \/ LockedOut(w) /\ UNCHANGED mfa
  /\ Done(w)
  /\ UNCHANGED <<users, tokens, crossed>>

\* With a right code, if the factor is enabled: what it reads first decides only
\* whether it writes.
Disable(w) ==
  /\ Does(w, "idle")
  /\ Commit(w)
  /\ \E t \in tokens : Replace(t.id, NoMfa) /\ crossed' = Renewed(t.id)
  /\ UNCHANGED <<users, tokens, request>>

\* The application dies and starts again; tokens stay valid.
AccessRestart ==
  /\ request' = [w \in Workers |-> Idle]
  /\ UNCHANGED <<users, mfa, tokens, crossed>>

AccessStep ==
  \/ Expire
  \/ \E w \in Workers :
       \/ Look(w) \/ Refused(w) \/ WorkerEnds(w)
       \/ Login(w) \/ CreateUser(w) \/ ReadUpdate(w) \/ WriteUpdate(w)
       \/ ReadDelete(w) \/ WriteDelete(w)
       \/ Setup(w) \/ ReadConfirm(w) \/ WriteConfirm(w) \/ Disable(w)

-----------------------------------------------------------------------------
AccessTypeOK ==
  /\ users \in [Accounts -> [name : Names, role : Roles \cup {"none", "deleted"}]]
  /\ mfa \in [Accounts -> [secret : BOOLEAN, enabled : BOOLEAN, proved : BOOLEAN]]
  /\ tokens \subseteq Token
  /\ request \in [Workers -> Requests]
  /\ crossed \subseteq Accounts

\* "Die eigene Admin-Rolle kann nicht entzogen werden", "Der eigene Benutzer
\* kann nicht gelöscht werden": whatever sequence and interleaving of changes,
\* renames among them, has come before, only a request whose token was not name
\* and role of a row when it read or when it wrote takes the last administrator
\* away.  Tokens from before a rename or demotion, API tokens and LDAP users are
\* not held to the comparison of names.
OneAdminRemains ==
  [][Admins # {} /\ Admins' = {} =>
       \E w \in Workers :
         /\ request[w].do \in {"update", "delete"} /\ request'[w] = Idle
         /\ ~request[w].fresh \/ ~Current(request[w].by)]_accessVars

\* A second factor that is asked for at the login is one whose code the user
\* has given; unless its secret was last replaced during a confirmation.
EnabledFactorIsProved ==
  \A u \in Accounts \ crossed : mfa[u].enabled => mfa[u].secret /\ mfa[u].proved
=============================================================================
