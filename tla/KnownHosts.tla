----------------------------- MODULE KnownHosts -----------------------------
(***************************************************************************)
(* The host keys of app/services/sshclient.py (_VerifyHostKey): each       *)
(* connection loads the file known_hosts, which has an entry for each host *)
(* and type of key (ssh-ed25519, ssh-rsa, ...).  It accepts the key of an  *)
(* entry, refuses another key of that host and type, and adds an entry     *)
(* that is not there, the host's other entries notwithstanding, by writing *)
(* the whole file anew.  Connections are made by request threads and loops *)
(* at the same time, and nothing locks the file.                           *)
(***************************************************************************)
CONSTANTS
  Visitors,  \* threads that connect
  Hosts, Types,
  Entries,   \* hosts, each with the types of key it may identify itself by
  Keys,      \* keys of one type
  NoKey      \* there is no such entry

ASSUME KeyAssumption ==
  /\ NoKey \notin Keys /\ Keys # {}
  /\ Entries \subseteq Hosts \X Types /\ Entries # {}

VARIABLES
  known,      \* the file: the key of each entry
  visit,      \* visit[v]: what missing_host_key does for thread v
  first,      \* history variable: the first key accepted for each entry
  disturbed   \* history variable: entries whose first visits overlapped; all of them
              \* once the file was read, or the application died, during a save

hostVars == <<known, visit, first, disturbed>>

Tables == [Entries -> Keys \cup {NoKey}]
Empty == [e \in Entries |-> NoKey]
Verdicts == {"trusted", "rejected"}
Visit == [at : {"idle", "load", "compare", "open", "write"} \cup Verdicts,
          entry : Entries, key : Keys, table : Tables]

\* The entry and key of a thread that visits none do not matter.
Idle == [at |-> "idle", entry |-> CHOOSE e \in Entries : TRUE,
         key |-> CHOOSE k \in Keys : TRUE, table |-> Empty]

InVisit(v, step) == visit[v].at = step
\* Between its load of the file and the end of its save.
Exposed(v) == visit[v].at \in {"compare", "open", "write"}
\* It has not found its entry in the file.
Novel(v) == Exposed(v) /\ visit[v].table[visit[v].entry] = NoKey
\* The entries that may get lost when v loads the file as it is now.
Endangered(v) ==
  LET rivals == {w \in Visitors \ {v} : Novel(w)}
  IN IF \E w \in Visitors : InVisit(w, "write") THEN Entries
     ELSE IF known[visit[v].entry] # NoKey \/ rivals = {} THEN {}
     ELSE {visit[w].entry : w \in rivals \cup {v}}
\* The key of v is accepted.
Accept(v) == first' = [first EXCEPT ![visit[v].entry] = IF @ = NoKey THEN visit[v].key ELSE @]

\* There is no file at the first start.
HostInit ==
  /\ known = Empty
  /\ visit = [v \in Visitors |-> Idle]
  /\ first = Empty
  /\ disturbed = {}

\* A connection to a host, which identifies itself by a key of one of its types;
\* paramiko asks the policy each time, for no other known_hosts is ever loaded.
Arrive(v) ==
  /\ visit[v].at \in {"idle"} \cup Verdicts
  /\ \E e \in Entries, k \in Keys :
       visit' = [visit EXCEPT ![v] = [at |-> "load", entry |-> e, key |-> k, table |-> Empty]]
  /\ UNCHANGED <<known, first, disturbed>>

\* mutant: the file is not loaded before it is written anew
LoadNothing(v) ==
  /\ InVisit(v, "load")
  /\ visit' = [visit EXCEPT ![v].at = "compare"]
  /\ UNCHANGED <<known, first, disturbed>>

Load(v) ==
  /\ InVisit(v, "load")
  /\ visit' = [visit EXCEPT ![v].at = "compare", ![v].table = known]
  /\ disturbed' = disturbed \cup Endangered(v)
  /\ UNCHANGED <<known, first>>

Compare(v) ==
  /\ InVisit(v, "compare")
  /\ LET stored == visit[v].table[visit[v].entry]
         verdict == IF stored = NoKey THEN "open"
                    ELSE IF stored = visit[v].key THEN "trusted" ELSE "rejected"
     IN /\ visit' = [visit EXCEPT ![v].at = verdict,
                                  ![v].table = IF verdict = "open" THEN @ ELSE Empty]
        /\ IF verdict = "trusted" THEN Accept(v) ELSE UNCHANGED first
  /\ UNCHANGED <<known, disturbed>>

\* HostKeys.save opens the file for writing, which empties it ...
Open(v) ==
  /\ InVisit(v, "open")
  /\ known' = Empty
  /\ visit' = [visit EXCEPT ![v].at = "write"]
  /\ UNCHANGED <<first, disturbed>>

\* ... and writes what was loaded, and the new key.
Write(v) ==
  /\ InVisit(v, "write")
  /\ known' = [visit[v].table EXCEPT ![visit[v].entry] = visit[v].key]
  /\ visit' = [visit EXCEPT ![v].at = "trusted", ![v].table = Empty]
  /\ Accept(v)
  /\ UNCHANGED disturbed

VerifyHostKey(v) == Load(v) \/ Compare(v) \/ Open(v) \/ Write(v)

\* The application dies.
HostCrash ==
  /\ disturbed' = IF \E v \in Visitors : InVisit(v, "write") THEN Entries ELSE disturbed
  /\ visit' = [v \in Visitors |-> Idle]
  /\ UNCHANGED <<known, first>>

-----------------------------------------------------------------------------
HostTypeOK ==
  /\ known \in Tables /\ first \in Tables
  /\ visit \in [Visitors -> Visit]
  /\ disturbed \subseteq Entries

\* "TOFU: bekannte Keys akzeptieren, neue speichern, geänderte ablehnen": no two
\* keys of one type are ever accepted for one host, over any number of visits and
\* restarts and whatever other visits overlap, unless its own first visit with
\* that type overlapped that of another entry or a save was read or cut short
\* half way.
OneKeyPerType ==
  \A v \in Visitors :
    InVisit(v, "trusted") /\ visit[v].entry \notin disturbed => visit[v].key = first[visit[v].entry]

\* What the wiki says: "Ändert sich der Key später, wird die Verbindung mit einer
\* MITM-Warnung blockiert".  Whoever is trusted as a host has the type of key
\* that was first accepted for it, also where no visit was disturbed.
OneKeyPerHost ==
  \A v \in Visitors, e \in Entries :
    InVisit(v, "trusted") /\ disturbed = {} /\ e[1] = visit[v].entry[1] /\ first[e] # NoKey
      => e = visit[v].entry
=============================================================================
