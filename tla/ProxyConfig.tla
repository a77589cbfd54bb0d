----------------------------- MODULE ProxyConfig -----------------------------
(***************************************************************************)
(* Frontends, backends and the certificates that SSL frontends load: the   *)
(* tables, the handlers that change them (app/routers/frontends.py,        *)
(* backends.py, delete_cert of certs.py) and the rules of                  *)
(* app/services/certmap.py.  One cluster.                                  *)
(*                                                                         *)
(* A frontend loads its own certificates and those of the backends it      *)
(* routes to, by the id of the default backend or by the name in a rule.   *)
(* A save request reads and checks, then commits the row, then commits the *)
(* certificate links: three steps of a worker thread, with other requests  *)
(* or the death of the application in between.  Deletions are one commit.  *)
(* A frontend has at most one rule here, with a condition.                 *)
(***************************************************************************)
EXTENDS Naturals, Sequences, FiniteSets, SequencesExt

CONSTANTS
  Frontends, Backends, Certs,   \* row ids, none is used twice
  Names,                        \* names of backends
  RuleNames,                    \* those a rule can mention
  Jobs,                         \* worker threads
  None,
  Unused, Gone,                 \* no row yet; row deleted
  Limit                         \* MAX_FRONTEND_CERTS (25 in the code)

VARIABLES
  fe,         \* fe[f]: row of table frontends, or Unused / Gone
  feLinks,    \* feLinks[f]: frontend_certs of f, by position
  be,         \* be[b]: the name of the backend, or Unused / Gone
  beLinks,    \* beLinks[b]: backend_certs of b
  certs,      \* rows of table certificates
  job,        \* job[j]: the request worker thread j has under way
  bereft,     \* history variable: frontends a deletion took the last certificate from
  overlapped, \* history variable: the latest request began while another was under
              \* way, or a deletion came between
  disturbed   \* history variable: frontends whose settings overlapping requests or
              \* one that stopped half way may have mixed, not saved alone since

tables == <<fe, feLinks, be, beLinks, certs>>
vars == <<tables, job, bereft, overlapped, disturbed>>

-----------------------------------------------------------------------------
(* Tables and what is read from them *)

FeRow == [ssl : BOOLEAN, default : Backends \cup {None},
          rule : RuleNames \cup {None}, cert : Certs \cup {None}]
CertLists == {s \in SeqOf(Certs, Cardinality(Certs)) : IsInjective(s)}

ASSUME ProxyAssumption ==
  /\ None \notin Backends \cup Certs \cup Names
  /\ Unused # Gone /\ {Unused, Gone} \cap (Names \cup FeRow) = {}
  /\ RuleNames \subseteq Names
  /\ Limit \in Nat \ {0}
  /\ IsFiniteSet(Certs)

\* A list without an element, the others staying in order.
Without(s, c) ==
  IF c \in Range(s) THEN RemoveAt(s, CHOOSE i \in DOMAIN s : s[i] = c) ELSE s

FeExists(f) == fe[f] \notin {Unused, Gone}
BeExists(b) == be[b] \notin {Unused, Gone}
SslFrontends == {f \in Frontends : FeExists(f) /\ fe[f].ssl}

\* frontend_cert_ids: rows of older versions know only frontends.cert_id.
OwnCerts(f) ==
  CASE feLinks[f] # <<>> -> feLinks[f]
    [] feLinks[f] = <<>> /\ FeExists(f) /\ fe[f].cert # None -> <<fe[f].cert>>
    [] OTHER -> <<>>

\* routed_backend_ids, given the names backends have.
Routed(default, rule, name) ==
  {b \in DOMAIN name : name[b] \notin {Unused, Gone} /\ (b = default \/ name[b] = rule)}

\* effective_cert_ids; nothing here depends on its order.
Effective(own, default, rule, name, links) ==
  Range(own) \cup UNION {links[b] : b \in Routed(default, rule, name)}

Loads(f) == Effective(OwnCerts(f), fe[f].default, fe[f].rule, be, beLinks)

\* generate_config refuses an SSL frontend with no certificate or too many.
Servable(f) == Cardinality(Loads(f)) \in 1..Limit

-----------------------------------------------------------------------------
(* Requests *)

Idle == [at |-> "idle"]
Busy(j) == job[j] # Idle

\* What comes while one of the requests of others is under way overlaps it.
Meets(others) ==
  /\ overlapped' = \E k \in others : Busy(k)
  /\ disturbed' = IF overlapped' THEN Frontends ELSE disturbed

\* _cert_ids: a list, or only a default certificate that older clients send.
RequestedCerts(f) ==
  CertLists \cup {<<c>> \o Without(OwnCerts(f), c) : c \in Certs}

\* mutant: only the frontend's own certificates are counted
FrontendAcceptsOwnOnly(ssl, default, rule, own) ==
  /\ default # None => BeExists(default)
  /\ Range(own) \subseteq certs
  /\ Len(own) <= Limit
  /\ ssl => Range(own) \cup UNION {beLinks[b] : b \in Routed(default, rule, be)} # {}

\* _validate of frontends.py.
FrontendAccepts(ssl, default, rule, own) ==
  /\ default # None => BeExists(default)
  /\ Range(own) \subseteq certs
  /\ Len(own) <= Limit
  /\ ssl => Cardinality(Effective(own, default, rule, be, beLinks)) \in 1..Limit

\* mutant: the check forgets that rules follow names
BackendKeepsNames(b, newName, newCerts) ==
  \A f \in SslFrontends :
    LET after == Effective(OwnCerts(f), fe[f].default, fe[f].rule,
                           be, [beLinks EXCEPT ![b] = newCerts])
    IN  /\ Loads(f) # {} => after # {}
        /\ Cardinality(after) > Limit => Cardinality(after) <= Cardinality(Loads(f))

\* backend_change_problems: no SSL frontend loses its last certificate or
\* grows beyond the limit.
NoChangeProblems(b, newName, newCerts) ==
  \A f \in SslFrontends :
    LET after == Effective(OwnCerts(f), fe[f].default, fe[f].rule,
                           [be EXCEPT ![b] = newName], [beLinks EXCEPT ![b] = newCerts])
    IN  /\ Loads(f) # {} => after # {}
        /\ Cardinality(after) > Limit => Cardinality(after) <= Cardinality(Loads(f))

\* _validate_certs of backends.py.
BackendAccepts(b, newName, newCerts) ==
  /\ newCerts \subseteq certs
  /\ Cardinality(newCerts) <= Limit
  /\ \A x \in Backends \ {b} : be[x] # newName
  /\ NoChangeProblems(b, newName, newCerts)

\* create_frontend and update_frontend up to their first write.  A request
\* that is refused ends here and changes nothing.
CheckFrontend(j, f) ==
  /\ ~Busy(j)
  /\ fe[f] # Gone
  /\ \E ssl \in BOOLEAN, default \in Backends \cup {None},
        rule \in RuleNames \cup {None}, own \in RequestedCerts(f) :
       /\ FrontendAccepts(ssl, default, rule, own)
       /\ job' = [job EXCEPT ![j] =
            [at |-> "fe_row", id |-> f, create |-> fe[f] = Unused, own |-> own,
             row |-> [ssl |-> ssl, default |-> default, rule |-> rule,
                      cert |-> IF own = <<>> THEN None ELSE own[1]]]]
  /\ Meets(Jobs \ {j})
  /\ UNCHANGED <<tables, bereft>>

\* create_backend and update_backend; without cert_ids the links stay.
CheckBackend(j, b) ==
  /\ ~Busy(j)
  /\ be[b] # Gone
  /\ \E name \in Names, new \in SUBSET Certs :
       /\ BackendAccepts(b, name, new)
       /\ job' = [job EXCEPT ![j] =
            [at |-> "be_row", id |-> b, create |-> be[b] = Unused, name |-> name, own |-> new]]
  /\ Meets(Jobs \ {j})
  /\ UNCHANGED <<tables, bereft>>

-----------------------------------------------------------------------------
(* The commits of a request.  Foreign keys are enforced: a statement that    *)
(* would refer to a row that is gone raises and ends the request, and so     *)
(* does any statement when the database stays locked.                        *)

Ends(j) == job' = [job EXCEPT ![j] = Idle]

\* What is mixed when a request stops between two commits: the frontend, or
\* whatever the backend has a part in.
Half(j) == IF job[j].at = "fe_links" THEN {job[j].id} ELSE Frontends
StopsHalfWay(j) == Ends(j) /\ disturbed' = disturbed \cup Half(j)

\* INSERT or UPDATE of the row.  An UPDATE of a row that is gone does nothing;
\* an id that another request has used meanwhile belongs to that one.
FrontendRow(j) ==
  /\ job[j].at = "fe_row"
  /\ LET r == job[j]
         keysExist == /\ r.row.cert \in certs \cup {None}
                      /\ r.row.default # None => BeExists(r.row.default)
     IN  \/ /\ keysExist
            /\ r.create => fe[r.id] = Unused
            /\ fe' = IF fe[r.id] = Gone THEN fe ELSE [fe EXCEPT ![r.id] = r.row]
            /\ job' = [job EXCEPT ![j].at = "fe_links"]
         \/ Ends(j) /\ UNCHANGED fe
  /\ UNCHANGED <<feLinks, be, beLinks, certs, bereft, overlapped, disturbed>>

\* A frontend is as its request wanted it, if that has met no other.
SavedWhole(f) ==
  /\ bereft' = bereft \ {f}
  /\ disturbed' = IF overlapped THEN disturbed ELSE disturbed \ {f}

\* mutant: PRAGMA foreign_keys is not set
FrontendLinksUnchecked(j) ==
  /\ job[j].at = "fe_links"
  /\ feLinks' = [feLinks EXCEPT ![job[j].id] = job[j].own]
  /\ fe' = IF FeExists(job[j].id) THEN [fe EXCEPT ![job[j].id].cert = job[j].row.cert] ELSE fe
  /\ SavedWhole(job[j].id)
  /\ Ends(j)
  /\ UNCHANGED <<be, beLinks, certs, overlapped>>

\* mutant: new links are added to the old ones
FrontendLinksAdded(j) ==
  /\ job[j].at = "fe_links"
  /\ FeExists(job[j].id) /\ Range(job[j].own) \subseteq certs
  /\ feLinks' = [feLinks EXCEPT ![job[j].id] =
       job[j].own \o SelectSeq(@, LAMBDA c : c \notin Range(job[j].own))]
  /\ SavedWhole(job[j].id)
  /\ Ends(j)
  /\ UNCHANGED <<fe, be, beLinks, certs, overlapped>>

\* save_frontend_certs: one transaction, with the mirror in frontends.cert_id.
FrontendLinks(j) ==
  /\ job[j].at = "fe_links"
  /\ LET r == job[j]
         keysExist == Range(r.own) \subseteq certs /\ (r.own # <<>> => FeExists(r.id))
     IN  \/ /\ keysExist
            /\ feLinks' = [feLinks EXCEPT ![r.id] = r.own]
            /\ fe' = IF FeExists(r.id) THEN [fe EXCEPT ![r.id].cert = r.row.cert] ELSE fe
            /\ SavedWhole(r.id)
            /\ Ends(j)
         \/ StopsHalfWay(j) /\ UNCHANGED <<fe, feLinks, bereft>>
  /\ UNCHANGED <<be, beLinks, certs, overlapped>>

\* The row and, statement by statement, its servers: a server name that the
\* request holds twice raises after the row is committed.
BackendRow(j) ==
  /\ job[j].at = "be_row"
  /\ LET r == job[j]
         unique == \A x \in Backends \ {r.id} : be[x] # r.name
     IN  \/ /\ unique
            /\ r.create => be[r.id] = Unused
            /\ be' = IF be[r.id] = Gone THEN be ELSE [be EXCEPT ![r.id] = r.name]
            /\ \/ job' = [job EXCEPT ![j].at = "be_links"] /\ UNCHANGED disturbed
               \/ StopsHalfWay(j)
         \/ Ends(j) /\ UNCHANGED <<be, disturbed>>
  /\ UNCHANGED <<fe, feLinks, beLinks, certs, bereft, overlapped>>

\* save_backend_certs.
BackendLinks(j) ==
  /\ job[j].at = "be_links"
  /\ LET r == job[j]
         keysExist == r.own \subseteq certs /\ (r.own # {} => BeExists(r.id))
     IN  \/ /\ keysExist
            /\ beLinks' = [beLinks EXCEPT ![r.id] = r.own]
            /\ Ends(j)
            /\ UNCHANGED disturbed
         \/ StopsHalfWay(j) /\ UNCHANGED beLinks
  /\ UNCHANGED <<fe, feLinks, be, certs, bereft, overlapped>>

-----------------------------------------------------------------------------
(* Deletions: one statement each, with ON DELETE CASCADE / SET NULL.  None   *)
(* of them asks what the frontends load afterwards.                          *)

\* The frontends that are left without a certificate by this step.
NewlyBereft == {f \in SslFrontends : Loads(f) # {} /\ Loads(f)' = {}}
DeletionHistory ==
  /\ bereft' = bereft \cup NewlyBereft
  /\ Meets(Jobs)

\* mutant: frontends.cert_id has no ON DELETE SET NULL
DeleteCertKeepingMirror(c) ==
  /\ c \in certs
  /\ certs' = certs \ {c}
  /\ feLinks' = [f \in Frontends |-> Without(feLinks[f], c)]
  /\ beLinks' = [b \in Backends |-> beLinks[b] \ {c}]
  /\ UNCHANGED <<fe, be, job>>
  /\ DeletionHistory

DeleteCert(c) ==
  /\ c \in certs
  /\ certs' = certs \ {c}
  /\ feLinks' = [f \in Frontends |-> Without(feLinks[f], c)]
  /\ beLinks' = [b \in Backends |-> beLinks[b] \ {c}]
  /\ fe' = [f \in Frontends |->
              IF FeExists(f) /\ fe[f].cert = c THEN [fe[f] EXCEPT !.cert = None] ELSE fe[f]]
  /\ UNCHANGED <<be, job>>
  /\ DeletionHistory

\* mutant: the row stays, without its name
DeleteBackendBlanking(b) ==
  /\ BeExists(b)
  /\ be' = [be EXCEPT ![b] = None]
  /\ beLinks' = [beLinks EXCEPT ![b] = {}]
  /\ UNCHANGED <<fe, feLinks, certs, job>>
  /\ DeletionHistory

DeleteBackend(b) ==
  /\ BeExists(b)
  /\ be' = [be EXCEPT ![b] = Gone]
  /\ beLinks' = [beLinks EXCEPT ![b] = {}]
  /\ fe' = [f \in Frontends |->
              IF FeExists(f) /\ fe[f].default = b THEN [fe[f] EXCEPT !.default = None] ELSE fe[f]]
  /\ UNCHANGED <<feLinks, certs, job>>
  /\ DeletionHistory

DeleteFrontend(f) ==
  /\ FeExists(f)
  /\ fe' = [fe EXCEPT ![f] = Gone]
  /\ feLinks' = [feLinks EXCEPT ![f] = <<>>]
  /\ bereft' = bereft \ {f}
  /\ Meets(Jobs)
  /\ UNCHANGED <<be, beLinks, certs, job>>

\* The application dies with requests between two commits.
Crash ==
  /\ \E j \in Jobs : Busy(j)
  /\ job' = [j \in Jobs |-> Idle]
  /\ disturbed' = disturbed \cup
       UNION {Half(j) : j \in {k \in Jobs : job[k].at \in {"fe_links", "be_links"}}}
  /\ UNCHANGED <<tables, bereft, overlapped>>

\* A new installation, or one whose frontends come from an older version.
Init ==
  /\ fe \in [Frontends -> {Unused} \cup
               {[ssl |-> TRUE, default |-> None, rule |-> None, cert |-> c] : c \in Certs}]
  /\ feLinks = [f \in Frontends |-> <<>>]
  /\ be = [b \in Backends |-> Unused]
  /\ beLinks = [b \in Backends |-> {}]
  /\ certs = Certs
  /\ job = [j \in Jobs |-> Idle]
  /\ bereft = {}
  /\ overlapped = FALSE
  /\ disturbed = {}

Next ==
  \/ \E j \in Jobs :
       \/ \E f \in Frontends : CheckFrontend(j, f)
       \/ \E b \in Backends : CheckBackend(j, b)
       \/ FrontendRow(j) \/ FrontendLinks(j) \/ BackendRow(j) \/ BackendLinks(j)
  \/ \E c \in Certs : DeleteCert(c)
  \/ \E b \in Backends : DeleteBackend(b)
  \/ \E f \in Frontends : DeleteFrontend(f)
  \/ Crash

Spec == Init /\ [][Next]_vars

-----------------------------------------------------------------------------
(* Properties *)

AtRest == \A j \in Jobs : ~Busy(j)

TypeOK ==
  /\ fe \in [Frontends -> FeRow \cup {Unused, Gone}]
  /\ feLinks \in [Frontends -> CertLists]
  /\ be \in [Backends -> Names \cup {Unused, Gone}]
  /\ beLinks \in [Backends -> SUBSET Certs]
  /\ certs \subseteq Certs
  /\ \A j \in Jobs : job[j].at \in {"idle", "fe_row", "fe_links", "be_row", "be_links"}
  /\ bereft \subseteq Frontends /\ disturbed \subseteq Frontends
  /\ overlapped \in BOOLEAN

\* However requests interleave, the tables refer only to rows that exist: a
\* certificate or backend deleted between the check and the commits of another
\* request does not come back as a dangling link.
NoDanglingReference ==
  /\ \A f \in Frontends :
       /\ Range(feLinks[f]) \subseteq certs
       /\ feLinks[f] # <<>> => FeExists(f)
       /\ FeExists(f) =>
            /\ fe[f].cert \in certs \cup {None}
            /\ fe[f].default # None => BeExists(fe[f].default)
  /\ \A b \in Backends : beLinks[b] \subseteq certs /\ (beLinks[b] # {} => BeExists(b))

\* However requests interleave, the own certificates of a frontend are one
\* list within the limit, never two lists on top of each other; no two
\* backends have one name.
OwnListsWithinLimit ==
  /\ \A f \in Frontends : Len(feLinks[f]) <= Limit
  /\ \A a, b \in Backends : BeExists(a) /\ be[a] = be[b] => a = b

\* Whatever has overlapped or stopped half way before: no change lets an SSL
\* frontend that has been saved alone since load more certificates than a bind
\* line holds, through its own list, a backend's list, a rename or a new backend
\* that a rule was waiting for.
LimitKept ==
  AtRest => \A f \in SslFrontends \ disturbed : Cardinality(Loads(f)) <= Limit

\* ... and only the deletion of a certificate or backend takes the last
\* certificate of such a frontend: no save does.
LastCertOnlyLostByDeletion ==
  AtRest => \A f \in SslFrontends \ disturbed : Loads(f) = {} => f \in bereft

\* ... and its frontends.cert_id never contradicts its links: it is the first
\* linked certificate, or nothing.
MirrorAgrees ==
  AtRest =>
    \A f \in Frontends \ disturbed : feLinks[f] # <<>> => fe[f].cert \in {None, feLinks[f][1]}
=============================================================================
