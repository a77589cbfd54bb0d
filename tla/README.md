# Formal models of HAProxy-GUI

HAProxy-GUI is a web application (FastAPI, SQLite, threads) that keeps the
configuration of HAProxy clusters in a database, writes it to nodes over SSH,
obtains certificates with `lego` and distributes them. These modules model the
parts of it where steps of several actors, failures and restarts meet, state
what must hold, let TLC check it on small instances and let TLAPS prove
almost all of what is not liveness for instances of any size.

Paths below are relative to the repository (`app/...`) unless they end in
`.tla` or `.cfg`.

## 1. Inventory

| Component | State | Operations | What is hard |
|---|---|---|---|
| Deployment (`app/services/deploy.py`, `routers/versions.py`, `routers/clusters.py`) | files on the node: `config_path`, `.new`, `.bak`, `cert_dir`; the HAProxy process; table `config_versions` | deploy, validate only, rollback to a version | many commands per request, each may fail or time out after it was executed; fixed file names shared by requests that nothing serialises; rollback; death of the application |
| Frontends, backends, certificate rules (`routers/frontends.py`, `routers/backends.py`, `services/certmap.py`) | tables `frontends`, `frontend_certs`, `backends`, `backend_certs`, `servers` | create, change, delete | check, then two or more commits; inheritance of certificates through ids and through names in rules; a mirrored column |
| ACME certificates (`services/certs.py`, `routers/certs.py`) | table `certificates`, `ACME_DIR/certificates`, copies on nodes | create, renew, deliver, delete; renewal loop | threads without mutual exclusion, certificate and key read and written apart, restart without recovery |
| Manual DNS (`services/certs.py` 312-448) | records and confirmation file per certificate | issue, show challenge, confirm | a shell hook, a user and two timeouts |
| Imported certificates (`services/certimport.py`) | table `imported_certificates` | import, replace | parsing; one transaction |
| SSH (`services/sshclient.py`) | one connection per command, `known_hosts` | run, write file through a shell script or by SFTP | a timer thread that closes the connection under the loop that reads the result; a script that runs on after it; threads that load, extend and save the host keys |
| Database (`db.py`) | one connection per thread, WAL | `q`, `one`, `execute`, `init_db` | a failed statement leaves its transaction open: the write lock stays taken, or the thread goes on reading what is old and can no longer write |
| Config generator (`services/configgen.py`) | none | `generate_config` | refuses the whole cluster for one bad frontend |
| Alerting (`services/alerting.py`) | table `alert_state`, settings | probe loop, send, deploy alarm | state stored before the alarm is sent; an exception ends the check for all nodes |
| Access (`auth.py`, `routers/users.py`, `totp.py`, `ldapsvc.py`) | users, tokens, failed logins | login, roles, TOTP | roles frozen in tokens, requests that read and then write, two administrators |
| Keepalived (`services/keepalived.py`) | tables, `keepalived.conf` | save, deploy | several commits; a file written and loaded without validation |
| Runtime socket, statistics, metrics, logs, tools | none | reads, single commands | - |
| Web interface, container | none the server relies on | - | - |

How they interact: a request runs in a worker thread of its own. It reads and
writes the database through that thread's connection, one commit per
`db.execute`. A deployment reads the certificate rules (through the generator)
and the certificate files, and sends commands over SSH. A finished issuance
delivers the files over SSH itself. The renewal loop and the alarm loop run
beside the requests, in the event loop, and call blocking code in threads. No
lock is held anywhere: what keeps actors apart is SQLite's transactions and the
atomicity of single file operations.

What makes each part correct:

* Deployment: only validated texts get live; a failure leaves the old text or
  the new one; what is reported as done is done; the history tells the truth;
  every request ends.
* Certificate rules: every SSL frontend can be loaded; no change breaks that;
  no dangling links, whatever interleaves.
* Certificates: an active one has its files; a status tells who is at work; a
  node has a certificate together with its own key; renewal happens.
* Manual DNS: what is shown belongs to the attempt at work; a hook goes on only
  with its record published; every attempt ends and says so in the status.
* SSH: a file is replaced as a whole and at most once per call; a call that
  returns or is refused says the truth about it; a timeout is never taken for a
  result; every call ends; one key per host and type of key.
* Access: an administrator is left; a second factor is one the user can answer.
* Alerting: what the recipients believe is what is stored; a node that stays
  down is reported.

## 2. Modules

| Module | Models | State and actions |
|---|---|---|
| `AtomicDeploy` | what a deployment promises | `live`, `running`, `found`; `Begin`, `Activate`, `Undo`, `Load` |
| `Deploy` | `deploy_node` on one node | files `live`, `new`, `bak`, `certs`; `running`; `versions`; per job `pc`, `mode`, `cfg`. One action per command: `Prepare`, `Upload`, `Check`, `Discard`, `Backup`, `Replace`, `Reload`, `Restore`, `ReloadBack`, `Record`, `Prune`, `Lost` (the answer), and `Request`, `Crash`; `orphan`: processes of the node that have outlived their request, one `Late...` action per command |
| `DeploySerial` | the same with one request at a time, by any of the threads, begun when nothing is left of the one before | `SerialSpec`; refinement to `AtomicDeploy` |
| `DeployProofs`, `DeploySerialProofs` | proofs | |
| `ProxyConfig` | frontends, backends, their certificates | tables as functions from row ids; per job a request between its commits. `CheckFrontend`, `FrontendRow`, `FrontendLinks`, `CheckBackend`, `BackendRow`, `BackendLinks`, `DeleteCert`, `DeleteBackend`, `DeleteFrontend`, `Crash` |
| `CertLifecycle` | one ACME certificate | row (`status`, `auto`, `recorded`), files (`disk`), copies on a node (`node`) and uploads left there (`late`), the renewal loop, per thread what it is doing. `issue()` is `Start` ... `Activate` / `Fail`, `deploy_cert()` is `ReadCrt` ... `PutPem` / `BreaksOff` / `Lost`, an upload that was given up `Lands` or `Dies`, deletion is `DropFiles`, `DropRow` |
| `ManualDns` | the manual DNS challenge of one certificate | status, the two files (`records`, `confirm`), what the user has seen and published, per thread an attempt. `_issue_manual()` is `Clean`, `Mark`, `Truncate`, then lego and its hook (`Present`, `Release`, `GiveUp`, `Succeed`, `LegoFails`, `Kill`), then `Read`, `Activate` or `Fail`, `Discard`; the interface is `Show`, `Confirm`, the user `Publish` |
| `AtomicWrite` | what writing a file on a node promises | `target`, `installed`, `answer`; `Install`, `Answer`, `Abort` |
| `SshWrite` | `_exec_ssh` with `ssh_write`'s script; `sftp_write` | per call the client's loop, the timer, the connection, the script; one action per step of each. Refinement to `AtomicWrite` |
| `KnownHosts` | `_VerifyHostKey` | the file, with an entry per host and type of key; per thread a visit: `Load`, `Compare`, `Open`, `Write` |
| `Transport` | `SshWrite` and `KnownHosts` composed | a call first has its host verified; other threads connect beside it |
| `Database` | `q`, `one`, `execute()` and the connections they use | `lock`, per thread `conn`: no transaction, or one that is open, has pinned what it reads, or is stale; `Reads`, `Commit`, `Violate`, `LockedOut`, `ThreadEnds` |
| `Access` | users, tokens, second factor | tables and tokens, per worker what it has read and is about to write (`Read...`, `Write...`); `Look`, `Refused` and `WorkerEnds` are what other requests and the end of a thread do to its connection |
| `Alerting` | OFFLINE / ONLINE alarms | stored state, the check under way and the pool thread it runs on (`Probe`, `Unchanged`, `Store`, `StoreFails`, `Send`), what the recipients believe; `PoolWorks`: what else uses the pool's connections |
| `Administration` | `Access` and `Alerting` on one `Database` | the write lock and the commits are what they share; `Restart` |
| `ProxyConfigProofs`, `CertLifecycleProofs`, `ManualDnsProofs`, `TransportProofs`, `TimeoutProofs`, `AdministrationProofs` | proofs | |
| `MC*` | instances for TLC | |

Conventions. A step of the model is what another actor can come between: a
command sent to a node, a commit, a read of a file. A configuration text or a
certificate is a model value or a number; `Valid` are the texts `haproxy -c`
accepts. Variables called *history variable* in their declaration change nothing
and only let a property say "since the request began" or "as long as requests
do not overlap". Definitions with a comment "mutant: ..." are not part of any
specification: each is the definition below it with a plausible mistake, and
shows that a property would notice it.

How `Deploy` sees the node. There are three kinds of nodes: remote with a
reload command that reports its outcome, remote with the signal SIGUSR2, and
local. A remote command may fail, or its answer may not come in time (`Lost`);
then `deploy_node` ends in its outermost handler, without rollback, and the
process on the node is left to itself: it does its work at once, late, half way
(`cp`) or not at all, whatever other requests do meanwhile. `mv`
and the upload of `ssh_write` replace a file at once; `cp` and the local write
may leave it `Partial`. Validation is a property of the text, and `haproxy -c`
may also refuse a valid text (a file it names may be missing). The certificates
are one bundle, complete or `Partial`.

How `ProxyConfig` sees the tables. Ids are never used twice (AUTOINCREMENT). A
frontend has at most one rule, with a condition. A commit that would refer to a
deleted row raises (`PRAGMA foreign_keys`), and any commit may raise because the
database stays locked; both end the request where it is. The initial states
include frontends of older versions, which have only `frontends.cert_id`.

How `CertLifecycle` sees certificates. They are counted by generation; `aged`
is the last generation with less than 30 days left. `lego renew` does nothing
before that. Two threads may issue one certificate at the same time, and do in
most states TLC visits. Provider settings may raise (`SettingsRaise`: a value
that is no string), which ends the thread and leaves the status. Assumed of
lego: it stores `.crt` and `.key` together, and is not killed by its limit of
900 seconds between its two writes.

How `ManualDns` sees lego and the user. lego, the CA and the user are external:
lego asks for a record of any of the domains, in any order, and stores a
certificate only if all it asked for is published; the user publishes what is
shown, at any time or never. That a confirmation comes only when everything
shown is published is an assumption about the user. Seconds are not counted, but
the order of the limits is: two hooks of one attempt cannot both wait their 1200
seconds, for lego is killed after 1300.

How `Transport` sees the other side. Output and exit status arrive separately
and in either order; the network breaks at any time; the timer's three steps
(note the progress, set the event, close the connection) come between any two
steps of the loop. A script whose connection is gone may run on to its end, or
die at any command. An SFTP request is answered, refused, or not answered in
time, executed or not. A file's content is whose data it is and how many blocks
of it. paramiko, the shell and the SFTP server are external in the map. Assumed
of the node: nobody else sends the script a signal while its connection is up
(`trap 'exit 1'`, `sshclient.py` 301, would turn one that comes right after the
`mv` into status 1, though the file is installed). A script that a signal ends
without a status is a broken connection after which the script dies. A host has
a key of each of its types; `missing_host_key` compares within one type only.

How `Administration` sees the database. Before a statement that writes, sqlite3
begins a transaction, and `execute()` rolls back none that fails. After a
violated constraint the connection keeps the write lock, so that every other
thread's write raises ("database is locked") until that thread writes again or
ends. The locked-out thread's transaction stays open, too: its next `SELECT`
pins what it reads, and as soon as another thread has committed the thread reads
what is old, and each of its writes raises at once, with nobody keeping the
lock, until the thread ends. Worker threads end when they have been idle;
those of `asyncio.to_thread`, on which the checks of the nodes run, do not. Each
check runs on any of them. The lock is kept by worker threads only: what runs on
the pool violates no constraint. A request that reads on a stale connection and
then writes comes to nothing (`Refused`). `totp.py`'s code is right or wrong; a
request with a wrong one changes nothing. The other modules take "the database
is locked" for an event of one statement: a stale connection there leads to
writes that raise, which may happen to any of them anyway, or to a deployment of
an older text, and `Deploy` lets a request deploy any text.

Conditions in properties. A history variable excuses what the code does not
promise, and each is set by exactly that and reset as soon as the code has made
up for it, so that a property says something again after the overlap, the
failure or the restart that it excuses:

* `overlapped` (`Deploy`, `CertLifecycle`, `ManualDns`): another request or
  thread was under way when the latest one began, in `Deploy` also a command, in
  `CertLifecycle` an upload, that an earlier one had given up on. The next one
  that begins alone resets it: its properties hold whatever its predecessors
  have left.
* `suspect` (`Deploy`): `config_path` was last written by overlapping requests
  (or such a command), by a rollback to a backup of such a text, or by a copy
  that broke. `strays`: the texts that overlapping requests recorded.
* `stranded`: a thread died before its outcome (a restart, a locked database,
  settings that raise); the next outcome resets it. `halfDeleted` (files
  deleted, row not): the next files stored reset it. `brokenOff` (a delivery is
  under way, broke off or overlapped): the next whole delivery by a thread that
  is alone resets it.
* `late` (`ManualDns`, a confirmation of what no hook waits for): the next
  attempt that cleans the files resets it.
* `disturbed`: the entries (a host and a type of key) whose first visit
  overlapped another first visit, or that a half-written file may have lost;
  other entries are not excused.
* `crossed`: the accounts whose secret was replaced while its code was checked,
  until it is replaced again. `OneAdminRemains` excuses no state at all, but the
  one step of a token (`fresh` false) that is not name and role of a row.
* `disturbed` in `ProxyConfig`: the frontends whose settings overlapping
  requests have mixed (all of them), or one that stopped between its commits
  (its own; all, if it was a backend's). A save of the frontend that meets no
  other request takes it out again.
* `DownIsTold` supposes, besides a node that stays down and alarms that stay
  switched on, that no thread keeps the write lock and no thread of the pool has
  a stale connection. A pool thread stays stale until the application restarts,
  and a check on it stores no change and so sends nothing, although README.md
  (65-66) promises alarms: a hazard in `PROJECT.json`.

Without them the properties fail, by overlaps the code does not exclude and no
document excludes either; the hazards in `PROJECT.json` say so.

## 3. Runs

| Run | Instance | Shows |
|---|---|---|
| `deploy_serial` | `MCDeploySerial.cfg`: 1 thread, 1 process left behind, 2 valid texts, 2 rows kept | refinement of `AtomicDeploy`; every request is answered |
| `deploy_shared` | `MCDeployShared.cfg`: 2 threads, 1 process left behind, 1 valid and 1 invalid text | what is live, saved and recorded after every outcome of a request that has the node to itself, also after others have overlapped; and what overlapping requests cannot break: HAProxy runs only validated texts, the file is never gone, validations do not touch config and process |
| `deploy_race` | `MCDeployRace.cfg`: as before, nothing left behind | **violated**: a text gets live that was not validated, see findings |
| `proxy_serial` | `MCProxySerial.cfg`: 1 frontend, 2 backends, 3 certificates, 2 names, limit 2, one request at a time | no save pushes a frontend over the limit or takes its last certificate; the mirror column agrees |
| `proxy_shared` | `MCProxyShared.cfg`: 1 frontend, 1 backend, 2 certificates, 2 requests, limit 1 | no dangling links, lists are never merged, names stay unique |
| `cert_lifecycle` | `MCCertLifecycle.cfg`: 1 request thread and the loop, all troubles, 1 upload left behind, 2 generations, 1 restart | files, status and copies of a certificate; the loop keeps taking up what is due |
| `cert_renewal` | `MCCertRenewal.cfg`: as before, only `lego` fails | **violated**: after one failed round nothing renews the certificate |
| `manual_dns` | `MCManualDns.cfg`: 2 threads, 2 domains, 3 attempts | the records shown, the confirmation and the hook belong together, also after attempts have overlapped; every attempt ends |
| `manual_second` | `MCManualSecond.cfg`: as before, 1 attempt | **violated**: a hook goes on though its record was neither shown nor confirmed |
| `ssh` | `MCTransport.cfg`: 1 call by either method, 1 other thread, 2 hosts, 2 types of key (3 entries), 2 keys of each, 1 block | refinement of `AtomicWrite`; the timer against the result; the report of a timeout; all output with a result; one key per host and type; every call ends |
| `ssh_keys` | `MCTransportKeys.cfg`: as before | **violated**: a known host with a key of another type is trusted |
| `administration` | `MCAdministration.cfg`: 2 workers, 2 threads of the pool, 2 users, 2 names, 2 nodes, 1 restart | an administrator is left, a factor is proved, alarms tell what is stored, a node that stays down is told unless a kept lock or a stale connection prevents every check |

Bounds, and why they are enough:

* `Keep` 1 or 2 (30 in the code) and `MaxRows` one more: the prune is exercised
  with fewer, as many and more rows than it keeps. At `MaxRows` no further
  prune or request is lost, which only bounds the length of the history.
* Two texts tell the old text and the new one apart (with the refinement both
  are valid, under overlap one is not); a third would be an older backup, which
  the proofs cover for any number.
* Two jobs are enough for every race of two steps, and the properties under
  overlap are about two jobs at most. `AtMostTwo`: two jobs, or a job and a
  process that another has left. In `deploy_serial` one thread stands for all,
  since a request begins only when all rest. `ReadLater` (a `VIEW`) leaves out
  the locals of requests that have ended and that no guard and no property reads
  again. The proofs have none of these bounds: `Slots`, the processes left
  behind at the same time, is any set there.
* `Limit` 1 or 2 against 2 or 3 certificates: below, at and above the limit.
  Two backends and two names make a rename, a swap of names and a rule that
  waits for its backend possible.
* `MaxGen` 2: a certificate, its expiry and its renewal; the second generation
  stands for all later ones and never ages. `MaxRestarts` 1: a restart leaves
  nothing behind that a second one would change. `LateBesideOne`: beside an
  upload left behind at most one thread is at work, and there is no restart; the
  upload shares only the node's files with the others, and the proof has neither
  this bound nor that of one upload.
* `MaxAttempts` 3: an attempt and what an earlier one, finished, cut off or
  under way, has left for it; the third begins alone (`Bounded`) and finds what
  two overlapping ones have left. Two domains: the first and every later one.
  Restarts are not bounded there.
* One call on the SSH side: the calls of one node share only the target, which
  each replaces as a whole; the proof is for any number. One block: data that
  has arrived or not, with an end of its own, so that data is cut at 0 and
  complete at 1; the proof is for any `Size`. Three entries: two types of one
  host, and another host. `Apart`: no other thread visits a host while a call is
  connected, for a connected call does not look at `known_hosts` again.
* Two users are the administrator and one more, two names theirs, so that a name
  becomes free and is given to another. `Bounded` keeps one token at a time (it
  may expire during its request, and the next be issued), stops when no
  administrator is left, gives one user a second factor, and explores users and
  alarms apart from each other but for the lock and the commits: with users,
  transactions stay open on one worker (the other commits beside it, or keeps
  the lock); with alarms, on one thread of the pool (the other commits beside
  it, and a worker keeps the lock). The proofs have none of these bounds.

`CHECK_DEADLOCK FALSE` is in the configurations of `ProxyConfig`,
`CertLifecycle` and `ManualDns`, because there everything can have been deleted,
in that of `Transport`, because all calls end, and in that of `Administration`,
where the bounds cut the exploration.

Fairness. `Deploy`: weak fairness of each job's step: a worker thread runs on,
since every SSH command, local command and database statement has a timeout.
`CertLifecycle`: the same for each thread and for the loop's own steps (it
sleeps six hours and wakes up), and strong fairness of lego's success, so that
the violated property fails by what the code does and not because lego never
works. Nothing is assumed about requests, time and restarts. `ManualDns`: weak
fairness of each attempt, since its two time limits always pass; none of the
user. `Transport`: weak fairness of a call's own thread and of its timer thread;
none of the node, the network or the script, so that `CallsEnd` is what the
timer is for. `Administration`: weak fairness of the alarm loop, which calls
`_check_once` every minute whatever it raised; none of users and requests.

## 4. Findings

* `deploy_race`: two requests for one node share `<config_path>.new`. README.md
  (33-34) promises upload, validation, backup, activation; an upload between the
  other request's validation and `mv` activates an unvalidated text. It takes no
  second user: with one thread and one process left behind (`Jobs` of one,
  `Slots` of one) TLC finds the same. The activation of the first request runs
  into its timeout, the user deploys again, and the late `mv` of the first moves
  in what the second has uploaded.
* `cert_renewal`: README.md (47, 306) promises automatic renewal; the loop
  selects `status = 'active'`, and one failed renewal sets `'error'`.
* `manual_second`: README.md (45-46) says of manual DNS that the record is shown
  and confirmed. The hook waits until the file of the confirmation exists
  (`certs.py` 326); with a second domain it does already, its record is not
  shown any more (361), and the hook goes on before anyone could have published
  it. Such a certificate (a domain and its wildcard, for example) cannot be had.
* `ssh_keys`: wiki/Host-anlegen.md (63) says that a host whose key changes is
  blocked. `missing_host_key` looks for an entry of the host and of the type of
  key (`sshclient.py` 38): a known host that shows a key of another type has
  none, and the key is accepted and saved.

Two more disagreements with the documents, which need no interleaving and so no
run: README.md (356-357) and wiki/API.md (39-40) say that changes which leave an
SSL frontend without a certificate are refused, but `delete_backend`
(`backends.py` 157) checks nothing (`ProxyConfig` models it so, and
`LastCertOnlyLostByDeletion` excepts it); and
wiki/Host-anlegen.md (69) says of "Nur validieren" that it changes nothing, but
`deploy_node` installs certificate files before it looks at `validate_only`
(`deploy.py` 186; `ValidationIsReadOnly` speaks of config and process only).

## 5. Proofs

`DeployProofs` proves, for every set of jobs, of texts, of bundles and every
history length, the invariants and action properties of `Deploy` that the runs
check; `DeploySerialProofs` proves the refinement of `AtomicDeploy`. The
assumptions are the named ones of the modules: there is a job and a bundle, the
special values are no texts and no bundles, at least one row is kept. The
refinement is of `SerialSpec`, in which any of the threads begins a request when
none is under way.

The argument. None of the properties is inductive, since what a request leaves
behind depends on what `.new`, `.bak` and `cert_dir` held at each of its steps.
`IInv` adds `StageInv`, which says for the step the latest request is at what
each file holds ("at `check`, `.new` is our text; from `backup` on it is valid;
at `restore`, `.bak` is what we found"), `Alone`: a request that began alone is
the only one under way until another begins, and `OrphanInv`: a process that
outlives a request is the one command it gave up on, and finds the files as that
command's stage has them. They are claimed only of such a request, and
`RequestSerialInv` shows that it establishes them from whatever state
overlapping ones have left. `FilesSound` and `HistoryValid` hold always: the
process runs only validated texts, `config_path` holds one or is `suspect`, a
row is validated or one of the `strays`. Every action leads from one stage to
the next (`StepStageInv`, one step per action), and what a late command does
keeps what is said of a failed request (`LateSerialInv`); the deaths and new
requests re-enter the first stage with whatever is there.
`KeepNewestKeepsNewest` is the lemma about the prune. Each property then follows
from `IInv`. `ConfigNeverLost` and `ValidationIsReadOnly` hold under overlap too
and are proved from the types and `ValidationStops` alone. The refinement maps
`found` to what the latest request found; every step is simulated by one of
`AtomicDeploy`'s actions or changes none of its variables.

`ProxyConfigProofs`: all invariants of `ProxyConfig`, for any tables, names,
limit and number of requests. `NoDanglingReference` and `OwnListsWithinLimit`
are kept by every step once it is known what a request has in hand (`FeJobs`: a
list within the limit, and a row that names its first certificate or none). What
frontends load is only kept between requests. `SavedInv` says of a request that
began alone what its check has found (`Captured`): the row it is about to write
will load 1 to `Limit` certificates; the name and links of a backend leave every
SSL frontend as many; and, between the two commits of a backend, that frontends
will load so once the links are there. `MirrorInv` is needed for a deletion: a
frontend whose last link goes must not fall back on another certificate in
`frontends.cert_id`. `OverlapInv`: while requests overlap all frontends are
`disturbed`, so that only a request that began alone can take one out, and that
request has checked what it saves. The lemmas about lists without repetition
(`WithoutFacts`, `FrontFacts`) are proved from the library's facts about
sequences; `ProxyAssumption` has the set of certificates finite.

`CertLifecycleProofs`: types, `ActiveHasFiles`, `IssuingMeansAtWork`,
`NodeHasPair` and `PemStaysPair`, for any number of threads, generations and
restarts. `KeptInv` adds to `ActiveHasFiles` the thread that is about to record
an expiry it has read; `FilesInv`, that there are no files but the newest, is
why it has read nothing newer than there is. `BoundInv` says that nothing
anywhere, in a thread's hands or on the node, is newer than the newest stored
generation; it holds under overlap too, so that a delivery that begins alone
knows that what it will read is at least as new as what the node has. `PairInv`
says for such a delivery which generation it has read and written at each of its
steps, and of every delivery, alone or not, that `brokenOff` is set while it is
under way (`UnderWay`). `LateInv`: what a delivery that was alone has left on
the node is the newest pair, and no thread is at work beside it; so when it
lands it puts nothing older there. (A delivery that begins before it has landed
is in the position of an overlapping one: the old `.pem` may be moved over the
new one.)

`ManualDnsProofs`: the invariants of `ManualDns` that its passing run checks,
for any sets of threads and domains and any number of attempts. `IInv` says of a
lone attempt (`AttemptInv`) that the records are its own (`Own`), that only lego
takes confirmations (`Unconfirmed`) and, unless a confirmation was late, that
the confirmation is for the hook that waits (`Released`); an attempt that begins
alone comes to these facts by cleaning the files (`StartsSoundly`, `CleansUp`),
whatever is in them. `WorkInv`: a waiting certificate has a thread at one of the
steps between `Mark` and the outcome.

`TransportProofs`: types, the refinement of `AtomicWrite` and `OneKeyPerType`,
for any calls, hosts, keys and data of any size. `Sound` relates, for one call,
what the client has heard to what the script or `sftp_write` has done: a status
is the script's own and given at its end, the file is replaced between `mv` and
status 0, only whole data gets there. Every step changes one call by an `Effect`
that keeps `Sound`, and maps to `Install`, `Answer`, or a stutter; a crash maps
to `Abort`. `HostInv` says, entry by entry, of those not `disturbed`: a thread
between the load and the end of a save of a new key holds what the file held for
that entry, which is what has been accepted for it.

`TimeoutProofs` (on top of `TransportProofs`): `OwnCloseIsTimeout`,
`OutputComplete` and `ReportIsTrue`. `Linked` adds what loop, timer and
connection know of each other. `Wired`: the timer closes the connection only
after the event is set, so that whoever finds it closed by the timer finds the
event too. `Heeded`: with the connection still up, the loop is only left with
the status and everything read (`Complete`). `Told` and `Reported`: what the
timer noted was so when it noted it, and stays so, since a script that has
exited with a status does nothing more.

`AdministrationProofs`: the three invariants and the action property
`OneAdminRemains`, for any sets of workers, pool threads, users and nodes. The
types include the connections (`StatementTypes`). `AdminInv`: every request that
would take an administrator's role was made by an administrator about another
row, so that a step whose token still is name and role of its own row leaves
that row's administrator; `FactorInv`: a confirmation under way has proved the
secret there is, for every user not `crossed`; `AlarmInv`: a message that is due
says what is stored.

Assumptions are the named ones of the modules: special values are none of the
others, the sets needed are not empty, bounds are natural numbers.

Checked by TLC only: the liveness properties `Answered`, `RenewalTakenUp`,
`AttemptsEnd`, `CallsEnd`, `DownIsTold` (liveness is out of the prover's reach).

## 6. What is not modelled, and why

* More than one node or cluster: a deployment to a cluster is one after the
  other per node, and no state is shared between nodes but the history table,
  whose rows are per node. That the nodes of one deployment may get different
  texts (`deploy_cluster` generates each when its turn comes) is listed as a
  hazard.
* The names of certificate files: `CertLifecycle` follows one certificate, so
  that a `glob` that takes in another's files is only listed as a hazard.
* Access: the counter of failed logins (a window of time), password hashing, the
  LDAP directory beyond a user of it who is an administrator, audit rows.
* Alerting: warnings about certificates and deployments, which keep no state but
  the day of the last one.
* Database: migrations and imports of old files, before the first request.
* Rules that name backends (`configgen.py`) may dangle after a rename or a
  deletion; `NoDanglingReference` is about ids only.
* lego killed between its two writes, and signals from others on a node: see the
  assumptions in section 2.
* Keepalived: several commits and a file without validation, of the same shape
  as `ProxyConfig`; left out for room.
* The text of configurations, alarms and logs, the wording of answers.
* Imported certificates: single transactions and parsing.
* Pure reads: statistics, metrics, logs, comparison, port scan.
* `app/static/app.js`: keeps no state the server relies on.

## 7. Plan

Done: `AtomicDeploy`, `Deploy`, `ProxyConfig`, `CertLifecycle`, `ManualDns`,
`Transport` and `Administration`, with their proofs. Next:

1. A deployment to several nodes, with the generator between two of them.
2. `Keepalived`, and certificate files under the names of several certificates.
