# A verification project for Baseful

Baseful runs PostgreSQL databases in Docker containers for its users: a Go
backend (`src/backend`) with an HTTP API and a SQLite database of its own, a
proxy that lets clients reach the databases with revocable tokens, a React
dashboard (`src/frontend`), and scripts that install and upgrade it. This
directory holds TLA+ models of the backend's concurrent parts and of the
dashboard's pages, TLC configurations that check them on small instances, and
proofs, checked by TLAPS, of what matters most for instances of any size.

Run a configuration with `tlc -config X.cfg M`, and the proofs of a module with
`tlapm M.tla`. `PROJECT.json` lists the runs, the mutants every property was
tried on, the source lines of every definition, the hazards and the theorems.

## 1. Inventory

### The backend

Everything in the backend is goroutines over three shared things: the SQLite
file (through a pool of ten connections), Docker, and a few maps and channels.
Handlers take no lock around what they do, so the unit of atomicity is one SQL
statement or transaction, one Docker call, one `sync.Map` or channel operation.

| Component | State it keeps | Operations | Module |
|---|---|---|---|
| Connection admission (`proxy/proxy.go`, `runtime_security.go`) | channel `connectionSlot`, map `activeByIP` | accept, rate limit, acquire, serve, release | `ConnectionSlots` |
| Proxy sessions and tokens (`proxy/`, `db/tokens.go`, token routes of `main.go`) | `activeConns`, sockets, `database_tokens` | connect, authenticate, dial, register, pipe, two checkers, rotate, revoke, mint, delete a database | `ProxySessions` |
| Session clocks (`proxy/proxy.go`) | socket deadlines, `LastActive` | handshake, the two pipes, idle checker | `SessionTimeouts` |
| Database lifecycle (`main.go`, `proxy_access.go`) | `databases`, `branches`, containers | create, start, stop, restart, delete, switch branch, correct a status, provision at start-up | `DatabaseLifecycle` |
| Users, projects, access (`main.go`, `db/users.go`, `auth/middleware.go`) | `users`, `projects`, `user_project_access`, `project_id`, `owner_user_id` | register, remove, give access, create and delete projects, create, move and delete databases | `AccessControl` |
| Backups (`backups/manager.go`, routes) | `backups`, object store, the database | back up, restore from a row, a file or another server | `BackupRestore` |
| Binding migration (`legacy_binding_migration.go`) | containers, their names, the row | replace a container, roll back | `BindingMigration` |
| Self-update (`system/updates.go`) | two flags, two hashes, `/repo`, the sidecar | check, update, boot | `SystemUpdate` |
| SQL pool (`db/database.go`) | ten connections, SQLite's write lock | take, nest, give back | `ConnectionPool` |
| Settings the pages edit (`main.go`, `backups/security.go`, `db/*`) | documents per server, database or user | read, mask, store | the server's side of the page modules |
| The rest | none between requests, or sequential | | not modelled, section 7 |

`Start` (admission) spawns `handleConnection` (sessions), whose deferred calls
give the slot back. Token routes write `database_tokens` and call
`DisconnectToken`, which ranges over the handlers' map. Deleting a database
revokes its tokens, so the checkers end its sessions. Lifecycle, restore and
migration act on the same containers without knowing of each other. All of them
share the pool. A crash (or the self-update, which replaces the container) ends
every goroutine at once; what SQLite, Docker and the object store hold remains.

### The dashboard

One thread, and yet concurrent: a handler runs to its first `await`, and between
a request and its answer the user clicks, other answers arrive, the page is left
or its address moves to another database while its component, its hooks and the
closures of its waiting handlers stay. The unit of atomicity is the code between
two awaits.

| Component | State it keeps | Module |
|---|---|---|
| Sign-in: `AuthContext`, `AuthGuard`, `Login`, `Register`, `UpdateOverlay` | cookie, `localStorage`, the context's user, lists | `UserSession` |
| What pages share: router, `authFetch`, the query cache | hooks, requests in flight, cache entries | `DashboardPage` |
| Side bar, dock, home page, `ProjectContext`, `DatabaseContext`, their dialogs | lists, selections, the address | `NavigationPage` (pages "navigation", "projects") |
| `ManageProjectDialog` | name, chosen users | `ProjectDialog` |
| `DatabaseDetail` | status in the cache, dialog with the string | `DatabasePage` ("database", "connection string") |
| `Tables` | rows of a window, edits, related rows | `TablesPage` ("tables", "relations") |
| `SQLEditor` | text, result, history | `SQLPage` |
| `DatabaseConnections` | list, confirmation | `ConnectionsPage` |
| `Settings` | limits, draft | `LimitsPage` |
| `branches/Branches` | list, dialog | `BranchesPage` |
| `Backup` | settings form, list, rollback, restores | `BackupSettingsPage`, `BackupListPage` |
| `Monitoring`, `WebServer`, `Security`, `Profile` | one form or status each | `MonitoringPage`, `WebServerPage`, `UpdatesPage`, `ProfilePage` |
| `Notifications`, `DatabaseNotifications` | three documents, one document | `NotificationsPage` ("notifications", "preferences") |
| `UserManagementPanel` | whitelist, users, a user's access | `UsersPage`, `UserAccessDialog` |
| `Containers` | containers, logs, terminal; cards of backups and automations | `ContainersPage` ("containers", "moves", "logs", "terminal"), `TopologyCardsPage` ("cards", "card removal") |

Pages talk to the backend by HTTP only, and to each other through `AuthContext`,
the two list contexts and the query cache.

### What is hard

Backend: check-then-act over several statements (tokens, branch names, users,
projects); maps ranged over while they change; seconds between reading a row
and writing it back; ignored errors; clean-up that must undo exactly what was
done; a process that may die anywhere. Dashboard: an answer for what is not on
the screen any more; a form filled from one database and saved to another; flags
taken down on some paths only; two requests out where one was meant; what is
shown after a change that failed half way; a logout, a login and a late 401 in
any order. `PROJECT.json` lists forty such places at their lines, each with
the properties that watch over it.

## 2. Modules and runs

Components that share nothing are checked in one run: `MCProcess`, `MCSessions`
and `MCDatabases` have a variable `part` that says which of their components a
behaviour is about, with the others at rest, and `page` does the same for the
pages. The state spaces add up, they do not multiply. `MCSessions` has the
self-update beside the proxy's sessions.

| Run | Module, configuration | Instance | States |
|---|---|---|---|
| `process` | `MCProcess`: `ConnectionSlots`, `ConnectionPool` | 3 connections, 2 addresses, limits 2 and 1; 4 handlers that nest, 2 pooled connections | 1,697 |
| `sessions` | `MCSessions`, `Sessions.cfg`: `ProxySessions`, `SessionTimeouts`, `SystemUpdate` | 2 sessions, 2 tokens, 1 database, 1 request, API in the proxy's process; timeouts of 1, 6 and 2 ticks; 2 updates, the boot check, 1 new commit, 1 crash | 3.05 M |
| `sessions_live` | `MCSessions`, `SessionsLive.cfg`: the same | 1 session, 2 tokens, 1 request, API in another process, 1 restart; 1 update, 1 new commit, 1 crash | 1.33 M |
| `revoked_immediately` | `ProxySessions`, `SessionsRevoked.cfg` | 1 session; a violation | stops there |
| `update_stuck` | `SystemUpdate`, `UpdateStuck.cfg` | 1 update; a violation | stops there |
| `databases` | `MCDatabases`: `DatabaseLifecycle`, `BackupRestore`, `BindingMigration` | 1 database, 1 branch, 2 requests; 2 jobs, 2 buckets, 2 parts, 1 row; 2 migrations; 1 crash each | 0.92 M |
| `restore_loss` | `BackupRestore`, `BackupRestoreLoss.cfg` | 1 job; a violation | stops there |
| `access` | `AccessControl` | 2 users, 1 project, 1 database, 2 requests | 5.0 M |
| `pages` | `MCDashboardPages`, `DashboardPages.cfg` | 27 kinds of page, 2 databases, 2 items, 2 requests in flight | 4.6 M |
| `session` | `UserSession` | 2 accounts, 3 requests in flight, 1 pull | 0.52 M |
| `setup_loop` | `UserSession`, `SetupLoop.cfg` | 1 account; a violation | stops there |
| `key_kept` | `MCDashboardPages`, `BackupKeyKept.cfg` | the backup settings; a violation | stops there |

Deadlock is not checked: sessions, ids, crashes and commits are finite, a page may
be left for good, the pool may come to a standstill, and the system may come to rest.

### ConnectionSlots, AdmissionControl

The acceptor (`Start`) is one process: it takes a connection off the listener,
asks the rate limiter (either answer), then `acquireConnectionSlot`: a
non-blocking send on the channel (`TakeSlot` or `RejectFull`), then, under the
mutex, the count of the address (`Admit`, or `RejectPerIP`, which takes an element
back out). A handler serves, then releases in three steps: `PopSlot`,
`DecrementIP`, `CloseFrontend`, in the order of the deferred calls. Neither acquire nor
release touches both books at once.

Checked: `BooksAgree` (both books are exact, the limits hold, and no receive ever
blocks: it would with the mutex held), nobody is refused for want of slots while one is free
(`RefusedOnlyWhenFull`), the acceptor always returns to the listener
(`AcceptorReturns`), and all of it implements `AdmissionControl`, where a session
is admitted and ended in one step (`ImplementsAdmission`). Three connections
from two addresses against limits of 2 and 1 make either limit the one that
refuses. Fairness: `WF(Acceptor)`, because Go runs a runnable goroutine; handlers
get none, a session may last for ever.

### ProxySessions

A session goes through `handleConnection`'s phases (`handshake`, `jwt`, `checked`,
`dialing`, ...), each a step that may fail, and enters `activeConns` in
`Register`, after the backend's handshake. `CheckerTick`/`CheckerVisit` are
`connectionStateChecker`, entry by entry; `IdleClose` is the idle checker's close.
Requests are `Rotate`, `Revoke`, `LookForToken`/`Mint`, `DeleteDatabase` to
`DeleteRow`; `BeginRange`, `DisconnectVisit`, `EndRange` and `Answer` are
`DisconnectTokens`. `sync.Map.Range` visits every entry that stays, and an entry
stored meanwhile or not. Tokens carry their row, their revocation, their expiry
and whether their hash can be reproduced.

Checked in `sessions`: `RegistryExact` (a session that pipes is in the map or
closed, and the map has no ghosts), an answered
revocation has cut what was entered while the token was good
(`DisconnectComplete`), and its token never authenticates again
(`NoAuthAfterAnswer`). In `sessions_live`, with the API in another process (as with
`PROXY_ONLY`), where `DisconnectToken` finds an empty map: the checker ends every
session that pipes with a token that is revoked, expired or gone, however young it
is (`StaleSessionEnds`), and every entered session that is too old, however good its
token (`OldSessionEnds`). Each needs its own condition of the checker: the mutants drop
one each. `revoked_immediately` shows that
the dashboard's "revoked immediately" is not so: a session between the token
check and `Store` outlives the answer.

The statements of a deletion may each fail, unnoticed by `deleteDatabaseResources`
but for the last: whatever rows they leave, the two properties above are about them.

Bounds: two sessions make a Range overlap with another session's end, two
tokens are what a rotation needs. `MaxLate` bounds how many sessions and tokens
pass their time: none in `sessions`, where no property is about time, and one in
`sessions_live`, where either of a session and its token may be the one. Fairness:
handlers, the checker's ticker and its visits. Nothing is assumed of time, of
clients or backends, and nothing of requests.

### SessionTimeouts

One session on a clock of ticks: the handshake deadline, each pipe's read
deadline, the idle checker's period. Time does not pass a deadline whose waiter
can run. `BoundedIdle`: a session the checker has seen is never idle for longer
than `IdleTimeout` plus a period, stuck writes included. The run takes 6 and 2
ticks, so that the period divides the timeout, and a deadline falls before,
between and on the ticks; the proof covers every choice.

### ConnectionPool

Handlers take a connection; `GET /api/databases` and the rotation of a token ask
for a second while they hold the first, and nothing limits how many do. When as many
as there are connections hold one each and wait, everything stops for ever
(`Standstill`); the run has four such handlers on two connections, and gets there.
Checked: the pool is held up in no other way, and it takes lists of databases for all
connections or all but one (`HeldUpOnlyByNesting`: a second rotation meets the first
one's write lock and returns); and every request ends unless there is a standstill
(`RequestsEnd`). Fairness: a held query ends, and `database/sql` serves waiters in
order, for which strong fairness of acquiring stands.

### SystemUpdate

Commits are numbers: upstream, `origin/main`, `HEAD` of `/repo`, and the one the
container was built from; a git command that fails prints none, and the empty string is
stored. Checked: an update is reported from its first step to the end of its sidecar
unless the pull of another request, which lowers the flag that all share, fails
meanwhile (`UpdateReported`, with the history `overtaken`; the boot goroutine, lost
writes and the failing sidecars of others are not excused), equal hashes mean that the newest
known commit runs unless a pulled one is not built (`UpToDateUnlessUnbuilt`), and a flag
left by a dead process is taken down unless SQLite fails the boot goroutine
(`LeftoverCleared`). `update_stuck` is the violation: the flag in memory outlives a
failed sidecar. Fairness: `WF(Booting)`: the boot goroutine runs and its
git fetch returns. One new commit, one crash and two overlapping updates reach
every combination of flags.

### DatabaseLifecycle

Units are databases and branches; each has a row and a container. Requests
create (container, start, row, role, each with its own clean-up), start, stop,
restart, delete (list containers, stop and remove each, drop rows), switch the
default branch, or read and correct a status; `ToggleContainer` is the container
page, which knows nothing of rows; `Visit`/`ExitAndRestart` is the start-up pass,
which exits when a database is not ready. Docker may refuse any call, SQLite any
write, and the process may die.

Checked: rows and containers stay paired up to what failures leave
(`RowsMatchContainers`), and `DeletedStaysDeleted`. A failed statement
marks its unit in the history variable `broken`; what is checked is that nothing
else, in particular no interleaving, breaks the pairing. One database, its
branch and two requests are the least that have a deletion run into a creation
of its own branch.

### BackupRestore

A dump is a sequence of parts, each of some version. `PerformBackup` inserts a
row, streams `pg_dump` part by part, uploads, updates the row; `RestoreFromFile`
terminates sessions, drops, creates and replays; other jobs and clients go on
meanwhile, settings name another bucket, the process dies.

Checked: completed rows have their object (`CompletedHasObject`), pending rows a
goroutine (`PendingIsWorkedOn`), and a restore that was alone after its CREATE left
exactly what it fed to psql (`RestoredExactly`). `restore_loss` is the violation: what
it fed need not be the backup, since a dump cut short is stored as completed.

### BindingMigration

The steps of `migrateLegacyBindingScope` and of its `rollback`, for requests that
overlap, on one container; all of the containers share a port and a volume.
Checked and proved: never two servers on the volume (`OneServerOnTheVolume`), the row
names a container that exists (`RecordHasContainer`), and a migration that is through
has left the service running (`ServiceBack`), unless a user, a crash or the refusal
of the very last start took it down.

### AccessControl

Each request is authenticated against its user's row, runs its checks one
query after the other (`Route` names the steps) and writes. Users never get their
ids back. The whitelist and the permission keys are left open: an administrator
changes them at will, and a request that they refuse does nothing.

Checked: one administrator at most, the first user (`OneAdmin`), and always
one (`AdminRemains`), each up to the overlap that does break it (section 6), and
`ReferencesResolve`: SQLite enforces foreign keys only when told to and nobody
tells it, so that removals must leave no row that refers to them, and none does
unless it was written while its target was on its way out, or SQLite refused the
clean-up. Two users and two requests give every pair of handlers on the same
project and database. The proofs (section 4) cover every
number of each.

### DashboardPage and the page modules

`DashboardPage` has what every page is built on. `view` is the record of the
mounted component's hooks, `view.busy` the flags that show a spinner or disable a
control; `net` are the requests in flight, each with the `id` of the closure that
sent it and whether its component is still mounted; `srv` is what the server
stores for the page; `kept` is what outlives it. `Act` is a click (a handler up to
its first await), `ServerAnswers` the server's handler, `ServerFails` an error, or an
answer lost after the server has stored; `Settle` a handler that goes on;
`OpenAt`, `SwitchTo` and `Leave` are the router. The query cache of `main.tsx`
(`Refetch`, `Fetched`, `Invalidate`) is external: modelled by what the pages ask of
it.

A page module adds its hooks, one action per control, one per answer, and the
server's handler for each request (main.go). `DashboardPages` puts the pages
together. A value stands for a whole form or document (`Vals`), two of which are
enough to tell "saved" from "changed since"; a page that stores several documents
has one field for each.

Checked of all pages:
* `SpinnerHasRequest`: every flag that is up is one that a request in flight, of
  this mount of the page, takes down. A spinner that no answer can end shows up
  as a state, without fairness.
* `OneWriteAtATime`: two changes of one kind are never out together. The places
  that no control guards are named in `Unguarded`.
* `KnowsWhatIsStored`: a page at rest says what is stored. Excused, until the page
  is opened again, is a page that met a failure or that had two requests out at once
  of which one writes (`Crossed`): several pages are wrong then, and section 6 names
  them. A request and the one its handler sends next are not out at once.

and of some: `SavedToItsOwnDatabase` (a backup form never goes to another
database, though it outlives the move), `MasterComesLast` (notifications are
switched on after what they announce is stored). `key_kept` is a violation,
section 5.

Bounds: two requests in flight (`MaxNet`), so that any two overlap; two databases,
so that a page can move; two items of a list, so that the answer for one can meet
the other. Faults: a page that is upset meets no further fault (`Followed`), except
for those in `Unreliable`, where every combination was small enough; what
`KnowsWhatIsStored` excuses after the first fault it would excuse after the second,
and `SpinnerHasRequest` of a single failing request is reached without. Databases and
items are interchangeable, and so symmetric. No fairness is assumed of pages.

### UserSession

Cookie, `localStorage`, context and lists, with the requests that change them: a
request carries the cookie of the moment it is sent, an answer may set it, even
after its page is gone. `Become` is what a handler leaves behind: the application, the
stored profile, the requests of its effects. `Refused` is the 401 that logs out,
`Redirect` the effects of guard and forms, `CheckStatus` the overlay's interval, whose
checks outlive a page that is left (`Orphaned`). `SaveProfile` and `ProfileSaved` are the
forms of the profile page and `updateUser`, which puts back the user of the render that
sent them, whoever is logged in by then. A
behaviour follows either the accounts
(`server.follows = "session"`) or the updates of the server, of which it has what
`update-status` reports: an update that starts, moves HEAD, is withdrawn, or dies
with the process, in any order (`Reports`).

Checked: context and storage agree and a token comes with a user
(`SignedInTogether`, in every state; a user without a token is one whom the late answer
of a saved profile revived after a logout), an application at rest agrees with its cookie
and its lists (`SessionAgrees`, unless deciding requests crossed or one failed: `crossed`),
loading ends (`LoadingEnds`), a visitor does not stay inside (`VisitorLeaves`), and the
overlay goes once the server no longer reports an update (`OverlayEnds`). That an update
comes to be no longer reported is not assumed, and not so (`update_stuck`).
`setup_loop` is a violation: after the first registration the guard still sends
its user to register. Two accounts make one session the
other's past. Three requests leave room for one of each kind that decides.
Fairness: the server answers `me`, `status` and the overlay's checks, whose handlers go on
(a refused or failed answer is an answer); React runs effects; intervals and timers fire.
Nothing is assumed of users, of logins or of updates.

## 3. Mutants

Every property of every passing run was tried on a mutant of the code: an
operator in the module, marked as such, that changes one definition the way a
plausible bug would (a missing decrement, a row deleted first, a flag left up, a
check left out). TLC finds each of them. They are not part of any next-state
relation.

## 4. Proofs

Eight modules hold theorems, each over all values of the constants, from the
assumptions named in the component's module (finite sets or natural numbers as
bounds, `None` outside of them).

* `ProcessProofs`. Of `ConnectionSlots`: type, both books, the bound, the receives,
  the justified refusal, and the refinement of `AdmissionControl`. The books are not
  inductive alone: `Ownership` says whose hands a connection is in. The
  cardinality lemmas say how a book's set changes with one connection. Of
  `ConnectionPool`: type and `HeldUpOnlyByNesting`, for any number of handlers that nest
  and of connections; a rotation that waits has the write lock (`Nests`), so that at most
  one does.
* `SessionsProofs`. Of `ProxySessions`: type, `RegistryExact`, `NoAuthAfterAnswer`,
  `DisconnectComplete` (with the API in the proxy's process). `Pursuit` is the
  heart of the last: between the UPDATE of a request and its answer, a live session
  with one of its tokens is still ahead of the request's Range. Of
  `SessionTimeouts`: type and `BoundedIdle`, for all timeouts; the invariant
  relates idleness to the time since the checker's last tick.
* `DatabasesProofs`, in three parts and what composes them.
  Lifecycle: type, `RowsMatchContainers` and `DeletedStaysDeleted`, for any number of
  databases, branches, overlapping requests and crashes. What a request read may be
  stale, so the invariant says what cannot be: ids are fresh, so nothing else
  touches a unit before its INSERT (`Unborn`, `Unique`, `Fresh`), and a deletion that
  still has a DELETE of a unit to do covers it (`RowsCovered`, `ContainersCovered`,
  `Swept`). `RemovalStep` reduces all but four actions to what they remove and whom
  they leave behind.
  Backups: type, `CompletedHasObject`, `PendingIsWorkedOn` and `RestoredExactly`, for
  any number of jobs, parts, rows and crashes. `Sound` is what a job knows: its row
  exists, an uploaded object is there, and while it restores alone the database
  holds just what it has replayed.
  Migration: type, `OneServerOnTheVolume`, `RecordHasContainer` and `ServiceBack`, for
  any number of overlapping migrations. `RowFollows` says whom the row names at each
  stage of a replacement, `ServiceGuarded` who is still to start a container when
  none runs.
  `Follow`: a behaviour of all three, as run `databases` has them, is one of each, so
  that the type of everything (`DatabasesTypeOK`) follows from the three.
* `SystemUpdateProofs`: type, `UpdateReported` and `UpToDateUnlessUnbuilt`, for any
  number of updates, checks, commits and crashes. `HeadsBetween`: a HEAD that a check
  has read, or the status shows, lies between the commit that runs and the HEAD of
  now, because pulls only move HEAD forward. `RaisedInMemory`: the flag in memory
  stays up whatever becomes of the stored one, until a pull fails.
* `UserSessionProofs`: type, `SignedInTogether` and `SessionAgrees`, for any number of
  accounts and of requests. `KnowsWho` adds that a profile without a token was revived
  (`updateUser`) or is one that init is still asking about, and that the request whose answer ends the
  loading was not sent before that is settled. For `SessionAgrees`, `Quiet` is what
  an application knows until deciding requests cross or one fails: a request that
  decides is alone, those that are out carry the cookie of now, and when none
  decides the context is the cookie's (`Agreed`); `Registered` adds that no later
  registration revives a cookie.
* `AccessControlProofs`: type, `OneAdmin`, `AdminRemains`, `ReferencesResolve`, for any
  number of users, projects, databases and overlapping requests. `Sound` is
  what a request in the middle of its route knows: a registration whether there was
  a user (`FirstOrNot`), a removal that another administrator is left (`Counted`), a
  deletion of a project that what still names it is on its list or excused
  (`SeenTo`). `WriteStep` reduces each write to what the other requests know.
* `DashboardPagesProofs`: `SpinnerHasRequest` and `OneWriteAtATime`, of every page, for any
  number of requests in flight, databases, items and failures, and wherever the user
  moves. Neither is inductive. `Raised` says which flag the handler of a request
  holds up, `Spins` which spinner its answer ends, `Group` which flags share a hook;
  `Sound` says that each flag that is up has a request that takes it down, that
  the flag a waiting handler holds up is the only one in its hook, and that no two
  wait for one flag. Two requests that end one flag would be two handlers of one hook
  (`EndsOwned`). `Covered` is what a confirmation keeps from being clicked;
  `Numbered`, which of the notifications' documents is saved next. A lemma for each
  way in which `Act`, `Settle`, `OpenAt`, `SwitchTo`, `Leave` and the server's answers are
  used says what it does to that, and each page is then a lemma about its flags.
  Assumed (`PagesAssumption`): ids of items, which are flags of their buttons, are
  not the names of other flags.
* `DashboardStoredProofs`: `KnowsWhatIsStored` of every page but "cards",
  `SavedToItsOwnDatabase` and `MasterComesLast`, for the same. `Orderly`: while nothing
  has upset a page its requests are of this mount and database, none failed, and a
  write is out alone (`Apart`). So a page can be followed from one write to the
  next, and each has an invariant of its own (`MonitoringKnows`, ... `RemovalKnows`):
  what an answer on its way says is stored, and what the page shows is too, unless
  the request that will replace it is out. For the pages on the query cache it is
  the entry that is followed, which is fresh, marked stale or being fetched. For
  backup settings `SettingsOwned` says so of every form and request, upset or not: a
  form of another database is never one that can be saved. `OwnStep` reduces a step
  to its page's, `StoredInv` puts the pages together.

What stays with TLC:
* Liveness, out of this prover's reach: `AcceptorReturns`, `StaleSessionEnds`,
  `OldSessionEnds`, `LeftoverCleared`, `RequestsEnd`, `LoadingEnds`, `VisitorLeaves`,
  `OverlayEnds`.
* `KnowsWhatIsStored` where cards are made and linked (page "cards"): after a
  load the page holds the document filtered by `SelectSeq`, saves it, and may be
  edited while the save is out; that no edit brings back the unfiltered one, which
  the page would take for stored, depends on what `SelectSeq` keeps. It is defined by
  recursion over data, of which the provers know nothing. Where cards are only
  removed (page "card removal") the property is proved: a save in flight is never
  followed by an edit that does not cross it.

## 5. Findings

* `revoked_immediately`: "Token rotated. Previous connection strings were
  revoked immediately." (`frontend/src/pages/DatabaseDetail.tsx:342`). A session
  past `checkTokenActive` and not yet in `activeConns` is missed and lives until the
  checker's next tick, up to a minute.
* `restore_loss`: "Baseful restore completed" (`main.go:1974`) is sent after a
  restore that lost data: the exit code of `pg_dump` is never read
  (`backups/manager.go:322`), and the database is dropped before its source is.
* `key_kept`: "Stored securely. Enter a new key to replace it." (`Backup.tsx:942`).
  GET answers the key masked (`backups/security.go:60`), the form loads the mask and
  saves it with anything else that changed: the stored key is gone.

* `update_stuck`: "Sidecar failed — clear the flag so the UI doesn't stay stuck."
  (`system/updates.go:190`). The setting is cleared, `currentStatus.UpdatingStatus` is not:
  "System Update in Progress" stays until the process restarts.
* `setup_loop`: "System not setup yet, send to register" (`AuthGuard.tsx:14`). The guard
  asks `isInitialized`, which init reads once: after the first registration it is still
  false, so that `AuthGuard.tsx:13` sends the new administrator to `/register` and
  `Register.tsx:17` back, until the page is loaded again.

## 6. Divergences met while modelling

Seen while translating the code, without a run of their own (what a property
excuses is named there):

Proxy and tokens
* `main.go:4517`: two requests for a connection string, or one and a rotation,
  leave two active tokens.
* `proxy.go:648`: a backend that accepts and says nothing holds the session, its
  sockets and slot for ever: no deadline, and the checkers do not know it yet.
* `proxy.go:730`: the read deadline of one silent direction ends a session that is
  busy in the other.
* `proxy.go:688`: when the client's deadline passes during the dial,
  ReadyForQuery is lost and the session goes on.

Lifecycle
* `main.go:400`: a branch that is being created while its database is deleted stays,
  container and row.
* `main.go:3522`: two requests create two branches of one name; `main.go:3723`: two
  switches leave two defaults.
* `main.go:3611`: the copy of a branch pipes pg_dump into psql without reading
  psql's output and without closing its input: it may hang, or leave an empty branch.
* `main.go:803`: a database that is not ready within 45 s makes the process exit at
  each start; `proxy_access.go:232` tests a status that was read before.
* `main.go:2874`: ten concurrent `GET /api/databases` that each correct a status hold
  all connections and wait for an eleventh, for ever.

Users and projects
* `main.go:914`: two first registrations both find no user; both become
  administrators.
* `main.go:1398` "Cannot remove the last admin user": two administrators who remove
  each other at the same moment both pass the count.
* `main.go:2733`: a database moved out of a project after the project's deletion
  listed it is deleted all the same; one created in the project or moved into it
  then refers to a project that is gone.
* `db/users.go:319`: the ids given to a project are not looked up; a row for an id
  not yet given out is that user's access once it is.
* `db/database.go`: foreign keys are declared, never enforced;
  `databases.owner_user_id` outlives the user, and then only administrators reach an
  unassigned database.

Backups
* A backup whose process died is pending for ever: nothing looks at such rows at start-up.
* `manager.go:386`, `main.go:2121`, `manager.go:652`: the source of a restore is first read
  after the DROP (a lazy GetObject, a file that the route closes when it answers, a
  pipeline whose exit code hides pg_dump's).
* `Backup.tsx:254` says that the database will be unavailable during a restore; clients
  can reconnect as soon as it is created. `Backup.tsx:786`: automation is saved and
  never run.

Binding migration
* Of two overlapping migrations one can report success and the other roll the
  row back to the old container. A stopped container is not recognised as
  legacy, so that a migration a crash interrupted is not found again.

Self-update
* `updates.go:151`: of two overlapping updates the one whose pull fails lowers both
  flags, and the other is not reported any more (`overtaken` in `UpdateReported`).
* `updates.go:91`: after a pull whose build failed, `Security.tsx:243` says "Up to Date".

Metrics
* `metrics.go`: `io_read_bps` and `io_write_bps` are bytes per sample, not per second: the
  difference is not divided by the time between samples.

Sign-in
* `AuthContext.tsx`: a `/me` that fails late undoes a login made meanwhile; a late 401
  of the old session, or the late cookie of its logout, ends the new one; the lists
  of the last user outlive the logout.
* `Profile.tsx:69`, `Profile.tsx:136`: a profile or picture whose answer comes after the
  logout sets the user and `baseful_user` again, without a token: a signed-out user
  stays on the pages, whose requests are not made, until they are loaded again; and
  after another login it replaces the new user (`SignedInTogether`, `SessionAgrees`).
* `Login.tsx:14` does not wait for loading: `/login` opened directly goes to
  `/register`. `AuthGuard.tsx:14` sends an initialized system's visitor to register
  when the status could not be fetched.

Navigation
* Both providers are outside of `<Routes>`: the `id` they read with `useParams` is
  never there. An error body of GET databases or projects is stored as the list
  and breaks the side bar. The dock has no links while no database is selected.
* `ManageProjectDialog.tsx`: after a failed fetch the users of the last project stay
  chosen and can be saved to this one. The dialog with a user's access does the
  same between users.

Database pages
* `Tables.tsx` keeps edits by their position on the screen: after a sort, a filter, a
  refresh or a switch of tables they are saved to another row; what is typed
  while a save is out is lost; late rows of one database can be saved to the next.
* `DatabaseDetail.tsx`: the connection string of one database stays in the dialog
  on the next; a deletion that is answered late leads the user away from wherever
  they are.
* `Settings.tsx`: after a move the draft of the old limits can be saved to the new
  database; the answer of the restart is not looked at.
* `Monitoring.tsx`: GET answers the rate as a number, POST wants a text; a form that
  was not touched counts as changed.

Server pages
* `WebServer.tsx`: an action the server refuses is not told to the user.
* `Security.tsx`: a server that was checking when the page was opened leaves the
  button disabled until the page is opened again.

Container map (`Containers.tsx`)
* An automation linked to a backup card that is not attached, which is then
  assigned, always fails half done ("Create or attach a backup card first").
* When one database's settings cannot be fetched during a poll, its card is dropped
  and the autosave stores the loss. A poll answered before a save and read after
  it puts back the cards of before.
* A card hidden because its settings were switched off elsewhere leaves room for a
  second; the next load drops one of the two (line 2974 says they cannot exist).
* Linking an automation posts the settings with the masked key (finding `key_kept`).
* The log dialog shows the late answer of the container before; the end of an action
  closes whichever confirmation is open by then.

## 7. Not modelled

* TLS, start-up packets, SCRAM, JWT signatures, PGP, hashes: data formats and
  library calls; the phases that use them are steps that may fail.
* The rate limiter (`security/ratelimit.go`): sequential code under one lock; its
  answer is a free choice of the modules that ask it.
* Metrics: samples that nothing else reads or waits for. The charts that draw them.
* Delivery of notifications by SMTP and Discord, and the cooldown of events.
* The proxy's log only writes; its revocation store is filled by nobody, its
  HTTP API started by nobody.
* The Docker helpers, Caddy's configuration, the statements of the table browser:
  one command per request, no state in between.
* Of the dashboard: what no route reaches (`pages/DomainSetup.tsx`,
  `pages/sidebar.tsx`, `context/BranchContext.tsx`, `components/auth-page.tsx`), what is
  only looked at (`theme-provider`, `AuthLayout`, `About`, `components/ui`), the layout
  of the map and of the side bar, syntax highlighting, clipboards and toasts.
* Install, upgrade and uninstall scripts, `cmd/test_ssl`, `proxy/examples`.
* The data race on `ConnectionMetadata.LastActive` and the byte counters: read
  atomically in the models.
* In `BindingMigration`, the deletion of the database during its migration; in
  `AccessControl`, the whitelist and permission keys, which an administrator changes
  at will: a request that they refuse does nothing.
* Three steps are coarser than the code where nothing follows from it: the removal of
  a user looks it up and counts the administrators at once (`CountAdmins`: nobody
  becomes an administrator in between, nor ceases to be one but by being removed); all
  rows of the backup list are disabled during a rollback, where the page disables one
  and its dialog the others (`RowControls`); and an effect that depends on `logout`, a new
  function whenever `AuthProvider` renders, may fetch once more when a handler of an
  earlier mount changes the user (`UserSaved`).

## 8. Plan

Done, in this order: admission; sessions and tokens; session clocks; the pool; the
self-update; the lifecycle; backups; the migration; users and projects; the pages;
the sign-in; the proofs of section 4.

What is left:
1. `KnowsWhatIsStored` for page "cards": a filter of sequences that is not recursive (by
   counting positions) in place of `SelectSeq`, and an invariant that says how the
   document being saved came from the one last seen: filtered, longer by one card,
   linked or attached, none of which an edit undoes.
2. `FixedWindowLimiter` (`now` is read before the lock: windows can start out of
   order) and the notification cooldown, which has the same shape.
3. The metrics collector's loop, with samples of containers that are replaced.
