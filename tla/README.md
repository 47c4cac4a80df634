# DashGate in TLA+

DashGate is a single Go process (`src/main.go`, `src/internal/`) that serves a
dashboard of applications, authenticates its users (local passwords, LDAP, OIDC,
a trusted proxy, API keys), discovers applications from five sources, and keeps
its state in one SQLite database and two YAML files.  Every HTTP request is
served by a goroutine of its own; all of them share one `server.App` record, the
database and the files.  Nearly everything that can go wrong in it goes wrong
between two of these goroutines, between a write to memory and the write of the
same fact to disk, or between two SQL statements that are not one transaction.

## 1. Inventory

| Part | State | Operations | Interacts with | Hard behaviour |
|---|---|---|---|---|
| Discovery loops (`discovery/*.go`, `handlers/admin_discovery.go`) | `DiscoveryManager`: Enabled, Stop channel, WaitGroup, Apps; a goroutine per start | Init at boot, Start, Stop, periodic round, manual refresh | SystemConfig (setting), dashboard and health checks (readers of Apps) | start/stop/refresh/tick interleave; the Stop field is read without its mutex; refreshes are not counted |
| Accounts and sessions (`auth/*`, `handlers/auth_handlers.go`, `handlers/admin_users.go`, `handlers/apikeys.go`, `database/database.go`) | tables `users`, `sessions`, `oidc_states`, `api_keys` | login (local, LDAP, OIDC), logout, create / update / delete / reset user, API keys, cleanup, expiry | AccessGate (who is a request), SystemConfig (which providers) | no handler uses a transaction: each SQL statement of a handler interleaves with those of the others |
| System configuration (`database/system_config.go`, `handlers/admin_config.go`) | `SystemConfig` and `AuthConfig` in memory, table `system_config`, OIDC provider | load at boot, change, save, apply, OIDC discovery, restore, restart | every other part | memory is changed before the database; saves are not ordered; the OIDC provider is fetched over the network with the lock released |
| Setup wizard (`handlers/setup.go`) | `setup_completed`, first account | needs-setup check, setup | accounts, system configuration | check-then-act; a crash between its two writes |
| Access gate (`middleware/auth_redirect.go`, `auth/auth.go`, `auth/proxy.go`, `auth/local.go`, `auth/apikey.go`) | none of its own | redirect decision, RequireAuth, RequireAdmin, page handlers | configuration, sessions, API keys | the decision is spread over seven files and made twice for each request, from settings and credentials that change meanwhile; redirects can loop |
| App catalogue (`config/config.go`, `config/mappings.go`, `handlers/admin_apps.go`) | `app.Config`, `config.yaml`, `AppMappings`, its file | app and category create / update / delete / reorder, reload | dashboard, health | save outside the lock through one shared temporary file; reload on failure |
| Discovered-app overrides (`database/overrides.go`) | table and cache | save, delete, load | discovery, dashboard | database first, then cache under another lock |
| Dashboard page (`handlers/dashboard.go`, `discovery/discovery.go`) | none of its own | group filter, merge of the discovered | catalogue, mappings, sources, overrides, health | the page reads arrays that handlers shift in place |
| Health checks (`health/health.go`) | `HealthCache` | periodic check of all apps, single check of a new app | catalogue, discovery | a goroutine's single result races the replacement of the whole map |
| Upstream tokens (`discovery/npm.go`, `lldap/lldap.go`) | token and expiry | get, refresh, clear | NPM, LLDAP | lock held over the network in one, released in the other; a token outlives the address it was issued for |
| Discovery parsers (`discovery/*.go`) | none | from a source's answer to a list | discovery loops | repetitions, includes, nested routes |
| Rate limiter, CSRF (`middleware/security.go`) | request counters; a cookie | count, clean up; check | every request | fixed window; wipe at a size limit |
| Preferences (`handlers/user.go`) | table `user_preferences` | get, put | accounts | accounts without a row in `users` |
| Backup, restore (`handlers/admin_misc.go`) | none | export, import | system configuration, preferences | a restored field must be a backed-up one |
| Encryption of secrets (`database/encryption.go`) | the key file | encrypt, decrypt | system configuration | values that already look encrypted; a key that changed |
| Icons, PWA, templates, static JavaScript | files | read, upload | the browser | little state of its own |

What makes each part correct is the property list of its module (section 3), and
the hazards of PROJECT.json, each at the line where it bites.

## 2. Plan

Order: what the rest depends on first, and within it what is hardest to test.

| Modules | Of | State |
|---|---|---|
| DiscoveryLoop, its abstraction DiscoveryService | the life of a discovery source | modelled, checked, proved |
| SessionStore | accounts, sessions and logins, one action per SQL statement | modelled, checked, proved |
| SystemConfigStore, SetupWizard (extends it) | memory, table and OIDC provider under concurrent saves; the first setup | modelled, checked, proved |
| CatalogFile | catalogue, mappings and their files | modelled, checked, proved |
| Credentials, AccessGate (extends it) | what lets a request in and for how long; where a request goes | modelled, checked, proved |
| HealthCache, OverridesCache, DashboardView (extends both), UpstreamTokens, DiscoveryParsers; Dashboard composes them | what stands behind the page | modelled, checked; proved but for what settles |
| Secrets, BackupRestore (extends it) | encryption, preferences, backup and restoration | modelled, checked, proved |

There are few runs, so components that are small by themselves share one, in which
each behaviour is about one of them (`mix`, `focus`), and a run that refutes a
promise is kept only where the promise is written down and nothing weaker shows the
same.  What holds for calm days only is stated with a history variable, as `mishaps`
in SystemConfigStore, rather than by another instance.

Every safety property that a passing run checks is a theorem by now.  Worth proving next: `SetupOrLogin` across restarts, under
the weaker promise that a restart leaves; `KeysKeepWorking` as a consequence of an order
on keys that other lookups could use; the lemmas on arrays and lists that `PageIsRight`
rests on, for a page that reads several categories.

## 3. Modules

### DiscoveryLoop, DiscoveryService

One `DiscoveryManager` and everything that touches it.  `enabled`, `stop`, `wg`
and `apps` are its fields; a channel is the number of the start that made it, and
`closed` the set of closed channels.  Each goroutine has a program counter:
`loopPc` for the background loops, `hpc` for PUT handlers, `rpc` for manual
refreshes.  What the code does under `DiscoveryMu` is one action; what it does
without is an action of its own, in particular `LoopEval`, the unlocked read of the
Stop field, and `LoopPark`/`LoopExit`, which tell a goroutine that enters `select`
from one that sleeps there.  `StopWait`/`StopWoken` are the two halves of
`WaitGroup.Wait`, including the panic when a counter is reused under a waiter.
`saved` is the row of the switch in `system_config`, which every save of the settings
writes from memory: `Others` are the requests that save something else, `snap` is what a
goroutine took from memory and is to commit, and `unsure` remembers, for the property
only, that the last PUT was answered with an error or overlapped an older save.
`DiscoveryService` is what readers of the list rely on: on or off, and a list that
only grows while on and is empty once off.

A panic inside a round ends that goroutine after its deferred `Wg.Done` with the
Stop field still set; it is not modelled, since no modelled input causes one.

* `discovery_race` (two PUT handlers, one refresh, three starts): types, no channel
  is closed twice, the WaitGroup counts the running goroutines exactly, and a source
  that is on has a loop or a Stop under way that will turn it off.  Two handlers are
  enough for every pair of critical sections to interleave; three starts let an old
  loop, a stopping one and a new one coexist.
* `discovery_one` (one handler, one other request that saves, four starts, fairness):
  between PUTs the source runs exactly when the table says so, whatever others save,
  unless the last PUT is one of the two kinds that `unsure` remembers; it is empty when
  off, implements the service; and a Stop that finds the loops asleep returns.
* `discovery_hang` refutes "Stop stops the loop": a Stop during a round hangs.

Fairness: each goroutine that can take a step eventually takes one (the Go
scheduler; HTTP clients have time-outs; the ticker ticks).  Requests carry none.

More disagreements were seen with the same module and are kept here instead of as
runs: a PUT whose save failed leaves its setting in memory (`admin_discovery.go:70` to
`:74`), from where the next save of anything writes it to the table, without a start or
a stop (`system_config.go:209`, called from `admin_config.go:179`, `admin_misc.go:356` and
the PUTs of other sources), so that only a restart makes the source follow; a PUT that
overlaps another save may have its setting overwritten by the older one; with a refresher, `OffIsEmpty` fails (the refresh of `admin_discovery.go:41`
publishes after Stop cleared the list); with two handlers, a source may stay
disabled with a channel in its Stop field, the converse of `OnHasLoop` (a Start between `docker.go:83` and `docker.go:87` is
disabled by the Stop it overtook, and no later Start is accepted).

### SessionStore

Tables `users` (a function from id to row) and `sessions` (a set of rows), and the
handlers that read and write them.  The pool holds one connection and no handler
opens a transaction, so one SQL statement is one action; `pc[w]` is the next
statement of a request and `req[w]` what its goroutine carries along.  LDAP and OIDC
run the same upsert and are the directory.  Rows remember, for the properties only,
who logged in and with which password.  The number in the path of a panel request is any
number, one not handed out yet included.  `Interruptions` lets any request stop before
any statement and lets two statements fail whose errors the code ignores: that of
`InvalidateUserSessions`, and the look-up of the name of the account to be updated
(`admin_users.go:190`), after which the update goes on without knowing whose it is
(`Blind`).

* `sessions_race` (two requests, two names, three ids, two tokens, interruptions):
  a session belongs to a live account and to the one whose owner logged in; no
  administrator deletes the own account, or demotes it unless the update is blind.  Three
  ids allow a deletion and two re-creations; two names, one of them in the
  directory, make every conflict of upsert and panel happen.
* `sessions_one` (one request at a time, three names, two passwords): a reset ends
  the sessions of the old password, and the panel never removes the last
  administrator (no statement fails here, so no update is blind).
* `sessions_login_reset` refutes "invalidate all sessions after a reset": a login
  that has already checked the old password inserts its session afterwards.

Seen and not kept as runs: when the look-up of `admin_users.go:190` fails, the check compares
with nobody's name and the update takes the role from its author, who may be the last
administrator, against `:188`, "Prevent admin from removing their own admin role"; the second
directory user without a mail address cannot be inserted (`auth_handlers.go:134`, `oidc.go:211`: the first one's empty string is taken,
`database.go:101`), against `README.md:177` of the repository; two logins of one account
at once leave two sessions (`auth_handlers.go:156` and `:173`), against `README.md:308`.

Not modelled here: expiry (the cleanup removes an arbitrary set of sessions; see
Credentials), and the branch in which local authentication is switched off.

### SystemConfigStore, SetupWizard

`mem` is `app.SystemConfig`, `table` its copy in `system_config`, `runtime` what
`ApplySystemConfig` derived.  A request goes through `change`, `snapshot`, `commit`,
`apply` and `fetch`: the critical sections on `SysConfigMu`, the transaction, and the
storing of an OIDC provider that was fetched with the mutex released.  `Restart`
drops every request and runs the load, the first apply and the migration of trusted
proxies at any point.  The error of the load is only logged (`database.go:206` to `:208`), so
that the process may go on with any part of the rows, or with the defaults, over a table
that has more (`Losses` bounds which are lost together); requests are answered by a system that is set up or
whose table is not empty (`Served`).  `mishaps` remembers overlapping requests, failed
saves, fetches, counts and loads since the process started, and settings "mixed" of
rows and defaults for as long as they may last.

* `config` (two requests, three forms, failing saves, fetches and loads, restarts): no
  form is torn; the mode in force is that of memory unless a save failed, after a partial
  load too; table and memory agree unless requests overlapped or a save or the load failed,
  and again after a whole start; the provider is the configured one unless requests
  overlapped or a save or a fetch failed; applying changes no setting.
  The three forms differ pairwise in their providers, so that a mixture would show;
  two have a blank claim (filled in when applied) and one a proxy without trusted
  networks (migrated at boot).  A load brings all rows, none, or all but those of a
  provider and of the networks; while a mixture of rows and defaults may be about, requests
  come one at a time (`MCMixedAlone`).  The types are proved and not checked.  Groups of
  administrators are told apart in `setup`.
* `setup` (two requests on an empty database, any of them failing at any statement, and
  the administrators they let in): the wizard stays open until somebody can sign in,
  unless a save, a fetch or a count failed, and the account it makes is an administrator
  of the system it configures, whatever failed attempts left behind.  To be able to sign
  in takes what is in force and not what is set (`CanSignIn`): local authentication and
  an account, a proxy whose networks have been applied, or OIDC with a provider.

The exceptions of `setup` are real.  A setup with OIDC alone whose save or whose fetch of
the provider fails, and one with a proxy alone whose save fails, close the wizard before
anything is applied (`setup.go:188` to `:192`, `system_config.go:379` to `:381`): OIDC
answers 503 (`oidc.go:46`, `:96`), the proxy has no trusted networks, and nobody gets in
until a restart.  A COUNT that fails is taken for an empty table (`database.go:300` to
`:302`): the wizard asks for a setup that has been made.

Seen and not kept as runs: OIDC is switched off while a provider is being fetched, and
the provider is stored afterwards (`system_config.go:403`, against the comment at `:266`,
"takes the current app.SystemConfig values"); two setups pass the check and both create
an administrator (`setup.go:43` and `:115`, against `:42`, "Only allow setup if not
completed"); an
overlapping save may commit its older snapshot last (`system_config.go:226`); an
unreachable new issuer leaves the former provider in use (`:380`); a late provider writes
its groups claim over a newer one (`:405`); two setups with different groups
(`setup.go:96`) and a restart between the first account and the configuration
(`setup.go:115`) leave a system nobody can administer or enter; a failed save leaves the
change in memory, unapplied (`admin_config.go:179`); the settings handler accepts a form that switches every provider
off (`admin_config.go:76` to `:130`), which the wizard (`setup.go:88`) and a restoration
(`admin_misc.go:282`) refuse, or one with a proxy without networks, and leaves a system nobody
can sign in to; `AUTH_MODE` never has an effect,
because `ApplySystemConfig` (`database.go:211`) replaces it by the mode of the empty
settings.

LDAP is applied as the mode is and has no variable of its own; secrets are in
BackupRestore; the session length and the sources' own settings are left out.

### CatalogFile

`mem` is `app.Config.Categories`, `maps` the URLs `app.AppMappings` has groups for;
`config`, `tmp` and `mapFile` are the contents of `config.yaml`, its temporary file
and the file of mappings, any of which may be torn.  A request edits memory in one
critical section and then goes, one call to the file system at a time, through
`SaveAppMappings` and `SaveConfig`; `os.WriteFile` is two actions because it empties
the file first, and `at[w]` says what has become of the file a goroutine opened, for
another request may rename or remove it meanwhile.  A failing call leads to the
removal of the temporary file and to `ReloadConfig`, which reads the file before it
takes the mutex.  `Restart` drops every request at any point.  `trouble` remembers
the worst that happened (nothing; a failed call or a dead request; two requests at
once; a file that could not be read when it was to repair memory), for each promise
is good up to one of these; `Patience` bounds when requests begin.

An application is its URL.  A catalogue that parses although its file was cut short
is represented by the empty one, and a write that fails by a file that stays empty.

* `catalog` (two requests, two applications, two category names, failing calls,
  restarts): URLs stay unique whatever happens; without an overlap `config.yaml` is
  whole at every moment and equal to memory whenever no request is under way; while
  nothing goes wrong the mappings follow their applications; editing categories
  costs no application.  Two URLs allow a move onto the other's and a deletion beside
  a survivor; two names allow two categories of one name, by renaming; two categories
  let the removal of an empty one shift the other.

Seen, and the reason for the conditions of these properties: two saves share
`config.yaml.tmp` (`config.go:59`), so that one renames what the other has just
emptied, although `config.go:49` promises an atomic write; a failed save brings the
application back but not its mapping (`admin_apps.go:357` to `:364`), although
`config.go:71` promises consistency; the mapping of an application deleted in between
(`admin_misc.go:95`) is inherited by the next one with its URL; errors of
`SaveAppMappings` are ignored (`admin_apps.go:302`, `:360`).  Renaming a category to
a name in use leaves two of that name (`admin_apps.go:457`).  Beside the model: a PUT
drops the dependencies of the application (`admin_apps.go:263`).

### Credentials, AccessGate

Credentials holds everything that lets a request in for a limited time, and the clock:
`sessions` with their expiry, `keys` (the rows of `api_keys` in order of id), `states` (the
table `oidc_states`) and `attempts` (the limiter's map).  `zone` is how far the server's
time zone is ahead of UTC: a session's expiry is stored with its zone and compared as text
with a UTC time (`local.go:26`), so that it is honoured `zone` hours longer or shorter.
`Found` is the lookup of a key: the live rows of its prefix in order, at most `Candidates`
of them.  A login that begins inserts its state in one statement and sweeps old ones in the
next; a callback finds its state in one and deletes it in the next.

AccessGate follows a request: `Arrive`, then at the gate (`AutoLoginRedirect`) and again in
its handler the flags, the key, the header and the session, each a critical section or a
statement of its own, `Filter` for CSRF check and limiter, `Dispatch` for the handlers that
answer without asking who it is, `Rights` for the question which group administers, and
`Follow` for a browser that obeys a redirect.  `settings` and `mode` change under it, the
second after the first; `Mode` is read without the mutex where redirects are decided, so
that a `torn` string may be read.  For the properties only, `witness` remembers which
credentials of a request named nobody at some instant since it arrived (`missed`), whether
one was an administrator's by the time all that are asked before it had been missed
(`once`), and which was the first to name somebody, an administrator, at every instant
(`by`); `passed` is the log of the attempts the limiter let through.

`ServedRightly` is about credentials one by one and not about the request at an instant:
of a request that carries a key and a session, the key may begin to be found after it was
looked for and the session's account become an administrator's after that, so that the
session decides although at no instant it was both an administrator's and the first to
name somebody.  `RedirectsEnd` is about requests without a key, as
browsers make them: a key that begins to work and ceases to on the way leads once more to
the dashboard and back.

* `gate` (one request at a time, every credential it presents changing under it, five
  kinds of settings, zones of -1, 0 and 1, three ticks, sessions of two, states and windows
  of one, a limit of two): an administration handler serves only what was an administrator's at some
  instant, and turns away none that was throughout; a browser is redirected at most twice;
  a state waits for its callback for as long as promised; a key that works keeps working
  while others are made; and fewer than two limits of attempts of an address pass within
  the length of a window, however its windows lie.  Behaviours are about sessions, keys,
  OIDC, attempts or settings (`mix`): requests of one kind read nothing of the others.  One
  request is enough, for requests share nothing but what the other actions change at any
  moment; the one thing they do share, the limiter, counts every attempt of a long
  behaviour.

Three ticks let a session of two expire under a request and two windows of one lie side by
side.  With a limit of two, the last attempt of a window and two of the next do pass: the
bound is met, and a limiter that lets one more through, or begins a window a moment
early, breaks it.  One candidate and two keys of a prefix make a key wait behind another,
and one record more than the limiter keeps makes it forget.

Seen beside these properties: a session outlives its expiry east of UTC and ends early west
of it, by the offset (`local.go:26`); a state is found by a second callback until it is
deleted (`oidc.go:104` to `:113`); a system that uses LDAP or a proxy alone sends a browser
to `/auth/oidc` (`auth_redirect.go:74`), which answers 503, and so does a fresh system,
whose first visit should go to the wizard (`README.md:67` of the repository,
`dashboard.go:71`); `POST /api/auth/login` and `GET /api/auth/config`, called public in
`README.md:255`, answer 401 to those who have not signed in, for `AutoLoginRedirect` does
not list them; all counters go when there are more than 10000 (`security.go:245`).

Not modelled: which origins and cookies the CSRF check accepts beyond yes and no, response
headers, the body limit, `last_used_at`.

### HealthCache, OverridesCache, DashboardView, UpstreamTokens, DiscoveryParsers, Dashboard

What stands behind a page, one module for each part, composed in Dashboard, where a
behaviour is about one of them (`focus`) with everything that changes beside it.

*HealthCache*: `round` goes through the catalogue, the sources one after the other, checks
that end in any order, and the replacement of the whole of `health`; `single` holds the
checks that additions of applications have started.  `cells` and `size` are the backing
array and the length of the Go slice of applications, because a deletion shifts it in place
and an `append` writes into it or moves to another; a PUT does both, whatever it changes.  A service answers as it likes and may
change.  *OverridesCache*: an edit is a statement, which may fail, and later a critical
section; `collided` remembers addresses two edits of which overlapped.  The error of the
load at the start is only logged (`database.go:237` to `:239`): `unread` are the rows that the
cache lacks for that reason.  *DashboardView*: a
page copies the header of the slice, reads its cells one by one, then copies the lists of
the sources one after the other and looks up the override of each address at a moment of
its own, while applications, mappings, lists and overrides change.  *UpstreamTokens*: the NPM token with its mutex, which is held over the login, the
loop, manual refreshes and PUTs that change the address; the LLDAP token, whose mutex is
not, and which is empty after an answer without one (`lldap.go:69` to `:79`; `npm.go:231` looks
for that).  Time is the age of a token.  *DiscoveryParsers*: each source's parsing as an operator
from what it is told to the list it publishes; a reference definition (`CaddyIsRight` and
its like) says what the list should hold without regard to the order of finding it.
What there is to be found is assumed of the inputs (`InputsAssumption`,
`HandlersAssumption`): lists are lists and Caddy's servers are finitely many, for they were
decoded from an answer; for the same reason no list of handlers is nested in itself, so the
lists of a configuration are numbered (`HandlerLists`), each after those nested in it; an
include of Nginx's is of a file that is there or of nothing, cycles included, which
`maxDepth` ends.  A `Host` matcher may be empty: `ExtractHost` looks at the first alone, so
what is said of Traefik's list is that it has every router whose matchers all name a host,
and none without such a matcher.

* `dashboard` (two addresses, of which one moves; two sources; one change while a page is
  put together; two editors; two managers, of which one changes; the loop and one
  refresher; two LLDAP requests): the cache of overrides is that of the table unless two
  edits of an address overlapped or the start failed to load its row; a page holds nothing
  twice of the catalogue or of one source, and everything that was visible all along,
  unless an application was deleted or edited meanwhile; a token sent to the service that
  issued it is accepted; every list is right for every bounded answer; and,
  under fairness, the health of what stays ends up right, of what has gone forgotten, and
  the list of NPM that of its manager.  An address that stays beside one that moves tells a
  shift from a change; one change (`MaxChanges`) is enough to come between any two
  reads of a page.  Lists are of two items, blocks of two locations, includes two deep and
  cyclic, routes nested twice: each repetition, each skip and each fallback occurs.

Fairness: the round, each of its checks and each single check take their next step (the
Go scheduler; HTTP clients have time-outs; the ticker ticks), the NPM loop and refreshes
under way go on, and time passes.  Editors, administrators, new refreshes and services owe
nobody anything.  `Tick` waits while a token is in the hands of a request for a second
time: HTTP clients give up after five seconds, tokens have five minutes to spare.

Seen beside these properties: an application that keeps moving between the catalogue and a
source may be missed by every round; a deletion shifts the array under a page, which then
shows an application twice or leaves one out (`dashboard.go:88`, `admin_apps.go:329`), and so
does an edit, even of a name alone (`admin_apps.go:251`: the others move down and the
application is appended into the cell that became free); an application of no groups is
shown to administrators alone (`dashboard.go:39` to `:42`), where `README.md:151` of the
repository says "empty = visible to all"; an
address that two sources have is shown twice, and so is one whose `URLOverride` is an
address of the catalogue, which is compared before it is applied (`dashboard.go:112`,
`:142`); the health of an application with a `URLOverride` is looked up under that address,
which no round checks (`dashboard.go:166`); after the address of NPM changed the old
manager's token is sent to the new one until it is too old, a refused token stays stored,
and a refresh that logs in may store one after Stop cleared it (`npm.go:178`, `:96`);
`NPMRefreshToken` is never called; the comment at `lldap.go:85` says that a lock is held
over check and refresh, which `:95` gives up; which scheme Caddy's host gets when an HTTP
and an HTTPS server both have it depends on the order in which Go walks the map and
changes from one refresh to the next (`caddy.go:172`); a block of Nginx falls back to its
host also when its locations were all seen before (`nginx.go:408`); of Traefik's statuses
only 401 is looked at (`traefik.go:152`); `ExtractHost` takes the host of a negated matcher
as well (`traefik.go:218`).

### Secrets, BackupRestore

Secrets: `key` is the key in use, `dbKey` the one in the table `encryption_keys`; each start
finds its key anew (`InitEncryptionKey`), in the environment, in the database, by making
one, or not at all.  A value is plaintext, or a key and what it encrypts; `EncryptValue`
leaves alone what looks encrypted and `DecryptValue` what it cannot decrypt.  `Bare` is the secret
that is the prefix `enc:` and nothing else: with a key set, it is stored as it is and
read as an empty one (`encryption.go:171` to `:174`).

BackupRestore: of the settings, `methods` stands for what a backup brings back and `secret`
for what it does not; `meant` is, for the properties only, the secret last entered.  A PUT
or a restoration changes memory, takes and encrypts a snapshot, commits it, and a
restoration then writes the preferences row by row.  A backup reads preferences, then
settings.  `accounts` and `prefs` are tables with `AUTOINCREMENT`, a foreign key and `ON
DELETE CASCADE`; saving preferences looks a number up and uses it in a later statement.
`Start` may happen at any point and drops every request.

* `backup` (two requests, three keys, three starts, two users, two numbers): what the
  table and memory hold of a secret is the secret or one encryption of it, never of
  something else or of an encryption, with a key that a start has had, through any saves
  and starts with any others, except of the bare prefix; nobody meets somebody else's preferences,
  whoever came and went during a save, a backup or a restoration; what a restoration that
  nobody overlapped reports as restored stays until somebody asks for something else.
  Behaviours are about keys, settings or preferences (`focus`); goroutines and users are
  symmetric.  Three starts allow a key, another, and the first one again.

Seen beside these properties: a key stored in the database that cannot be read is taken for
none, and a new one overwrites it (`encryption.go:53` to `:111`), so that the secrets stay
encrypted for good, and so do those encrypted with a made key that could not be stored
(`:104`, "key will be lost on restart"): `SecretComesBack` says what is kept, not that the
key is; the secret `enc:` is lost with the first start and save; a secret that begins with `enc:` is stored in plaintext
(`encryption.go:129`); scopes and LDAP attributes are in the backup and not restored, and
users are never restored, against `CHANGELOG.md:73` of the repository; preferences are
restored by number, so that in another database they reach other users; a restoration may
enable local authentication without an account, which `admin_config.go:127` refuses; one
whose save fails reports that settings were not restored although memory has changed
(`admin_misc.go:356`); the preferences of users without a local account are always
refused (`user.go:62`: the foreign key has no row -1).

### Not modelled

The audit log (one INSERT), the pages of LLDAP, icons and uploads, the validation of
addresses, wiring and shutdown, and everything in the browser keep no state that anything
above relies on; PROJECT.json gives the reason for each.

## 4. What is proved

The proof modules hold for any number of workers, handlers, names, ids and forms.

* `DiscoveryLoopProofs`: `LifecycleInv` adds to the types that the channel in the
  Stop field is the newest and open, that closed channels were created, and that
  starts not yet made are still allowed by `puts`; it gives `TypeCorrect`,
  `StopNeverClosesTwice`, `WaitGroupIsExact` and, with any number of administrators,
  `OnAlwaysHasLoop`.  With `OneHandler` (one PUT handler
  and no refresh) `QuietInv` adds that a goroutine about to publish belongs to an
  enabled source and that no goroutine is left when the list is cleared; it gives
  `OffListsNothing` and, step by step, `ServiceImplemented`.  With `OneAdministrator` (one
  PUT handler, any number of refreshes and of other requests that save) `AgreeInv` follows
  a PUT from memory through the table to the switch, in particular that nobody starts a loop
  while a woken Stop has yet to return, and that what others are about to commit is what
  the table will agree with; it gives `SwitchFollowsTable`.
* `SessionStoreProofs`: `SessionTypes`, `SessionsBelongToTheirOwner`,
  `NamesStayUnique` (which no run checks by itself), `AdministratorsKeepThemselves`, all
  without assumptions beyond those on the constants.  An id for which a request is to open
  a session was handed out, and its account, if it still exists, has the name the request
  was made for: this is what makes the insertion safe after any delay.  An update may be of
  a number that was not, and its self-protection holds when the look-up gave a name.  Two more hold for
  `OneAtATime` (one request at a time, beside sessions that end by themselves).
  `ResetEndsOldSessions` also wants uninterrupted requests, for a reset may stop between
  the new password and the end of the sessions: `PasswordInv` says that nowhere else a
  session of an old password is left.  `PanelStaysReachable` wants every administrator to
  have an account (`ExternalAdmins = {}`; one known by a proxy or a key has none to
  protect): `ActorInv` says that the author of a request is an administrator at each of
  its statements, so that the last one is the one who may not remove himself, unless the
  update is blind, which both theorems except.
* `SystemConfigProofs`: `WholeInv` (memory, table and every snapshot under way stem
  from one form each) gives `FormsAreWhole`; `ModeInv` (the mode follows memory, or a
  save failed, or somebody is still to apply) gives `ModeFollows`; `CalmInv` (without
  an overlap a single request is under way, and what it carries is what memory still
  holds) gives `TableAgrees`, `ProviderAgrees` and `SettingsSurviveApply`.

  Behind them, about SetupWizard: `OpenInv` gives `WizardOrLogin`.  It says that who has made
  an account before the wizard is closed goes on to close it (`ClosedInv`), that local
  authentication is never on without one (`LocalInv`), and that the mode and the provider
  follow memory, or something failed, or somebody is still to apply them (`ModeInv`,
  `ProviderInv`).  Its hypotheses are `~Restarts`, for a restart in between does lock
  everybody out, and `FormsUsable` (a form has a way to sign in, a proxy alone its
  networks), for an administrator can do so with the settings handler; the run `setup` has
  both.  `MadeInv` (while no requests
  overlap, the account is in the group memory still has) gives `WizardLeavesAnAdmin`,
  without hypotheses.

* `CatalogFileProofs`: first lemmas about the operators on catalogues (what adding,
  removing, renaming and moving does to the URLs of a sequence of categories, and
  that the first category of a name is one).  `UniqueInv` says that every copy of a
  catalogue, in memory, in a file or in a goroutine, has unique URLs, because each was
  in memory once: it gives `CatalogUrlsUnique` with no condition on failures or
  overlaps.  `AloneInv` says what a request that nobody overlaps may rely on at each
  of its steps (it still carries what memory has, the temporary file has what it
  wrote, file and memory differ only between its edit and its rename or reload): it
  gives `CatalogFileIsWhole` and `CatalogFileIsMemory`.  `CalmInv` says the same of
  the mappings and gives `CatalogMappingsFollow`, which needs the uniqueness of URLs:
  only then does an application take its URL with it when it goes.
  `CatalogCategoriesKeepApps` is an action property that follows from the lemmas.

* `BackupProofs`: `OwnInv` says that every number a save, a backup or its file holds
  preferences for was given to their user and to nobody since, so that its account is
  that user's or has gone: it gives `PreferencesAreOwn`.  `SecretInv` (table, memory and
  every snapshot under way hold a secret as it is meant or encrypted once, memory only
  with another key than the one in use; or it is the bare prefix) gives `SecretsComeBack`.  `KeptInv` (a request
  that nobody overlaps finds at each step what it left at the one before; once one was
  reported as restored nobody is at work) gives `RestorationIsKept`.

* `AccessGateProofs`, for any number of requests at once, any settings and any mix of
  credentials, where the run has one request and one mix at a time.  `IdentityOK` and the
  types give `TypeCorrect`; `Forward` (no step moves the clock back, changes a key but for
  deleting it, or brings a session back) is what the others rest on.
  `KeysAlwaysKeepWorking`, an action property, rests on a count: the usable keys of a
  prefix before a key only become fewer, because new ones go behind it.  `StatesInv` gives `StatesAlwaysWait`.  `LimitInv` describes the log: `Fits` says
  which of its entries came in the last window, and that those out of reach of it are
  more than a window away, and gives `LimitAlwaysHolds` (of as many attempts as two limits,
  the last comes more than a window after the first) by a difference of two entries in
  place of a sum.  `ServedInv` (what a request has established at each label: which
  credentials were missed, and that the one which has been there all along is still
  to be asked) gives `AlwaysServedRightly`.  `RouteInv` (where a browser is after one and
  after two redirects; `Lost` says that neither header nor session name anybody, and that
  this stays so while the settings do) gives `RedirectsAlwaysEnd`.
* `DashboardProofs`: `EditsInv` (an edit that overlaps no other of its address finds in the
  table what it wrote; a row the start failed to load stays missing until then) gives
  `CacheAgrees`.  `NpmInv` and `LdapInv` (a token in the hands
  of a request was fresh when taken and has aged at most once; between LLDAP's answer and
  the second look at the store no minutes pass) give `SentTokensAccepted`.  `PageInv`
  gives `PagesAreRight`: what the page has still to read is what the catalogue had,
  although arrays grow, are reused or are left behind (`Owes`); what it owes it has put
  on the page or has still to come to, cell by cell (`Filtering`) and then address by
  address of the list it has copied and source by source (`Discovering`), while nothing is
  deleted or edited.  These are theorems of `ViewSpec` and `TokensSpec`.
  `DashboardImplements` says that Dashboard, which the run checks and which composes the
  two with each other and with the parsers, implements both, every step being a step of
  each or leaving it alone; with `ListsAreRight` this gives `DashboardIsRight`, all four
  invariants of the composition at once.

* `ParserProofs`: for each source, that what its parser publishes is what the reference
  definition wants, for any input; `ListInv` in DashboardProofs (what was published is what
  the source makes of what it was told) lifts this to `ListsAreRight`.  The parsers' loops
  and recursions are written as recursive functions, of which nothing is known but that
  some function with their equation was chosen, if there is one.  So `LoopExists` shows that
  a loop of any number of turns has a run, `EndAlike` that two runs end alike, and for each
  loop a lemma (`KeptLoop`, `FlattenLoop`, `AddLocationsLoop`, `ResolveIncludesLoop`,
  `ReachedLoop`, `NginxAppsLoop`) puts the two together; nested lists of handlers
  are numbered, each after those nested in it, and `FindReverseProxyUpstreamDef` and
  `DialsDef` find their functions list by list.  Then each loop has an invariant: `Kept`
  lists what it should in its order (`Enumerates`); the flattened search for an upstream
  and the search that stops at the first one agree (`UpstreamIsFirst`); every level of
  `ResolveIncludes` adds what one more level of includes reaches (`HadIsReached`); a list
  has served all blocks up to here (`Serves`).  Induction is had from the least element
  of a set of numbers (`LeastNat`, `UpTo`).

The assumptions are the named ASSUMEs of the modules, which TLC evaluates on every run,
and the hypotheses named above where they are stated; each instance that checks the same
property satisfies them.

Only model-checked: `StopReturnsFromSleep`, `HealthSettles` and `NpmSettles`, which are
liveness under fairness and beyond the prover.
Two runs refute what they check (`discovery_hang`, `sessions_login_reset`).

`ServedRightly` and `RedirectsEnd` are stated as section 3 explains because their simpler
forms, of the request as a whole and of any request, are false of requests that carry both
a key and a session; the behaviours of the run, which present credentials of one kind,
do not tell the forms apart, and the proofs do.
