# dbosctl in TLA+

A formal model of `dbosctl`, the command line of DBOS: what it does to a DBOS
system database (`internal/migrations`), to the state it keeps on the user's
machine (`internal/creds`, `internal/config`, `internal/auth`), and how one of
its commands goes from those to an exit code (`internal/cli`, `internal/client`).
TLC checks the models on small instances; TLAPS proves what matters most for
every instance.

## The system

| Component | State it keeps | Operations | Talks to |
|---|---|---|---|
| Migration runner (`migrations/runner.go`) | the version row in `dbos_migrations`, the schema's tables and indexes | `Apply`: create the database, read the version, apply each pending migration, record it | PostgreSQL or CockroachDB; other migrators, SDKs included, through the database alone |
| Migration list (`migrations/migrations.go`, `sql/`) | none | `BuildMigrations`: the ordered list, rendered for a dialect and for LISTEN/NOTIFY or not | runner, print mode |
| Print mode (`migrations/statements.go`, `cli/migrate.go`) | none | `Statements`: the script an administrator runs with `psql` | the list; the database only through that script |
| Grants (`migrations/grants.go`) | privileges in the database | seven statements after a migration | database |
| Reset (`migrations/reset.go`, `cli/reset.go`) | rows of the system tables | `Empty` (all, or one application's rows, in one transaction), `DropDatabase` | database; running applications |
| Rename (`migrations/rename.go`, `cli/rename.go`) | the `application_name` of rows | one transaction for what is live, then batches by `workflow_uuid` | database; running applications; other renames |
| Credential store (`creds/creds.go`) | `credentials.json`, one entry per profile | load, save, delete; each a read of the whole file, then a rename over it | every command that authenticates |
| Login, logout, token refresh (`cli/login.go`, `cli/common.go`) | the entry of a profile | device flow and save; delete; exchange of the refresh token and save | credential store, OIDC provider |
| Device flow (`auth/auth.go`) | interval and deadline of one login | poll until approved, denied, expired or interrupted | OIDC provider |
| Profiles (`config/`, `cli/config.go`) | `config.yaml` | load, resolve (flag, environment, profile), set, use, save | every command |
| Conductor commands (`cli/app.go`, `workflow.go`, ...) | none of their own | resolve, authenticate, one HTTP request, an exit code | profiles, credentials, Conductor |

What is hard in it:

* **Nothing locks.** Two migrators (the SDKs migrate when they start, too), two
  renames, two commands that refresh a token or edit a profile interleave freely.
* **Online migrations are not transactional.** `CREATE INDEX CONCURRENTLY` may
  fail and leave an invalid index; its version is recorded by a second round
  trip; a client may die between the two, or while its statement waits.
* **The list is not one list.** It depends on a flag that each run may be given
  or not, on where a printed script begins, and on what old SDKs left.
* **Work is cut and run again.** No command retries: the operator does, and the
  second run starts from whatever the first one left.
* **State is read, then used.** The version row, the list of invalid indexes, a
  batch's upper bound, the credentials file: each is read once and acted upon
  later. A command that calls Conductor reads two files at three moments.
* **Whole files are replaced.** A login, a refresh or an edit of one profile
  writes back what it has read of all the others.
* **Answers are lost or late.** A COMMIT, a token exchange, a created fork: done,
  and reported as failed.

What makes each part correct:

* runner: the recorded version is the truth about the schema at every moment a
  run may be cut; it never goes back; the version table keeps one row; running
  the command again gets through;
* list: whichever runs were told to leave LISTEN/NOTIFY out, what a migration
  pins exists, and what two of them exist to remove is gone;
* print mode: the script does to a database what a run would have done, as long
  as none of its statements fails;
* reset: all that was asked for goes, or none of it; other rows stay; the counts
  are of what went;
* rename: an application is never half owned where it is live; a cut rename is
  completed by running it again; the counts are of rows that did move;
* credentials: saving a profile leaves the others alone; a logout stays one; a
  refresh token that was rotated is not lost;
* device flow: polls no faster than asked, ends soon after the deadline, misses
  no approval that was in time, holds no token the provider did not give;
* profiles: the file stays one that commands can use;
* commands: a request never goes out as another profile's, leaves once, or again
  where a redirect asks for it, and the exit code tells what became of it.

## The modules

| Module | Models | Uses |
|---|---|---|
| `SchemaLedger` | what migrating promises to the users of a schema: the abstract specification | |
| `MigrationRunner` | the runner, for any list of migrations and any migrators | `SchemaLedger` (instance) |
| `MigrationList` | the real list, by effect | |
| `Renderings` | runs with and without LISTEN/NOTIFY, and old databases | `MigrationRunner` |
| `PrintedScript` | a printed script executed beside the runs | `Renderings` |
| `MCMigrationRunner` | an excerpt of five migrations for TLC | `PrintedScript` |
| `MCFullList` | the whole list on PostgreSQL for TLC | `Renderings`, `MigrationList` |
| `Ownership` | what a rename promises: the abstract specification | |
| `Rename` | `RenameApplication`, by any number of commands, beside applications | `Ownership` (instance) |
| `MCRename` | a handful of rows for TLC | `Rename` |
| `CredStore` | the credentials file, the commands that replace it, the provider | |
| `MCCredStore` | the symmetry of its commands for TLC | `CredStore` |
| `DeviceGrant` | what a device login promises: the abstract specification | |
| `DeviceFlow` | one device login with its clock, user and provider | `DeviceGrant` (instance) |
| `Login` | `dbosctl login`: the flow, then the save, beside other commands | `CredStore`, `DeviceFlow` |
| `Reset` | `Empty`, beside applications and renames, on a schema of any version | |
| `MCReset` | nine rows and six schemas for TLC | `Reset` |
| `Profiles` | `config.yaml`, its edits, and resolution | |
| `Session` | a command, from its settings to its exit code | `Profiles` |
| `MCSession` | two profiles, two accounts, an API key, three commands for TLC | `Session` |
| `MigrationRunnerProofs`, `RenderingsProofs`, `PrintedScriptProofs`, `RenameProofs`, `CredStoreProofs`, `ResetProofs`, `SessionProofs` | theorems | the module of that name, TLAPS |
| `LoginProofs` | theorems about `DeviceFlow`, and about it and `CredStore` as `Login` composes them | `Login`, `CredStoreProofs`, TLAPS |

An operator whose comment says *Mutant* is a plausible mistake in the operator
of the same name without the suffix. Nothing uses it: put in that operator's
place, it breaks the properties, which shows that they depend on it.

### MigrationRunner

The state is the database's: `rows` (the table `dbos_migrations`), and for each
object of the schema whether the catalog has it and in which condition (`stat`),
which migration's definition it carries (`def`), and whose statement is at work
on it (`owner`). Each migrator has its place in `RunMigrations` (`pc`), the
version it believes in (`cur`, the code's `currentVersion`), the flag
`invalidIndexesCleaned` (`cleaned`) and the names it has listed (`todo`).

| Action | Code |
|---|---|
| `ShouldMigrate` | `Apply` up to the answer of `ShouldMigrate` |
| `Setup` | the setup transaction of `RunMigrations` |
| `ApplyCatalog` | `applyCatalogMigration`: SQL and version row in one transaction |
| `ListInvalid`, `DropListed`, `CleanupDone` | `CleanupInvalidIndexes`: the query, each drop, the return |
| `ExecOnline` | the `pool.Exec` of an online migration |
| `RecordOnline` | the `writeMigrationVersion` after it |
| `Finish`, `Stop` | the end of the loop; any error return, signal or lost connection |
| `Complete`, `Abort` | PostgreSQL ends, or fails, an index statement, and `Exec` returns |
| `StartOrphan` | PostgreSQL starts a statement whose client died while it waited for a lock |
| `ForeignBuild` | somebody else builds an index of theirs in the schema |

An index that is being built or dropped is not valid in the catalog
(`pg_index.indisvalid`), which is how `CleanupInvalidIndexes` of one run comes
upon the work of another. A statement on an object waits until nobody else is at
work on it; with `IF [NOT] EXISTS` it then may find nothing to do. A client
that dies during its statement leaves the server working; one that dies while it
waits leaves its statement in the server only if `Lingering`, which is the
constant that separates the clean case from the real one (PostgreSQL notices a
dead client when it next talks to it, not while it waits for a lock).

A catalog migration is one step: what it reads and writes is protected by the
locks its DDL takes until it commits. Migrations whose SQL has no `IF NOT EXISTS`
(`Strict`) fail when they find their objects there, and roll back.

`SchemaLedger` is the promise to an application that uses the schema and to the
operator: a `version` and what the catalog shows of each object. `Transact` takes
the whole schema from one version to the next, `Work` touches nothing but the
index of the next online migration, `Record` moves the version on when that is
done. Migrators, locks, cleanups and interruptions do not occur in it. The
mapping (`LedgerVersion`, `LedgerSchema`) takes the row, and the catalog without
whose statement is at work: an index under work is one that is not valid.

### Renderings

`listen` is what the operator wants, `flag[p]` what the run of migrator `p` was
told by `--no-listen-notify`, `extra` what the database has of the triggers (with
their functions) and of the one key that migration 1 of old SDKs did not create.
`RApply` is `ApplyCatalog` with what the rendered SQL makes (`Makes`), removes
(`Removes`) and must find (`Pins`): migration 20 pins the search path of
functions, and fails where they do not exist. `Turn` is the operator thinking
again between two runs, `MayTurn` what they may turn to. Runs start from a
database that runs of one mind have left, of any version, with the key or,
below 10, without it.

### PrintedScript

`script` is where `psql` is in a script printed from version `from`. The script
has no transactions: each statement commits by itself, and the version is
recorded by a statement of its own, an INSERT where the script begins a database.

| Action | Code |
|---|---|
| `ScriptBegins` | `printSQL`, and an administrator who uses the script as its header says (`FitFor`) |
| `ScriptCreates`, `ScriptCreated` | the statements of a catalog migration; migration 10 is `ScriptRuns` (`migration10Statements`) |
| `ScriptIndexes`, `Notices` | the statement of an online migration, and its end |
| `ScriptRecords` | the INSERT or UPDATE of the version |
| `ScriptErrs` | a statement fails and `psql` goes on with the next one |
| `ScriptStops` | the administrator, a lost connection or `ON_ERROR_STOP` ends it |
| `Others` | runs, foreign builds, lingering statements |

The header of the script and the README ask for plain `psql`, which goes on after
an error: `erred` remembers that a script has (`ScriptErrs`, or `Notices` of an
index that came out invalid). What a script does is said of histories without
that; `script_plain` shows what happens after it.

### Ownership and Rename

`Ownership` is the promise: every row of a system table has an `owner`, a
workflow may be in flight, `TransferLive` hands over in one step all that an
application needs to run (queues, schedules, versions, workflows in flight), and
`TransferHistory` hands over the rest only when nothing live is left. `Rename` is
the code: four UPDATEs in a transaction, then batches.

| Action | Code (`rename.go`) |
|---|---|
| `Start` | `RenameApplication` to the open transaction |
| `Update` | one UPDATE of the transaction: it locks its rows (`locked`) |
| `Commit`, `CommitUnanswered` | `tx.Commit`, answered or not |
| `Bound` | the SELECT of the watermark in `renameInBatches` |
| `MoveBatch`, `MoveUnanswered` | the UPDATE of a batch, answered or not, and what follows it |
| `Fail` | any error return, the deadline, an interruption: roll back and leave |
| `AppInserts`, `AppChanges` | a running application, which waits for locked rows |

Every statement reads what has been committed when it begins (READ COMMITTED)
and waits for rows that another rename's transaction has changed (`Free`). The
batches walk `Key`, the `workflow_uuid`, from `lower` to the watermark `mark`.
`counted` is what the command reports; the history `moved` is what it moved, and
`fresh` is what became the old name's after the run had begun.

### CredStore

One entry per profile in `file`. A command (`job`) works on one profile: it may
`Load` the entry and exchange its refresh token, or log in, or log out; then it
reads the whole file (`ReadAll`) and renames a new one over it (`WriteAll`).

| Action | Code |
|---|---|
| `Load` | `bearerToken` where it finds an expired token with a refresh token (`common.go`) |
| `Exchange`, `ExchangeUnanswered`, `ExchangeRefused` | the request in `refreshStored` and its ends |
| `LogIn`, `LogOut` | `runLogin` up to the tokens; `runLogout` up to the file (`login.go`) |
| `ReadAll` | `readAll` in `Save` and `Delete` (`creds.go`) |
| `WriteAll` | `writeAll`: temporary file and rename |
| `Cut` | the command is interrupted or fails |
| `Expires` | the clock |

Tokens are numbered in the order the provider gives them; `origin` says which
login a token goes back to, so that a refresh is the same login and a second
login another. The expiry stored with an entry is the number of the token whose
lifetime it was taken from, which is how a stale one is seen.

### DeviceGrant, DeviceFlow and Login

`DeviceGrant` is the promise of a device login without clock and messages: the
user decides on a code, the provider exchanges an approved code once, and who
asked holds a token only if it did. `DeviceFlow` is the code: `pollToken`'s
interval, timer and deadline in ticks, one poll or answer under way (`mail`), the
provider's knowledge of the code, and the user.

| Action | Code (`auth.go`) |
|---|---|
| `Begin`, `NotBegun` | `Discover`, `requestDeviceCode` and the head of `pollToken` |
| `Expire`, `Ask` | the timer fires: past the deadline, or not |
| `Retry`, `Learn` | `parseTokenResponse` and what `pollToken` does with it |
| `Interrupt`, `Lose` | the context is cancelled; the request fails |
| `Decide`, `Lapse`, `Serve`, `Tick` | the user, the provider, time |

A timer fires up to `Late` ticks after it is due, a request ends within
`Latency`. `demand` is the spacing that the provider has asked for, which the
code must keep up with by its `interval`. `Login` composes the flow with
`CredStore`: one command at a time is in its flow (`who`), the others go on with
the file, and a flow that ends with a token becomes `CredStore`'s `LogIn`.

### Reset

A row has a table, a `workflow_uuid` (`Of`) and an `owner`. `schema` says which
tables there are, which of them have an `application_name`, and whether steps
cascade from their workflow: one record for each kind of version a migration may
have stopped at.

| Action | Code (`reset.go`) |
|---|---|
| `Start` | `Empty` to the open transaction: the order of `resetTargets` is `Rank` |
| `Refuse` | `Empty` where there is nothing it could reset |
| `Delete(t)` | one DELETE, with its cascades: its rows are `gone` for the transaction |
| `Commit`, `CommitUnanswered` | `tx.Commit`, answered or not |
| `Fail` | any error return: roll back |
| `Enqueue`, `Record`, `Register`, `Collect` | applications, through an SDK |
| `ReOwn` | the transaction and the batches of a rename, in any portions |

`asked` remembers what the reset was asked for when it began, `removed` what it
really removed. A row inserted later is not asked for, even if it takes the place
of one that was.

### Profiles and Session

`Profiles` has the file (`current` and the profiles) and the edits, each of which
reads the whole file (`copy`), changes its copy and renames it over the file.
`Edited` and `Allowed` are `runConfigSet`, `Resolve` and `Unresolvable` are
`internal/config`'s `Resolve`. A URL is its scheme and host: what the code asks of
it is whether it is production's (`IsProd`) and https.

`Session` takes a command through `place`:

| Action | Code |
|---|---|
| `Start` | Cobra's parsing: a bad flag ends with 2, a wrong number of arguments with 1 |
| `Check`, `Confirm` | what a handler refuses before it reads anything; the prompt of `app delete` |
| `Settle` | `settings`: file, environment and flags |
| `Token` | `bearerToken`, `FileStore.Load` with its fallback to the TypeScript CLI's file (`ts`), `client.New` |
| `Refreshed`, `RefreshFails`, `SaveRefreshed` | `refreshStored`: the request to the issuer, without a timeout, then `Save` of the entry that was loaded before |
| `EffectiveOrg`, `LookUp` | `effectiveOrg`: set, local, captured at login, or asked for |
| `EffectiveApp` | `effectiveApp` |
| `Send`, `Receive`, `GivesUp` | the request; its answer; the timeout, a lost connection, the cancelled context |
| `Follow` | `http.Client` follows a redirect, with the same request (307, 308) or with a GET (301, 302, 303) |
| `Interrupt`, `Kill` | the first and the second signal (`Execute`) |
| `Serve` | Conductor does what is asked, or refuses, or a host before it redirects; and answers or not |
| `ReadLogins`, `LogIn`, `LogOut` | other commands read the whole file of logins (`draft`), and later write it back with one entry changed |
| `TSLogIn`, `Edit` | the TypeScript CLI logs in or out; the profiles are edited |

The 31 commands differ in what the tables at its head say (`Handler`): what they
name in the path, whether they act, which decoded body they need, if any, whether
they may refuse at once, whether they ask. Of a login only the account and the
organization captured with it matter here; the rest is `CredStore`'s.

Two things are assumed of the other side. Conductor does what it answers with a
2xx to a request with its own method. A host that redirects does so before
Conductor has seen the request, and a GET in place of a DELETE, PATCH or POST
does nothing (`own`). What `net/http` sends once more over a new connection is
left out: it repeats a GET, or a request of which nothing was written yet.

## What the runs show

| Run | Instance | Shows |
|---|---|---|
| `full_postgres` | 1 migrator, all 73 migrations, LISTEN/NOTIFY on, off, or turned off, a foreign index, fairness | `RecordedMeansApplied`, `TriggersGone`, `NextGoesThrough`, `ImplementsLedger`, `RerunConverges` |
| `runner_two` | 2 migrators and a script that has not erred, migrations 1, 10, 22, 23, 33, `Lingering` | `RowUnlessErred`, `TablesUnlessErred`, `KeyUnlessErred`, `FaultlessScriptRecords` |
| `script_plain` | 1 migrator and a script, the same list | **violated**: `LoneScriptRecords` |
| `two_complete` | 2 migrators, the same list, no script | **violated**: `UpToDateIsComplete` |
| `notify_on` | 1 migrator, all 73 migrations, LISTEN/NOTIFY turned on between runs | **violated**: `PinsWhatExists` |
| `rename_running` | 2 renames to two names, 3 rows, batches of 1, the application running | `LeftBehindIsNew`, `CountsAreFacts` |
| `rename_stopped` | 1 rename with unclaimed rows, 7 rows, fairness | `NeverRefuses`, `ImplementsOwnership`, `RerunCompletes` |
| `cred_one` | 1 command at a time, logins with their flow, 2 profiles, 3 answers | `LastWordHolds`, `SaveLeavesOthers`, `PollsSpaced`, `ApprovalCounts`, `EndsInTime`, `ImplementsGrant` |
| `cred_many` | 3 commands, 1 profile, 3 answers | `PairsMatch`, `RefreshKept` |
| `reset_app` | one application, every kind of schema, both running | `TakesAll`, `RemovedWhole`, `OthersUntouched` |
| `reset_all` | whole schema, oldest and latest, an application and a rename | `TakesAll`, `AllOrNothing`, `CountsAddUp` |
| `session` | 1 command of three kinds, 2 profiles, 2 edits, a writer of logins, 2 accounts, an API key, one redirect, fairness | `FileUsable`, `OneAtATime`, `AddressedAsOne`, `ExitTells`, `AsksOnce`, `CommandEnds` |

A type invariant is checked in one run of each of `MigrationRunner`, `Rename`,
`CredStore` and `Reset` besides; `DeviceFlow`'s is proved.

What holds in `full_postgres` for a reason another property gives is proved and not
checked there again: `UpToDateIsComplete` follows from `RecordedMeansApplied`,
`VersionNeverRegresses` from `ImplementsLedger`, and a run that did not find what
migration 20 pins (`PinsWhatExists`) could not go on to the end that
`RerunConverges` asks for. `two_complete` and `notify_on` violate the first and the
last of these, under constants that the theorems exclude.

**Runner.** The excerpt has one of each kind of step: the strict first migration,
the key that a script may skip, a drop and a re-creation of one index name (22,
23: the order that makes a stale cleanup dangerous) and a transactional migration
after them. Two migrators are enough for every race of the runner, which has no
rule about more than one other. Runs start from a database any earlier version
left, new ones included. The full list needs one migrator: its steps between two
records are the excerpt's. The foreign index and the changing flag are in the
runs of the full list only, a script only in `runner_two` and `script_plain`. In
`runner_two` the constraint `MCFaultless` stops where a script goes on after an
error: its properties, which are about what comes before, hold from there on.

`CHECK_DEADLOCK FALSE` stands in the configurations of the runner because an
up-to-date database with nobody running really is at rest, and in that of
`Session` because a command that has ended is.

**Rename.** One small table, in `rename_stopped`, stands for three, which the
code treats alike, one after the other; with two renames the workflows in flight
stand for all that the transaction takes. Batches of one key make every boundary
occur with three workflows: a first batch, one between, a last one; two steps of
one workflow (`s1`, `s1b`) tell keys from rows. `rename_stopped` starts from every
assignment of owners, `rename_running` from an application that has all rows or
none yet.

**CredStore and Login.** `MaxToken`, the number of answers, bounds how long
commands can go on: three are a login, a refresh and one more of either by a
command that was late. The provider rotates refresh tokens in every run; where it
does not, none is ever spent. In `cred_one` its answers come with and without a
lifetime (`TellsExpiry`), and one command at a time works; `cred_many` has the
interleaving. The commands of `cred_many` are interchangeable: `Command` occurs only under
quantifiers, and the two properties are invariants. A tick of the flow stands for
five seconds: the default interval and what `slow_down` adds are one tick, the
default lifetime is scaled down to 3 and the one the provider tells is 4, so that
a code lives for several polls. `MaxSlowDowns = 1`, `Late = 1` and `Latency = 1` let
each of the three push a poll past the deadline, alone and together. What a flow
knows is forgotten when it ends, so that the next one starts from the same state.

**Reset.** One workflow of each of two applications, with a row for every way in
which its rows can go (by name, by workflow, by cascade), a queue, and a row
nobody owns; the schemas differ in each of the three things that migrations
change for a reset: no tables, 99 (no application names), 100 (on workflows
only), 104 (on steps too), 109 (payload tables), 125 (steps do not cascade).
`reset_app` starts from rows as those schemas and running applications write
them, but for one mixture: steps that name nobody in a schema in which the others
do (see *Old steps*). `reset_all` leaves out two rows of B, whose kinds A has, and
adds a rename.

**Profiles and Session.** Two readings of the file (`MaxEdits`) are two edits, one
after the other or overlapping. They make a profile managed, or self-hosted
without authentication, and an empty `--issuer` makes the latter a bearer profile
without an issuer, or is refused where there is no target yet. Flags and
environment of the command are none, or an `http` URL of production and no
profile.

Two profiles, of which one has an account, another account in the TypeScript
CLI's file and an API key, all of different organizations, are what it takes for
a token to be another profile's. A writer with one reading of the logins
(`MaxSaves`), beside the save of the command's own refresh, makes each of the two
put back an entry that the other has replaced or removed.

The three commands (`whoami`, `workflow fork`, `app delete`) have between them every
scope, every decoded body, a prompt and a refusal; one redirect (`MaxHops`; `net/http` follows ten) can turn any of them into a GET.

Edits and logins stop once the command has read its credentials (`MayMatter`),
which are the last it reads. One command is enough: commands share nothing but
the files, which the writers and edits change on their own; the theorems are for
any number.

**Fairness** (`full_postgres`). Weak fairness of each migrator's next step: the
operator runs the command again and its steps take finite time. Weak fairness
of `Complete`: PostgreSQL ends what it started. Nothing is assumed of `Stop` and
`Abort`; the property asks for convergence only once these have ceased, which is
all the code can promise, as it never retries.

**Fairness** (`rename_stopped`). Weak fairness of each rename's next statement,
`Start` included: the operator runs the command again until it has reported
success. Again nothing is assumed of failures, and completion is asked for only
once they have ceased.

`cred_one` has no fairness. That a login ends cannot be said: `auth.Login` waits for
the provider without a timeout, past its own deadline if the provider is silent.
`EndsInTime` says what is so, that a login whose requests are answered within
`Latency` ends in time.

**Fairness** (`session`). Weak fairness of the command's own steps, the timeout
among them. Nothing is assumed of Conductor and of the issuer, which may never
answer, nor of the operator at the prompt. `CommandEnds` therefore excepts a command
that waits for the issuer and has not been interrupted: `auth.Refresh` has no
timeout either.

### Disagreements met

Each of these is a run that TLC ends with a behaviour of the code that a comment
or the README of the repository denies:

* *Two migrators* (`two_complete`). The cleanup takes an index the other run is
  building for a leftover, waits for it, drops it, and the other run records it
  as made. `ShouldMigrate` then reports that nothing remains.
* *LISTEN/NOTIFY turned on* (`notify_on`). A database that a run with
  `--no-listen-notify` left below 20: migration 20 of a run without the flag pins
  functions that do not exist, and fails again at every run, until the operator
  passes the flag.
* *Plain psql* (`script_plain`). An index statement of the script fails, `psql` goes
  on, and the UPDATE records its version, though
  `internal/migrations/statements.go:21` has the script "mirroring the runner".

These are properties of the modules that fail for the same reason, under the
constants named; no run is kept for them:

* *Old steps* (`TakesAll`, from `AtAnyAge` in the latest schema). Since migration 112
  steps do not cascade, and steps from before migration 104 name nobody: they
  outlive the reset of their workflow's application, where `README.md:272` has
  every workflow-keyed table cascade.
* *A lost COMMIT* (`FailureRemovesNothing`, as in `reset_all`). The reset reports a
  failure and has removed everything, where `README.md:297` has a failure remove
  nothing.
* *Reset beside a rename* (`OthersUntouched`, with `Renames`). Each DELETE asks for
  itself whose its rows are: a rename between two of them leaves the new owner a
  workflow without its input and steps, where `README.md:273` has other
  applications untouched.
* *No expires_in* (`RefreshedOnExpiry`, with `FALSE` in `TellsExpiry`). A refresh whose
  answer has none keeps the old, past expiry on the new token: every later
  command refreshes again, where a login would have stored 0, "unknown", and
  `internal/cli/common.go:172` has a token refreshed when it has expired.
* *Two saves* (`SaveLeavesOthers`, with two commands and two profiles). The later
  rename puts back what another profile's entry was, though
  `internal/creds/creds.go:75` has "leaving other profiles untouched".
* *Two logins, one request* (`OrgOfToken`, as in `session`). The organization is read
  from the logins after the token was, and may be another login's by then, or
  the TypeScript CLI's.
* *Redirects* (`ZeroMeansDone`, as in `session`). A 301, 302 or 303 makes a GET of a
  DELETE, PATCH or POST, whose success is the command's: it ends with 0 and has
  done nothing. `internal/config/resolve.go:77` knows of a host that redirects.
* *Bad arguments* (`UsageIsTwo`, as in `session`). Cobra finds them itself, and they
  exit with 1, not with the 2 of `README.md:409`.

And more of the kind:

* with two migrators the version row goes back (`VersionNeverRegresses` fails):
  it is read once and written without a condition;
* with `Lingering`, one migrator is not enough for `UpToDateIsComplete`: a
  statement that outlives its client can leave an invalid index behind a version
  that a later run has recorded;
* a printed script beside a run is not alone any more, and may record a version
  whose index the run has dropped. It has no cleanup of invalid indexes, and one
  that has stopped inside a strict migration of several statements cannot be
  taken up again;
* plain `psql`, beside a run on a new database, may INSERT a second version row:
  its migration 1 fails because the run's tables are there, and it goes on to
  the INSERT (`OneVersionRow` fails);
* with two commands at once `LastWordHolds` fails: a command that refreshes while a
  logout runs logs the profile in again;
* "device code expired before it was approved" (`internal/auth/auth.go:204`) is
  printed, too, when the approval came after the last poll and before the
  deadline: `ApprovalCounts` says how late it must have been;
* `CommitUnanswered` and `MoveUnanswered` of a rename: a COMMIT, or the UPDATE of a
  batch, whose answer is lost is reported as a failure that moved nothing.
  `CountsAreFacts` allows that, since it only forbids counting too much;
* two renames can meet the "refusing to loop" of `renameInBatches` although
  another turn of the loop would have gone on (`NeverRefuses` fails);
* `SystemTables` says that correctness does not depend on its order. The counts do
  (the mutant of `CountsAddUp`), and beside a running application more than they:
  emptied first, `workflow_status` would keep a workflow enqueued after that,
  whose input the later DELETE takes;
* steps recorded before migration 104 are left behind by a rename as well, which
  its code names as a known gap (`internal/migrations/rename.go:64`);
* two overlapping edits of the profiles may lose one of them, which `FileUsable` does
  not mind;
* `config set --url` on a managed profile keeps the domain, which goes on deciding
  the target, though the help has "Target exactly one of"
  (`internal/cli/config.go:46`); `config set --managed` keeps the OIDC block of a
  self-hosted profile; an audience or a client ID alone implies bearer, without
  an issuer to log in with, and so does an empty `--issuer`; and production is
  asked for over https only where the profile has no domain of its own;
* the organization captured at login is used whatever the target is: also with
  `--url` of another Conductor;
* a profile without a login of its own goes on with the TypeScript CLI's, whatever
  its target is, also right after `dbosctl logout`;
* a command that finds no login at all exits with 1, where `internal/cli/root.go:31`
  and the README have 3 for "auth-required"; a second signal that is SIGTERM ends
  with 143, not 130;
* a command that creates something exits with 1 when Conductor's 2xx has no body
  that decodes: it is done all the same (`ExitTells` asks nothing of 1). A
  declined `app delete` exits with 0.

## What is proved

`MigrationRunnerProofs`, from the named assumptions of `MigrationRunner` alone
(versions are positive; an online migration is one CREATE or DROP of one index;
no migration creates what the version before it has; the first one is strict and
creates an object no other touches), for every list, every set of objects:

* for **any number of migrators**, `TypeCorrect`, `VersionRowIsUnique` and
  `TablesArePresent`. The inductive invariant is `SharedInv`: an object that only
  transactions touch is never half made and is on nobody's list, and whoever
  believes to be at version `v` finds the tables of `v`. That is what keeps a
  second first run out: its migration 1 fails on the tables before it can INSERT.
* for **one migrator, no lingering statement**, `RecordedIsApplied`,
  `UpToDateIsTrue` and `VersionOnlyGrows`. The inductive invariant is `SingleInv`:
  `CatalogInv` says in which intermediate forms the one index of the next online
  migration may be (`HalfDone`), and `RunInv` what a run knows at each place,
  above all that after its cleanup every index is whole or its own;
* from the same invariant `MigratesAsPromised`, `Spec => Ledger!Spec`. A step that
  leaves the row alone is `Work` or a stutter, because `CatalogInv` fixes the rest
  of the catalog before and after it; `ApplyCatalog` is `Transact` (`AppliesToAll`)
  and `RecordOnline` is `Record` (`RecordsTheTruth`);
* and `RunsGoThrough`: no history of cut runs leaves a schema on which the next
  migration fails by itself. It is the safety half of `RerunConverges`, and what
  fairness adds to it is only that steps are taken.

`RenderingsProofs`: `RendersTheRunner` (`RSpec => Spec`) carries the theorems about
the runner over to runs that render different lists: `RenderedRowIsUnique` for
any number of migrators, `RenderedAsPromised` for one. For any number of
migrators `KeyIsPresent`, where the list has migration 10 as a transactional one
(`KeyInv`: whoever believes to be past 10 finds the key); for one migrator and no
lingering statement `TriggersAreGone`, where the migrations that make and drop the
triggers are transactional, and `PinsAreThere`, where the flag is never taken back
(`PinsInv`: below 20, as long as the operator wants LISTEN/NOTIFY, both triggers
are there; `notify_on` shows that the assumption is needed).

`PrintedScriptProofs`, for any list, any number of migrators and scripts that come
one after another, as long as none has gone on after an error (`~erred`; the runs
above show that this is needed):

* `ScriptedRowIsUnique` and `ScriptedTablesArePresent`. `SharedInv` again, with
  `ScriptInv`: behind the place a script has come to, its tables are there, and
  while it is at the first migration nobody has recorded a version;
* `ScriptKeyIsPresent`, where 1 is in the list and 10 is transactional
  (`ScriptKeyInv`: a script that leaves 10 out began with 1);
* `LoneScriptsTellTheTruth`, for every list: a script that is alone records a
  version only when the schema is that version's. `LoneInv` says of each object
  that the script has either done with it, is at work on it, or finds it as the
  version before has it.

`RenameProofs`, for any rows, names, batch size and commands:

* unconditionally `TypeCorrect`, `CountsNeverOverstate` (`CountInv`: a run that
  goes on has counted what it moved) and `NothingOldLeftBehind` (`PassedInv`:
  what a run has passed is locked by it, no longer its source's, or newer than
  the run);
* with every source stopped and no target another's source (`Stopped`,
  `Uncrossed`), `ImplementsItsPromise`: `Spec => Own!Spec`. `Commit` is
  `TransferLive`, a batch is `TransferHistory`, everything else stutters;
  `TransactionInv` says that an open transaction alone holds all that is live of
  the tables it has gone through, and that after it nothing live is left;
* with one rename besides, `BatchesProgress`: below a watermark is always a row.

`CredStoreProofs`, for any commands, profiles and number of answers:

* unconditionally `TypeCorrect` and `PairsStay` (`WholeInv`: every entry in the
  file or in a command's hands is of one login);
* with one profile, `RefreshTokenKept` (`KeptInv`: the refresh token that a
  command is about to save is unspent and nobody else's), and with one command at
  a time `RefreshTokenKeptAlone`, for any number of profiles (`DistinctInv`: no two
  profiles' latest tokens are the same one);
* one command at a time, `LastWordIsKept` and `OthersAreLeft` (`AloneInv`: what a
  command has read is still the file).

`LoginProofs`, for any intervals, lifetimes, delays and number of slow_downs:
`FlowTypeCorrect`, `PollsStaySpaced`, `LoginEndsInTime`, `ApprovalIsNotMissed`, and
`LoginKeepsItsPromise`, `FlowSpec => Grant!Spec`. `PaceInv` says when the timer is due
and what of the provider's demand is still in the answer under way; `ApprovalInv`
that an approval which a pending answer missed came after its poll; `GrantInv`
that a token under way is a redeemed code. `LoginUsesTheFile` (`LoginSpec => Spec`)
and `LoginRunsTheFlow` (`LoginSpec => FlowSpec`) then say that the composition takes
nothing from either part, so that what is proved of each holds of `dbosctl login`
as a whole: `LoginsLastWord`, `LoginsKeepRefreshes`, `LoginsPairsStay` and
`LoginsFlow`.

`ResetProofs`, for any rows, names, schemas and applications:

* unconditionally `TypeCorrect`;
* for a reset of the whole schema, whatever runs beside it, `ResetTakesAll` and
  `FailedTakesAllOrNothing` (`TakenInv`: a row that was asked for is deleted or its
  DELETE is to come, and none of it is gone before the commit) and
  `PrintedCountsAddUp` (`CountInv`: what has gone with its workflow was counted by
  an earlier DELETE, or was not there at the start);
* with no rename under way and every step's name its workflow's or nobody's
  (`Settled`), `WorkflowsGoWhole`, also for a reset of the whole schema, and
  `OthersAreLeft` (`WholeInv`: the workflow of a deleted row is deleted or will
  be; `OwnInv`: what has been deleted was in scope). The disagreements above show
  that the assumption is needed;
* for a reset of one application, with no rename under way and from a database in
  which steps that do not cascade name their workflow's owner (`StepsNamed`; that
  they go on doing so is proved), `ApplicationResetTakesAll` and
  `ApplicationResetIsAtomic`. `DueInv` says of every row that was asked for why it
  will go: by its own table's DELETE, since it bears the name; with its workflow,
  since it cascades; or, a payload, by a DELETE that comes before its workflow's.
  *Old steps* above is what happens without `StepsNamed`.

`SessionProofs`, for any number of commands, edits, writers and redirects:

* `FileStaysUsable` and `EditsOneProfile`, of the edits alone (`ProfilesSpec`): the
  invariant `Kept` says that every copy an edit works on is usable, as the file
  is, so that it does not matter whose rename comes last;
* `ExitCodeTells` and `RequestLeavesOnce` (`Told`: at each place, what has been
  sent, redirected, answered and done). They rest on what is assumed of Conductor
  and of redirecting hosts under *Profiles and Session*; a 0 says nothing of a
  request that was turned into a GET, unless its handler wants a 201, which a GET
  does not get;
* `RequestsAreAddressedAsOne` (`Paired`: every entry of the logins, and of every
  copy of them that a save is about to write, is of an account of its profile,
  and what a command holds is so too, or the TypeScript CLI's).

Each inductive invariant held in TLC's instances before it was proved.
Model-checked only: the liveness properties `RerunConverges`, `RerunCompletes` and
`CommandEnds`, since fairness and ENABLED are beyond the prover. `CountsAddUp` is
claimed of a reset of the whole schema only: one of an application does not count
what goes with its workflows.

## What is not modelled

* The checks that precede a rename or a reset (the version, the columns, the
  prompt) are part of its first step, and the schema does not change while one
  runs: a migration between those checks and the transaction needs the three on
  one database. `DropDatabase` is one statement.
* Grants are seven statements, each of which may be repeated, one after another.
* CockroachDB: the dialect is in `OnlineVersions` only; there every migration is
  a transaction.
* What Conductor does with a request, beyond doing it or not, and more than one
  host that redirects.
* The output, the bindings in `internal/api/client.gen.go` (13,808 of the 20,600
  lines of Go, generated: one structure and one function per operation, without
  state; how an answer is decoded is in `Answer` and `Succeeded`), the tests'
  containers and the packaging. `PROJECT.json` lists each with its reason.

## Plan

1. `MigrationRunner` with its list, `SchemaLedger`, its abstract specification, and
   proofs: done.
2. `Rename` with `Ownership`, its abstract specification, and proofs: done.
3. `CredStore` and proofs: done.
4. `Reset` and proofs: done.
5. `Renderings` (LISTEN/NOTIFY from run to run, old databases) and proofs: done.
6. `PrintedScript` beside the runs, and proofs: done.
7. `DeviceFlow` with `DeviceGrant`, composed with `CredStore` in `Login`, and proofs
   of both and of the composition: done.
8. `Profiles` and `Session`, and proofs: done.
9. To come: migrations, rename and reset on one database, with the checks that
   precede the transactions as steps of their own.
