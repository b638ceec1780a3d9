# Formal specification of the SQL early-warning system

The program runs SQL queries on a schedule and mails what they return. Two
processes share one SQLite file: the **web** process (FastAPI; administrators
edit rules and settings, run a rule by hand, read logs) and the single **worker**
(an APScheduler that runs each enabled rule by its cron expression). This directory
specifies, model-checks and partly proves how they keep to their promises when
they interleave, fail and die.

## 1. Inventory

| part | state | operations | correct when |
|---|---|---|---|
| Execution lease, `execution_lock.py` | table `RuleExecutionLease`, one row per rule | upsert that takes an absent or expired row, release by token | one executor per rule; a row never blocks for good; nobody deletes another's row |
| Rule execution, `execution_service.py`, `executor.py`, `mailer.py` | `AlertSuppression`, `ExecutionLog`, `MailLog`; locals of a call | query, filter suppressed keys, mail, retry, persist in one transaction | what is mailed, logged and suppressed agree; no needless repeat; archived rules fall silent |
| Schedule synchronizer, `scheduler.py` | `known_cron_by_rule_id`, the scheduler's jobs | `sync`: remove, add, reschedule | jobs are those of the enabled rules, after any failures |
| Worker, `worker.py`, `worker_health.py`, `health.py` | heartbeat row, loop variables | boot, loop, record, readiness | the loop survives every failure, and readiness tells the truth |
| Login limiter, `web_security.py` | `_states` (failures, lock time, gate, references), next cleanup time | `attempt`, `record_failure`, `clear`, cleanup | no more than `max_failures` passwords per window; bounded memory; no state lost in use |
| Administrator sessions, `auth.py`, `admin_cli.py` | `AdminUser.password_hash`, `session_version`; signed cookie | login, logout, `require_admin`, password change on page and command line | a session does not survive a password change, its idle limit or its maximum age |
| SMTP settings, `routes.py` | `SmtpConfig` with a partial unique index on `enabled` | create, update, delete, test | at most one enabled, and the one last enabled stays so |
| Rules and data sources, `routes.py` | `AlertRule`, `AlertRuleVersion`, `SqlDataSource` | create, update, import, archive, delete source | every stored rule passes validation; versions are numbered without gaps; archival is final |
| Logs, `log_service.py` | the two log tables | list, export in batches, delete expired in batches | no mail log without its execution; an export has each row of its start once, cleanup aside |
| Start-up and migration, `db.py` | schema, `_schema_initialized` | create and migrate under `BEGIN IMMEDIATE`, `get_session` | all or nothing, whoever starts beside whom; keeps what it must of old rows |
| Preview, SQL validation, rendering, dashboard, error texts, crypto, wiring, browser code | none | pure functions or reads | not modelled; see section 7 |

**Interaction.** A job of the worker and the "run" button both call
`execute_rule_by_id`, in different processes; they meet at the lease row and in
the suppression table. The pages change the rules that the synchronizer reads
every interval. The worker's rounds write the heartbeat that the web process's
`/health/ready` reads. Cleanup runs in the worker's loop beside executions that
append logs and exports that read them.

**Hard behaviour.** SQLite has one writer, and a statement waits up to 30 s for it
(`db.py:31`); reads outside a transaction see each other's commits; a session reads
rows long before it writes them back. A process can die between any two steps, and
only the tables remain. Mails cannot be rolled back. `PROJECT.json` lists every
hazard at its line, with the properties that watch it.

## 2. Modules

| module | models |
|---|---|
| `RuleMutex` | abstract: a lock per rule |
| `ExecutionLease` | `execution_lock.py`; implements `RuleMutex` |
| `ExecutionLease_proofs` | its theorems |
| `RuleExecution` | `execute_rule_by_id` and all it calls, on top of `RuleMutex`; `archive_rule` |
| `RuleExecution_proofs` | its theorems |
| `WorkerSync` | `scheduler.py`, `worker.py`, `worker_health.py`, `health.py` |
| `WorkerSync_proofs` | its theorems |
| `LoginPolicy` | abstract: failures and lockout of a key |
| `LoginLimiter` | `web_security.py` under the requests of the login page; implements `LoginPolicy` |
| `LoginLimiter_proofs` | its theorems |
| `AdminSession` | sessions of `auth.py`, the password change of `routes.py`, `admin_cli.py` |
| `AdminSession_proofs` | its theorems |
| `RuleEditing` | the pages for rules and data sources, `routes.py` |
| `RuleEditing_proofs` | its theorems |
| `SmtpSettings` | the pages for SMTP configurations; a start of the program is one step |
| `DatabaseStart` | `db.py` statement by statement, in several processes, under these pages; implements `SmtpSettings` |
| `DatabaseStart_proofs` | the theorems of both |
| `LogStore` | appends of `execution_service.py`, cleanup and export of `log_service.py` |
| `LogStore_proofs` | its theorems |
| `MC...` | forms and symmetry sets for TLC; the constants are in the `.cfg` files |

The modules compose in layers: `ExecutionLease` refines `RuleMutex`, and
`RuleExecution` enters and leaves through `RuleMutex`'s actions instead of carrying
tokens and expiry times along. Where a run can outlast its lease the refinement
fails, and `RuleExecution` has the switch `Overrun` to let a second executor in.
`WorkerSync` ends where a job fires: from there on it is a call of `RuleExecution`.
`DatabaseStart` composes the starts of three processes with the pages of `SmtpSettings` and the
suppression rows of executions, and refines `SmtpSettings`, whose `InitDb` is one atomic step.

### ExecutionLease

One variable for the table (`lease`), and for each executor the local variables of
its call. `ReadClock` draws the token and reads the clock; `Acquire`, `Refuse` and
`AcquireFails` are the outcomes of the upsert, which may come later, because the
statement waits for the write lock. `Release` deletes the row if it still carries
the executor's token; `ReleaseFails` leaves it there. `Crash` may happen anywhere. `MaxWait`
bounds the wait and `MaxRun` the body, both as guards of `Tick`. `outcome`,
`entered_at` and `abandoned` are histories that only properties read.

### RuleExecution

A record per executor holds the locals of its call. The phases are the places where
the code touches something shared or may fail: the archive check (`CallRule`), the
lease and the rule as it is then (its send mode may have been edited since), configuration, query, one step for each row of the suppression filter
(each is a SELECT), building, one step for each mail, the retry decision
(`EndAttempt`), the first SELECT of the persistence and its transaction
(`PersistRead`, `PersistCommit`; SQLite's writer lock is taken at the first write, so
only the first record can be read too early: `Duplicate`). A row is its suppression
key or `Blank`; a message is the set of its rows' keys, which the server accepts in full, in part or not
at all; a mail of the call is such a message with its attempt and its place, so that two mails
of equal content are two. Histories: the mails the server acknowledged over all attempts (`acked`), those that the
mail logs name (`logged`), and the runs logged as SUCCESS. A mail is taken when `sendmail` returns: one
that the server has but whose acknowledgement was lost ends in the `except` of `mailer.py:62`, counts
as not sent and may be sent again by a retry. `LoggedMailsAreTheMailsTaken` and
`NoKeyMailedTwiceInACall` are about the acknowledged mails and say nothing of such a one.

### WorkerSync

The rules are what each asks for: a schedule or `Off`. One action per outcome of
each step of the loop; inside `sync` one action per rule, in any order, because the
code goes through a set and a dict. A failed job operation changes neither job nor
entry, as APScheduler's do. `LoseJob` is the scheduler dropping an exhausted job. The
heartbeat's age stops counting just above the timeout, which keeps the model finite
without a clock. `Given` bounds which schedules a rule is given; the database starts
with no scheduled rule, and `EditRule` can give each one before the worker boots.

### LoginLimiter

`tab` is what the limiter's lock protects: the states by key with their order, and the
`_AttemptState` objects on a heap, because a thread keeps its object through the whole
request and only an object's identity tells whether it is still the one in the
table. Each stretch of code under the lock is one action (`EnterKnown`, `EnterNew`,
`TurnedAway`, `Check`, `RecordFailure`, `Clear`, `Drop`), each operation of the gate
another (`PassGate`, `ReleaseGate`). The helpers keep the names of the code:
`Expire`, `Discard`, `CurrentState`, `Cleanup`. Times are relative to now, so the model
is finite without a last instant. The refinement shows each key what the table would answer
now (`View`): lazy expiry, cleanup and the discarding of states are invisible to
`LoginPolicy`. The code pops failures from the head while the head is old (`Recent`); the policy says that the
old ones go and no others (`Fresh`), which is the same because failures are in order. A restart of the process forgets all; `retry_after()` has no caller.

### AdminSession

The session is in the browser's signed cookie, so the server keeps nothing of it and cannot
take it back: what revokes it is the row's `session_version`. A request (`req`) works on the
cookie it was sent with; Starlette sets a cookie only if the session was changed, and the
browser takes it when the response arrives (`Arrive`). Responses of one browser overtake one
another, so an older session may come back, also after a logout. `ChangeLoads` to `Restamp` and `CliReads`,
`CliCommits` are the two ways to change the password: the row is read, a hash is computed,
the row is written, and on the page the version is read again and stamped on the session, because a commit
expires what was loaded. The UPDATE carries the version that was read plus one.
Passwords are numbered as they are set; the password a session has proved, the time of
its login, the session a request was sent with (`asked`), the last admission of a browser and
whether changes have overlapped are histories.
Who changes the password is not safe from late responses: one to a request sent before the response to
the change arrived may overwrite or delete the new cookie (`auth.py:88`, `:86`), and the author must
log in again. `ChangeKeepsOwnSession` says that this is the only way, beside logout, age, idleness
and the next change.
`EndWithoutCookie` is every answer that leaves the cookie alone: a refused login or form token, an
exception. The user name never changes, and there is one administrator: others have their own rows.

### DatabaseStart

Each start (`start[s]`) takes SQLite's write lock with `BEGIN IMMEDIATE` and works on its own view of
the tables (`work`) until it commits; `Abort` is an exception or a death at any statement. A table is
missing, old or whole: how many columns it lacks is no matter. `workerheartbeat` is never widened,
an incomplete one ends the start. Threads of the web process start the schema from `get_session`, unless
`initialized` is set; they look at it without a lock, so two may do the work twice. The worker
and the command line tool call `init_db` at each of their starts. `Remember` is an execution that
inserts a suppression row, and `Page` a step of a page of `SmtpSettings`; a commit needs the lock, a read does not.
Of two rows for one pair the start keeps the one with the larger id, whose
`last_seen_at` need not be the later: that the pair is still known is `NoKeyForgotten`, and
no document promises more.

### RuleEditing and SmtpSettings

A request of a page is a thread that loads rows, validates, and commits once. SQLAlchemy
opens the session, but the SQLite driver begins a transaction only at the first write, so the
reads before it see every other commit, each at its own time. And an UPDATE
carries only the columns in which the row now differs from what was loaded. `Written` says
that for rules; in `SmtpSettings` `enabled` is the only column in question. Both matter
when requests overlap: two edits merge column by column, and an edit saved after an archival
does not undo it. `RuleEditing` keeps the columns that validation relates to one another and
those other parts read; a form is one of the set `Forms`. `mixed` and `seen` (and `quiet` in
`SmtpSettings`) are histories by which properties tell overlapping edits from others.
SQLite gives a new row the largest id plus one, so ids of deleted rows come back; rules
are never deleted. Every way a request can end without writing is `GiveUp`.

What overlap does break, beyond the violation below: two versions may share a
number; a snapshot may predate the edit before it; an archived rule may come out with
`enabled` set, which matters to nothing, because every reader asks for `archived_at` too; and of two administrators who enable different SMTP
configurations the second may find neither enabled, if it had loaded its own as enabled
(`QuietSaveDecides` excludes just that).

### LogStore

The two log tables are sets of rows with ids. An append is one transaction and one
action. Cleanup is two steps per batch, because its SELECT does not open a transaction
yet; its cutoff is fixed when it starts, and it may fail anywhere. An export reads the largest id,
then batch after batch, each in a session of its own; its actions are written once
for both tables, as the code is. `written`, the moment of the commit, is a history
that tells a row from an earlier one with its id; `start`, `out`, `twice` and `cleaned` are
the histories of an export. `MaxRun <= Retention` says that no execution takes as long as logs
are kept, which is a day at least; with it, an id that comes back comes back above the cursor.

Overlap does break one thing here: if a cleanup takes the last row of a table between the export's
first two reads, a row written after the export's start may get its id and be exported
(`StableUnlessCleaned` excludes just that).

## 3. Runs

| run | question | bounds |
|---|---|---|
| `execution_lease` | is it a lock when `MaxWait + MaxRun < Lease`? refinement of `RuleMutex`; does an abandoned rule run again (liveness)? | 2 executors, 1 rule, lease 3, 4 tokens, clock 4: one full lease and a takeover |
| `lease_late_commit` | **violated**: a lease longer than any run is enough | lease 3, wait 1, run 2, clock 8 |
| `rule_execution` | do mails, logs and suppression agree? do calls admitted before an archival end (liveness)? | 2 executors, 1 key and blank rows, 2 rows, 2 attempts, either send mode, window 1, clock 2: before, at and after the edge of the window |
| `worker_sync` | do jobs follow rules through every failure, do they converge, is a dead or failing worker noticed (liveness)? | 2 rules, one of them with two schedules, timeout 1 |
| `ready_before_sync` | **violated**: ready only after a successful round | the same |
| `login_limiter` | do gate, references and cleanup keep each key's count? refinement of `LoginPolicy`; do stale states leave (liveness)? | 2 threads, 3 keys for 2 places, window 2, lockout 1, 2 failures, cleanup every unit, one key at a time |
| `rule_pages` | do references, version numbers, histories and archival survive overlap? | 2 requests, 2 rules, files of 2 rules, 3 edits, 2 data sources, 3 forms |
| `mixed_edit` | **violated**: a stored rule passes validation | 1 rule, 2 edits, 3 valid forms |
| `log_store` | do mails stay with their execution, is an export complete and free of repetitions, does it end (liveness), while ids come back? | 2 ids per table, batches of 1, 2 mails, retention 1, runs up to 1, clock 4 |
| `database_start` | is a start all or nothing, beside other starts, saves and executions? at most one configuration enabled? refinement of `SmtpSettings` | 2 web threads and the worker, 2 requests, 2 configurations with 2 times of update, 3 suppression rows, 2 keys, one table beside the heartbeat, any old database |
| `admin_session` | does a change of the password end the old sessions and keep its own, late responses aside; do age and idle limit hold whatever arrives when? | 1 browser, 2 requests or command line calls, 3 changes, age 3, idle limit 2, clock 3 |
| `password_change_overlap` | **violated**: a change ends every earlier session | the same, clock 1 |

Why the bounds are enough. Rules share no lease row, so one rule shows what the
lock does; that executors of different rules do not disturb one another is part of the
theorems. With `MaxRun = 1` no run overlaps another in `execution_lease`: what
overrun runs may and may not do to each other's rows (`OwnerHoldsRow`,
`NothingLeaks`, `RowsEndProperly`) is proved for all bounds, and `lease_late_commit`
shows an overlap. Tokens are drawn fresh, and as many as executors and rows can hold
are enough. Two keys would only add products of independent rows: filter and
persistence treat keys one by one, and the duplicates of one key are in the runs. Executions that
overrun their lease (`Overrun`) are left to the theorems: no run of TLC reaches the overlapping insert
of `execution_service.py:235`, `SuppressionHasALog` and `LogsAreComplete` cover it alone. One
rule of `worker_sync` has two schedules, because with one, an entry that is wrong could
not name another; a second rule makes a round fail halfway.
`login_limiter` has more keys than places, so the table fills and recovers; its lockout is
shorter than its window, which is what makes it matter that the end of a lockout also
forgets the failures.
`rule_pages` has three edits because a number can be shared by two and the gap would come
with the third; its forms differ in every column, and one is invalid. Every small old
database is an initial state of `database_start`: any two configurations, any three suppression rows,
which is two of one pair and a row of another behind or before them; two web threads can both
find the flag unset, while the worker holds the lock.
`admin_session` has one browser because browsers meet in the row only, and two requests
are enough for one response to overtake another and for a change under a login; the age is
longer than the idle limit, so both can end a session. Two browsers make more than twelve million
states; the theorems cover any number.
`log_store` has batches of one row, so every row is at a boundary of a batch, and a clock
that lets a table empty, fill and empty again.
What section 5 proves for all constants is not always checked again: the type invariants of
all modules but `LoginLimiter`, `UnexpiredOwnerHoldsRow`, `ReturnedMeansReleased`,
`FirstRoundIsExact` and `CountsAndGates` are left to their theorems. `MutualExclusion` is part of what
`ImplementsRuleMutex` says, and is checked by itself where it fails. `RuleEditing` has no
type invariant of its own; `EditingInv` in its proofs types what the theorems need.
`RuleExecution` may stop, when all rules are archived, so its runs do not check
deadlock; all others do.

**What the violations say.**
`lease_late_commit`: the manuals say that the lease counts from its acquisition and
must be longer than the run; it counts from a clock read before the upsert waits for the
write lock, so the wait has to be added. `ready_before_sync`: the deployment guide promises readiness
after a synchronization; starting writes a good verdict in advance. `mixed_edit`: the requirements allow a
dynamic recipient field in per-row mode only, and each form is checked for it, but two
overlapping edits store one's mode and the other's field. `password_change_overlap`: the
requirements say that a change ends all old sessions at their next request; two changes at once write one
version, so a session between them survives the later one, and a slow change can even move
the version back to one that was in use. The page's stamp, read after the commit, can also carry
another change's version.

A partly failed run writes no suppression, so the keys it did deliver come again in the next run.
`docs/project-requirements.md:140` reads as if that were forbidden, but
`docs/superpowers/plans/2026-10-03-audit-reliability-fixes.md:17` decides it so on purpose: this is no finding,
and the properties of windows are stated of SUCCESS runs.

## 4. Fairness

Safety needs none. `ExecutionLease`: time goes on, schedules fire again, threads
are not stopped for ever (weak fairness); the upsert, which competes with others for
the rule, gets through again and again (strong fairness of `Acquire`).
`RuleExecution`: each call's current step ends, because queries, mail and
database all have timeouts (`query_timeout_seconds`, `timeout_seconds`, 30 s).
`LoginLimiter`: time goes on, and some request always takes its next step, a new login if no
other; `StaleStatesGo` needs the logins, because only they run the cleanup.
`LogStore`: an export that is not broken off reads on (weak fairness of `ReadBatch`, nothing of its end).
`AdminSession` and `DatabaseStart` have no liveness and need no fairness.
`WorkerSync`: the loop is one thread that nothing blocks, and time goes on: weak
fairness of `Loop` and of `Tick`, with every failure a possible outcome of every step. No
fairness of edits, lost jobs, stops or restarts is assumed. What `JobsConverge` needs
it says itself: rounds no longer fail, the worker stays up, the rule stays as it is.

## 5. Proofs

For every value of the constants that satisfies the modules' `ASSUME`s.

**ExecutionLease_proofs.** `LeaseInv` strengthens the properties by three facts that
make them inductive. Tokens are never shared (`TokensDistinct`). A row with an
executor's token is the row of its rule, written by its upsert, with its expiry
(`RowFollowsCall`). And the times of a call are in order (`TimesInOrder`). The interesting
step is `Acquire`: it takes a row only if that row has expired at `acquired_at`, hence
now, so it is no row of an executor whose lease still runs. From `LeaseInv` follow
`OwnerHoldsRow`, `NothingLeaks`, `NormalReturnReleases` and `RowsEndProperly` without
further assumptions. `Exclusion` and `LeaseImplementsMutex` assume
`MaxWait + MaxRun < Lease`: then everyone in a body is unexpired, owns its row, and a row
has one owner. The refinement maps `running[r]` to the executors in the body of `r`; every step
is `Enter`, `Leave` or a stutter.

**WorkerSync_proofs.** `SyncInv`: a job is what its entry says, unless the scheduler
dropped it; an entry is something its rule asked for since the last good round; and
the rules a loop of `sync` has visited are done, if nothing has failed. Failures are
harmless exactly because they change neither job nor entry.

**RuleEditing_proofs.** `EditingInv` adds to `SourceOfRuleExists` what requests hold on to:
the rule they edit is there (rules are never deleted) and their forms are forms. The lemma
about `Written` is the heart: a partial UPDATE leaves `archived` alone, and its `source` is
the row's or the form's, which the foreign key checks at that moment, not when the form
was validated. `HistoryInv` adds the history: what an edit has loaded is still the row unless
somebody saved or archived it since, the number it read follows those given out, its form is valid
once validation is behind it, and numbers leave no gap; of a rule whose edits have not overlapped
they count its edits. Hence `NumbersHaveNoGaps`, `UnmixedAreSendable` and `HistoryIsTold`.

**DatabaseStart_proofs.** For the pages, `SettingsInv` adds that requests exist only on an upgraded
database and that a row nobody has touched since its load is still as loaded. At the upgrade
uniqueness comes from the order by time and id being total; afterwards every commit
leaves the saved row alone enabled or enables nothing. For the starts, `StartInv` says that one
start writes at a time, how far its view of the tables has come at each statement, with the
configurations still those of the database (`WorkOf`), and that the flag is set, or about to be, only after a commit (`FlagAfterUpgrade`). Then `StartsAreWhole` is what
the view is at the commit, and `StartsImplementSettings` maps the commit to `InitDb`, a page's step to
itself and every other step to a stutter, so `AtMostOneEnabled` and `QuietSaveDecides` hold of the
composed system too. `LatestIsKept` needs that among finitely many enabled configurations one is the
latest: otherwise counting ranks down would map a finite set one-to-one into a smaller one
(`FiniteMinimum`), which avoids an induction. `KeysAreKept` follows because of the rows of a pair
the last one stays, and an open transaction sees the rows as they are until it thins them out (`MemoryOf`).

**AdminSession_proofs.** `SessionInv` says that whatever has been read of the row, by cookies, requests and
responses on their way, has an earlier version or is the row, as long as changes have not
overlapped (`Older`); that a session which has proved the row's password has the row's version, overlaps or not
(`Known`); that a request ends with a session of no earlier password than the one it was sent with
(`AskedOK`), and a change with one of the password it has set; and that `authenticated_at` is the time of the login and `last_activity_at` no later than the
browser's last admission. So `ChangesRevoke`, `OwnSessionStays`, `SessionsEndByAge` and
`SessionsEndIdle` follow for any number of browsers and requests.

**RuleExecution_proofs.** `ExecutionInv` describes a call by its phase: every attempt starts
with no mail taken, and from the first mail on those taken are those its results will log (`Ledger`); a
key is among the rows kept, the messages unsent or the mails taken, in one place and once
(`OneKeyOnePlace`). So `LogsAreComplete`, `KeysAreMailedOnce` and
`SuppressionHasALog` hold for every constant, with or without overrun. `WindowInv` holds without overrun
only: who is in a body holds the lock, records are no later than the clock, nor than the
time of a call in its body (`Timely`), and what a SUCCESS run has mailed is in the
suppression table at that run's time or later (`LoggedIsSuppressed`). `BodiesAreExclusive`,
`WindowsAreKept` and `NoRepeats` follow.

**LoginLimiter_proofs.** `LimiterInv` says that a thread beyond the entry holds the state of its key, that
two keys never share a state, that references count the holders and that the gate belongs to
the holder inside. `Tidied` says what `Expire`, `Discard`, `CurrentState` and `Cleanup` have in common: gates
and references stay, and a key loses its state only if nobody refers to it (`TidiedIsOK`). So
`record_failure()` finds its attempt's state whatever its own cleanup removes (`FailuresFindTheirState`),
which is why `RecordFailure` has no branch for a missing one.
For the policy, `PolicyInv` adds what the states hold: the failures are in order, oldest first, an object outside
the table is as new (`Sound`), and the state of a thread at its password is not locked (`Unlocked`).
`Counting` and `LockLeft` say what a state means once expired; `Unmoved`, the counterpart of `Tidied`,
that no key's meaning changes, and every helper is shown to be so. Then `LimiterImplementsPolicy` has
three steps that are not a stutter. `RecordFailure` is `Fail`, because the state was not locked at `Check` and
the gate has kept the others away since; `Clear` is `Succeed`; and `Tick` is `Tick`, because to pop the
old failures from the head after a unit of time is to pop them before and then those that have just become
old (`RecentOfAgeing`, which needs the order). That there is a place to stop popping is a counting
argument without induction (`PoppedExists`). `LockedKeysRefused` and
`GuessesBounded` are what the policy is there for, said of the table itself. For `TypeCorrect`, `TableInv` says that the order
lists the keys of the table once each (`Lists`): a rotation permutes places, and removing keys gives
those that stay the places 1 to their number, each place once, since counting up to one's own place is
one-to-one (`PlacesAreTaken`).

**LogStore_proofs.** `LogInv` adds to `KeptWhole` that an id names one execution and that the ids
a cleanup holds name executions that are still there and were expired (`PickedAreExpired`): since only the
cleanup deletes, none of these ids can be given again before it does. `BoundHolds` says for
an export that the row with the largest id of its start is still there, so later rows have
larger ones. For `ExportIsComplete`, `OnceInv` adds that what an export has is at or before its cursor and what it has yet to read
older, that rows which have gone are older than any that come, and that an id that comes back comes with a
newer row (`ExportSafe`): the cursor has passed that row, too.

Only model-checked: liveness (`AbandonedRuleRunsAgain`, `ArchivedRuleFallsSilent`, `JobsConverge`,
`DeadWorkerIsNoticed`, `FailingWorkerIsNoticed`, `StaleStatesGo`, `ExportEnds`), which is beyond the
proof system. Every invariant, action property and refinement that a passing run checks has a theorem.

## 6. Plan

What is left, in order.

1. Data sources with their names and columns: edits of a source under executions that read it.
2. A variant of `RuleExecution` with an ordered source longer than `max_rows`.

## 7. Not modelled

Preview and connection tests write nothing. The SQL validator is a judgement by a
parser library, rendering is Jinja, and both appear as outcomes of an execution. Crypto,
settings, error texts, dashboard and browser code keep no state that a property here
speaks of. APScheduler's firing, coalescing and misfire rules are the library's.
