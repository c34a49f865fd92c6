# nucleon in TLA+

nucleon is a small web framework for Python 2 on gevent, with its own worker
daemon and a PostgreSQL connection pool. It is little code (2000 lines under
`src/nucleon/`), and nearly all of it that keeps state is used by several
greenlets or several processes at once. This directory models those parts,
checks them with TLC on small instances, and proves with TLAPS, for every size, each
safety property that a passing run checks, and the three refinements.

All paths below are relative to `src/nucleon/` unless they say otherwise.

## What a step is

Greenlets switch only where they wait: in `sem.acquire()`, `AsyncResult.get()`,
`Event.wait()`, `join()`, `wait_read()`, `wait_write()`, and in every psycopg2
call that waits for the server, because `database/psyco_gevent.py` makes those
cooperative. Everything between two such points is one step of a model.
`list.pop`, `list.append`, `conn.close()`, counters, `os.fork()` and file writes do
not switch. `os.wait()` does not switch either, but it blocks: in module Daemon
the control process then takes no step at all. Signals are handled by greenlets
of their own when the hub runs (`gevent.signal`). Processes (control process,
workers) take their steps independently of each other.

## Inventory

| Part | State | Operations | Shared with | Module |
|---|---|---|---|---|
| `database/pgpool.py` `PostgresConnectionPool` | `sem`, `size`, `pool`; each connection's link and transaction | construction, `connection()`, `cursor()`, `_connect()` | all greenlets of a worker | PgPool, PgPoolProofs, Loans |
| `database/psyco_gevent.py` | none | wait callback | | as switch points of PgPool |
| `database/api.py` `Database.transaction`, `Database.query` | `attempts`, the connection's transaction, the table | `query`, commit, rollback, retry | other clients of the table | Transaction, TransactionProofs, AtomicTxn |
| `database/api.py` `get_pool`, `framework.py` `get_database` | `_pool`, `_dbs` | lazy construction | all greenlets | LazyPool |
| `database/api.py` `Results`, `easy_query` | none | conversions | | not modelled |
| `util.py` `WaitCounter` | `counter`, `_wait_listeners` | `inc`, `dec`, `wait_for_zero` | request greenlets, stopper | WaitCounter |
| `framework.py` `Application`, `main.py` `webserver_serve` | `running_state`, the request counter, the server | request handling, `stop_serving`, signal handler | request greenlets, signal greenlets | AppServer, AppServerProofs |
| `main.py` `MultiprocessDaemon` | `workers`, `keeprunning`, `stopping`, loggers; in the kernel: processes, zombies, pending SIGCHLD | `start`, `spawn_worker`, `on_worker_exit`, `stop` | workers, kernel, libev | Daemon, DaemonProofs |
| `main.py` `GreenWriter`, `MultiprocessDaemon.logger` | pipes, `buf`, the buffer of the access file | `write`, `logger`, close | workers, loggers | AccessLog, AccessLogProofs, AtomicLog |
| `main.py` `daemonise_nucleon`, `serve`, `commands.py` `start` | the port, pidfile, user and group, stage of the double fork | start-up | other launches: the port and the file | Startup, StartupProofs |
| `config.py` `Settings`, `loader.py`, `tests.py` | `_settings`, `_locked`, global `app` | `_load`, `_set_environment`, reads, `get_app`, `get_test_app` | the whole process | Settings, StartupProofs |
| `database/management.py` `SQLScript`, `commands.py` `syncdb`, `resetdb` | the script; the database's objects and rows | `make_sync_script`, `make_reinitialize_script`, `execute` | other commands on the database | SQLScript, SQLScriptProofs |
| `signals.py` `Signal` | `callbacks` | `connect`, `disconnect`, `fire`, `fire_async` | | not modelled: sequential |
| `cache.py` | memcached | `cached` | all greenlets of all workers | Cache, CacheProofs |
| `http.py`, `validation.py`, argument parsing of `commands.py`, `skel/` | none | responses, arguments, template | | not modelled: no state of their own |

How they interact: `commands.py` loads the application (`loader.py`, `config.py`)
and calls `serve()`, which opens the access log and the listening socket,
daemonises and runs `MultiprocessDaemon`. That forks workers, each of which runs
`webserver_serve()`: a gevent WSGI server around `Application.__call__`, whose
access log goes through a `GreenWriter` and a pipe to a logger greenlet in the
control process. Views use the pool through `get_database()` or through a
`Database`, whose `transaction()` borrows a connection for all its retries. A
shutdown signal goes to the control process, whose `stop()` sends SIGTERM to the
workers; each one's own handler calls `stop_serving()` and then `server.stop()`.

What is hard in this code, with the place of each in `PROJECT.json` under
`hazards`: exception paths of `connection()` that must give back exactly one
permit; a connection that returns with an open transaction; retries against
other clients; the last request ending while a shutdown starts to wait; two
shutdowns at once with two timeouts that are equal; workers that die in bursts
or during shutdown; two reapers of the same children; a log put together from
chunks; a buffer duplicated by `fork()`; a start that fails at any of its ten
steps while a daemon is already running; settings that depend on the order of
reads and switches; views that race to fill one cache entry.

## Modules

| Module | Models | Notes |
|---|---|---|
| Loans | abstract: at most one loan per greenlet and per connection, at most `Limit` loans | implemented by PgPool (`LoansSpec`) |
| PgPool | `PostgresConnectionPool` | `pc` is the greenlet's place in `connection()`; `held` its local `conn`; `txn` says whether the connection has a transaction, and whether that is open or aborted by a failed query that the block caught (`QueryFails`); `fate` and `result` are history variables for what became of a block's work and how it ended; `refused` and `leaked` count the exceptions of `_connect()` and `reset()` |
| PgPoolProofs | proofs about PgPool | |
| Settings | `Settings`, `get_app()`: what a call does to them and whether it raises | its actions are conjoined by those of Startup; `seen` is a history of the sections values came from |
| Startup | `nucleon start` and `get_test_app()`, EXTENDS Settings | `pc` is where a launch is in `serve()` and `daemonise_nucleon()`; `forks` tells which process of it is running |
| StartupProofs | proofs about Startup and Settings | |
| Cache | `cached()` around memcached | time is kept as the age of what a response is made of, so nothing grows |
| CacheProofs | proofs about Cache | |
| WaitCounter | `WaitCounter` | `ready` is the set of waiters whose `AsyncResult` was set |
| AppServer | `Application` and `webserver_serve`, EXTENDS WaitCounter | its actions conjoin those of the counter; the users of the counter are requests, its waiters are shutdown signals |
| AppServerProofs | proofs about AppServer and its WaitCounter | |
| Daemon | `MultiprocessDaemon` and the kernel's side of processes | `reaps` is a fact about the build (see below) |
| DaemonProofs | proofs about Daemon | |
| AtomicLog | abstract: a log extended by the next whole lines of one worker | implemented by AccessLog (`LogSpec`) |
| AccessLog | `GreenWriter`, pipes, `logger()`, `access_file` | a line is two halves, so that reads and buffer blocks can cut it |
| AccessLogProofs | proofs about AccessLog and its refinement | |
| AtomicTxn | abstract: a transaction function takes effect at once or not at all; a call returns after that, raises without it, or never knows | implemented by Transaction (`AtomicSpec`) |
| Transaction | `Database.transaction(retries)` around the function of `docs/database.rst`, and `Database.query()` of one statement that does the same | which calls are of which kind (`direct`) is chosen in `Init`; PostgreSQL's unique index is modelled as the code relies on it. The function lets exceptions out; one that catches a failed query, as `slow_insert` of `tests/database_api` does, is a block of PgPool that does |
| TransactionProofs | proofs about Transaction and its refinement | |
| SQLScript | `syncdb` and `resetdb`: the scripts they make of `database.sql` and `SQLScript.execute()` | `Script` is `database.sql` as a sequence of statements; the database is names, damage done by CASCADE, and a count of the rows of each INSERT. As a script keeps the order of `database.sql`, what is left of one (`todo`) is the set of its places: 2i for statement i, 2i - 1 for a DROP before it |
| SQLScriptProofs | proofs about SQLScript | |
| LazyPool | `get_pool()`, `get_database()` | |
| MC... | TLC instances | |

Operators whose comment begins "Mutant of" are plausible bugs of the operator
that follows; no specification uses them. `PROJECT.json` pairs each property with
one of them that TLC finds it violated by.

### External behaviour that is assumed

* psycopg2 opens a transaction with the first statement, sends nothing for a
  commit without one, and closes a connection whose wait was interrupted by an
  exception. A closed or lost connection makes `reset()` raise, and `rollback()`
  may raise; neither matters to what follows it in `connection()`.
* A query that fails aborts its transaction: PostgreSQL rejects what follows and
  answers COMMIT with a rollback, of which `commit()` says nothing. A COMMIT whose
  answer is lost, with the connection or with the greenlet, may have taken effect.
* PostgreSQL rolls back what was open on a lost connection; an INSERT of a key
  that an uncommitted transaction inserted waits for that transaction.
* DROP ... CASCADE takes with a name the indexes and views that need it, and from the
  tables that need it a column or a constraint. An INSERT into such a table, and the
  CREATE of what refers to it, may fail or succeed (`Damaged`).
* `gevent`: `AsyncResult.set()` and signals make greenlets ready and do not
  switch. `server.stop()` waits for its own timeout, then kills its pool; a view's
  GreenletExit is caught by `_handle`'s bare `except`.
* The kernel merges pending SIGCHLDs. Whether libev's child watcher, which
  `spawn_worker()` installs, reaps the children before `on_worker_exit()` calls
  `os.wait()` depends on how gevent was built; `Builds` covers both.
* memcached drops an entry when its expiry has passed or earlier; an expiry of more
  than 30 days, which it would take for a date, is not modelled. `get` or `set`
  may raise.
* Of two sockets bound to one port with SO_REUSEADDR only the first `listen()`
  succeeds, and a socket that workers inherited stays open as long as one of them
  lives. Reading the user database, `setgroups()`, `setgid()`, `setuid()`, `fork()` and
  `open()` may each raise.
* A Python 2 file buffers with stdio; `fork()` copies the buffer, and a process
  that exits normally writes its copy out.

## Runs

| Run | Instance | What it shows |
|---|---|---|
| pool | 3 greenlets, 3 connections, initial 1, limit 2, all six faults, fairness | types, `ConnCap`, `Exclusive`, `NoForeignWork`, `Accounting`, refinement of Loans; a block that returns has its work committed unless it caught a failed query (`ReturnedMeansDurable`); a permit becomes available again and again unless all have leaked |
| pool_outage (violation) | refusals | a refused connection leaks a permit (`pgpool.py:116-120`) |
| server | 3 requests, 2 shutdown signals, timeouts | counter exact, no lost wake-up, the assertion of `wait_for_zero()`, graceful shutdown, shutdown ends |
| daemon | 4 pids, 2 processes, 2 signals, 2 crashes, both builds, failing forks | workers tracked, never too many, none spawned after stop, none left after exit, stop completes |
| daemon_keeps_alive (violation) | no reaping by libev | a burst of deaths loses a worker |
| access_log | 3 workers of which 2 run at once, 2 lines each, no buffering of the file | refinement of AtomicLog, nothing lost at close, close happens unless `stop()` raises, a worker was killed inside a line or one lost its SIGTERM |
| access_log_lines (violation) | the same with a buffer of 3 halves | parts of lines are duplicated in the file after a respawn |
| txn | 3 clients, 2 retries, every combination of `transaction()` and `query()`, of calls that faults befall and of those that they do not | refinement of AtomicTxn, enough retries are enough, every call ends |
| sql_script | 3 commands, a script of 7 statements, failures and crashes | a reset alone restores everything, a sync completes the schema as far as what is there is not damaged, no initial row twice |
| startup | 2 launches with one port and one pidfile, 1 test process, 4 names, 2 contents of `app.cfg` | no process mixes two sections, the pidfile names the daemon that serves, which has the rights asked for, tests have the test settings, or those of the section that NUCLEON_CONFIGURATION names if it is set |
| cache | 3 greenlets, 3 requests, 2 keys, expiry 2, views of up to 2 ticks | answers are at most expiry and one view old, and made for their key |
| lazy_pool (violation) | 3 greenlets | two pools for one `Database` |

The bounds. Two greenlets inside the pool and one waiting (or connecting) is the
least at which the limit matters; a third connection name lets a closed one be
replaced while two are open. A connection name is free again once its object is
closed, so the pool's runs are unbounded in time. Three requests let one be in a
view, one be written and one arrive; two signals overlap. Four pids for two
workers allow two replacements, hence a burst of two deaths and deaths during
shutdown; `MaxCrashes` bounds the deaths, as pids are not used twice. In AccessLog
three workers let one be forked with lines in the buffer, and `MaxLines` bounds the
lines that each of them logs. A buffer of odd size makes blocks end inside lines,
which is what access_log_lines is about. What access_log checks hardly depends on
the buffer: its log is what was handed to `write()`, and only the last clause of
`NothingLost`, that the file has all of it once it is closed, mentions what was
flushed. With `Block` = 1 the run has far fewer states, and room for stops that
fail; that clause holds by itself then, and for every `Block` by `NothingLostAlways`. In Transaction,
three clients need two retries in the worst case, which is the value given; `calm` has, for each set of calls, the behaviours in which nothing
but conflicts befalls these.

In Startup a launch is used once, and two are enough for the second to meet the first
in any of its states, or what it left behind; a third would only meet what the
second met. The four names are the default, `test`, one that both contents of
`app.cfg` have and one that none has. Test runs and applications call `get_app()` and
`_set_environment()` in any order, without a bound. In Cache the third greenlet
is what lets a slow view overwrite the entry a faster one has made while another
reads it; `MaxView` bounds how long a view takes, which the property mentions. With
`Expiry` 2 an entry is seen fresh, aged and gone. The proofs are for every value of these.

In SQLScript three commands are a crash and two that
overlap afterwards, or two crashes and a run that has to cope with both. What
`database.sql` must be like is `ScriptAssumption`: names are given once, a statement
refers to what is created before it, INSERTs fill tables that it creates, an index or
a view names (`needs`) also the types of the columns it uses, and no type is built on
another one. The script of the run has its index on a column whose type a reset drops.

Deadlock is checked in cache; the other systems end (the process exits, every
call returns), or stop as pool_outage shows, and say so in their .cfg.

Fairness. pool: the hub runs ready greenlets, the server answers and blocks
end; nobody has to enter. Each greenlet in `sem.acquire()` gets weak fairness only,
and the property asks for no more than that permits come back, or all of them
have been lost to exceptions of `_connect()` and `reset()`. server: stoppers, timers and the
main greenlet run; *no* fairness is given to views or clients, so shutdown is
shown to end although they hang. daemon: the control process's greenlets run, and
workers that were signalled end (which is what server shows of them); crashes and
signals are not fair. access_log: loggers run, and workers that received SIGTERM end.
txn: a query that need not wait is answered; kills, lost connections and exceptions
are not fair.

Symmetry is used in pool_outage (greenlets, connections), sql_script (commands),
startup (launches) and cache (greenlets), where no liveness is checked.

## Findings

Four documented statements that the code does not keep are runs that TLC must find
violated; `PROJECT.json` quotes the statement and the line of each: the leaked
permit, coalesced SIGCHLDs, the duplicated buffer, the two pools.

Some properties are therefore stated with the condition under which they hold:
`Accounting` and `PermitReturns` count the permits lost to `_connect()` and `reset()`;
`StopCompletes` unless a worker lost its SIGTERM while starting or libev reaps;
`StopCloses` unless `stop()` raised, a worker that lost its SIGTERM goes on, or one was
killed inside a line longer than `PIPE_BUF`, after which `logger()` goes round for ever
on the rest in `buf`; `RowsOnce` as long as commands do not overlap and no DROP fails;
`ReturnedMeansDurable` for blocks that let the exception of a failed query out, or roll
back themselves; `SyncCompletes` for the parts of `database.sql` of which nothing is
damaged (`Whole`). `AtomicSpec` says of a call whose connection was lost, or that was
killed, only that it has taken effect or has not: what it raises does not tell which.
The remaining safety properties of the pool need no condition.

Where libev reaps the children, `on_worker_exit()` blocks the whole control process
in `os.wait()`, and a worker reaped so stays in `self.workers`: `os.kill()` then raises
OSError, and the message at `main.py:353`, whose format has two fields and one
argument, raises TypeError out of `stop()`. Module Daemon models both (`blocked`,
"aborted"); `StopCompletes` leaves these builds out (`reaps`) for that reason. AccessLog,
which does not tell the builds apart, lets `stop()` raise whenever a worker is gone
(`aborted`).

One more assertion can fail, though not in the server: the one in
`wait_for_zero()`, 'Shall be never interrupted' (`util.py:34`), when a block is
entered between `AsyncResult.set()` and the waiter's turn. In AppServer nothing is
counted while the application is closing, and `NeverInterrupted` holds.

Met while modelling, and not a run, since each is one step of sequential code:

* `-c` has no effect: `AppCommand.get_app` sets `app.environment` (`commands.py:105`),
  which nothing reads, whereas its help promises that it "Overrides
  NUCLEON_CONFIGURATION environment variable".
* NUCLEON_CONFIGURATION decides even in `get_test_app()`, which `docs/configuration.rst`
  does not mention: tests then run with the settings of that environment.
  `TestsUseTest` says so. With the variable set, a second `get_test_app()` in the same
  process raises "Settings environment is locked" once a setting has been read,
  although it would change nothing.
* Without `app.cfg` the comment at `config.py:75` calls the application valid as long as
  it reads no setting, but `serve()` itself reads `settings.environment`
  (`main.py:184`), so `nucleon start` ends there.
* `--group` without `--user` is ignored (`main.py:42-44`).
* `finally: sys.exit(0)` in `serve()` turns every failure of `daemonise_nucleon()` into
  success, and an exception of it is never printed. The parent of the
  first fork has exited with 0 long before.
* If privileges cannot be dropped, or the second fork fails and the pidfile's name
  is relative (the working directory is / by then), an empty pidfile stays behind.
  No serving daemon is harmed (`PidfileNamesDaemon`).
* A block that catches a failed query and goes on returns normally with all its work
  rolled back (`slow_insert` in `tests/database_api/queries.py:48-59`; `test_transactional`
  expects the rollback). Neither `connection()` nor `transaction()` looks at the status
  of the transaction.
* `spawn_worker()` sets `self._wait_lock` (`main.py:403`, `411`) while `on_worker_exit()` holds
  the lock it replaces. After a respawn the `finally` clause (`main.py:343`) therefore
  raises: in the control process RuntimeError, in a greenlet that has nothing left to
  do, and in the new worker, when it ends, AttributeError instead of SystemExit. That
  worker then ends with status 1 by gevent's LoopExit, once its hub has nothing left to
  run. Daemon leaves this out: it has the worker end, which takes for granted that no
  greenlet of the application outlives the server.
* `fire_async()` reads `self.callback`, which does not exist (`signals.py:62`).
* The default cache key leaves out the HTTP method, so a cached view answers
  POST and GET with one entry; in Cache that is two requests with one key.

## Proofs

`PgPoolProofs.tla` proves, for any finite set of greenlets and connections, any
`Limit`, any `Initial` up to it and any set of faults (`PoolAssumption`):

* `TypeCorrect`, `ExclusiveAlways`, `ConnCapAlways`, `AccountingAlways`, from the
  inductive invariant
  `PoolInv == TypeOK /\ Permits /\ Sized /\ Exclusive /\ ConnCap`. Few of its parts are
  inductive alone. `TypeOK` bounds `sem` by `Limit`, which needs `Permits`:
  `sem + Cardinality(Admitted) + refused + leaked = Limit`. `Sized` says that `size`
  counts the open connections and those that `reset()` gave up.
  `ConnCap` must survive `Acquire` with an empty pool, which adds a greenlet that
  will connect: the pool being empty, every open connection is held
  (`Exclusive`), holders and connectors are admitted and distinct, and `Permits`
  bounds them (`AllLent`, `AdmittedParts`).
* `NoForeignWorkAlways` and `ReturnedMeansDurableAlways`, from the inductive
  invariant `Work`, relative to `PoolInv`: what each place in `connection()` implies
  about `fate`. It is needed because "returned" is decided two steps after COMMIT. A
  block whose transaction is aborted has the fate "rejected", and leaves it only by a
  rollback of its own or of the pool; the theorem says that this is the one way to
  return with work undone.
* `ImplementsLoans`: with `loan <- held`, `Acquire` and `ConnectOk` are `Lend`,
  `Leave` is `GiveBack`, everything else stutters. That `Lend`'s guard holds
  follows from `Permits` and `Exclusive`.

`StartupProofs.tla` proves, for any launches, test processes, names, contents of
`app.cfg` and users (`SettingsAssumption`, `StartupAssumption`):

* `OneEnvironmentAlways`. A section may only be replaced while nothing has been read,
  which `OneEnvironment` alone does not say. The inductive invariant adds
  `ReadLocks` (what was read is of the section that is loaded now, and whoever has read
  anything is locked) and `SectionIsNamed` (what is loaded is what the variable
  names, if it is set, and there is a file). Every action of Startup is, for the
  settings, one of four (`SettingsStep`) or none (`NextSettings`).
* `TestsUseTestAlways`, relative to it: the early return of `_set_environment()`, which
  compares with the name it was given, is taken for "test" only if that section is
  loaded, and then `SectionIsNamed` says the variable does not name another.
* `PidfileNamesDaemonAlways`, `RunsAsAskedAlways` and `TypeCorrect`, from `LaunchInv`:
  `OnePort` (at most one socket listens, and every launch past `listen()` has it; that
  is what keeps the others from the pidfile), `Stage` (which process of the launch
  it is at each step) and `Rights` (root's rights until they are dropped, those
  asked for afterwards). `LaunchStep` is the step of one launch with what it may
  change; each action is then an instance.

`CacheProofs.tla` proves `BoundedStalenessAlways`, `OwnAnswerAlways` and `TypeCorrect` for
any expiry, view time, keys and greenlets. The invariant `Entries` says that the age of
an entry and the time it has left make at most `MaxView + Expiry`, and that it was
made for its key; a tick moves one from the one to the other.

`AppServerProofs.tla` proves `AppTypeCorrect`, `CounterExactAlways`,
`NoLostWakeupAlways`, `NeverInterruptedAlways` and `GracefulAlways` for any finite sets
of requests and shutdown signals, with and without timeouts (`WaitCounterAssumption`).
The invariant adds to `CounterExact` what each wait says of the counter (`Waits`): it
begins only while the application is closing, when nothing is counted any more, so
that a counter that a wait has found at zero stays there. This is what keeps the
assertion of `wait_for_zero()` true, and what carries the zero it returned on to the
step that stops the server (`Stopped`: only a handler past `join()` does).

`DaemonProofs.tla` proves `AliveTrackedAlways`, `AtMostProcessesAlways`,
`ExitLeavesNoWorkerAlways`, `NoSpawnAfterStopAlways` and `TypeCorrect` for any finite
set of pids, any numbers of processes, crashes and signals, and every build. That
there are at most `Processes` live workers is not inductive: on_worker_exit() looks at
`self.workers`, not at the kernel. The invariant therefore bounds `workers`
(`Cardinality(workers) <= Processes`), which contains the live ones
(`AliveTracked`). `Logged` (a live worker's logger reads) is why a stop() that has
joined all loggers leaves nobody behind, and `Stopping` carries that to the exit.
The proof also showed that `Spawn` was written with two overlapping arms of a CASE,
so that its value for a worker outside `ps` was open; it is a nested IF now.

`TransactionProofs.tla` proves, for any finite set of clients, any number of retries
and any mixture of `transaction()` and `query()`:

* `ImplementsAtomicTxn`: a commit is the abstract `Apply` of that client's two rows,
  and so is a COMMIT that got through without an answer; `Return`, `GiveUp` and `Abort` are
  the abstract ends of the call; everything else stutters. What makes the read of the next id at the
  beginning still right at the end is `Open`: whoever has rows pending has the id that
  follows those in the table, so that there is only one such client. `Numbered` (the ids
  in the table are 1 to the number of clients that committed) makes that id the abstract
  one. It also says that whoever raises has no rows in the table: rows get
  there only on the way to "reset" or "dying", from which no call raises
  IntegrityError or the function's exception.
* `EnoughRetriesAlways`, from `Overtaken`: before each retry of a client another one has
  committed since the last, and each of those does so once. This is counted by
  comparing `attempts` with the number of commits that the client's read saw (`base`).
* `TypeCorrect`: at most `Retries + 1` attempts, and rows pending only where the function is
  between its INSERT and its commit.

`AccessLogProofs.tla` proves, for any finite set of workers, any number of lines, any
size of the buffer and any cuts by `read()`:

* `ImplementsAtomicLog` and `NothingLostAlways`, from
  `LogInv == TypeOK /\ InOrder /\ Attended /\ Closing`. `InOrder` says of each worker that
  what was handed to the file, then `buf`, then what is in its pipe are consecutive
  halves of the lines it logged, that the file got whole lines only, and that nothing is
  missing unless the worker was killed inside a line. A read then hands over either
  nothing or all whole lines up to the last newline, which is AtomicLog's step.
  `Attended` (the logger lives as long as there is something to read) and `Closing` give
  `NothingLost` when the file is closed.
* `TypeCorrect`, from the same invariant: `buf` holds no newline.

`SQLScriptProofs.tla` proves, for any `database.sql` that `ScriptAssumption` admits, any
finite set of commands and all faults:

* `ResetRestoresAlways`. The invariant `Resetting` says how far a reset that runs alone
  has come: each statement it has done with has its effect, intact; a name whose DROP was
  executed and whose CREATE was not does not exist; and the rows of an INSERT are
  gone between the DROP of its table and the INSERT (`Emptied`). A DROP only destroys what
  comes later in `database.sql` (`Earlier`), hence what the reset is still going to create.
  `Damage` rules out that something other than a table is left behind damaged.
* `SyncCompletesAlways`, from `Syncing`: what a sync has found exists, and so does what it
  has executed the statement of, as far as that belongs to a part of `database.sql` that
  is `Whole`: one that refers to nothing outside itself, of which nothing that exists is
  damaged, and whose views, domains and the like, which no regular expression of
  `make_sync_script()` matches, are already there. Syncs that overlap only add, and what
  they add is intact, so that a part is `Whole` before each of their steps if it is
  afterwards (`SyncWhole`). What was damaged by a cut-off reset is not in the
  conclusion: a sync does not mend it, and the CREATE of an index on a column that has gone
  fails.
* `RowsOnceAlways`, from `Fresh`: as long as commands do not overlap, whoever is going to
  execute an INSERT finds none of its rows, a sync because the table was missing when it
  looked, a reset because it dropped the table. `Overlap` turns "met nobody" into "is the
  only active command".
* `TypeCorrect`, which bounds the rows of an INSERT by the number of commands and needs
  `Counted`: a statement is executed at most once by each command.

The proofs go through although they are about scripts of any length: what is left of
a script is a set of places, and every step takes away its least, so that the
invariants quantify over places and no induction over the script is needed.

The invariants of these four modules were checked by TLC on the instances of the runs
before they were proved.

Only model-checked: the liveness properties (`PermitReturns`, `SignalLeadsToExit`,
`StopCompletes`, `StopCloses`, `Finishes`), which the prover cannot do under fairness,
and the four runs that show a violation.

## Not modelled

`http.py` and `validation.py` build responses and check parameters without any state;
the table of routes is filled at import and only read; `signals.py` is a dictionary of
callbacks, and what the callbacks do is the application's own (`AppCode`, `TestCode`).
A disk that is full (`access_file.write()` or `close()` raising) is left out, as what a
failed write leaves in a C stdio buffer is not defined. Left out too: the
tokenizer's regular expressions, argument parsing, the exit status and the standard
streams of a daemon, and memcached, PostgreSQL and gevent themselves beyond what is
listed above.

## Plan

1. Transaction over PgPool in one composition, so that the pool's `rollback()` and
   `reset()` are the ones the wrapper relies on.
2. Proofs of the safety half of the liveness arguments, as action properties that runs
   check as well: of Transaction, that a call never comes back to an attempt it has
   left (`Finishes`); of AppServer, that once the application is closing its
   requests in a view only become fewer (`SignalLeadsToExit`).
