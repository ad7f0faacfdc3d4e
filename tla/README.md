# Nagstamon Headless: a verification of the alert dispatch

TLA+ models of the Python program under `app/src`, model-checked with TLC, with
theorems checked by TLAPS. Paths below are relative to the repository.

The program is a worker that polls Nagios and Alertmanager monitors, filters
what they report and publishes each problem once, to stdout and to a Google
Chat room. What has to be right is what nobody sees in a unit test: several
workers over one ledger file, a worker killed between two steps, a monitor that
does not answer, a clock that is read once and used for minutes.

1. [The system](#1-the-system)
2. [The modules](#2-the-modules)
3. [The runs](#3-the-runs)
4. [Fairness](#4-fairness)
5. [What is proved](#5-what-is-proved)
6. [Where the code departs from what is said of
   it](#6-where-the-code-departs-from-what-is-said-of-it)
7. [What is not modelled](#7-what-is-not-modelled)
8. [Plan](#8-plan)

`PROJECT.json` holds the same as data: components, runs, the source lines of
every definition, the hazards and the property that guards each, and, for each
property, a *slip*: a plausible mistake in the code, written as an operator
just before the definition it would replace, under which TLC finds the property
violated. A definition whose comment begins with "Slip" is never part of a
specification.

## 1. The system

```
 presentation/worker/main.py: run()                presentation/cli/ping.py
   boot, CycleGuard, cycle, sleep                    one-shot
        |                                               |
        v                                               v
 PollMonitorsUseCase.execute()                    PingMonitorsUseCase.execute()
   1 fetch_all      -> CompositeMonitorClient        list_all, probe in a pool
   2 clock.now()       (a pool of threads; Nagios    set_enabled --> server_*.conf
   3 filter             and Alertmanager clients)                     ^
   4 reconcile_active -> ledger file                                  |
   5 for each alert: try_claim                        list_enabled of each cycle,
        publish: stdout, then Google Chat             and the Nagstamon GUI
        confirm_sent, or release
   6 sound
```

| Component | State it keeps | Operations | What makes it correct |
|---|---|---|---|
| Poll cycle, `poll_monitors.py` | locals of one call: `raw_alerts`, `now`, `unique` | `execute` | one message per problem; a failed publication is tried again; nothing silenced that was not told |
| Ledger port and file, `alert_dispatch_ledger.py`, `file_alert_dispatch_ledger.py` | a JSON file of records (`pending` or `sent`, with an instant), a thread lock, a lock file under `flock` | `try_claim`, `confirm_sent`, `release`, `reconcile_active` | each call is atomic among threads and processes, and a kill leaves the old or the new records |
| In-memory ledger, `in_memory_alert_dispatch_ledger.py` | a dictionary of instants | the same | each problem once per process; what a restart forgets is not told again where the cut at boot covers it |
| Sinks, `composite_alert_sink.py`, `stdout_alert_sink.py`, `google_chat_http.py` | none | `publish` | a failure reaches the cycle |
| Filter and hold, `alert_filter.py`, `alert_hold.py` | `not_before`, the instant of the boot | `apply` | problems born in the shift are told, old ones and noise are not, nothing flickers |
| Fetch, `composite_monitor_client.py` | a pool per call | `fetch_all` | one monitor's failure costs only its own alerts |
| Nagios client, `nagios_cgi_http.py` | parser stacks, `last_host` | the parser's handlers, `_alerts_from_html` | each problem row one alert, with its own host, service, state, duration |
| Alertmanager client, `alertmanager_http.py` | none | `fetch`, `_to_alert` | one malformed item costs only itself; an alert says what its own item says |
| Alert entity, `alert.py` | none | `__post_init__`, `dedup_key` | one key for each problem, whatever its texts say today |
| Alert view, `alert_view.py` | none | `render_alert_card` and what it calls | the message says of the problem's time what the filter went by, and names the problem |
| Settings, `settings.py`, `dotenv_loader.py` | read once at boot | `from_env` | what is accepted leaves room for an alert to be effective |
| Worker loop and guard, `worker/main.py`, `cycle_guard.py` | `cycles_run`, `_busy` | `run`, `try_enter`, `leave` | one cycle at a time; the guard always freed; a limited loop returns |
| Monitor configuration, `ini_server_config.py` | the `.conf` files, shared with the GUI | `list_all`, `list_enabled`, `set_enabled` | a file is never half written; a user's edit survives |
| Ping, `ping_monitors.py`, `http_monitor_probe.py` | its listing and results | `execute` | `enabled` says what the probe found |
| Daily log, `logging/daily.py`, and `make app-clean` | the open file and its day, a partial line per stream | `write`, `flush`, rotation; removal of stale files | whole lines, all but the noise, in the day's file |
| Secrets, sound, clock, log formatting | none | pure, or best effort | |

The components meet in five places. The cycle calls the ledger four times per
cycle or alert and sees it change between calls, because other workers (the
daemon, and the one-shot worker of `infra/docker/smoke.sh`) use the same file.
The filter is judged against a clock read after the fetch. The worker reads
anew, each cycle, the files the ping and the GUI write. Every loop of a process
shares one `CycleGuard`. And three cuts through time have to agree: the filter's
`not_before`, the ledger a process starts with, and the window of the shift.

The behaviours that are hard, each at its line in `PROJECT.json` ("hazards"):
claims stamped with an old clock; two workers at one problem; a worker that dies
with a claim; a POST whose answer is lost; a fetch that lost a monitor and then
reconciles; a ledger that cannot be read, or that dies with its process;
restarts in the middle of a shift; durations counted back from a later instant;
two pings over one temporary file; an exception that frees, or does not free,
the guard; a log file removed while it is written.

## 2. The modules

```
 DispatchLedger  <-- PollDispatch <-- PollDispatchLease --> AlertLease (abstract)
       ^                                     ^  \---- MCPollDispatch
       |                                     +------- PollDispatchProofs
       +--- LedgerCalls <-- AtomicLedger (abstract)
                 ^              ^
                 +--- LedgerFile/  <-- MCLedgerFile, LedgerFileProofs

 MonitorFetch <-- WorkerLoop <-- MCWorkerLoop, WorkerLoopProofs

 AlertFilter, Settings <-- Daemon <-- MCDaemon, DaemonProofs

 Alert <-- AlertmanagerItems, AlertView <-- Reports <-- MCReports, ReportsProofs
 StatusPage <------------------------------/     ReportsProofs <-- PageProofs

 PingMonitors <-- MCPingMonitors, PingMonitorsProofs
 DailyLog     <-- MCDailyLog, DailyLogProofs
```

**DispatchLedger** holds the records as values: a store maps each fingerprint to
absent, pending or sent, with an instant; `Prune`, `CanClaim`, `TryClaim`,
`Confirm`, `Release` and `Reconcile` are what each method of
`FileAlertDispatchLedger` does to the dictionary between `_load` and `_dump`.

**PollDispatch** is `PollMonitorsUseCase.execute` in several processes over one
ledger. A ledger call is one step, which LedgerFile justifies; every other
thing a cycle does is a step of its own: `Fetch`, `ReadClock`,
`ReconcileActive`, `Claim`, `PrintAlert`, `PostAlert`, `PublishFails`,
`ConfirmSent`, `ReleaseClaim`, `EndCycle`, and `Crash` and `Restart` between any
two. The loop takes the alerts of a cycle in any order. The environment
changes each problem between clear, held (listed but filtered) and firing. The
present is instant 0 and `Tick` moves all remembered instants back, down to
`-Horizon`; the ledger looks back at most `PendingTTL` or `Window` from an
instant no older than `MaxCycle`, and an assumption makes `Horizon` cover both,
so nothing the code compares is lost. Two history variables say what the room
knows: `told` (and nothing has since entitled the problem to a second message)
and `seen` (in the present episode).

**AlertLease** is what the ledger promises, without instants, files or cycles: a
problem is leased to one worker at a time, told at most once under the lease,
and done with only once told. **PollDispatchLease** maps a state of PollDispatch
to a lease: the worker between claim and confirm, or what the record says.

**LedgerFile** is one call at the level of system calls: `threading.Lock`,
`flock` on the lock file, read, write of the temporary file (torn, then
filled), `os.replace`, release of both locks, with an `OSError` anywhere and a
process killed anywhere. Where the read itself fails, `_load` swallows the
error: the call goes on with no records and dumps over a ledger that may be good
(`unread`, history, says which calls did). **AtomicLedger** is the abstract
ledger whose calls take effect at one instant, on what it holds or, for such a
call, on nothing; **LedgerCalls** has the calls both speak of.

**AlertFilter** is `AlertFilterPolicy.is_filtered` with the hold of
`alert_hold.py`, judging one problem poll after poll over some days: the
monitor's report ages up to `MaxLag` before `apply` reads the clock, a poll is
due every `PollGap`, and the daemon restarts whenever it likes. The texts the
regular expressions match are data: each expression is a *mark* an alert has or
has not.

**Settings** is `Settings.from_env` over the process's environment and the
`.env` file: a variable's text is unset, blank, unreadable, or what it is read
as. It answers the settings, or `Refused` where the code raises.

**Daemon** composes the two with the poll cycle: `build_use_case` makes the
policy, the ledger and the sinks of the settings; each judgement of the filter
is published, claimed or kept quiet, through the in-memory ledger or, with
`DEDUP_ENABLED=false`, none; Chat refuses messages (`PublishRefused`), or takes
one and its answer is lost (`AnswerLost`: the POST raises as well, and the claim
is released although the room has heard); the process ends and is started again,
with `not_before` read anew and the ledger gone. One process
uses an in-memory ledger, so claim, publication and confirm or release are one
step here; what comes between them is PollDispatch's subject. Every step of
Daemon is one of AlertFilter or leaves it alone. Two history variables say what
was heard in this boot and ever, and how many publications failed.

**MonitorFetch** is `CompositeMonitorClient.fetch_all`: the queue, the threads
(`min(max(1, HTTP_MAX_WORKERS), servers)`), the three ways a request ends, the
fail-open `_fetch_one`, the wait for all. **WorkerLoop** is `run()` over it:
boot, `try_enter`, the cycle, the sleep under the guard, the skipped turn, the
count of rounds and the exit code.

**StatusPage** is the HTML parser of `nagios_cgi_http.py`, tag by tag, with its
stacks of open rows and cells, and the loop of `_alerts_from_html` over what it
collected. `page` is what the monitor means, `Cells` and `Tags` how a row of it
is written; the properties compare what came out with what was meant. The page
reaches the parser part by part (`SendPart`: the start of a row, its cells, its
end), which only spares the state the tags that are far off: the parser is
handed them one at a time anyway, and nothing else happens meanwhile. `row` is
history: which row of the page a row of the parser's, and an alert, were made
of. How Nagios writes its page is external, and taken from what the parser and
its tests expect.

**AlertmanagerItems** is the loop of `AlertmanagerHttpClient.fetch` over a
payload and `_to_alert`: which label or annotation becomes which field, and
what an item of another shape costs. **Alert** is the entity: a text is a
sequence of words, whitespace a word that `strip` removes, so that a blank text
is given (`or` takes it) and yet empty (`__post_init__` refuses or drops it).
**AlertView** is the incident ID by which a message names a problem; what it
says of the problem's time is in Daemon, beside the filter it has to agree with.

**Reports** is one poll of a Nagios and an Alertmanager: both answers read,
joined in the order of the servers, one alert kept of each dedup key
(`_unique_by_dedup_key`). `origins` remembers the item each
alert was made of.

**PingMonitors** is `PingMonitorsUseCase.execute` with `set_enabled`, at the
level of inodes and names: two pings can hold the same temporary file, and a
rename moves a file another still has open. The GUI edits the files meanwhile.
A file that is new takes an inode that no name and no process has.

**DailyLog** is `TeeStream` over `DailyLogFile`: a message is the writes of one
`print` or one log record, a write is pieces of text, and each complete line
passes in steps of its own: noise is dropped (`DropNoise`), of any other line
the date is read (`Ensure`), the day's file opened unless it is open (`OpenDay`)
and the line appended (`AppendText`), so midnight, a kill, the other process and
`make app-clean` come between any two. `since` is history: the day a write
began. A file is known by its day and by how many had its name before it, since
a process can go on writing to one that was removed. Each piece in a file
carries its place in what its process said (`nth`, history), which is what
`FollowsPrimary` compares. An `open` that fails loses its line and leaves the
lines behind it in `_pending`, as the exception does in the code.

The MC modules only give constants their values.

## 3. The runs

Every run is exhaustive within its bounds.

| Run | Instance | Checks | Shows |
|---|---|---|---|
| `DispatchSafety` | 3 workers, 1 problem, faults: lost fetch, crash, refused and unanswered POST | `DispatchInv`, `ClaimHeld`, `OneOwner`, `NeverToldTwice`, `SentWasTold`, `SentSurvives`, `ImplementsLease` | the claim protects its holder, the room is told once, and the cycle implements the lease |
| `DispatchTwoProblems` | 2 workers, 2 problems on 2 monitors, refused POSTs | `OncePerEpisode` | work on one problem never disturbs the other's record; filtering and retention never cause a second message in an episode |
| `DispatchLiveness` | 2 workers, 1 problem, crashes, refused and unanswered POSTs | `EveryProblemTold` | a claim a crash left behind does not silence a problem for ever |
| `LedgerFileCalls` | threads 2 + 1 in 2 processes, 1 fingerprint, every call | `FileTypeOK`, `NothingLost`, `OneInside`, `ImplementsCalls`, `FlockIsFreed` | calls are atomic through kills and errors, but for what a call that cannot read the ledger takes for empty, and the lock comes back |
| `DaemonDays` | 7 environments and some 1 500 problems between them: 3 days of 12 units of which the last is off; an afternoon shift, a morning shift (past alerts), no window; in-memory ledger or none; restarts, lost fetches, messages refused or carried without an answer | `ShiftAlertIsHeard`, `StartedInShift`, `NoFlicker`, `HoldRespected`, `NothingOlderThanBoot`, `CriticalIsHeard`, `CardIsTrue`, `NotToldAgain` | who is heard in time, who is not told, what the message says of the time, and that nothing is told again but after a lost answer |
| `Reports` | pages of 1 to 3 rows, 3 layouts, 2 hosts, with an Alertmanager's item; payloads of up to 3 items of 10 kinds, junk and blank ones among them | `ProblemsAreAlerts`, `HostIsItsOwn`, `ItemsAreAlerts`, `EachProblemOnce` | each problem is one alert with its own fields, nested tables and malformed items included, and one message |
| `PingsOverlap` | one ping over 2 files, or 2 over 1, or one and the GUI; kills, I/O errors, raising probes | `ConfsReadable`, `Settled`, `EditsKept` | a file is torn only through the name two pings share; a ping that ends well leaves what it probed; an edit is undone only where it falls between a ping's read and its rename |
| `WorkerCycles` | a daemon and loops limited to 2 and to 0 rounds on one guard; 2 monitors, 1 thread | `TypeOK`, `OneCycleAtATime`, `GuardIsTrue`, `FailsOnItsOwn`, `FetchIsWhole`, `EveryRunReturns` | one cycle at a time, the guard is always freed, a monitor costs only itself, a limited loop returns |
| `DailyLogs` | 2 processes, 3 messages, 2 days, one `app-clean` in this timezone or one a day behind; kills, files that do not open | `DailyTypeOK`, `WholeLines`, `FollowsPrimary`, `TodayIsFound`, `RightDay` | the files of the days, read in order, are what each process printed less the noise, in whole lines, once each, and each goes to the file of a day its write saw |
| `LongCycle` | 2 workers, a cycle as long as the TTL | `NeverToldTwice` **violated** | section 6 |
| `Retention` | 2 workers, episodes that end after a clear window | `OncePerEpisode` **violated** | section 6 |
| `UnreadableLedger` | 2 workers, `_load` that can fail | `SentSurvives` **violated** | section 6 |

### The bounds, and why they are enough

* *Dispatch.* `PendingTTL = 2`, `MaxCycle = 1`, `Window = 3`, `Horizon = 4`: the
  smallest numbers where a claim can be fresh, expire exactly on time and be
  older than that, where a cycle takes time, and where retention outlasts the
  pending TTL, as the defaults do (120 s, and a window in minutes). `Horizon`
  is the least its assumption allows. Three workers are one more than any
  conflict needs (a holder, a rival, and one whose reconciliation prunes for
  both). The proofs of section 5 remove these bounds.
* *One or two problems.* A record is only compared with itself and the clock;
  the exception is that one call prunes and dumps every record, which two
  problems exercise. The two are on different monitors, so a fetch can lose one.
* *Window above MaxFetch + MaxCycle.* `OncePerEpisode` needs it: a worker may
  reconcile with a fetch made before another's confirmation. In the program
  the window is at least a minute. Where a monitor can be lost, or a POST
  unanswered, or a worker die after the POST, a second message is what the
  design accepts, so those faults are out of `DispatchTwoProblems`;
  `NeverToldTwice` covers them in `DispatchSafety` with `told`, which they reset.
* *Ledger file.* With three threads there are two that share an instance and
  one that shares only the file. One fingerprint and the instant 0 give
  every record an operation can tell apart when the TTL and the window are 1:
  expiry is exercised by the dispatch runs, mutual exclusion here.
* *Daemon.* A day of 12 units, with the shift from 6 to 11 in the afternoon or
  from 4 to 10 in the morning, leaves room before, inside and after it for each
  of the holds (1, 2 and 3), and for the holds just below the longest duration
  that `LongHolds` has; an hour is 4 units, a minute 2, a second 1, so Nagios'
  missing seconds lose something. Births are all over the first day, at both
  edges of the second day's shift, and in that of the third, which is off. A
  poll is due every 2 units (`PollGap`), a report can be 2 units old (`MaxLag`),
  one publication fails (`MaxRefusals`), with the message carried or not: a
  second failure repeats the first. With the window off the problem has every
  mark, alone and in pairs. An environment sets the variables through the
  process, through the `.env` file, to a blank, or not at all.
* *One problem in the daemon.* The policy judges each alert by itself, and a
  record of the in-memory ledger is only compared with the clock.
* *Status pages.* The parser's state between rows is `lastHost`, the stacks are
  empty there: three rows are a row that names a host, one that inherits it and
  one that may follow a row of no problem.
* *Items.* Of three items one can be bad between two good ones, two can tell of
  one problem by other labels or texts, and the third of another.
* *Pings.* `Small` keeps three of: files, pings that started, files edited. The
  theorems of the pings have neither this bound nor one on the inodes.
* *Daily log.* The writer of `Warning` and `Snapshot` prints what the program
  does; the writer of `Split` breaks a line inside the mark of an event. One
  midnight gives both orders of a removal and the first line of the day; a
  timezone on the date before takes today's file as one on the date after does.
* *Worker loop.* One thread for two monitors is the pool at its limit. The
  `rounds` of a loop without a limit is not counted, as nothing reads it.

Deadlock is checked in every run: the loops and the parser, which do end, have
a `Finished` step for that.

## 4. Fairness

* `PollDispatch!FairSpec`: weak fairness of each worker's steps (`execute` is
  straight-line code, and nothing in it waits for another worker), of time, and
  strong fairness of a sink's acceptance: a room that refuses for ever is never
  told, and the code retries every cycle. Nothing is assumed of crashes or
  restarts; `EveryProblemTold` is about behaviours where, from some point on,
  somebody stays up (`Calm`) and the problem keeps firing.
* `LedgerFile!FileSpec`: weak fairness of a thread inside a call. A call that
  waits for a lock is not promised the lock (`flock` has no queue), and no
  property asks for it. A file system call that never returns is excluded.
* `WorkerLoop!Spec`: weak fairness of each loop and each pool thread. The HTTP
  client has a timeout for each operation, so a request ends unless a server
  drips bytes for ever, which is left out. Weak fairness suffices because a
  busy guard makes a loop skip, which is a step too.
* The daemon has no fairness assumption: that a problem is heard is stated with
  the clock (`ShiftAlertIsHeard`, `CriticalIsHeard`), and what the code's
  scheduling gives, a poll every `PollGap`, is a guard on the passing of time.
* The pages, the ping and the daily log have safety properties only.

## 5. What is proved

Eight modules hold theorems, for every value of the constants that satisfies the
named assumptions (`DurationsAssumption`, `ModelAssumption`, `LeaseAssumption`,
`CallsAssumption`, `FileAssumption`, `FetchAssumption`, `LoopAssumption`,
`FilterAssumption`, `DefaultAssumption`, `CasesAssumption`, `DailyAssumption`,
`PingAssumption`, `TornAssumption`, `PayloadAssumption`, `NamesAssumption`,
`PageAssumption`): any number of workers, problems, processes, threads,
monitors, loops, days, pings, `.conf` files and sections, any durations,
policies, environments, messages, pages and payloads.

| Theorem | States | Assuming |
|---|---|---|
| `TypeCorrect` | `Spec => []TypeOK` | |
| `DispatchInvariant` | `Spec => []DispatchInv` | `ShortCycles`, `ReadableLedger` |
| `ClaimsAreHeld` | `[]ClaimHeld`: between claim and confirm or release, the ledger holds exactly one's own claim | the same |
| `OnePublisher` | `[]OneOwner` | the same |
| `NothingSilenced` | `[]SentWasTold` | the same |
| `ToldAtMostOnce` | `[]NeverToldTwice` | the same |
| `SentRecordsSurvive` | `SentSurvives` | the same |
| `ToldOncePerEpisode` | `[]OncePerEpisode` | the same, `NoLoss`, `LongRetention`, `ChatEpisodes` |
| `CycleImplementsLease` | `Spec => ImplementsLease`: the poll cycle implements AlertLease | `ShortCycles`, `ReadableLedger` |
| `FileTypeCorrect` | `FileSpec => []FileTypeOK` | |
| `OneThreadInside` | `[]OneInside` | |
| `NoLostUpdate` | `[]NothingLost`: what is dumped was computed from what the file holds, or from nothing by a call that could not read it | |
| `CallsAreAtomic` | `FileSpec => ImplementsCalls`: the file protocol implements AtomicLedger, which has calls that cannot read the ledger | |
| `LoopTypeCorrect` | `WorkerLoop`: `[]TypeOK` | |
| `OneCycle` | `[]OneCycleAtATime` | |
| `GuardFreed` | `[]GuardIsTrue` | |
| `FetchComplete` | `[]FetchIsWhole` | |
| `MonitorsCannotEndTheWorker` | `[]FailsOnItsOwn` | |
| `FilterTypes` | AlertFilter: the types, and that a report is recent and says the age the problem had | |
| `HoldsAreRespected` | `[]HoldRespected` | |
| `OldProblemsAreSilent` | `[]NothingOlderThanBoot` | |
| `StartsAreInShift` | `[]StartedInShift` | |
| `NothingFlickers` | `[]NoFlicker` | |
| `AcceptedSettings` | what `from_env` accepts is a policy of the filter, with every hold below the longest duration | |
| `DaemonImplementsFilter` | `DaemonSpec => Spec` of AlertFilter, and so all the above of the daemon | |
| `NothingIsToldAgain` | `[]NotToldAgain`: not told again but once for each lost answer | |
| `CardsAreTrue` | `[]CardIsTrue` | |
| `CriticalsAreHeard` | `[]CriticalIsHeard` | |
| `ShiftAlertsAreHeard` | `[]ShiftAlertIsHeard` | |
| `DailyTypes` | `DailyLog`: `[]DailyTypeOK` | |
| `FilesHoldWholeLines` | `[]WholeLines` | |
| `TodaysFileIsFound` | `[]TodayIsFound` | |
| `LinesGoToTheirDay` | `[]RightDay` | |
| `LinesAreKept` | `[]FollowsPrimary` | |
| `PingsInvariant` | `PingMonitors`: `[]PingInv` | |
| `ReadableTheorem` | `[]ConfsReadable` | |
| `EditsKeptTheorem` | `EditsKept`: an edit is undone only where it falls between a ping's read of the file and its rename, or two pings write | |
| `SettledTheorem` | `[]Settled` | `NamesApart`, `OneSection` |
| `ItemsTheorem` | `Reports`: `[]ItemsAreAlerts` | |
| `ProblemsTheorem` | `[]ProblemsAreAlerts` | `NoLooseIcons` |
| `HostTheorem` | `[]HostIsItsOwn` | |
| `OnceTheorem` | `[]EachProblemOnce` | `NoLooseIcons` |

`ShortCycles` is `MaxCycle < PendingTTL`: from `clock.now()` to the cycle's last
ledger call less than 120 s go by. `ReadableLedger` says that `_load` does not
fail. Neither is enforced by the code; the runs `LongCycle` and
`UnreadableLedger` show what happens without each. The theorems of the ledger
file do without `ReadableLedger`: they say what a call that cannot read does.
`NoLoss` leaves refused publications as the only fault, `LongRetention` is
`Window > MaxFetch + MaxCycle`, and `ChatEpisodes` says that the episodes are
the chat's and end when the problem clears; these are the constants of
`DispatchTwoProblems`, and `Retention` shows an episode that outlasts a moment's
clearing. `NamesApart` says that no two files have one name and `OneSection`
that no file has two sections. The code refuses neither, and `Settled` is false
without either: `set_enabled` looks for the first file of the name, and writes
one flag to every section of it. The other theorems of the pings do without
them. `NoLooseIcons` says that no row of a page without links shows its
acknowledgement by an icon in the service's cell. The parser reads the icon's
alternative text as part of the service's name, and so of the dedup key (section
6): `ProblemsAreAlerts` is false of such a row, and `EachProblemOnce` of two
rows that tell of one problem, one with the icon and one without.
`NamesAssumption` keeps a name apart from a duration and from "acknowledged",
which the code looks for in the text of any cell, and `PageAssumption` says that
a row without its host's name follows a row of the same host.

**The dispatch invariant.** None of the properties is inductive alone. That the
room is not told twice (`NeverToldTwice`) is false in a state where two workers
publish one problem, so `OneOwner` is needed. `OneOwner` is false after a step
where a claim is pruned under its holder, so the ledger must still hold the
holder's claim, stamped with the holder's own clock (`ClaimHeld`): the record
then refuses every other claim. `ClaimHeld` survives another worker's pruning
because the claim is as old as its holder's cycle (`InTime`), which is younger
than the TTL; it survives another's confirm and release because those act on
the alert their worker owns (`AtAlert`), which is another alert (`OneOwner`).
What the room knows is tied to the records by `ToldIsRecorded` and `ConfirmsTold`,
and `SentWasTold` is their converse. `DispatchInv` is their conjunction, and
the proof takes each action of `Next` in turn.

**Once per episode.** What a worker must not find free is a problem the room
has seen. `SeenIsRecorded` says that such a problem is recorded as sent or is
about to be; no claim prunes or overrides that, so only a reconciliation can
take it away. A reconciliation keeps what its fetch listed. A fetch that does
not list a problem the room has seen was made before the room saw it
(`SeenIsListed`: it has been listed since), hence before its record was
stamped, less at most the publisher's own cycle: `MissedIsYoung` bounds the
record from below by the fetch's clock, through the reading of the clock
(`FetchInTime`), and `LongRetention` makes that too young to retire.
`EpisodeInv` is inductive relative to `DispatchInv`.

**The lease.** The state of a lease is who is between claim and confirm, or else
what the record says. `OneOwner` makes the first well defined, `ClaimHeld` and
`AtAlert` say what the record is meanwhile. Each action is shown to take the
lease of its alert along one action of AlertLease and to leave the others; a
reconciliation may end several leases at once, as `Reclaim` may.

**The ledger file.** `FileInv` adds to the types that a thread inside the
section holds the flock (`InsideHolds`), that what it dumps is the effect of its
call on what the file still holds, or on nothing where it could not read it
(`NothingLost`, `LoadedBy`), that the call of a thread that dumps was not denied
on those records (`Granted`), and that the temporary file is whole and holds the
new records when it is about to replace the ledger (`Filled`). The thread lock
plays no part: a flock is on an open file, each call opens its own, and so
excludes the threads of one process as well. Refinement maps the abstract ledger
to what `_load` would return of a file it can read, and `unread` to the calls
that have taken effect without reading: only `ReplaceFile` changes the ledger,
to `Effect` of what it held when the thread loaded or, if the thread is in
`unread`, of `Empty`.

**The worker loop.** `GuardIsTrue` and `OneCycleAtATime` are inductive together:
`try_enter` needs the guard free, hence nobody inside. `FetchIsWhole` needs that
every task of the pool was asked of a listed monitor (`TasksAsked`), and
`FailsOnItsOwn` that no task carries an exception out (`NoneRaised`: `_fetch_one`
answers for every way a request can end). `RoundsLeft` is what keeps the count
of a limited loop within its limit, and with it `TypeOK`.

**The filter.** `FilterInv` is the types and `ReportIsRecent`: what `apply`
judges is the age the problem had at the fetch, at most `MaxLag` ago. From it a
problem's start is late by `Drift` at most (`StartIsClose`): what a Nagios
duration leaves out is less than a minute, whatever the age. The three
theorems about one judgement follow from it and the definition of `IsFiltered`.
`NoFlicker` needs history: `FlickerInv` says that what made the problem
effective at an earlier poll of the day still does (`WasEffective`), and that
what took it away (`IsGone`) lasts for the day, since age only grows, the end of
the window only recedes, and a restart only raises `not_before`.

**The daemon.** `ClaimIsTold` ties the in-memory ledger to what the process has
told: there is a claim if and only if the room heard the problem in this boot
and Chat's last answer arrived. Hence a claim can be had only where nothing was
told, or where the only tellings are ones whose answers were lost. `ToldIsOld`
is what makes the ledger's loss harmless with the window off: what an earlier
process told had been held since before that process ended, hence began before
this boot by more than the drift, if the hold is longer than the drift, and
`BeforeBoot` silences it. That a due problem is heard is `HeardInv`: a poll is
never more than `PollGap` ago (`PollsOften`), and while nobody has heard, either
the last poll was before the hold was over or each poll since failed
(`NotPolledDue`), each of which costs one `PollGap` of `Patience`. `DueIsJudged`
shows that no clause of the policy, and no claim of the ledger, stands in the
way of a poll inside the window (`SameDay`).

**The daily log.** `DailyInv` says that each file is whole lines (`FilesOK`), that
a handle is on a file of its day, and on the last one if the day is today
(`HandlesOK`), that what is yet to be written of a message ends where a line
does, what waits when nothing is does too, and a text that is being filed is no
noise (`TalksOK`), that the date `_ensure` has read, and the day of the file a
text is to be appended to, are between the day the write began and today
(`DatesOK`, which is where `RightDay` comes from: a file that was open is of
today when `_ensure` looks, one that is opened is of the date it has read), and
that a run of `app-clean` never holds its own today for stale (`CleanerOK`). What
waits is only flushed at the end of a message and at exit, where it is nothing
or whole lines. `FirstEnd` is a `CHOOSE`; that there is a first end of a line
is `LeastNatural`, the least-number principle, which `WFMin` gives for a set and so
without the operator parameter of an induction theorem.

**What is written of what was said.** A process has said what is settled
(written, or dropped as noise) and then what is pending, and what is settled
ends where a line does (`SaidOK`). `FollowInv` says of each process that the
places its pieces in the files come from are the worthy ones of what it settled,
in the same order (`Follows`), and that no piece of it is in a later file than
the one it has open, or of a later day than the one it is about to open
(`OpenIsLast`): so a line that is written goes behind all it wrote before, in
the same file, in a new one of the day or on a later day (`LineFollows`). Which
positions of a text are worthy is declarative, and depends on nothing beyond a
line's own ends: `WorthyJoined` splits it at the end of a line,
`NoiseIsWorthless` and `PassableIsWorthy` say what a line adds. A line that is
lost is cut out of what was said, since nothing promises it.

**The pings.** That no file is found half written rests on which inode has which
name. `InodesApart` gives each at most one name, and `Handles` says that what a
ping has open is of its own file, and is the `.conf` itself only where two pings
have been writing (`clashed`, by `Overlap` whenever two are at one file). A ping
alone at its file then finds under the temporary name what it wrote
(`TmpIsMine`), so that what it renames is whole. Until another hand writes the
file it has read (`late`), that text keeps what the user has there
(`MineIsKept`), which is `EditsKept`'s second half; its first is that only a
rename or an edit changes what a name holds. For `Settled`, `Progress` follows
each monitor from listed to handled: the file still says what was listed until
its result is handled, and the result afterwards, unless the ping is at it.

**The items.** `ItemsInv` says that what is left to read is the rest of the
payload, that each clear item before it is in `origins`, and that the alerts are
`ToAlert` of those. The rest is `ToAlert` itself: `FirstGivenIs` says what
Python's `or` gives, and `strip` keeps a text that is not blank.

**The page.** `ParseInv` follows the parser through a row. A cell is read in a
fixed sequence of states (`Reading`: what is still unread of it, with the stacks
as they are then, two deep while a nested table is open), and each tag takes it
to the next (`ReadsOn`), up to `BeenRead`; `CellWith` and `Open` say what the
open cells have heard, which is the same text and links for the inner and the
outer one. So a row that has come to its end is `WholeRow`, its six cells with
their own text and links, and what nested tables have left before it is rows of
one cell without a class (`Nested`), which no severity matches. `RowsInv(j)`
says that what the parser closed and the loop has not read is these, in order,
with one whole row for each row of the page since the j-th; `AlertsInv(j)`, that
the alerts are those of the problems up to the j-th, each saying what its row
says (`Told`), and that `lastHost` is the j-th row's host where that can be told
(`Traced`). There is such a j in every state (`PageInv`); reading a whole row
takes j to the next, and reading a nested one leaves it.

**One of each problem.** Two alerts have one dedup key if and only if they have
one `Identity` (`KeyTells`): for rows by `Told`, given that the page can be
traced, for items by `ToAlert`, and a row's key never is an item's, since the
server is part of it. Of the alerts with one key the first is in `Unique` and no
other (`OneOfEach`).

**Only model-checked.** The liveness properties `EveryProblemTold`,
`FlockIsFreed` and `EveryRunReturns`: liveness under fairness and `ENABLED` are
beyond the prover. Every other property that a passing run checks is the
statement of a theorem.

## 6. Where the code departs from what is said of it

Shown by a run:

* **A cycle of 120 s publishes twice** (`LongCycle`). `poll_monitors.py:69` reads
  the clock once and stamps every claim with it. A claim made late is born old;
  another worker prunes it. README.md:14 promises one emission per fingerprint.
  A pool with fewer threads than monitors, and `HTTP_TIMEOUT_SECONDS` per
  operation and per POST, make long cycles possible, though the fetch itself is
  before the clock is read.
* **Retention is counted from the confirmation** (`Retention`).
  `file_alert_dispatch_ledger.py:150` against docs/arquitetura.md:103,
  "pós-resolução": a problem confirmed long ago that flaps for a moment is told
  again at once.
* **An unreadable ledger is an empty one** (`UnreadableLedger`).
  `file_alert_dispatch_ledger.py:57` answers `{}`, and the same call writes it
  back: every active problem is told again. LedgerFile has the failing read too,
  and `NothingLost` and `ImplementsCalls` say what becomes of the file: the
  records of that one call replace all others.

Seen while modelling; the properties are stated around them:

* `.cursor/rules/nagstamon-filters.mdc:20` says that without
  `WINDOW_ALLOW_PAST_ACTIVE_ALERTS` whatever began before the boot is excluded;
  `alert_filter.py:176` does so only with the window off, as
  docs/engineering-python.md:53 says. `ShiftAlertIsHeard` checks the code's way.
* A lost fetch is no alerts (fail-open), so it retires the records of problems
  that are still there, once the window is over; they are told again.
* When Chat takes a message and its answer is lost (`google_chat_http.py:57`),
  the claim is released and the same process tells the problem again in its next
  cycle. `NeverToldTwice` and `NotToldAgain` count one more telling for each.
* When Chat refuses, stdout has printed already, and prints again with each
  retry. `Watched` chooses the sink `OncePerEpisode` is about; it holds of Chat.
* With `DEDUP_ENABLED=false` a refused POST ends the cycle and the process, where
  docs/arquitetura.md:84 says that the use case releases and the cycle goes on.
  With the window off as well, the next process's cut at boot silences every
  problem that is still active, for good; `CriticalIsHeard` asks for a ledger.
* `sla_criticality` names the grace period of the default holds, whatever
  `FILTER_HOLD_*` say (`nagstamon-alert-view.mdc:21` calls it the hold's);
  `CardIsTrue` speaks of the default holds there.
* The incident ID, "chave unívoca" in `nagstamon-alert-view.mdc:23`, leaves out
  the `app` that the dedup key has: two problems with one server, alertname and
  host have one ID.
* The severity is not part of the dedup key: a WARNING that becomes CRITICAL is
  not told, and of two alerts with one key in a poll the first is kept, whatever
  its severity.
* A label that is only whitespace shadows the ones after it (`or` takes it, and
  `strip` empties it): a blank `alertname` or `severity` drops the item, a blank
  `hostname` leaves the alert without its host.
* A blank `WINDOW_ENABLED=` or `DEDUP_ENABLED=` reads as false, a blank hold or
  window as its default, and a blank `REFRESH_INTERVAL_SECONDS`, `HTTP_*` or
  `DEDUP_WINDOW_MINUTES` refuses the boot. `.env` overrides the process's own
  environment.
* `WINDOW_START` after `WINDOW_END` is accepted, and then no time of day is inside.
* A hold is only required to be below `FILTER_DURATION_MAX_SECONDS`. If less than
  the time between two polls is left, no poll may find the problem effective;
  `Patience` asks for the room.
* With the window on, the loss of the in-memory ledger has every problem of the
  shift told again; `NotToldAgain` says so by its second half's premise.
* A duration is counted back from a clock read after the fetch: a problem that
  began just before the window opens seems to begin inside it, and can come and
  go as Nagios rounds to minutes. `NoFlicker` and `StartedInShift` say by how much.
* What the GUI saves between a ping's read of a file and its replace
  (`ini_server_config.py:46` and `:75`) is lost. `EditsKept` excuses that window
  (`late`), and a file that two pings have been writing at once (`clashed`); of
  everything saved before the read it lets nothing go. `Settled` excuses more:
  any change by another hand since the ping listed the files, whose `enabled` it
  goes by (`ping_monitors.py:56`).
* Midnight between the look at the date (`daily.py:88`) and the append (`:72`)
  leaves a line in the file of the day before; `RightDay` says that it is never
  that of a day before the write.
* `make app-clean` takes its date from `WINDOW_TIMEZONE` of its own environment,
  not of `.env`, and before it lists the directory: on another date, or across
  midnight, it removes the file the workers hold open, and what they print
  until the next midnight goes to a file without a name (`astray` in
  `TodayIsFound`). README.md:44 says that the day's file stays.
* Where the day's log cannot be opened, the lines behind the lost one wait in
  `_pending`, and at exit are judged, and dropped, as one.
* Two pings share the name of the temporary file: one can rename what the other
  is writing (`clashed` in `ConfsReadable`).
* A monitor's name is its file name without `server_` and `.conf`, so two files
  can have one name; and `set_enabled` rewrites every `enabled` line of a file,
  of all its sections. The instances have one section per file, and names apart.
* On a page without links, a host that is named by a row of no problem is
  forgotten, and the problem after it takes the host before (`Traced`).
* The alternative text of an icon in a service cell without a link becomes part
  of the service's name, and so of the dedup key.
* "acknowledged" anywhere in a row's text, plugin output included, acknowledges.

## 7. What is not modelled

* The optional `LOG_FILE`, and a daily log on a full disk, which keeps a line in
  its buffer until the next one.
* Settings that nothing checks (`SERVERS_DIR`, `PROXY_ADDR`, `LOG_FILE`,
  `LOG_DIR`, `SOUND_ENABLED`), and the syntax of a `.env` file.
* The layout of a message, its order, quotes and display timezone.
* Secrets and log formatting: text, with no state.
* The sound: best effort after the loop; it only makes a cycle longer.
* Power loss: `os.replace` without `fsync` can leave the ledger empty; the
  consequence is that of `UnreadableLedger`.
* Unbalanced HTML, which the parser also accepts.
* Quality gates, container and CI files: tools that run others in sequence, of
  which only `stage_clean` shares state with the program (DailyLog). The
  containers' restart policy and shared ledger are assumptions of the models.

## 8. Plan

The order was: the cycle over the ledger, since it is what the program is for;
the file protocol it relies on; what surrounds them; the daemon as its settings
build it, over the filter; what the clients make of what monitors answer; and
the proofs, from the inside out. What is left:

1. Several problems in the daemon, which one ledger and one message each keep
   apart today by the shape of the code.
2. Rows of a shape that `Rows` does not have: more or fewer than six cells, or
   a problem's row without a service.
