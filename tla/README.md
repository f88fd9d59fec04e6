# Verification of Ayd

Ayd is a status monitoring service: it runs probes on a schedule, appends their
records to log files, keeps a history and the incidents of each target in memory, shows
them over HTTP, and runs alerts when the status of a target changes.  This directory
holds TLA+ models of its core, the TLC configurations that check them on small
instances, and proofs checked by TLAPS.  Every definition is translated from the Go
source; `PROJECT.json` names the lines each one stands for, the plausible bug each
property was seen to catch (`mutants`), and the hazards the properties are for.

    tlc -workers 2 -config StoreInOrder.cfg MCStore.tla    # a run (see the table below)
    tlapm StoreProofs.tla                                  # the proofs of a module

## The system

| part | state | operations | speaks to |
|---|---|---|---|
| store: history and incidents (`internal/store/store.go`, `incident.go`, `probehistory.go`) | `probeHistory`, `currentIncidents`, `incidentHistory`, `incidentCount`, all under `historyLock` | `Report`, `ActivateTarget`, `DeactivateTarget`; the readers `ProbeHistory`, `CurrentIncidents`, `MakeReport` | is called by all probes and alerts; calls `OnStatusChanged` with the lock held |
| store: writer (`store.go` 96-190) | `writeCh`, the open file, its name and its timer, `healthy`, the last errors | one goroutine over the channel and the timer; `Close` | receives from `Report`; `/healthz` reads `Errors` |
| store: restore (`store.go` 395-472) | none of its own | `Restore`, once, before the server starts | reads the log files, fills the history |
| log reading (`scanner.go`, `search.go`, `pattern.go`) | read positions | `OpenLog`, the file scanners and their merge, bisection of a file | `/log.*`, `/incidents.*`, `conv` |
| schemes (`internal/scheme`) | per prober: nothing, but for the shared pinger (a count of users), `TargetTracker` (active and inactive targets) and the lists of `source:` | `Probe`, `Alert` | call `Report` of the reporter they are given |
| alerts (`alert.go`) | none | `AlerterSet.Alert` starts all alerts and waits for them; `AlertReporter` renames what they report | call back into `Report` |
| command (`cmd/ayd/main.go`, `server.go`, `oneshot.go`, `task.go`, `schedule.go`) | cron entries, a `WaitGroup`, a context, the HTTP server | start, jobs, signals, `Shutdown`, exit | starts the jobs, closes the store last |
| endpoints (`internal/endpoint`) | none | one handler for each page | read the store and the log |
| query language, `lib-ayd`, `logconv` | none | pure functions | endpoints, `conv` |

A record travels like this.  A job of the scheduler runs a `Prober`, which calls
`Store.Report` for each record (for `source:` and plugins, through a
`TargetTracker`).  `Report` sends the record to `writeCh`, takes `historyLock`, updates
the incidents, calls the callbacks (that is, runs the alerts and waits for them), and
appends the record to the history.  An alert reports what it did through the same
`Report`, from another goroutine, while the first call still holds the lock; the schemes
`alert:` and `ayd:` are therefore not recorded and need no lock.  The writer receives
from `writeCh` and appends to the log file of the record's day.

What is hard about it, with what must be true nevertheless:

- **Late records.** A record carries the time its probe began, and is reported when the
  probe ends; plugins may date theirs up to an hour back.  The history is sorted all the
  same, and `setIncidentIfNeed` has a second path for records that are not the newest,
  which looks into the resolved incidents.  No incident may be lost, reopened, or filed
  under another target.
- **Alerts under the lock.** Everybody's `Report` waits for the alerts, and the alerts
  call `Report`.  Nobody may wait for ever, and nothing may be dropped or reordered.
- **Shutdown.** `Close` closes a channel; nobody may send afterwards, nothing may be lost.
- **Restart.** The history and the incidents are made again from files that are read newest
  first, by code made for records in order.
- **Overlapping runs.** The scheduler starts a job again although its last run is still
  busy; runs of a `source:` share one `TargetTracker`.
- **Lists of lists.** A source may name sources, and itself; any of them may be unreadable.
- **Shared sockets.** All pings share a pinger that the first starts and the last stops.
- **Calls that fail or hang.** A probe goes through up to five calls, each of which may fail
  or wait for a silent peer, while the deadline or the end of Ayd comes at any moment.  What it reports
  must be true, nothing may stay open, and Ayd's own end must not look like an incident.
- **Queries.** The parser rearranges its tree in place, an optimiser rewrites it, and the time
  range taken from it decides which files are read at all.
- **Files.** Each call to the file system may fail, and files are moved away under the writer.

`PROJECT.json` lists these as hazards, each at its line, with the properties that cover
it, or with what is planned.

## The modules

| module | what it models | checked by |
|---|---|---|
| `Store` | the state under `historyLock`; an action is one critical section | `MCStore`, `StoreProofs` |
| `StatusMonitor` | abstract: each target has a condition, a change of it is told once | refined by `Store` (instance `Monitor`): `MCStore`, `StoreProofs` |
| `StoreRestart` | `Store` with log files, stopping, and `Restore` record by record | `MCStoreRestart` |
| `Reporting` | jobs, alerts, the writer and `Close` around `writeCh` and `historyLock` | `MCReporting`, `LifecycleProofs` |
| `Lifecycle` | extends `Reporting` with a run of the command: `RunServer` or `RunOneshot`, their goroutines and an HTTP request | `MCReporting`, `LifecycleProofs` |
| `LogWriter` | the writer goroutine, its file handle and timer, and the directory | `MCLogFiles`, `LogWriterProofs` |
| `PathPattern` | the names of the log files, made from a time and taken apart for a period | `MCLogFiles`, `PathPatternProofs` |
| `LogSearch` | `searchLog`, the bisection of a log file by byte offsets | `MCLogFiles`, `LogSearchProofs` |
| `LogReader` | a page of the log: file scanners, their merge, filter, paging, total | `MCLogPage`, `LogReaderProofs` |
| `Keyword`, `Query` | the query language: tokens, matchers, parser, optimiser, time ranges | `MCLogPage` |
| `UrlSet`, `SourceLoader` | `urlSet` and the recursive `loadSource` | `MCSchemes`, `SourceLoaderProofs` |
| `TargetTracker` | runs of one `source:` or plugin around one `TargetTracker` | `MCSchemes`, `SchemesProofs` |
| `SharedPinger` | `sharedResource` and `autoPinger` | `MCSchemes`, `SchemesProofs` |
| `Probes` | every scheme as a probe, an alert and a source, call by call | `MCSchemes`, `SchemesProofs` |
| `Plugin` | `PluginScheme.execute`: the command, the pipe, the scanner | `MCSchemes`, `SchemesProofs` |
| `StoreProofs`, `LifecycleProofs`, `LogWriterProofs`, `LogReaderProofs`, `LogSearchProofs`, `PathPatternProofs`, `SourceLoaderProofs` | theorems about the modules in their names | `tlapm` |
| `SchemesProofs` | theorems about `TargetTracker`, `SharedPinger`, `Probes` and `Plugin` | `tlapm` |

`MCLogFiles`, `MCLogPage` and `MCSchemes` check several modules that share no state in one run:
each behaviour belongs to one of them, chosen by the variable `part` in the initial
state, while the variables of the others keep an initial value.  The state space is the sum, not
the product, of theirs, and a property that begins with `part = ...` says the same as in its module.  For the modules that `MCSchemes`
and `MCLogFiles` instantiate, this is proved: a behaviour of `MCSpec` is one of each of them, which stands
still where another has its turn, and each theorem states a property of the module and of the composition.

### Store

`records`, `targets` and `sources` are the fields of `probeHistory`;
`currentIncidents`, `incidentHistory` and `incidentCount` have the names of the code.
Incidents are pointers in the code: one incident can be in the map of current incidents
and several times in the history, and a change through one is seen through all.
`incidents` is that heap, and the collections hold indices into it.  Nothing is ever
taken from it, so that properties can speak of an incident after the history dropped it.
`calls` is what the last step passed to `OnStatusChanged`.

`Report` is the whole call: `SetIncidentIfNeed`, whose five disjuncts are the paths of
`setIncidentIfNeed`, and `AppendRecord`.  `SearchLastIncident` with `Covers` and
`NoRecordBetween` are the loops of `searchLastIncident`.  The code finds the place of a late record by
swapping it to the left; `InsertRecord` says where it ends up.
Messages that differ only in ephemeral port numbers are the same message to
`isSameIncidentMessage`: `MaskedMessage` says which are.  Instants are numbers.

How late a record may be is the constant `MaxDelay`: 0 is a program whose records
arrive in order.  The properties come in two groups, those that hold for any delay and
those that only hold in order.  The second group is not vacuous decoration: in order, the store
*implements* `StatusMonitor`, i.e. alerts are sent exactly at the changes of a target's
condition.  `AlertsAreStatusChanges` uses `[][Monitor!Next]_vars` and not the usual
`Monitor!Spec`: with stuttering on the monitor's own variables, calling the callbacks twice
for one change could pass as a stutter.

### StoreRestart

Extends `Store` with `logs` (the records of each file, in order of writing), `mode`,
`replay` and the history variable `before`.  A report also appends to the file
`FileOf[time]`, as the writer does with `PathPattern.Build`; `Stop` is a clean stop, with
the channel drained (that a clean stop drains it is `NothingLostAtClose` of `Reporting`).
`ReplayOrder` is the order `Restore` reads in: files newest first, each from its oldest
record, the last one from its middle when `LogRestoreBytes` (here a number of records)
is used up.  Each `RestoreRecord` is one iteration of `restoreOneFile`.

### Reporting

The steps are cut where another goroutine can come between: before the send, before
the lock, at each alert, after the alerts.  What a record does to the history is `Store`'s
business; here it either fires alerts (`FireAlerts`) or does not (`ApplyQuietly`), as it
pleases, and a late failure that is already over is told twice (`FireAgain`).  The lock is held across steps only while alerts run.  `Prefix` is
`AlertReporter.Report`, with `SplitScheme`; `IsRecorded` is the test in `Store.Report`:
they do not cut a scheme at the same place, see *What the code does not do* below.

### Lifecycle

`main` is where `Run` is; `signal`, `shutdown` and `cron` are the three goroutines that `RunServer`
starts, `request` one HTTP handler.  `wg` counts as the `WaitGroup` does: the jobs that `main` started
itself (`kicked`, by `NeedKickWhenStart`; all in a oneshot run), the shutdown goroutine and
the end of cron.  The jobs that cron starts are not in it: `CronDone` waits for them through the
context that `cron.Stop` returns.  `Announce` is `Store.Report` for a record of Ayd itself, which is sent
and not recorded.  `Close` has no guard: that nobody sends afterwards is `NoSendOnClosed`, which
speaks of everybody who is *about* to send.  `Setups` is what command lines may ask for.

### LogWriter

A record is the number of its arrival and the name of the file its time makes.
`entry` is the directory, `inodes` all files ever created: a file that is moved away leaves
`entry`, and the writer may still hold it.  `Receive`, `Open`/`FailToOpen` and `Write` are the
three parts of the loop body, any of which may fail when `DiskFails`; `healthy` is what
`/healthz` reads.

### PathPattern

A pattern is the sequence of its parts (`ParseFragment` adds one), a name the sequence of their
numbers.  `DaysBefore` is the calendar.  `Build` is the writer's name for a time, `Match` and `Exec` ask whether the period
of a name may overlap the one asked for, `ListBetween` and `ListAll` are the two lists.  `Insert` is
the insertion sort that `sort.Slice` does on a slice of up to twelve names, with its comparison of
places that do not move along; on a longer slice it is another sort, which does the same to names that are in
order already, and these are the ones the properties speak of.

### Keyword and Query

A keyword is a sequence of pieces (operators, stars, quotes and atoms of text), an input a
sequence of words, read one by one (`ReadToken`).  `parser` holds the variables of `ParseQuery`: the
nodes of the tree as a heap, because the parser changes them through pointers, the stack, and the
two flags; `ParseQuery` closes what is open and optimises.  `Match` puts the optimised tree to a
record, `TimeRange` is `Query.TimeRange`, `PageRange` and `NarrowRange` what the log page
and the MCP call make of it, and `Read` is the part of the log that the scanners take for it: they stop before the
end of a range, although `TimeRange` gives an end that belongs to it.  `RangeCovers` excepts the record at that one instant; with
a unit of time of a nanosecond, as in the code, only a literal with a fraction of a second can have a record of a log file there.
The reference is a grammar of the language as README describes it, written without
the parser's tree.  These two modules use `RECURSIVE` operators.

### SharedPinger, Probes and Plugin

`SharedPinger` cuts a ping at the mutex of `sharedResource`: `Get`, reading the pinger out
of it, `Release`.

`Probes` is one use of one scheme.  `pc` is the call it is in, `open` what is open, `defers`
what the deferred calls are going to close, and `ctx` the context, which may be done between any two
steps.  Code that schemes share is shared: `dialSSH`, `ftpConnectAndLogin`, `runExternalCommand`,
`probeFS` and `alertFS`.  The answer of a peer is any answer.  `trouble` is set when a call
failed, so that `HealthyIsTrue` can say that nothing hides it.  A ping is two calls: `ResolveIPAddr`, which
takes no context and ends with the timeouts of the resolver, and `Ping`, which the context interrupts.

`Plugin` has the goroutine that runs the command and the scanner of its output; the pipe's end
orders the two, and a line that is too long for the scanner does not wait for it: what `Conclude` reads then
is either value.

### TargetTracker

`content` is what the source lists now, changed by `Edit` at any time; a run goes through
`Load`, `Prepare`, one report for each of its targets (to the store, then to the tracker: two
steps), `ReadInactives` and `Deactivate`.  The number of runs that may overlap is a constant.

### SourceLoader

The recursion is the stack of frames `stack`, one line a step.  URLs are numbers in
the order of their strings, as bisection needs them; `Add` includes what
`append(append((*s)[:i], u), (*s)[i:]...)` does to an array with room in it.
The contents of the lists and which of them can be read are chosen in `Init` and do not change.
A URL that cannot be made a probe or an alert is refused (`RefuseTarget`), or, where `NewAlerterFromURL` and
`NewExecScheme` return a nil interface with their error, its `Target` panics and the load is over (`Panic`).

### LogSearch and LogReader

`LogSearch` is the loop of `searchLog`: `left`, `right`, `mid` and `buf` are its variables, and
each action is one way through the loop body.  A line is its length and its time; a line
read from its middle is no record, as a record is one JSON object.
`newFileScanner` asks for 70 minutes before the period, because records may be 60 minutes
late (`SearchTarget`).

`LogReader` is a request for `/log.json`: `Open` lists the files, `OpenFile` opens one of them.  A file that
was removed after it was listed is passed over (`SkipRemoved`), and its records are not asked for; any other error
closes what is open and fails the page (`FailToOpen`), which then shows nothing.  With all files open, each action is one `Scan` of the scanner set with what the filter, the pages or the total
do with it.  Of `searchLog` it uses only what `StartsSafely` says: `OpenFile` may begin at any
line with nothing that is asked for in front of it, which `LogSearch` is
proved to guarantee (`SearchLeavesNothingBehind`).  The writer appends at any moment.  A file scanner stops for good at a
line that does not fit its buffer, as the code does, because the error of `ReadSlice` is tested
again after the line has been completed.

## The runs

| run | instance | shows |
|---|---|---|
| `store_in_order` | 1 target, 3 messages of which 2 are the same but for a port, HEALTHY/FAILURE/ABORTED, histories of 2 records and 2 incidents, 3 instants, 3 incidents | `CurrentMirrorsLatest`, `HistoryBounded`, `IncidentsDisjoint`, and the refinement `AlertsAreStatusChanges` |
| `store_delayed` | 2 targets (symmetric), records up to 2 of 3 instants late | `TypeOK`, `HistorySorted`, `OpenIffCurrent`, `ResolvedStaysResolved` |
| `restart` | 1 target, 4 instants in 2 files of at most 3 records, a limit of 3 records, records up to 1 late | `RestoresHistory`, `RestoresNewest`, `RestoresStatusOfOneFile` |
| `restart_loses_status` | the same with records in order | violation: `RestoresStatus` with more than one file |
| `reporting` | 2 jobs, 1 alert, a channel of 2; four command lines (below) | `NothingLostAtClose`, `NoSendOnClosed`, `OrderedPerJob`, `AnnouncementsLogged`, and under fairness `EveryReportReturns` and `Terminates` |
| `reporting_alert_deadlock` | a channel of 1, an alert that reports a target with the scheme `alert-sub` | violation: `EveryReportReturns` |
| `log_files` | `LogWriter`: 2 file names, 4 records, every call may fail, files moved away at any time; `PathPattern`: patterns of up to 3 parts and 3 records; `LogSearch`: files of up to 4 lines of 3 lengths (one empty), a buffer of 2 bytes that grows, accuracy 0 and 2 | `FiledByName`, `WrittenOrReported`; `FilesFound`; `StartsSafely`, `ExactIfSorted`; under fairness `StaleHandleReleased` and `SearchEnds` |
| `list_all_unsorted` | the same | violation: `ListAllSortedAlways` |
| `log_page` | `Query`: inputs of up to 5 words, keywords of up to 5 pieces; `LogReader`: 2 files whose names are not in time order, 3 lines, 7 instants, records up to 2 late, offsets and limits 0 and 1 | `ParsesByGrammar`, `RangeCovers`, `KeywordsMatch`; `FindsAll`, `PageIsFull`, `MergedByTime` |
| `query_not` | the words `or` and `not` | violation: `NotAppliesToOneTerm` |
| `schemes` | all contents of 2 lists of up to 2 lines over 6 URLs, of which one is refused and one panics; 3 targets and one run at a time; 3 users of the pinger; every scheme in every use; plugins that print up to 3 lines | `Complete`, `LoadTerminates`; `SettledOnList`, `ListedNeverDeactivated`; `RunsWhileUsed`; `HealthyIsTrue`, `StopIsNoIncident`, `AllClosed`, `EndsInTime`; `FailureIsTold` |
| `loader_twice` | 1 list of up to 3 lines | violation: `LoadedOnce` |

Why these bounds are enough for the cases that matter:

- Histories of 2 records and 1 or 2 incidents overflow within three reports; each run
  reaches full histories, trimmed ones, and late records on both sides of what is kept.
- `MaxIncidents` caps only records that may allocate (not HEALTHY, not ABORTED), so that a
  behaviour at its bound can still recover: three incidents can all be resolved, one of
  them dropped, or two resolved and one current.
- Three instants with a delay of two give every order of three records, with ties.
- With two targets, the shared incident history has incidents of both.
- In `restart` two files and a limit of three records reach a file read whole, from
  its middle, and not at all, and files with late records and without.
  `RestoresNewest` speaks of files without late records only, since the tail of a file is
  not its newest records otherwise.
- In `reporting`, two jobs and one alert are three senders for two places in the
  channel, one of them under the lock.  The full product of what a command line may ask for is too
  large, hence four of them: a oneshot run, where one job has two reports, so that there is an order to
  keep, and one has another to interleave; a server with a job `main` starts and one cron starts; a server with
  a request and jobs that report nothing; a server whose job fires alerts.  Each server may
  fail to start, fail to serve, or be told to stop at any moment.  Two interactions are lost: an alert
  and a request at once, and alerts of two jobs while the server stops.
- In `log_page`, the delay in `LogReader` equals the clearance, which is the narrowest case
  (the code has 60 and 70 minutes), and there are instants before the period, in it, within
  the clearance and beyond it.  Five words are a parenthesis around an operator with two operands, three
  negations or three alternatives; records have each side of each literal.
- In `log_files`, three parts are every choice and order of up to three of the five units, also with one left
  out, and the times cross the end of a day, a month and a year; three files are the least that
  `ListAll` sorts wrongly.  The lines of `LogSearch` are longer and shorter than the buffer and than the
  accuracy, and four of them give three bisections; the file grows while it runs.
- In `schemes`, two lists can name each other and themselves in each order; `MaxDepth` is never
  reached (TLC would report a deadlock).  `Probes` has no bound; three users are the two of a
  shared pinger and one whose start fails.

`CHECK_DEADLOCK FALSE` is only in the configuration of `reporting_alert_deadlock`,
whose subject it is.  Elsewhere a finished process is a `Terminated` step.

## Fairness

- `Lifecycle`: strong fairness for whoever sends to the channel or takes the lock. Go serves the
  senders of a channel in order of arrival, and a `sync.RWMutex` hands itself over to waiting
  goroutines.  Jobs end and alerts return, as they have timeouts (but see `EndsInTime`: not all do);
  the writer only waits for its channel; `Shutdown` returns after five seconds.  No signal
  has to come, `Serve` does not have to fail, and a request does not have to be answered.
- `LogWriter`: weak fairness for its steps, which are calls that return; strong for
  `CloseOnTimer`, because `select` chooses among the ready cases at random, so that a fired
  timer wins sooner or later although records are always ready too.
- `SourceLoader`: weak fairness for the loading step, one goroutine that waits for nothing
  without the deadline of its context.
- `LogSearch`: weak fairness for the search, whose reads return.
- `Probes`: weak fairness for steps that need nobody else, for the deadline, which passes, and for
  calls that the end of their context interrupts, once it has come; the resolver that `ResolveIPAddr` asks has timeouts of its own.
  A silent peer may stay silent.
- The other modules have safety properties only.

## What is proved

Each theorem holds for every value of the constants that satisfies the assumptions of its
module; the runs show the same properties on a small instance.  Every one is an
induction over the steps: an invariant that is more than the property, because the
property alone does not say enough about the state a step begins in.

### `StoreProofs`

For any targets, messages and masking of messages, and any length of the histories.

*Records as late as they like* (`MaxDelay` arbitrary): `TypeCorrect`, `HistoryStaysSorted`,
`OpenIncidentsAreCurrent`, and the action property `NoIncidentIsReopened`.  The invariant `StoreInv` is the
conjunction of the first three, which need each other: the types are needed to
say that an index of `currentIncidents` is one of `incidents`; the sorted history to say
that the record after a late one, whose time becomes the end of its incident, is later, so that no
incident ends before it begins; `OpenIffCurrent` needs both, and `TypeOK` needs of it that a resolved
incident gets a beginning and an end that are instants.  `InsertRecordProperties` and
`DropOldestProperties` say what a history becomes, `SearchProperties` what `searchLastIncident`
finds, `ResolveConsistent` and `OpenConsistent` what the two halves of `setIncidentIfNeed` keep.

*Records in order* (`MaxDelay = 0`, a hypothesis of the theorems, since late records do break these properties, see
below): `CurrentIncidentsMirrorTheHistory`, `IncidentHistoryStaysBounded`, `IncidentsFollowOneAnother`, and the
refinement `StoreImplementsMonitor`.  `InOrderInv` adds to `StoreInv` that no incident begins or ends after the
newest record of its target (`TimesOK`), that each is about a trouble (`TroubleOK`) and that those in
the history are over (`HistoryOver`): with these, the search for a record that is not older than the newest one finds
the current incident and nothing else.  The refinement then goes path by path through
`setIncidentIfNeed`: the condition of `StatusMonitor` is the current incident of a target as a
record shows it, each path changes it exactly if it calls the handlers, and the handlers are told the change.

### `LifecycleProofs`

For any finite set of jobs, any alerts and reports, any length of the channel and any command line:
`NobodySendsOnClosed`, `CloseLosesNothing`, `LogIsOrderedPerJob`, `AnnouncementsReachTheLog`.

`LifeInv` says where everybody is when.  Its heart is `GroupOK`: the `WaitGroup` is the
number of the counted jobs that are not over, plus one for cron and one for the shutdown goroutine.  With
`JobsOK` (the jobs of cron are over once cron was waited for) and `JoinedOK`, nobody that could still send
is left when `Run` returns, and only then is the store closed.  `LogOK` says of the written records
and those in the channel, together, that every report of a job is among them unless the job is at the
send of it, that the history is a part of them, and that the ranks of a job ascend; when the
channel is empty and closed, that is `NothingLostAtClose`.  `AnnouncedOK` does the same for what
Ayd says of itself.

### `LogWriterProofs`

For any number of files and records, any rotation and any failing calls: `RecordsAreFiledByName`,
`NoRecordLostInSilence`.  `WriterInv` adds that directory and handle lead to files of the right
name (`HandleOK`) and that each file has records of its name, in order, up to the last one the writer is
done with (`FileOK`).  That a stale handle is released is liveness and stays with TLC.

### `LogReaderProofs`

For any names of files, any number and order of records, any period, page and delay within the clearance, with a writer at
work: `EveryRecordIsFound`, `PagesAreFull`, `FilesAreMerged`.  The code keeps only the *number* of the
records it has seen, so `ReaderInv` says that a set of them exists (`Seen`) that has this number of members,
none of which is still ahead of a scanner, and that every record that was there in the beginning is in that set or
ahead.  A scan moves a record from one part to the other; that a file scanner may stop at a record
beyond the period and the clearance, although the file goes on, is where `MaxDelay <= Clearance` is needed.

`OpenFile` takes for granted what the search of a file promises, which is the next module's subject.

### `LogSearchProofs`

For any file, any buffer, accuracy and clearance, and lines appended meanwhile.  `SearchLeavesNothingBehind` needs
`SearchInv`: `left` is the beginning of a line and only moves past a record that is older than the clearance.
`SortedSearchIsExact` is the correctness of the bisection itself.  `Bisected` says what is known of every record: before `left` it is
older than the target, from `right` on it is not, and none lies between the middle of the two and `mid`,
although `mid` wanders off to the next line whenever it hits something that is no record.  The case
in which this fails is the end of a file with empty lines, which the property excepts.

### `PathPatternProofs`

`FilesOfAPeriodAreFound`, for any pattern, any set of records and any calendar: `FilesFound` has two halves.
The invariant is small (`PatternInv`: the parts are parts, the times are times, finitely many), the rest is about
the functions.

- *The files of a period.*  `NoEarlier` and `LaterInParts` reduce the order of times to that of their parts: `Ordinal` is a number in a
  mixed radix, but for the days of the months, which the table `DaysBefore` adds up.  `BuiltNameIsRead` says that a name gives
  back the parts it was made of, `ExecutedParts` what `Exec` makes of them: up to the greatest part of the pattern the end of
  the period stands in, from its smallest on `base`, and between them, as no part is left out, the record itself.  In `FileIsFound`,
  the latest time a name may stand for has its greater parts from the end of the period, which is no earlier than the record, and
  in each other part no less than the record has: so it is no earlier than the record, hence than the beginning of the period;
  and the same the other way round.
- *All files in order.*  `NamesCanBeSorted` finds the sequence `Glob` chooses, by induction over the number of names.
  When the parts of a pattern go from greater ones to smaller ones, the order of letters is the order of time
  (`OrderIsThatOfTime`), so that no insertion moves anything (`SortLeaves`), which is why it does no harm that the sort compares places.

### `SourceLoaderProofs`

`SuccessfulLoadIsComplete`, for any lists of any length that may name each other.  `urlSet`
forgets members (`loader_twice` below), so nothing the code keeps says which lists were opened.
`LoaderInv` claims only that there *is* a set of lists (`Accounts`) that holds the root and, for each member, has all
lines up to where the innermost call for it has come, or up to its end.  When the stack is empty that set is closed under
what its lists name, hence contains all that the root leads to, because `Reachable` is the least such set.
Of `Add` only this is used: it puts nothing but its argument into the set.

### `SchemesProofs`

- `ActiveTargetsSettle` and `ListedTargetsStayActive`, for any targets and any number of runs of which no two use the
  tracker at a time.  This hypothesis, `[]NoOverlap`, is one the code does not enforce (see below); the last conjunct of each theorem
  is the case of a single run, which has no such hypothesis.  `TrackerInv` describes the tracker while it is used:
  each target of the list is still to be probed, on its way or active.
- `PingerRunsWhileUsed`, for any users and pings: `PingerInv` says that the count never exceeds the number of users that hold
  the pinger, that it is zero exactly when there is no pinger, and that it is exact as long as no start has failed.
- `HealthyIsNeverClaimedFalsely`, `StopsAreReportedAsAborted`, `ConnectionsAreClosed`, for every scheme in every use.  `Probes` has no
  parameter, and the run is exhaustive; what the proof adds is the reason.  `HeldOK` says at each step what is open and what of it a
  deferred call is going to close, `TroubleOK` that a failed call is in the status as soon as it is known.
- `FailedPluginIsTold`, for any number of lines: `PluginInv` says which of the variables that the goroutine
  of the command shares with the scanner are settled once the scanner has seen the end of the pipe.

### What the proofs assume

The `ASSUME`s of the modules, which TLC evaluates in the runs, and no more but what is named above:
histories with room for one entry and a channel for one record, as in the code (60, 20, 32); finitely many jobs, apart from the
alerts and from Ayd; lists and targets apart from each other, `Normal` (the normal form of a URL) idempotent; a period that ends no
earlier than it begins, and records at most 60 minutes late against a clearance of 70, as `MaxDelay <=
Clearance`.  `SharedPinger` has the bound `MaxStarts > 0`.  `PathPattern` assumes
years from 2000 to 2099, because `%y` tells no others apart, months of at least one day, and that records have the times of that
calendar.  The bounds on time and on the number of records, lines and starts are any numbers.

Induction over data (positions of a sequence, lines of a file) is done by the least counterexample: the library's
induction theorems take an operator as their parameter, which no prover here can instantiate, but `WFMin` with
`NatLessThanWellFounded` gives every non-empty set of naturals its least member.

### What is only model-checked

- Liveness: `EveryReportReturns`, `Terminates`, `StaleHandleReleased`, `SearchEnds`, `LoadTerminates`, `EndsInTime`.  Fairness and
  `ENABLED` are out of the prover's reach.
- `ParsesByGrammar`, `RangeCovers`, `KeywordsMatch`: `Keyword` and `Query` use `RECURSIVE` operators, which cost
  the prover its SMT backend.
- `RestoresHistory`, `RestoresNewest`, `RestoresStatusOfOneFile` of `StoreRestart`: they compare what many reports made with what
  many restored records make, and the order between the two is that of a recursive function.

## What the code does not do

Five violations are kept as runs, each with what the repository says otherwise
(`findings` of `PROJECT.json`):

- `restart_loses_status`: `Restore` feeds the files newest first to code that expects
  time order; the records of yesterday end or move the incident of today.
- `reporting_alert_deadlock`: `AlertReporter` leaves `alert-sub:` alone because its first
  part is `alert`, `Store.Report` locks because its whole is not: the alert's report waits
  for the lock of the report that waits for the alert.
- `loader_twice`: `urlSet.Add` overwrites a member when it inserts in front of it.
- `list_all_unsorted`: `ListAll` sorts with a comparison of a slice that is not sorted along.
- `query_not`: after `a OR b NOT c`, every further term is negated too (`pushQuery` returns before it
  resets `notMode`).

Seen while modelling, and not kept as runs; the properties name these exceptions:

- When `Serve` fails while a signal arrives, `Run` may close the store under the goroutine
  that reports the stop (`server.go:111`), which panics: `NoSendOnClosed` excepts it, and a
  request that outlives `Shutdown`.
- A ping that did not get the shared pinger releases it nevertheless (`ping.go:150`), and may stop
  the pinger of another (`RunsWhileUsed`).
- The list of an `exec+ssh` source is used whatever the exit code (`source.go:307`), so that a failing command
  deactivates all targets; a list whose scanner fails counts as complete (`source.go:376`).
- Sources over sftp never close their connections, and sftp probes leave one open when sftp cannot
  be started (`source.go:317`, `sftp.go:108`).
- The SSH handshake knows neither the context nor a timeout (`ssh.go:168`), and an HTTP alert has no timeout
  at all (`http.go:165`) although `historyLock` is held.
- When Ayd stops, probes of ssh, exec+ssh and ping that are in their preparations report UNKNOWN,
  where README.md:676 has ABORTED.
- A plugin that prints a line too long for the scanner hides its own failure.
- The time range of `time>=T OR x` leaves out what only `x` matches; an `AND` at the end of a query
  repeats the term before it, without its `NOT`.
- The end of a time range is part of it for the query (`valuematcher.go:252`) and not for the log (`scanner.go:62`): of a literal with
  a fraction of a second, `time<=T` matches a record at `T` that is not read, and `time=T` reads nothing.
- A `source:` alert that lists a ping, tcp or dns URL, and a list that names an `exec-x` URL, panic at
  the `Target` of a nil interface (`source.go:423`, `source.go:437`).
- With a pattern that leaves out a part between two parts (`%Y_%d`), files of other months
  are not found.
- With late records, a HEALTHY one ends a current incident that began after it, one
  inside a resolved incident lists that incident a second time, and a failure that is over
  already lengthens the incident history beyond its limit.  `CurrentMirrorsLatest`,
  `IncidentsDisjoint` and `HistoryBounded` are therefore checked for records in order
  (`MaxDelay = 0`).
- With two overlapping runs of a source, `PrepareReporter` of one makes the targets of the other
  inactive, which the other then deactivates although they are listed; or it makes
  the tracker forget a target for good.  Set `Runs` to two in `Schemes.cfg` to see it.
- A line of the log that is longer than 4096 bytes hides the rest of its file from a page.
- A file that ends with empty lines is not searched exactly, and a file whose last line has no
  end can make the search double its buffer for ever.
- With an offset and no limit, the `prev` link of `/log.json` is the page itself.
- The hazards of `PROJECT.json` without a property.

## Not modelled, and the plan

Not modelled, with the reasons:

- The rendering of pages, the conversion of logs, `lib-ayd`: text in, text out, without state or
  concurrency.  The pages of the status read live incidents without the lock, which the hazards
  list; what a torn page shows is not a state of the program.
- The `Next` functions of schedules, which are arithmetic of the calendar in the cron library; the
  order in which arguments pair schedules and targets.
- Character sets, TLS and the wire protocols of the probes: external, a probe is its calls.
- Parts of lines: a write of `LogWriter` fails or succeeds.  The last ten errors in `/healthz`.
- The scanner of a store that writes no log, which replays the history.

What is left to prove is `RestoresHistory` of `StoreRestart`, whose order of reading is a recursive
function and would have to be described by what it returns first; and that a page of `LogReader` is what a list of all records, filtered
and cut, would be.
