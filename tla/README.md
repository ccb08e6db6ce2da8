# TLA+ models of slurm-log

slurm-log shows, follows and submits the SLURM jobs of one user. It is one
executable in several roles: pickers and log followers in a terminal, tmux
workspaces with a monitor, an MCP server for AI clients, and a private daemon
per user that keeps listings, job details and logs in memory. The roles are
separate processes; they meet in the daemon's socket, in a few files under
flock, and in the scheduler.

This directory keeps TLA+ modules of the parts where that concurrency matters,
the TLC configurations that check them on small instances, and proofs, checked
by TLAPS, of what holds for every instance. Every definition is written after
the code; PROJECT.json maps each one to its lines. Line numbers below are
those of `src/src/` in the modelled commit, README.md is the program's own.

Contents: 1 inventory, 2 modules and code, 3 runs and bounds, 4 fairness,
5 proofs, 6 where code and documents disagree, 7 limits of the models, 8 plan.

## 1. Inventory

### Daemon snapshot cache: `daemon/server.rs`, `daemon/cache.rs`, `daemon.rs`

- State: `SharedCache`, one `CachedReply` per (cluster selector, archive flag)
  with creation, access and last-force times and a `refreshing` flag; the
  `active` instant of the daemon.
- Operations: a request thread answers a `Query` (hit, plain miss, forced
  miss); the refresh loop marks what is due and spawns a thread per entry; a
  refresh answers; a cluster's new snapshot removes older combined ones.
- Hard: the mutex is released during every listing, which can take seconds, so
  all of these interleave; an entry can be removed and inserted again while its
  refresh is in flight; the client may hang up before the insert; the time of
  an entry is taken before the handler waits for the mutex.
- Correct when: a `refreshing` flag always has its thread (a leak freezes the
  snapshot), a refresh neither resurrects an entry nor turns a good reply into
  a failed one, no combined snapshot is left unlooked-at beside a newer one of
  its clusters, polling stops with the readers and a snapshot that is read does
  not stay stale.

### Job details: `daemon/server.rs`, `details/control.rs`, `details.rs`

- State: one sample per job with creation, access and failure count; in each
  view a timer, the pending `r`, what it shows.
- Operations: authorize, look up, fetch, store, failure with back-off; poll,
  press r, give up after two seconds; eviction.
- Hard: lookup and store are two critical sections around a slow call; job ids
  change hands; clients time out and ask again.
- Correct when: no request that arrives after a job changed hands is answered
  from the cache, a final sample stays, and `r` ends in something new.

### Logs: `daemon/log.rs`, `log_service.rs`, `mcp/logs.rs`

- State: one cached window per job with generation and epoch; the client's
  cursor.
- Operations: metadata, window and range requests, local or over ssh; fallback
  to a direct read without a daemon; segment and next cursor.
- Hard: the metadata check and the range request are two requests; samples are
  stored in another order than they were taken; files grow, rotate and are
  truncated meanwhile.
- Correct when: following the cursor skips nothing and reaches the end.

### Daemon lifecycle and update: `daemon.rs`, `daemon/server.rs`, `lifecycle.rs`, `release_download.rs`, `release_auth.rs`

- State: executable, `daemon.lock` (flock), socket file, processes; the four
  release assets and what was verified of them.
- Operations: spawn on demand, bind, serve, idle exit, stop; update, uninstall.
- Hard: every client may spawn at any time; processes are killed; the mirror
  publishes a new release between two downloads; replacing the file may fail.
- Correct when: a serving daemon is reachable and alone, nothing unverified is
  unpacked or run, the executable never gets older, and everyone ends.

### Scheduler calls and their disk cache: `slurm.rs`, `slurm/aggregate.rs`

- State: cache files and lock files per cluster and kind of lookup.
- Operations: check, lock, recheck, call, store; the cache-only fast path; the
  deletion by a forced listing.
- Hard: many processes see a file expire at the same moment; a holder dies or
  its call fails; force deletes files others are about to store.
- Correct when: one caller per file, no call while a usable answer exists,
  files never go back in time, every listing ends.

### State ledger: `state.rs`; listing visibility: `listing.rs`, `slurm/aggregate.rs`

- State: `state.json`: known, opened, dismissed and interactive jobs, cluster
  baselines, two preferences.
- Operations: sync a listing, open, dismiss, suppress, read and unread marks,
  preferences, each a read-modify-write under flock and a rename.
- Hard: all roles write it; processes die at any step; a cached listing from
  before a dismissal is filtered with the ledger of now.
- Correct when: updates are atomic and none is lost, marks stay, jobs are not
  read without the user, a reported dismissal is never undone.

### MCP transport, request pool and subscriptions: `mcp/transport.rs`, `mcp.rs`, `mcp/subscriptions.rs`

- State: sixteen admission permits, four worker permits with a FIFO of waiters,
  the table of subscriptions, one monitor task with a cancel flag per
  subscription.
- Operations: receive, queue, run, time out, cancel, answer; subscribe,
  unsubscribe, sample, notify.
- Hard: a deadline abandons a worker that goes on holding its permit; checks
  before an await are stale after it; old and new monitors of one resource
  overlap.
- Correct when: every request is answered and returns its permit, entries and
  monitors agree, no notice follows an unsubscribe, the last change is
  announced.

### Submission, cancellation, adoption, audit: `mcp/submission.rs`, `mcp/service.rs`, `mcp/adoption.rs`, `mcp/audit.rs`, `slurm/cancellation.rs`, `slurm/authorization.rs`

- State: preview tokens with their age, in memory; `mcp-audit.jsonl` and
  `mcp-adopted-jobs.jsonl`, each with one backup, under flock.
- Operations: preview a script, take its token and submit it; read queue and
  controller, then scancel; authorize and append an adoption; rotate and append
  a line.
- Hard: what was previewed changes before it is submitted; the record of a job
  changes between two looks and the command; answers get lost, sbatch and
  scancel are repeated over ssh; the process dies between two file operations.
- Correct when: a token is spent at most once and runs only what was previewed,
  what is reported as provenance was true at one moment, nothing is done
  unaudited, the log keeps the recent past, scancel runs only for what was
  proven.

### Script bank: `bank.rs`, `bank/catalog.rs`, `bank/cache.rs`, `bank/provenance.rs`, `bank/index.rs`, `bank/ui.rs`

- State: the directory, its commit, a cache file with a fingerprint; the
  browser's rows, focus, target cluster, search and folds.
- Operations: scan from the cache or afresh; the keys of the browser down to
  the confirmation of a submission.
- Hard: bytes, commit and fingerprint are read one after the other while the
  owner edits; a target changes under the rows of another.
- Correct when: one moment explains what was read, and a script is offered only
  to a cluster that may run it.

### Log workspace: `tmux.rs`, `tmux/*`, and the follower: `follow.rs`, `app.rs`

- State: the panes of a tmux session with their options; per pane a follower
  with what it knows of its job; per auto-add monitor the last frame and the
  pending jobs it tracks.
- Operations: open, pick-add and reconcile, add, close, toggle details, quit;
  find a log, follow it with a supervisor, monitor while there is none, report
  the end; switch the auto-add monitor, poll, add and close panes.
- Hard: every command is a process of its own and tmux offers no transaction;
  listings are cached, partial or missing when a controller does not answer.
- Correct when: a workspace opens whole or not at all, a pick ends with the
  chosen jobs, no details pane is left alone, nobody takes a missing row for an
  end, a follower notices what is true.

### Job picker: `ui.rs`, `ui/picker*.rs`, `ui/rows.rs`

- State: jobs, rows, marks, tab, filter, search, folds, cursor, and flags that
  say which of them is out of date.
- Operations: one key or timed refresh a turn, the rebuild of the rows, Enter.
- Hard: listings replace the rows between two keys; marks of one tab and filter
  are opened in another; in a workspace what is not marked is closed.
- Correct when: a key acts on the rows drawn, Enter opens what was marked and
  closes nothing else, the cursor keeps its row.

### Command runner: `command.rs`, `command/mux.rs`

- State: a child with its process group, two reader threads and a writer, the
  deadline, the cancel flag of the request.
- Operations: spawn, poll, terminate the group, drain, join, judge; repeat over
  ssh.
- Hard: the program may hang, fork, fill a pipe or ignore its input.
- Correct when: every call returns, no process of the group is left, an answer
  is the whole output of a command that was carried out.

### Not modelled

- MCP waiting and diagnosis (`mcp/ops.rs`, `mcp/fallback.rs`, and helpers):
  `slurm_wait_job` polls one job until it is over or a timeout and shares
  nothing with other calls; the rest are queries that assemble texts.
- Rendering, parsers of scheduler output, argument schemas (formatting and
  parsing, covered by unit tests), configuration and setup dialogues
  (sequential, mostly input and output), `secure_open.rs` (one openat2 call).
- Files no module declares, which are not compiled: `mcp/artifact.rs`,
  `execution.rs`, `jobs.rs`, `present.rs` and `provenance.rs`,
  `bank/preflight.rs`, `submit.rs`, `bundle.rs` and `scan.rs`,
  `command/resolver.rs`.

### Interactions

A picker, follower, monitor or MCP worker asks the daemon over the socket
(`daemon.rs`) and, without an answer, does the same work itself. Daemon and
direct path both end in `slurm::all_jobs_direct`, that is in the disk cache,
and then sync the ledger. MCP subscriptions sample through the same requests as
views and readers and so renew or replace the cache entries these use. An
update stops and starts the daemon under all of them. Pickers, followers and
monitors meet in the panes of tmux; pickers and the MCP server share the bank,
its cache and the cancellation check. Whatever runs a program, runs it through
`command.rs`.

## 2. Modules and code

| Module | Models | State | Actions |
|---|---|---|---|
| DaemonQuery | snapshot cache | `cache` (the map), `task` (what each thread is at), `disk` (ages of queue files), `slept` | Accept, Lookup, Purge, Remove, Fetch, WriteFails, Stamp, Insert; MarkDue, RefreshFetch, ApplyRefresh; Tick |
| SchedulerCache | disk cache of one cluster | `file`, `lock`, `listing`, `world` | Start, Purge, FastPath, Finish, Crash; per lookup Check, Lock, Recheck, Respond, CallFails, Store; Tick, WorldMoves |
| Ledger | what the ledger promises | `ledger` | one atomic Update per request |
| LedgerStore | how state.json keeps it | Ledger's, `lock`, `update` | Begin, Acquire, Mutate, WriteTemporary, Rename, Fail |
| DaemonDetail | details of one job | `entry`, `thread`, `view`, `job` | Poll, Press, Send, GiveUp; Authorize, Lookup, Fetch, Store, Failed; Evicted, Tick, JobFinishes, JobLost |
| Release | download and verification | `latest`, `asset`, `fetching`, `candidate` | BeginUpdate, Download, Authenticate, Verify, Extract, Validate, MirrorMoves |
| DaemonLifecycle | processes, socket, update; composes Release | `installed`, `proc`, `lock`, `socket`, `pc`, `task` | Ask, Connect, Spawn, SpawnFails, Accept, Receive, Reply, Broken; Flock, Bind, Idle, Unlink, Exit, Crash; Update, Uninstall, Fetch, Fetched, Replace |
| JobLog | log reads by cursor | `files`, `current`, `cache`, `request`, `cursor` | Ask, Lookup, Bypass, Open, Read, Missing, Refused; JobWrites, Rotate, Truncate, Expire, Forget |
| McpServer | requests, worker pool, subscriptions | `where`, `queue`, `busy`, `owner`, `table`, `cancel`, `previous`, `sample`, `version` | Receive, Resume, CancelRequest, Drain, Disconnect; Acquire, Finish, QueueTimeout, Deadline; Begin, SeeCancel, Compare, Notify, Stop; Change |
| ScriptBank | scan of a bank | `tree`, `head`, `cache`, `scan`, `seen` (history) | BeginForced, BeginCached, Walk, Bytes, ReadHead, ReadGeneration, StoreCache; Edit, Commit, CacheAges |
| Submission | preview and submit; composes ScriptBank | `previews`, `aged`, `stage`, `token`, `tries`, `ran` | StartPreview, Insert, RecordPreview; Take, RecordAttempt, CheckAge, Compare, Sbatch, RecordOutcome; StartList, AnswerList; PreviewAges, Restart |
| OneUsePreview | what a preview promises | `status`, `offer`, `ran` | Make, Lapse, Spend, Run, Forget |
| JobActions | cancel, adopt, audit and adoption files | `job`, `stage`, `queued`, `tries`, `audit`, `ledger` | Start, RecordAttempt, ReadQueue, ReadControl, Dispatch, AskQueue, AskAccounting, AppendAdoption, RecordOutcome; JobChanges, Kill |
| CommandRunner | one call of a command | `caller`, `try`, `waited`, `output`, `input`, `leader`, `descendant`, `request` | Begin, Spawn, TryWait, CheckDeadline, Read, WriteInput, Join, Judge; Write, ReadInput, Ask, Exit, Fork, CarriedOut, Cancel, Expire |
| ClusterView | the cluster as listings show it | `queue`, `kind`, `file`, `down`, `cached`, `call` | Register, Start, End, Outage, Recovery; Asks, Stores, QueueFails, OtherAsks, OtherEnds, Invalidate, ListingsAge; operators Frames, Paths |
| Follower | the process in a log pane | `pane`, `stopped` (history) | Open, Resolve, FileAppears, BeginPoll, ReadCache, Ask, Store, PollFails, TailDies, Interrupt, Report, Refresh, Enter, PaneGoes |
| AutoMonitor | the auto-add monitors | `auto`, `step`, `observed`, `tracked`, `missing`, `todo` | SwitchOn, SwitchOff, FirstFrame, Check, PollFrame, AddPanes, ClosePanes, MonitorDies |
| Watch | composes ClusterView, Follower, AutoMonitor | theirs | theirs, and TimePasses |
| Workspace | panes of a session and the commands | `panes`, `proc` | NewSession, Label, Setup, Respawn, Split, AllSplit, Gather, CloseDetails, ReadPanes, Gone, Toggle, DetailSplit, Pair, Close, Leave, Quit, KillOne, KillFocus, Exit |
| BankBrowser | the bank browser | `bank` | one action per key, Scans, Submit |
| Picker | the pickers; composes BankBrowser | `listing`, `dismissed`, `ui`, `screen`, `at`, `result` | TimedRefresh, Rebuild, LoopPass, one action per key, OpenBrowser, CloseBrowser |

The proofs are in eight modules beside these: ListingProofs (DaemonQuery,
Watch), SchedulerProofs (SchedulerCache, CommandRunner), LedgerStoreProofs
(Ledger, LedgerStore), PaneProofs (DaemonDetail, Workspace),
DaemonLifecycleProofs (DaemonLifecycle, Release), McpProofs (JobActions, JobLog,
McpServer), SubmissionProofs (Submission, ScriptBank, OneUsePreview) and
PickerProofs (Picker, BankBrowser). Where one holds the proofs of several
specifications, these share no state and their proofs no invariant.

Conventions. What happens inside one critical section of a mutex, or between
two awaits of the single MCP thread, is one action; whatever follows an unlock,
an await or a call is another one. Times are ages or timers in ticks, capped at
the largest value they are compared with; where nothing compares times with
each other, a timeout is an action that may come at any point of the wait it
bounds. A reply, a job list or a sample is reduced to what tells two of them
apart: the clusters it lists, a version, a stamp. Failures that would otherwise
come without end are counted (`mishaps`, `crashes`) against a named bound.
Definitions with the comment "mutant" are plausible slips; no specification
uses them, they exist to show that a property notices them.

`Ledger` is the abstract specification of the ledger, and `LedgerStore` is
shown to implement it, with the identity as mapping because `ledger` is the
parsed content of the file. `OneUsePreview` is that of a preview token;
`Submission` implements it under a mapping that reads a token's status from the
map of previews, their ages and what became of the calls that took one. MC
modules define constants a cfg cannot express and symmetries; `MCJobActions`
also puts `JobActions` and `CommandRunner` side by side: they share no state,
a behaviour is of the one or of the other.

## 3. Runs and bounds

| Run | Instance | States | Shows |
|---|---|---|---|
| DaemonQuery | one cluster and the combined selector, one request thread, two refresh threads, ttl and windows of one or two ticks, failing ledger sync, clients that hang up | 614k | the flag is owned; beside a newer snapshot of its cluster a combined one was stored or tried since; what is read is refreshed, and only as long as it is read |
| SchedulerCache | two processes, one cluster with accounting, ttl 0, one change of the scheduler, crashes | 275k | no wasted call, order of stores |
| LedgerStore | one id on each of two clusters, two updates that fail at any step | 131k | atomicity by refinement, dismissals, read marks |
| DaemonDetail | two views (one presses r), two daemon threads, one mishap, the job may change hands | 571k | foreign requests refused, final samples stay, r is served |
| DaemonLifecycle | one client, one updater, two daemon processes, releases 1 and 3 around the current 2, one mishap, one crash | 201k | verified before use, reachable, everyone ends |
| JobLog | one reader by cursor, one metadata sampler, two files of two bytes, one mishap | 466k | nothing skipped, cursor not ahead, caught up |
| McpServer | two requests, one worker, two resources, two monitors, one subscription, three requests sent, two versions of each resource | 172k | entries and monitors agree, no unwanted notice, every request answered, last change announced |
| Submission | one preview, two submitters, one lister, two workers, two contents, two changes of the bank, one restart, sbatch run up to twice | 3.9M | one use by refinement, provenance of one moment |
| JobActions | one cancellation and one adoption of an array task, three changes of the job, one kill, an audit log of two lines and a ledger of one; or one command, run once or twice, without input or with two blocks of it, pipes of one block and a limit of one | 913k | audited, recent past kept, only the proven cancelled or adopted; answers whole, nothing survives, calls return |
| Watch | one job (batch or interactive, its log here or elsewhere), one monitor; ticks of 7.5 s: a listing is usable for two, polls are two apart, an answer is on its way for at most one; outages, panes, kills and switches without limit | 523k | nobody takes a missing row for an end, additions are news, followers notice |
| Workspace | three jobs, two commands at a time of three, six panes, one refused split | 796k | all or nothing, picks take effect, no orphan |
| Picker | three jobs of two clusters (one name twice), one change of the listing, four keys; three scripts in nested directories, five keys | 937k | keys act on what is drawn, marks, cursor, target |

Why these bounds are enough. What can go wrong in each module takes two actors
around one object: an old and a new refresh of one key (hence two refresh
threads), a holder and a waiter of one lock, a fetch that is overtaken by
another fetch, an old and a new daemon, a sampler that stores between the two
requests of a reader, an old and a new monitor of one resource. One more actor
of the same kind repeats these pairs. Two keys, files or resources occur where
one influences the other (cluster and combined, queue and accounting, a job and
a cluster list that compete for one subscription); otherwise objects do not
interact. Timers are in ratio to the code's but small. With ttl 0 or 1 a file
may expire right after it was written, which only adds behaviours.
In Watch the ratio of the two times is the code's, 15 s to 15 s, and a call of
one tick is the longest that `FollowerAssumption` admits for them; without the
assumption and with calls of two ticks TLC finds `StopsOnlyGoneJobs` violated,
so neither time is chosen too small to matter.
DaemonDetail with two mishaps (3.1 million states), DaemonLifecycle with two
mishaps or two crashes (320,000 each) and McpServer with four requests (858,000)
pass as well; they are not kept because they take long and show nothing new.
In McpServer one worker is enough for a hung command to saturate the pool.
JobLog's `Truncate` and the second `Rotate` count as mishaps, growth does not.
Submission needs two submitters for a race on one token and one preview to race
on. In JobActions the files are so short that both rotate within one call. The
command is run at most twice, not three times as over ssh: the third run
differs only in the options of ssh; with three the run passes as well
(1.8 million states). Workspace interleaves two commands and lets a third
follow on what they left; three jobs make a reconcile that keeps, closes and
opens a pane at once. In Watch the jobs do not influence each other. A picker
of three jobs has groups of one and of two, tabs with and without the job under
the cursor, and four keys reach mark, change of tab, refresh and Enter.

Deadlock is checked except where the system may really stop: DaemonDetail (a
view without `r` whose job is final rests for ever), McpServer (a client that
has sent all its requests may be done), and the five last runs, whose calls,
commands, keys and jobs are bounded.

Each property of a passing run is paired in PROJECT.json with a mutant of a
definition of the code that violates it under the same configuration.

## 4. Fairness

Weak fairness of the steps of a thread or process says that the operating
system runs it. Beyond that:

- SchedulerCache, LedgerStore: strong fairness of taking a flock. The kernel
  queues waiters, so a process that waits for a lock that keeps coming free
  gets it. Crashed processes owe nothing.
- DaemonQuery, DaemonDetail: time passes (`Tick`), calls return or fail: the
  command runner kills what exceeds its deadline.
- DaemonLifecycle: strong fairness of a caller's step, because the bound
  `Procs` can keep it from spawning while others occupy the slots; the real
  system has no such bound. Nothing forces a daemon to become idle or to crash.
- JobLog: the reader keeps polling and entries expire. Nothing is assumed of
  the file; `CaughtUp` speaks of what happens once it no longer changes.
- McpServer: the single thread and its timers run and the client reads its
  pipe. Nothing is assumed of workers: `RequestsAnswered` holds with commands
  that never end. `ChangesAnnounced` carries its own premise, `CommandsEnd`:
  workers return and a sampling that is tried for ever succeeds sometimes.
- Watch: time passes and a call of another process ends (weak); the loops of
  followers and their monitors run by a timer (`Resolve`, `BeginPoll`,
  `FinishPoll`, `Refresh`; strong, because another process may hold the lock of
  the listing again and again, but flock hands it to those who wait). Users,
  jobs and controllers owe nothing: both liveness properties begin with the
  premise that the scheduler answers from some time on.
- JobActions, for the command only: the thread of the call, its readers and its
  writer run, and time passes. Nothing is assumed of the program, which may
  hang for ever; `CallsReturn` is what justifies "calls return or fail" above.

## 5. Proofs

In the table a specification is that of the module named in the statement's
row; WatchSpec, LogSpec, ServerSpec, CommandSpec and WorkspaceSpec are those of
Watch, JobLog, McpServer, CommandRunner and Workspace.

| Theorem | Statement | Inductive invariant and argument |
|---|---|---|
| FlagsOwned (ListingProofs) | `[](TypeOK /\ RefreshFlagOwned)` of DaemonQuery | the same; spawned threads are distinct per key, handlers never write a set flag |
| CombinedKeepsUp (ListingProofs) | `[]CombinedTriedSince` | `Order`: a cluster's snapshot, when stored, removes the combined ones except those created after its instant; `StampsKept` says of these, while the handler still waits for the mutex, that they were stored or tried since that instant |
| FollowersStopGoneJobs (ListingProofs) | `WatchSpec => []StopsOnlyGoneJobs` | `Judged`: a listing without an active job, stored or on its way, is out of use before the follower of that job can miss it for the second time (`OutOfUse`), see below |
| MonitorsCloseLostJobs, MonitorsAddNews (ListingProofs) | `[]ClosesOnlyLostJobs`, `AddsOnlyNews` | `Remembers`: what a monitor has met or tracks has happened, and an active job its last frame lacks it has not met since the cluster last answered |
| SchedulerCallsCoalesce (SchedulerProofs) | `[](TypeOK /\ SingleFlight /\ NoWastedCall)` of SchedulerCache | `LockHeld`: whoever is inside a locked section holds the lock of its file, so at most one is; and no file is usable in `call` or `store`, because only the holder stores |
| FilesNeverGoBack (SchedulerProofs) | `StoresInOrder` | `StoresAreNewest`: the answer somebody is about to store is not older than anything stored under that name, also under a file that was deleted since |
| CommandsAnswerWhole, CommandsLeaveNothing (SchedulerProofs) | `CommandSpec => []AnswersAreWhole`, `[]NothingSurvives` | `CommandInv`: a group exists only between spawn and wait or kill (`GroupGone`), a reader that has ended is at the end of a pipe nobody can write to any more and they are joined one after the other (`ReadersHaveAll`), a program that succeeded was carried out (`SuccessIsDone`) |
| MarksKnown, MarksNeverLost, SyncNeverReads (LedgerStoreProofs) | `[]MarksAreKnown`, `MarksStay`, `UnreadUntilOpened` of Ledger | marks are known; `ApplyFacts` states what each request does to a ledger |
| Implementation (LedgerStoreProofs) | `StoreSpec => ImplementsLedger` | the updater past `read` holds the lock and its in-memory state is the request applied to the present ledger, which nobody else can change; so `Rename` is one `Update`, everything else stutters |
| FileKeepsMarks, DismissalsNeverUndone (LedgerStoreProofs) | the abstract promises carried over; `[]DismissalsHold` | from the refinement; hidden jobs are dismissed |
| ForeignRefused (PaneProofs) | `[]ForeignIsRefused` of DaemonDetail | a job once lost is never owned again, and a request marked foreign implies the job is lost |
| FinalKept (PaneProofs) | `FinalIsKept` | `KeepInv`: an entry has a sample, and who is about to sample has none in hand yet, so a final sample can only be replaced by one that was on its way |
| OpensWhole, PicksHold, DetailsFollowTheirLog (PaneProofs) | `WorkspaceSpec => []OpensAllOrNothing`, `[]PicksTakeEffect`, `[]NoOrphanDetails` | `WorkInv`, see below |
| ReachableWhileServing (DaemonLifecycleProofs) | `[]ServingIsReachable` | `LockInv`: a process between flock and exit holds the lock, so only one process at a time may touch the socket file |
| NothingUnverifiedRuns (DaemonLifecycleProofs) | `[]VerifiedBeforeUse` | `FetchInv`: nothing of one update is left when the next begins, and a signature is fetched and checked only with a manifest in hand, so an archive of another release than the one verified fails its digest |
| EntriesHaveWatchers (McpProofs) | `ServerSpec => []WatchersAreSubscribed` | `IInv`: nobody waits for two workers or twice for one, who waits is `queued` and whose worker runs is `working`, a live monitor has a resource; without it a stale `queue` or `owner` could restart a monitor that has ended |
| NoticesWanted (McpProofs) | `ServerSpec => NoticesAreWanted` | the same; only `Compare` begins a notice, and only with the flag of its own entry down |
| EffectsAlwaysAudited (McpProofs) | `[]EffectsAreAudited` of JobActions | `AttemptsAreLines`: who is past its first line is in the trail |
| RotationKeepsRecent (McpProofs) | `[]AuditKeepsRecent` | the trail ends with backup and file, in this order; a rotation only begins with a full file, so that what it drops is older than the last `AuditLines` lines, and a kill inside it leaves the full file, if only as the backup |
| ActsAreProven (McpProofs) | `[]ActsOnlyOnProven` | `SeesTheJob`, `AboutToAct`: a call has seen every record the job has had since it began, among them the one that justifies what it does next |
| ClientsMissNothing (McpProofs) | `~Remote => (LogSpec => []RepliesAreWhole)` | `LogInv`, see below |
| CursorsNeverAhead (McpProofs) | `LogSpec => []CursorNotAhead` | the part of `LogInv` that needs no premise |
| ProvenanceHolds (SubmissionProofs) | `[]ProvenanceIsTrue` of Submission | `Noting`, `Checked`: while the tree has the generation of the preview, a scan that found the right bytes has seen the bytes, commit and generation it will report together |
| TokensAreOneUse (SubmissionProofs) | `Spec => ImplementsOneUse` | `Fates`, `Holders`, `Runs`: a token in the map was not spent, a call that goes on has a token to itself, and what ran for it is bounded by its tries; `Take` is `Spend`, `Sbatch` is `Run`, every scan and every change of the bank stutters |
| KeysSeeTheScreen (PickerProofs) | `[]KeysActOnWhatIsDrawn` of Picker | `Current`, `FrameOK`: rows are those of the job list or `viewDirty` is up, the screen is the last frame or `redraw` is up; a pass of the loop lowers both |
| EveryJobHasItsRow (PickerProofs) | `[]RowsTellJobsApart` | the same, and that the rows drawn are all of `GroupRows`, each once, see below |
| PanesKeepTheirMarks (PickerProofs) | `[]OpensWhatWasMarked` | `MarksOK`: the marks differ from the open panes only in what the user touched, and in a workspace every mark is on a job that is known, so that no tab, filter or listing can lose it |
| CursorFollowsItsRow (PickerProofs) | `[]CursorKeepsItsRow` | `AimOK`: up to the first rebuild cursor and `focusedKey` are on the row of the last key, after it the cursor is, if that row is still there |
| ConfirmedScriptsBelong (PickerProofs) | `[]SubmitsWhereItBelongs` | `RowsBelong`: whenever the browser waits, its rows were made for the target it shows |

They hold for all values of the constants under the named assumptions of the
modules: sets of names are disjoint, bounds are natural numbers, the ttl, the
reader's window and the forced minimum of the daemon are positive
(`TimesAssumption`), the answer of squeue is stored before the lifetime of a
listing and the time it was on its way add up to two polling intervals
(`FollowerAssumption`; with 15 s for both the code's times, in less than 15 s),
the job of an unlabelled pane is none of the jobs
(`WorkspaceAssumption`), there are finitely many jobs with numbers below
`Limit`, clusters, directories and scripts are finite lists
(`PickerAssumption`, `BankBrowserAssumption`), and the key of a group is none of
a job (`NamesAssumption`). TLC evaluates these assumptions in every run. The
theorems reach further than the runs: any number of monitors, clients,
processes, panes, files, restarts and repeats.

Four arguments in more detail.

Workspace. Every command is a process that reads the panes, decides, and then
issues one tmux call after another; another command may do the same in between.
`WorkInv` has two halves. `WorkBase` holds whatever the others do: a details
pane shows the job of its log pane as long as that exists (`Partners`), the
pane a command is about to label has no options yet, its focus, if it still
exists, is the log pane of its job (`InHand`), and no two commands have the
same new pane in hand (`Apart`). `Steady(c)` is what a command that nobody has
overtaken (`alone`) adds, place by place: its `want` is what is shown and not
about to be closed plus what is still to be opened (`Filled`), each pane of an
`open` is counted once (`Counted`), and a details pane without its log pane is
among those it is about to close (`Doomed`). The three properties are `Steady`
at `done`, `failed` and `broken`. The last step needs that pane ids are not
reused: a new pane is nobody's focus and nobody's anchor.

Logs. `LogFacts` relates every cached window to the file it was taken from and
every cursor to the text its client was given, while nothing is cut; `Follows`
says of a file that is only appended to that a client has the whole text up to
its cursor. `ReachesEnd` has the part that needs a local cluster: there the
bytes of a window begin at the offset it claims, because one open file is
asked for its size and read from that position. Over ssh the bytes may begin
later than the offset says, and the daemon keeps the pair for whoever reads
next, be it another client or another request of the same one: searches,
diagnoses and log resources go through the same windows (mcp/logs.rs:69 and
142, resources.rs:87). So for clusters reached by ssh nothing is shown but
CursorsNeverAhead, and `TextIsWhole` in section 6 is how text gets lost.

Watch. A follower kills its tail after two polls in a row that do not list its
job. The listing it polls is shared: other processes store it, and a poll
usually finds the one its last poll has stored, because the next poll is timed
before `queued()` is called (follow.rs:165-171) and the listing is stored
afterwards. So one listing easily counts as two misses, and what protects a
running job is not that listings differ. It is that the job was known to the
scheduler when its log was found, that the first poll is a whole interval
away and the second miss at least two, and that a listing from before the job is
then too old. `SecondMiss` is the earliest moment of that miss; `OutOfUse` says
that each listing without the job, stored or still to be stored, will have
expired. A listing made since has the job as long as it is active, so that
only jobs that ended are missed twice. The argument fails for an answer that
needs 15 s or more to arrive (section 6).

Picker. The code sorts, groups and flattens the job list; the model says which
rows there are (`GroupRows`, `Places`), where each belongs (`Place`), and that
row i is the one with i - 1 rows before it (`Arranged`). That this is a list
needs no induction: counting what is before it maps the places, of which any two
are comparable, one to one into 0..n-1, hence onto. A place is a pair, rank and
newest number of the name first, rank and number of the job second, and both
can be read off it, so that two rows are never at one place, and the list has
every row once. From there it is an argument about flags. Only a pass of the loop
sets `viewDirty` and `redraw` to false and it recomputes what they stand for;
each key that changes the list, a filter, a fold or the marks raises the flag
that belongs to it, so that the proof is one lemma per kind of key.

The type invariants of these modules and `SingleFlight`, `MarksAreKnown`,
`MarksStay`, `CursorNotAhead` and `RowsTellJobsApart` are proved and not
repeated in the runs; TLC finds them to hold under the same configurations.

Only model-checked:

- All liveness properties and everything with fairness or ENABLED
  (`RefreshedWhileRead`, `PressIsServed`, `EveryoneEnds`, `CaughtUp`,
  `RequestsAnswered`, `ChangesAnnounced`, `FollowerNotices`, `WatcherAttaches`,
  `CallsReturn`), which the prover does not support.

No module about which something is proved declares or reaches a RECURSIVE
operator, because the prover loses its arithmetic backend there.

## 6. Where code and documents disagree

The modules state some sentences of the documentation and the tests that the
code does not keep. No run checks them; TLC finds each violated when it is
checked under the configuration named, the last one with changed constants.

| Definition | Sentence | What happens |
|---|---|---|
| `OneRefreshPerKey` (DaemonQuery.cfg) | "one background refresh updates every window" (README.md:276) | A forced request removes the entry while its refresh is under way and inserts one that is not marked; the loop starts a second refresh, and the first may finish last. |
| `CombinedNotOlder` (DaemonQuery.cfg) | the test newer_cluster_snapshot_invalidates_only_older_combined_snapshots (daemon/tests.rs:253) | A failed refresh renews `created` and keeps the reply (daemon/cache.rs:177). When that happens to the combined entry between the instant of a cluster's handler and its lock (server.rs:234-235), the older reply counts as newer and stays. And a combined handler that waits for the mutex stores its reply after a cluster's refresh that is newer. |
| `ForcedIsFresh` (SchedulerCache.cfg) | "Pressing `r` requests fresh data" (README.md:293) | `invalidate_caches` deletes other names than the one `recent()` writes for the archive: a forced archive listing can be answered from the old file. |
| `FinishedFreezes` (DaemonDetail.cfg) | "Finished jobs freeze on their final accounting snapshot" (README.md:106) | A cache hit is stored again with a new creation time. Two views that poll within 30 s of each other, or one MCP subscription, hit for ever. |
| `UpdatedDaemonIsNew` (DaemonLifecycle.cfg) | "it is restarted with the new binary" (README.md:316-317) | A query between stop and rename starts the old executable again, and its daemon answers the ping of the restart. |
| `RangeStartsAreClamped` (JobLog.cfg) | the test bounds_are_bounded_and_range_starts_are_clamped (log_service.rs:355) | A range that starts beyond a cached window slices with first > last (`daemon/log.rs:99`) and the request thread panics. A growing file and an overtaken sample suffice. |
| `OneJobPerToken` (Submission.cfg) | "one-use preview token" (README.md:158) | `ssh_retry` runs a failed command again, whatever it is: an sbatch whose answer was lost submits a second job for the same token. |
| `TextIsWhole` (JobLog.cfg with two readers, no sampler, `Remote = TRUE`, `Window = 2`, `MaxSize = 4`, `MaxFiles = 1`, `MaxMishaps = 0`) | "generation-aware incremental segment of an exact job log" (mcp/schema.rs:59) | Over ssh the offset of a window is worked out from the size stat gave, but `tail -c` runs afterwards and counts from the end of the file as it is then (log_service.rs:287). When the log grew in between, the bytes begin later than the offset says, the daemon caches the pair, and another client is given a segment with bytes missing. |

Reading the code for the models showed more, which no run states:

- Snapshots: the ten-second limit for `r` (README.md:293) is per cache entry,
  and its time is written after the listing: another selector, or a second `r`
  during the listing, is not limited. A failing squeue is asked again at every
  pass of the loop. A failed cluster lookup gives an Ok listing without that
  cluster, which replaces a good snapshot, although a failed listing does not
  (the test in daemon/tests/cache.rs:96).
- Disk cache: the fast path still looks for names `recent()` no longer writes.
- Details: a hit resets the failure count, so that "failures back off
  exponentially" (README.md:299) stops at the first step; forced retries every
  ten seconds ignore the back-off; a slow fetch may store its sample over a
  newer one; concurrent misses all fetch. When both views press `r`, one of
  them can be kept from a fresh sample by the other, which is why
  `PressIsServed` is checked for a single presser.
- Logs: rotation between the metadata check and the range request gives a
  reply of the new file with `cursor_reset` false; truncation followed by
  growth is not noticed; eviction forgets the epoch; a range beyond the cached
  size can reset the cursor for nothing; a window read while the file grows can
  repeat bytes. A reused job id with the same job name inherits cached bytes,
  against the comment at daemon/log.rs:30-33.
- MCP: the 45-second deadline of one sampling raises the flag of the whole
  subscription, which ends without a word to the client, and a subscribe in the
  meantime is answered OK by the entry that is about to go. Notices are also
  sent without a change (a first sample that is terminal, the first success
  after a failed first sample; README.md:168-169 says "only when sampled data
  changes"). A change between the answer to subscribe and the first sample is
  not announced. Subscriptions whose samplings take longer than the wait for a
  worker can starve others. A reply that is too large is dropped, and the
  client waits for ever.
- Commands: a program that exits without reading all of its input turns a
  success, or the message of a failure, into "Broken pipe", because the writer
  is joined before the status is looked at (command.rs:240). Over ssh a command
  that was cancelled or hit its deadline is started again as well, so the 30 s
  become 90; killing the local ssh stops nothing on the remote side.
- Waiting: slurm_wait_job ends only on completion or its timeout, although the
  schema offers a state or log change as conditions (schema.rs:125-127,
  ops.rs:184-212). An adoption is not found once the ledger of adoptions has
  outgrown its limit (adoption.rs:85-98).
- Bank: the fingerprint is read after the bytes it stands for (bank.rs:75); two
  banks whose names collide after numbering keep one name.
- Workspace: close_focused_pane counts details panes as panes, so the last log
  pane with its details open can be closed, which ends the session, although
  detail_pane.rs:130 keeps the last one; README.md:92 asks for a confirmation
  "only when multiple log panels are open", a log with its details asks, too.
  Two concurrent reconciliations can undo a pick or show a job twice. An open
  that fails in setup (an unreadable ledger) returns at once and leaves its
  session with the placeholder, although a refused split or respawn kills it;
  the last part of `OpensAllOrNothing` says so. Enter in a picker closes the
  panes the monitor has added meanwhile, and the pane of a job just submitted
  with s.
- Followers: supervise_follower announces "Job N started" at every poll,
  because it compares with the state it was started with. States that are
  neither pending nor running (CONFIGURING, SUSPENDED, REQUEUED) are reported
  as "finished" by the monitor in a pane (follow.rs:263), as is a job during an
  outage that lasts two refreshes. A follower of a local job that waits for its
  file is not supervised: when the job is cancelled it waits for ever. A follower
  usually judges one listing twice (follow.rs:165-171). If squeue takes 15 s or
  more, which `COMMAND_TIMEOUT` of 30 s per try allows, a listing from before
  the job is still in use when it is missed again, and the tail of a running job
  is killed.
- Auto-add: after a frame without its cluster every active job is news again;
  an upper-case cluster name defeats the match of the warning (monitor.rs:109);
  a monitor that ends with an error leaves auto-add on with nobody serving it;
  off and on again within one poll leaves two monitors.
- Picker: on the second changed listing without a key in between the cursor
  stays on a position, not on its row (`focused_key.take()`), which is why
  `CursorKeepsItsRow` speaks of one rebuild.

## 7. Limits of the models

- DaemonQuery: the scheduler is what a listing returns; a key is one cluster or
  the combination of all.
- SchedulerCache: one cluster; files without their format. Only `NameOf` and
  `FastNameOf` know the drifted names.
- LedgerStore: the replies the daemon keeps and filters (daemon/cache.rs:92) are
  not modelled; rename is atomic and durable; a power loss before the data
  reach the disk (`state.rs:212`, no fsync) and a failing read that is taken
  for an empty ledger (`state.rs:211`) are not modelled.
- DaemonDetail: one job; `FinalIsKept` is about fetches that begin after the
  final sample was stored, not about one on its way; the pause key and the limit of 64 entries are left
  out (eviction may happen at any time instead); only a fetch takes longer
  than a tick.
- DaemonLifecycle: no check of peer credentials, no purge of user data; "already
  up to date" ends like a refusal; a stop request that is processed after its
  client gave up is covered by `Idle`. Signatures and digests are perfect: an
  asset is the release it belongs to or junk.
- JobLog: one log; `Rotate` beyond the first file and `Truncate` are mishaps.
  All callers of log_window pass the same window, so it is a constant.
- McpServer: the second limit (eight log subscriptions) works like the modelled
  one and is left out, and so are the polling intervals. rmcp is taken to
  answer every request, cancelled ones too; a failing write ends the
  connection (`Disconnect`). That the exit of the process waits for blocking
  tasks is not modelled.
- Submission: one bank, one target; a script that does not pass
  validate_script_controller is one that is not there.
- JobActions: one job id; the answers of squeue, scontrol and sacct are that of
  the job or a failure.
- CommandRunner: a descendant that leaves the process group is not modelled
  (the persistent master of ssh does, after it has closed its output), nor is
  the control socket calls share.
- Watch: one monitor and one job are checked (two exceed the time of a run; the
  theorems are for any number); no
  transitional job states, no frames older than the last one; the
  ranks of failed and cancelled are one. Errors of the listing in the monitor
  of a pane and of storing a listing are not modelled. `AddsOnlyNews` forgets
  what a monitor has met when its cluster does not answer, as the code does.
- Workspace: tmux behaves as documented: identifiers are not reused, and a
  session ends with its last pane. Sizes and layouts are a refusal at any time.
- Picker: history windows are merged, jobs pinned because they were just opened
  and filters on the command line other than "all" are left out, the picker
  starts on the tab of all clusters, and of the browser started with s only
  the outcome is composed (its keys are explored in a behaviour of their own).
- Everywhere: user interfaces, parsers and texts are reduced to their effect
  on the state.

## 8. Plan

Modelling: `slurm_wait_job` as an observer of JobActions; several banks under
one time limit in ScriptBank; two views that both press `r` in DaemonDetail,
with a weaker promise for the second; the control socket of ssh in
CommandRunner.

Theorems: every safety property that a run checks has one, liveness stays with
TLC. What could be added are the bounds that liveness rests on, as invariants, so
that only fairness is left to TLC: at most `tries` runs of a program behind
`CallsReturn`, at most one sample in hand per thread behind `PressIsServed`.
