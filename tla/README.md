# MtSync in TLA+

A verification project for MtSync, a GTK frontend to rclone: a daemon that runs
sync, copy, move, bisync and mount jobs through `rclone rcd`, and a GUI that
talks to it over a Unix socket. Sources are named relative to the repository.

## The system

Daemon and GUI are single-threaded GLib programs: a handler (an IPC request, a
timer, an idle callback, the completion of an HTTP call, a file monitor event)
runs to its end before the next one. So every action of the models is a whole
handler, and what is hard is the *order* of handlers: calls to `rclone rcd`
take up to 20 s and their completions carry a job index that may have moved.

| Component | State | Operations | Interacts with |
|---|---|---|---|
| Job engine (`src/src/daemon.cpp`) | `m_jobs`, `m_job_state` (parallel vectors), `m_running_job_count`, timers | run, stop, add, update, delete; schedule, retry, resync, watch and poll callbacks | rcd (HTTP), IPC server, tray, job store, watcher |
| Mounts (`daemon.cpp`) | `active`, `running` of mount jobs | mount, unmount, health check, start-up adoption | rcd |
| Job store (`daemon.cpp` `load_jobs`/`save_jobs`, `views/job_view.cpp`) | `jobs.json` and its `.tmp` | load, save | daemon and GUI both write |
| Directory watcher (`watch/`) | monitors, visited real paths | add, remove, event | job engine (callback) |
| Cron (`rclone/cron_utils.hpp`) | none | next occurrence | job engine |
| rcd client (`rclone/rclone_rc.cpp`) | pid (0, -1 adopted, > 0), timers, sentinels | ensure, spawn, verify, stop, calls | rcd process |
| CLI client (`rclone/rclone_cli.cpp`) | none but the subprocesses | list, copy, delete, check, configure | rclone processes |
| IPC (`ipc/`) | clients, byte buffers, socket file | accept, read, send, remove | proxy, job engine |
| Daemon proxy (`daemon_proxy.cpp`) | pending callbacks by request number | request, response, disconnect | IPC, views |
| Job view (`views/job_view.cpp`) | mirror of the job list by index | events, edits | proxy, job store |
| Compare dialog, browser panes, backends (`views/`, `widgets/`) | outstanding listings, path history, authorisation | navigate, load, cancel | CLI client |
| Activity log (`log/`) | one file and a lock file | append, prune, delete | daemon and GUI both write |
| Tray, notifications, settings, application start | counters, D-Bus objects | | |

What makes each correct, in one line:

* **Job engine**: every run has one start, one end and one truthful verdict; the
  counter behind the tray spinner is exact; nothing is started twice, forgotten,
  or retried for ever; schedules and watch triggers survive runs.
* **Mounts**: `active` is what rcd has mounted, up to the calls outstanding.
* **Job store**: the file is always some list that was saved.
* **Watcher**: every directory below the root is watched, as deep as the limit, and no other.
* **Cron**: the timer runs a job at an occurrence of its schedule.
* **rcd client**: one process, one answer to each `ensure_daemon`.
* **IPC and proxy**: frames arrive whole and in order; a request gets its own answer, once.
* **Job view**: after all events it shows the daemon's list, and an edit goes to the job that was shown.
* **Activity log**: no line is lost that nobody deleted, and none comes back.
* **Browser and compare dialog**: what is shown is what the path names, and a
  command touches what was selected.
* **Remotes**: a remote that is configured half is not passed off as saved.
* **Job form**: what is stored is what the visible rows say, where the code asks
  whether they are visible.

The behaviours that a test hardly reaches are listed, each at its line, under
`hazards` in `PROJECT.json`.

## Modules

| Module | Models |
|---|---|
| `JobDaemon` | the job engine for transfer jobs, rcd as its environment |
| `JobLife` | what the daemon promises of one job: the abstract specification |
| `JobRefinement` | the mapping by which `JobDaemon` implements `JobLife` |
| `RcloneRc` | the rcd process as the daemon handles it: probe, adopt, spawn, verify, reap, stop |
| `MountJobs` | the mount jobs and the end of the daemon, on `RcloneRc` |
| `WatchTrigger` | the debounce of a watched job, with a clock |
| `CronSchedule` | the search for the next occurrence and the timer it arms, with a calendar |
| `DirWatch` | the directory watcher against a tree that changes |
| `GuiLink` | window and daemon: job list, its mirror, requests, broadcasts, `jobs.json` |
| `IpcChannel` | the socket below it: frames in a stream that is cut, blocks and ends |
| `ActivityLog` | the log that both processes write under a lock file |
| `Browser` | the two panes and the view around them |
| `Compare` | the compare dialog and its dry run |
| `Remotes` | the remotes page, its edit page, rclone's configuration dialogue |
| `JobForm` | the job edit dialog |
| `MCJobDaemon`, `MCMountJobs`, `MCDesktop` | instances for TLC, one configuration per question |
| `JobDaemonProofs`, `JobLedgerProofs`, `JobSteadyProofs`, `JobRefinementProofs` | theorems about the job engine |
| `MountJobsProofs`, `GuiLinkProofs` | theorems about the mounts with rcd; about window and daemon (`GuiLink`) and the socket below (`IpcChannel`) |
| `TriggerProofs` | theorems about what starts runs, `DirWatch`, `WatchTrigger`, `CronSchedule`, and about `JobLife` |
| `DesktopProofs` | theorems about `ActivityLog`, `Remotes`, `JobForm`, `Browser`, `Compare`, and about `MCDesktop` as a whole |

`MountJobs` composes the job list with `RcloneRc`; `JobRefinement` puts `JobDaemon`
under `JobLife`; `GuiLink` composes view, proxy, connection and daemon. The other
modules share no variable with one another: where one component calls another
(`WatchTrigger` is what `JobDaemon` has as a timer that may fire at any moment,
`CronSchedule` what it has as a schedule timer), the caller's module leaves open
*when*, and the callee's module says it.

### JobDaemon

*State.* `pos[j]` is the index of job `j` in both vectors (from 1; 0 when it is
not listed), so `DeleteJob` moves the later jobs down as `vector::erase` does.
`st[j]` is the job's `JobState` with `Job::running`; `run` stands for `job_id`
and is the number of the run in the ledger `runs[j]`, 0 for -1. `count` is
`m_running_job_count`. `timers` and `idles` hold the connected one-shot sources by
what their closures captured, index and uuid; `subs`, `polls` and `stops` hold
the HTTP calls whose completion has not run, by the same capture and the run
they are about. A slot's connection moves with the slot, so disconnecting goes
by job (`Without`), while the guard of a closure goes by the index it captured
(`Valid`). The ledger (`phase`: what rcd knows; `ends`: the outcomes the daemon
gave) and `dirty` (a watched source changed after the last start) are history: no guard of the daemon reads them, except
that a status answer carries the phase of the run it is about.

*Actions.*

| Action | Code |
|---|---|
| `RunJob`, `StopJob`, `AddJob`, `UpdateJob`, `DeleteJob` | the IPC requests, with the `schedule_all_jobs` and `setup_all_watches` they call |
| `SchedTimer`, `RetryTimer`, `WatchTimer`, `PollTick`, `ResyncIdle` | the timer and idle callbacks |
| `WatchEvent` | the watcher's callback, `on_watch_changed` |
| `SubmitFailed`, `SubmitAccepted` | `done_cb` of `on_run_job` |
| `StatusIgnored`, `StatusAnswered`, `StatusMissed` | the `job/status` callback, with `on_job_completed` |
| `StopAnswered` | the `job/stop` callback |
| `Stop`, `Crash`, `Boot` | `stop()`, death of the process, the constructor |
| `RcdAccepts`, `RcdFinishes`, `RcdStops`, `RcdForgets` | rcd (external) |

`OnRunJob` and `OnJobCompleted` (with `ResyncRetry`, `BackoffRetry`,
`FinalVerdict`) are the two functions everything goes through. `schedule_job` ends
in one of three ways: it arms the timer; it runs the job at once if its instant falls
between the two readings of the clock (`due` is the set of jobs that this happens
to, at most one per handler); or it returns, as the schedule has no next
occurrence, and leaves the timer the job had (`none`, some of the jobs in the
constant `Sparse`).

*Abstractions.* Paths, options, filters, statistics, log lines, notifications
and broadcasts are left out. Time is left out: a timer may fire whenever it is
connected. A lost call is one that ends in an error although rcd did its part;
the session's timeout guarantees that every call ends. `jobs.json` is taken as
written. The edit dialog sends a `Job` with `running` false
(`src/src/views/job_edit_dialog.cpp:806`), which `UpdateJob` does; an edit that
changes the type or the bisync flag is not modelled.

### RcloneRc and MountJobs

*State.* `pid` is `m_daemon_pid` (0, -1 for an adopted rcd, a pid); `childWatch` and
`verifyTimer` are the sources; `probe` and `verify` are the two `core/version`
calls with their sentinels (`cancelled` once `stop_daemon` has set it). `child` is
the process spawned (a zombie until it is reaped), `other` an rcd that an earlier
daemon left behind, `mounted` the mount points of whichever serves the port.
`MountJobs` adds the job list as in `JobDaemon`, the flags `active`, `running` and
`submitting`, the `mount/*` calls outstanding, and `phase`: after `stop()` the
daemon is `draining` while the main loop dispatches what was ready in the same
iteration, with its IPC server gone. `misuse` records the kinds of callback that
used it then.

| Action | Code |
|---|---|
| `RunJob`, `StopJob`, `AddJob`, `UpdateJob`, `DeleteJob` | the IPC requests, for mount jobs |
| `MountAnswered`, `UnmountAnswered` | the callbacks of `mount_async`, `unmount_async` |
| `HealthTimer`, `HealthAnswered` | the 60 s check and its `list_mounts` callback |
| `Probe`, `Verify` | `ProbeAnswered`, `VerifyAnswered` with the callback of `ensure_daemon`; `SpawnDaemon` is `spawn_daemon` |
| `StartupAnswered` | the start-up's `list_mounts` callback |
| `RcStep` | the verification timer, the child watch, death of the child |
| `Stop`, `Exit`, `Boot` | `stop()`, the end of `run()` or a crash, the constructor |
| `RcdHandles`, `MountDies`, `OtherRcdDies` | rcd and the system (external) |

*Abstractions.* Every job has a mount point of its own. A request that timed out is
taken as executed before the error or never. The `core/quit` for an adopted rcd is
queued by `stop_daemon` and would be sent by a later iteration of the main loop,
which does not come: `OtherRcdDies` covers both outcomes. Source ids are not
modelled.

### WatchTrigger, CronSchedule, DirWatch

`WatchTrigger` has a clock: `pending` and `burst` are `watch_pending` and
`watch_burst_start`, `due` the instant of the debounce timer. `TreeChanged` is
`on_watch_changed`, `TriggerFires` the timer, `ListChanged` what
`setup_all_watches` and `setup_watch` do to the job when any request changes the list. A timer that is
due fires before time passes (`TimePasses`). `noted` and `fired` are history.

`CronSchedule` translates `cron_utils.hpp`: lists, ranges and steps of the five
fields (`Fields`), the weekday formula, the minute-by-minute `Search` with its
jumps, and `schedule_job`'s bound (`Armed`). Days, months, years and the
29 February are the real ones; a day has fewer hours and an hour fewer minutes.
`TimerFires`, `RunEnds` and `ListEdited` are the timer's callback, the verdict
that schedules again and an edit. When nothing matches within the horizon the
timer stays as it was.

`DirWatch`: `watched` and `visited` are `m_watched` and `m_visited_real_paths`;
`walk` is the stack of `add_watch_recursive`, a call in it either about to enter
a directory (`EnterDir`: tests, monitor) or about to list it (`ScanDir`), so that
other programs (`CreateDir`, `DeleteDir`, `RenameDir`) act in between.
`MonitorEvent` is `on_monitor_event`. One symbolic link leads to the root.
`gone` is history: `m_visited_real_paths` only grows, so a directory that is deleted
and created again is not watched a second time, and a monitor may be refused. What
lies below such a directory is then out of the watcher's sight, so the property
speaks of the directories with none of these above them (`Spared`). An earlier form
excepted only the directories themselves; the attempt to prove it showed that a third change
(a directory is created below one that came back) refutes it, which two changes
cannot. `remove_watch` disconnects the monitors of the subtree, so that
their events that wait are never delivered (`Surviving`).

### GuiLink and ActivityLog

`GuiLink`: `list`, `live`, `stops` are the daemon's jobs, tracked runs and
`job/stop` calls; `up` and `down` the two directions of the socket, as messages;
`mirror`, `rows`, `dialog` the job view's list, rows and open edit dialog;
`waiting` and `nextReq` the proxy's callbacks. Requests and broadcasts name a job
by index, as in the code. `Handle` is the daemon's message handler with
everything it calls, `Receive` the proxy and the view's callbacks and signal
handlers, `ShowJobsPage`, `ClickRun`, `ClickStop`, `ClickDelete`, `AddNew`,
`OpenEdit`, `SaveEdit` the user, `AutoRun`, `TrackedRunEnds`, `StopCallAnswered`
the daemon's own life, `MountsListed` the list of jobs that it broadcasts once, unasked,
when the mounts are known after its start (`src/src/daemon.cpp:325`), `DaemonEnds`
the end of the connection, after which the
view edits the file alone. A run moves with its slot when a job in front of it is
deleted (`slot`), while its callbacks keep the index it was started with (`at`): a
stop finds it by the first, a verdict by the second.

`staleMap`, `staleSave` and `addCrossed` are history. `staleSave`: the
view wrote the file while something was on its way. `staleMap`: it read the file
while something was on its way or after such a write, or it saved an edit at the
index that the dialog captured (`src/src/views/job_view.cpp:635`) after another job
had moved there. The daemon's list and the view's may then disagree for good, and a
list that went astray is written to the file later, which the code accepts.
`addCrossed`: a list of jobs, the first one or the start-up one, crossed an addition. It
replaces a view's list that is ahead of the daemon's, and the `job_added` that
follows mends the list but not always the rows: when the user adds A, the list arrives
without it, and B is added before `job_added` for A arrives, the view takes the index of A
for B's, replaces the entry of its list and leaves the row
(`src/src/views/job_view.cpp:954`), although the list is sent "so any connected GUI sees
the correct state" (`src/src/daemon.cpp:325`). So `MirrorAgrees` and `FileAgrees` hold
across it and `RowsMatch` excepts it: without `addCrossed`, TLC finds that behaviour.

`ActivityLog`: each process has one operation, from its call through the lock,
the reading and the rename of the rewritten file to its end, and may fail at
the rename; the daemon may die inside (`DaemonDies`), and the kernel drops its lock.
The lock file can be opened (`src/src/log/activity_log.cpp:47` goes on without it).
A prune reads the clock twice: under the lock for the lines, by calendar days, and
after it for the error logs, by hours and the time of the file
(`src/src/log/activity_log.cpp:131`, called at 202). The days may change in between, and
a change to or from summer time sets the two apart, so the second cutoff is any of
`SweepCutoffs`. A line that stays may so lose its log: `swept`, history, is the latest cutoff
put to the error logs, and `LinkedLogKept` excepts the logs older than it. `Report` is a log
line of the daemon with its error log, `Prune` the age limit, `Confirm` the
deletion the user asked for on rows read earlier, `TypeRetention` the setting
that is saved at each key. `sequential` is what the file would hold had each
operation been one step. `delete_entries` counts the equal lines it was given
down (`remaining`) while it reads: a line goes when as many like it as were given
have not gone yet (`Minus`, with `Occurrences`), and the rest is kept in order
(`Selected`).

### IpcChannel

A unit is a part of a frame with which a read or a write may end: two units of
header and two of body, numbered, so that a receiver can be shown anything but
the frame that was sent. `up` and `down` of a connection are the socket buffers,
`m_buffer` and `cbuf` what the client and the server have read and not taken;
`heard` and `served` are history, the messages taken. `Loop` is the loop that
both readers share. Out of step with the frames it reads a size from wherever it
stands: text makes a size above the limit (four characters are more than 1 MiB),
the low bytes of a length may make any (`OddSizes`).

A write that finds the buffer full ends early (`Cuts`). The two sides differ
in what follows, and the model keeps the difference: the client disconnects
(`Sending`, also from a handler inside its own read loop, `ClientReads`), the server
logs that the client "will be removed on next HUP/ERR" and goes on sending
(`SendToAll`). `odd` is set once a broadcast was cut. Both sides look for a
hang-up before they read, so that what is unread is lost when the other side closes. Each window is
a new client that connects once (`OpenWindow`); its entry at the server outlives
it until the hang-up is seen.

### Browser, Compare, Remotes, JobForm

`Browser`: a pane has its remote, path, history, generation counter, page
(`content`), rows and selection; `asks` are the listings under way, each with the
generation it was asked in. `SwapPanes` swaps as the view does, answers included.
`DeleteAsked`/`DeleteAnswered`, `MakeFolder`, `JobAsked`/`JobDialogEnds` are the
view's buttons, `OpDone` the end of the subprocess that does the work.

`Compare`: a load collects three answers (`Answer`), of which the last puts the
merged rows up; `StartLoad` forgets the load before it, which goes on. Pages are
counted from the files and cut from the rows, as in the code. `Command` and
`CommandDone` are the copies and deletions, followed by a new load while the
dialog is alive. A dry run merges log entries (`DryChecks`, `tally`) instead: each
action decides what becomes of its file (`KindsOfFile`) or, once for all, of every
source file (`KindsOf`), and the last one to name a file wins (`ByPath`).
`Merged` walks the sorted files and puts a header before each directory.

`Remotes`: listings, deletions, the edit page with its loading of providers, sign-ins
(`auths`) and saves are subprocesses. A process writes the configuration and ends in one
step (`ListReads`, `DeletionEnds`, `CommandEnds`) and its callback runs in another
(`ListAnswered`, `RemoteDeleted`, `CommandAnswered`), so a deletion or a save of a page that
was left may write between the two. A save answers rclone's questions one process at a
time (`Continued`) within the budget `kMaxConfigSteps` (`Exhausted`). The token of a
sign-in is taken for whatever provider is selected when it arrives, goes with the
next save and into the remote (`Save`, `Written`), on the page of a remote that exists
whatever that remote's type: no guard and no document says otherwise, so no property
does. The callback that brings the providers has the bare view: for a page that was
replaced the window may be gone after it (`died`). `unsure` is history: the
names whose last save ended in an error, shown on its page if that is still there.

`JobForm`: the rows with their visibility, opening, storing and reopening, and the
three schedule widgets that follow one another (fields, preset, preview) through
signals: a change of the entries or of the check buttons goes through `FieldChanged`,
which makes the preset "Custom" unless `m_preset_updating` is set, as it is
while a preset fills them in (`FilledIn`). `transfer` stands for dry run, checksum and
includes, which `build_job` stores without asking whether their rows are shown.

### Runs

The job runs and the runs of `MCDesktop` have `CHECK_DEADLOCK FALSE`: starts and the user's
gestures are bounded, and a daemon or window with nothing to do rests.

| Run | Instance | Shows |
|---|---|---|
| `jobs_list` | two jobs, one listed at first; all may be deleted and stopped; one loss | `TypeOK`; the counter covers the work (`CountCovers`); a run ends once (`OutcomeOnce`); a slot tracks only a run of its own job (`SlotOwnsRun`) |
| `jobs_retry` | one scheduled bisync job whose schedule may have no next occurrence, two triggers, stops, one loss | exact counter (`CountExact`); automatic runs are bounded (`AutoRunsBounded`); one `--resync` (`ResyncOnce`); no live run out of sight (`NoRunForgotten`); unless somebody stops the job, one live instance (`OneLiveRun`) and true verdicts (`VerdictIsTrue`); the daemon implements `JobLife` (`LivesAsPromised`) |
| `jobs_live` | one scheduled, watched and editable bisync job, one trigger, one restart, one loss, fairness | the schedule is kept (`ScheduleKept`); work ends (`Settles`) |
| `jobs_watch` | expected violation | `ChangeRemembered`, below |
| `jobs_shift` | expected violation | `DroppedOnlyIfDeleted`, below |
| `jobs_submit` | expected violation | `OneSubmission`, below |
| `jobs_poll_flag` | expected violation | `PollFlagHonest`, below |
| `mounts` | one mount job, added, edited, deleted, mounted at start-up; two lost answers; any number of starts, stops and crashes; fairness | the pid is that of our unreaped child (`PidIsOurs`); stop leaves no child and nothing that starts one (`StopEndsChild`); guarded callbacks stay off the destroyed server (`StartupQuiet`); one mount request at a time (`OneMount`); a dead mount is found out (`Healed`) |
| `mounts_shown` | expected violation | `ShownIsActive`, below |
| `desktop` | the ten other components, each by itself | the table below |
| `cron_cap` | expected violation | `RunsOnlyWhenDue`, below |
| `browser_delete` | expected violation | `OnlySelectedDeleted`, below |

`desktop` runs `MCDesktop`, which EXTENDS the ten modules. A behaviour explores one of
them, named by `part` and drawn from `Explored`, while the others rest in one
initial state, so the state space is the sum of theirs and not their product (2.4 million
states, half of them of `GuiLink`). Its properties:

| Module | Property | Says |
|---|---|---|
| all | `DesktopTypeOK` | types |
| `Browser` | `ShownIsCurrent` | a pane shows the directory its path names, however late an answer comes |
| | `HistoryOfRemote` | going back never leads to a path of another remote |
| | `UnreadableSpared` | a greyed row is never handed to a deletion or a job |
| `Compare` | `NoLoadAfterClose` | a closed dialog starts no scan when its command ends |
| | `TallyMatchesRows` | the summary of a dry run counts each file once |
| `DirWatch` | `WatchesMatchTree` | once caught up, every directory is watched and no monitor is left on one that is gone |
| `WatchTrigger` | `BurstBounded` | a change waits no longer than the maximum wait |
| | `FiresWhenQuiet` | a trigger fires after quiet or at the maximum wait, not before |
| `CronSchedule` | `NoMinuteMissed` | no occurrence passes while the timer waits for a later one |
| | `WeekdayAdvances` | the weekday formula and the days of the months are one calendar |
| `GuiLink` | `MirrorAgrees` | with nothing on its way, view and daemon have the same list |
| | `RowsMatch` | each row belongs to the job whose index its buttons send, unless a list of jobs crossed an addition |
| | `FileAgrees` | with nothing on its way, `jobs.json` has the daemon's jobs |
| `IpcChannel` | `FramesArrive` | messages arrive in order and at most once, all of them unless one was cut, and no part of a stream is taken for one |
| `ActivityLog` | `LogSequential` | the file is what it would be had nothing overlapped |
| | `LinkedLogKept` | a line that links an error log can show it, unless a prune's second cutoff took it |
| `Remotes` | `HalfSavedIsKnown` | a remote about which rclone has a question is being saved, or its last save ended in an error |
| `JobForm` | `GuardedRowsStayOut` | a stored job has no option of another type, of those whose rows are asked for |
| | `PresetIsTrue` | the preset named is the schedule stored, and the one previewed |

`mounts` has no bound on starts, as its state is finite, and checks deadlock. One
job suffices because the mount handlers touch other jobs only through the
index, which `jobs_list`, `jobs_shift` and `jobs_submit` examine: with deletions
in front of it `OneMount` fails as `OneSubmission` does. Its fairness is that of
the health check: the timer fires, rcd answers a listing or the session's timeout
ends it. Mount calls, rcd's start and the user need none.

*Bounds of the job runs.* Two jobs are enough for an index to shift under a neighbour's
callbacks, and the added one takes the index of the deleted one. One retry and
one resync give rows of automatic runs of every kind; `PollLimit` is 2 instead
of 6, so that one loss is a missed poll and a forgotten run is a give-up: the
code compares with the limit in one place. Two triggers overtake a retry timer
with a manual run. One restart and one loss let each fault meet each phase of a
run; a second loss in one run would only reach the limit again.

*Bounds of `desktop`.* Each is the least at which the case a property is about
arises, with one step to spare where the state space allows it:

* `Browser`: two moves (`MaxMoves`) put a second navigation or a swap over an
  outstanding listing; `browser_delete` has three, as it must enter a remote,
  select and delete.
* `Compare`: three files in two directories with two rows to a page
  (`PageSize`) and three clicks (`MaxClicks`): filter, turn, select, or two
  overlapping commands and a close. The dry runs log several actions for one file.
* `DirWatch`: trees one deeper (`TreeDepth` 3) than the watcher goes (`MaxDepth`
  2 for 32) and two changes (`MaxChanges`), such as a creation and a rename above it.
* `WatchTrigger`: debounce 2, maximum wait 5, or a maximum below the debounce,
  and ten instants (`MaxClock`), two full bursts.
* `CronSchedule`: a day of 2 hours of 2 minutes, 9 days of search, 16 minutes
  (four days) from each of 27 February 2024 (leap year), 27 February 2100 (none)
  and 30 December 2025; a weekly schedule, lists and ranges with steps,
  the first of the month, a date that does not exist, and an empty field. `CapDays` is 1, as in the code.
* `GuiLink`: no job and two to add, or one job and one to add (`SmallLists`, `JobIds`);
  three gestures (`MaxGestures`), one start by the daemon (`MaxAutoRuns`) and its
  start-up list: two additions, or on the Jobs page an addition and the deletion of the
  job in front of it, cross each other and the list.
* `IpcChannel`: two windows, so that an old connection is still listed while the
  new one waits; three broadcasts, the one cut, one read out of step and one in step
  again; two requests; a read of five units (`Chunk`), which with three left over
  is two frames; a buffer that may be full from its first unit (`Room`).
* `ActivityLog`: two lines, a new day twice (`MaxDay`), at any moment, retention 0 or
  1, the view reads one line (`LastLines`) of the two.
* `Remotes`: two names, two providers, one remote at first, five acts, one question
  answered (`MaxSteps`), so that the budget runs out at the second: enough to save, leave
  the page, open it again and save once more beside a deletion.
* `JobForm`: five touches, the fewest that hide a row, store, reopen and store
  again; two of the seven weekdays, the code treating all alike.

*Fairness* (`Fairness`, used by `jobs_live` only): the main loop dispatches a
source that stays ready (retry and poll timers, the resync idle, the completions
of calls), every call completes because the session has a timeout
(`src/src/rclone/rclone_rc.cpp:40`), and rcd takes a request up and ends a job.
Nothing is assumed of users, schedules, the file system, restarts or stops.
`Settles` needs the poll timer and the completions to be fair job by job: a
daemon that only served one job would starve another.

### What the documentation says and the code does not do

* A watch trigger whose debounce ends during a run is dropped, not retried
  (`jobs_watch`): `fire_watch_triggered_run` clears `watch_pending` before
  `on_run_job` skips. `README.md:55`, `CHANGELOG.md:54`.
* Deleting a job voids the callbacks of the jobs behind it (`jobs_shift`): their
  uuid is still listed, at another index. `src/src/daemon.cpp:534`.
* The answer to a deleted job's start request clears the `submitting` flag of the
  job at its index (`jobs_submit`), which can then be submitted twice.
  `src/src/daemon.cpp:519`.
* A stop answered while a poll is under way leaves `poll_in_flight` set
  (`jobs_poll_flag`), and the next run is never polled. `src/src/daemon.hpp:67`.
* A mount job whose mount failed or was stopped keeps `running` (`mounts_shown`),
  and a job view built from the list shows it as mounted.
  `src/src/views/job_view.cpp:591`, `CHANGELOG.md:777`.
* A job whose next occurrence is more than a day away runs 24 hours after it was
  armed (`cron_cap`): the timer is capped and its callback runs the job instead
  of computing the time again. `src/src/daemon.cpp:500`; `README.md:36`,
  `src/src/rclone/cron_utils.hpp:206`.
* A file selected for deletion in the browser takes along the files of that name
  in every directory below (`browser_delete`): the name is handed to
  rclone as an unanchored include pattern. `src/src/views/browser_view.cpp:283`
  against lines 135 and 256; `compare_dialog.cpp:967` anchors its patterns.

The properties of the passing runs are stated around these: `CountExact`,
`NoRunForgotten` and `Settles` hold while no job is deleted; `Settles` while nobody
stops a job, `OneLiveRun` and `VerdictIsTrue` say so themselves (`Unstopped`);
`ScheduleKept` names the submission error, which ends a run without re-arming
its schedule, and leaves out the schedules that may have no next occurrence
(`Sparse`). Three things are modelled as the code does them and promised
nowhere, so no property asks for their opposite: the count of missed polls
carries over to the next run, an index may name another job when a request
arrives, and an older load of the compare dialog may finish last.

### Proofs

Every theorem holds for all values of the constants that satisfy the named
assumptions of the modules (`SetsAssumption`, `NumbersAssumption` and so on). These
ask for finite sets of jobs and files, natural numbers, trees and initial lists of
the right shape; some say more: a schedule's timer is not capped beyond the horizon of the search
(`CronAssumption`; one day against four years in the code), the daemon starts at a
moment of the calendar (`StartsAssumption`), two files differ in the
rank of their paths (`CompareAssumption`), a week has day 0, which "Weekly" checks, and
another (`FormAssumption`: otherwise the set of all days and that of Sunday are one),
rclone's configuration names a remote once and has no question about one
at first (`RemotesAssumption`),
no remote is named like the absence of one (`BrowserAssumption`), and the two
times on the settings page are not negative (`WatchTriggerAssumption`, from
`src/src/views/settings_view.cpp:310`; the times of a job may be any number). The
bounds of the runs are constants, so a theorem also covers every bound. Where a
theorem needs more, it says so: `Deletable = {}`, no job is ever deleted, or
`Stoppable = {}`, none is stopped by hand. TLC refutes the properties without
these conditions on one or two jobs, all but `AutoRunsBounded`, for which it finds no
counterexample with deletions and only the argument below needs the condition.

| Module | Theorem | Property | Needs |
|---|---|---|---|
| `JobDaemonProofs` | `TypeCorrect` | `TypeOK` | |
| | `CounterCoversWork` | `CountCovers` | |
| `JobLedgerProofs` | `SlotsOwnTheirRuns` | `SlotOwnsRun` | |
| | `RunsEndOnce` | `OutcomeOnce` | |
| | `OneResyncPerLife` | `ResyncOnce` | |
| `JobSteadyProofs` | `CounterIsExact` | `CountExact` | no deletion |
| | `NoRunIsForgotten` | `NoRunForgotten` | no deletion |
| | `VerdictsAreTrue` | `VerdictIsTrue` | no deletion |
| | `OneInstance` | `OneLiveRun` | no deletion |
| | `ScheduleIsKept` | `ScheduleKept` | no deletion, no stop |
| | `AutomaticRunsAreBounded` | `AutoRunsBounded` | no deletion |
| `JobRefinementProofs` | `ImplementsLife` | `LivesAsPromised` | no deletion, no edit |
| `MountJobsProofs` | `RcdIsOurs` | `PidIsOurs` | |
| | `StopIsFinal` | `StopEndsChild` | |
| | `CallbacksQuiet` | `StartupQuiet` | |
| | `MountTypes` | `TypeOK` | |
| | `OneMountEach` | `OneMount` | no deletion |
| `GuiLinkProofs` | `RowsFollow` | `RowsMatch` | |
| | `MirrorFollows` | `MirrorAgrees` | |
| | `FileFollows` | `FileAgrees` | |
| | `FramesAlwaysArrive` | `FramesArrive` | |
| | `LinkTypesHold`, `ChannelTypes` | conjuncts of `DesktopTypeOK` | |
| `TriggerProofs` | `WatcherCatchesUp` | `WatchesMatchTree` | |
| | `BurstsAreBounded` | `BurstBounded` | |
| | `TriggersAreTimely` | `FiresWhenQuiet` | |
| | `NoMinuteIsMissed` | `NoMinuteMissed` | |
| | `WeekdaysFollow` | `WeekdayAdvances` | |
| | `WatcherTypes`, `DebounceTypes`, `ScheduleTypes` | conjuncts of `DesktopTypeOK` | |
| | `LifeIsShown` | `ShownWhileWorking` | |
| `DesktopProofs` | `LogIsSequential` | `LogSequential` | |
| | `LinksAreKept` | `LinkedLogKept` | |
| | `HalfSavedRemotesAreKnown` | `HalfSavedIsKnown` | |
| | `HiddenRowsStayOut` | `GuardedRowsStayOut` | |
| | `PresetsAreTrue` | `PresetIsTrue` | |
| | `ClosedDialogsLoadNothing` | `NoLoadAfterClose` | |
| | `PanesAreCurrent` | `ShownIsCurrent` | |
| | `HistoriesFollow` | `HistoryOfRemote` | |
| | `UnreadableRowsAreSpared` | `UnreadableSpared` | |
| | `SummaryMatchesRows` | `TallyMatchesRows` | |
| | `LogTypes`, `RemoteTypes`, `FormTypes`, `BrowserTypes`, `CompareTypes` | conjuncts of `DesktopTypeOK` | |
| | `DesktopTypes` | `DesktopTypeOK` | |

*Job engine.* The lemmas follow the code: what `on_run_job` leaves, what
`on_job_completed` leaves, then one step per action.

* `JobDaemonProofs`. `TypeOK` is inductive. For the counter, what makes
  `CountCovers` inductive is that a submission leaves `subs` and enters `Tracked`
  in one step, and that each decrement comes with one element that leaves one of
  the two sets (`DecCovers`), so that the clamp at zero never swallows a
  decrement. A handler that decrements for a job it does not remove would break
  it, which is why `DeleteJob` pays only for a slot with a `job_id` (`Owes`).
* `JobLedgerProofs`, whatever is deleted. `OwnerInv` is `TypeOK` with who owns
  the open runs (`Owned`): a tracked run is open and its job listed, a slot
  off the list is empty, a start request has an open run to itself. `OutcomeOnce`
  alone is not inductive: a second end is excluded only because a run that is
  tracked or awaited has none. `ResyncInv` pays for every `--resync`, asked for or
  in store, with the slot's single-shot guard or with a restart (`Paid`). It also
  needs that no uuid is used before its job exists (`Unused`).
* `JobRefinementProofs`. The steps need `LifeInv`: indices are those of the
  list (`ListOK`, or a guard would mistake one job for another), a start
  request belongs to a slot that waits for it and tracks nothing (`CallsOK`, or
  an answer would end another run), retries and resyncs in store are
  for their own job (`ArmsOK`, or firing one would not begin anything for it),
  and a daemon that is down has nothing (`DownOK`, so that `Boot` maps to a
  start). Each handler has one lemma that it keeps `LifeInv` and one that it is
  a step of the life or a stutter. An edit overwrites `running`, so the life of a
  job is promised without edits only.
* `TriggerProofs`, at its end. `LifeIsShown`: a job with work under way is shown as running and
  its retries stay within the budget; by the refinement this is so in the daemon.
* `JobSteadyProofs`, without deletions: one of another job in front moves the
  index under a callback, which then fails its guard and drops what it should have
  answered (`jobs_shift` shows it). All start from `SteadyInv`, which is `LifeInv`
  with `OwnerInv`, and one lemma that names what each action does to slots, ledger
  and counter (`EveryStep`). `KeptInv`: in the first life every open run is tracked
  or awaited. `TruthInv`: a status request is about the run its slot tracks, as
  only a stop frees the slot under a request (`Asked`), and no verdict contradicts
  rcd (`Sound`). `OneInstance` follows from these two with no loss and no restart.
  `SchedInv` adds that a start request is about the latest run of its job, or the
  refusal that excuses a missing timer would be one of an older run. It needs
  `Stoppable = {}`: a stop of a run that the schedule itself started leaves the job
  unarmed, since the timer's callback cleared it (`src/src/daemon.cpp:500`) and a stop
  does not schedule again. It speaks of the jobs outside `Sparse`, for any such set. `RowInv` is a potential: the automatic starts that a
  job may still make (`Spare`) and those since the last other start never exceed
  the bound together.

*Mounts.* `RcInv` adds to `PidIsOurs` and `StopEndsChild`, which are not inductive as an
answer to the probe overwrites the pid, that a live probe means there is no pid
yet, and that after `stop()` neither call is live, which is what the sentinels
are for. `StartupQuiet` is inductive. `ShapeInv` says that the list has no gaps and no
uuid is used twice. `OneInv` says that the index a mount request
carries is that of its job, which `OneMountEach` needs: after a deletion the
callback of one job clears the `submitting` flag of another
(`src/src/daemon.cpp:708`).

*Window and daemon.* Lists that agree when nothing is on its way say nothing of
a step, so `AgreeInv` says what holds in between (`Traced`): the window replays the
broadcasts under way on its list of identities, each of which fits the list it meets,
and arrives at a list that begins with the daemon's and has at most as many jobs more
as the requests under way will add (`Covers`); or the list of jobs is asked for first and
replaces everything. A replay is stated as the sequence of lists it goes through, which
needs no recursion. `Covers` is as weak as it is because the start-up list may take the
window back behind its own additions: each `job_added` is then put behind the list
or in the place of its index, and either way the two lists are equal when the last
one has arrived (`Collapses`: after a list, or an addition at the end, the window has one
list whatever it had before). Until a list of jobs crosses an addition, every replay is
exact (`Exactly`): an added job meets its own entry, so rows and list grow alike. `CrossInv`
says that the two are under way together only once they have crossed, which is when
`addCrossed` is set. `FileInv`: the file has the daemon's
jobs, or those with the one that the next request adds. The lemmas say how a replay
grows at one end and shrinks at the other.

*Socket.* `ChannelInv`: a stream is what an end has read and not taken out with what is
on its way to it. Its frames rise; where none was cut, it holds exactly the frames that
follow the last message taken out, and between two reads an end keeps less than a
frame. The loop of the readers is followed by induction on what is left of
the buffer (`LoopRising`): in step it takes the frames that are whole; out of
step, whatever size it reads, only a body that is that of one frame is a message,
and it lies behind the one before.

*What starts runs* (`TriggerProofs`).

* Directory watcher. `WatchesMatchTree` speaks of moments when nothing is left to
  do; `WatchInv` says what holds in between. A directory that lacks its monitor
  although its parent has one is promised one (`PromisesKept`): the walk's stack has
  it or is about to list the parent, or the event that announces it is under way to
  the parent's monitor. A monitor on a directory that is gone has the deletion of that
  directory, or of one above it, under way (`StaleNoted`), to a monitor that is still
  there (`Founded`). Above each monitor there are monitors up to the root
  (`WatchClosed`), so a directory with a monitor missing somewhere above it has a topmost
  one, which is promised its own: with no call and no event left there is none. A
  rename is the hard step, as it moves a subtree away from its promises and makes new ones.
* Debounce. `TriggerInv`: a pending timer is due by the end of its burst, and not
  before quiet or that end.
* Schedule. The minutes from a moment on are a walk (`IsWalk`), and two walks from one
  moment agree. `next_occurrence` returns the first minute of the walk that
  matches, or none within its horizon (`NextIsFirst`); `CronInv` says that from the last evaluation
  to where the timer stands no minute of the walk matched. A timer capped at
  `CapDays` fires early, not late, as long as the cap lies within the
  horizon of the search, which is the assumption it needs.
* Calendar. `WeekdaysFollow` compares `day_of_week`, a formula with divisions and a
  table, with `days_in_month`, another table: the share of the year (`YearSum`)
  grows by one weekday a year and by one more in a leap year, and the
  share of the months by the length of each month modulo a week, with the year
  taken from March on. So the formula moves by one at every midnight, the last of
  February and of a century included.

*The other components* (`DesktopProofs`).

* Activity log. `LockInv`: whoever is inside holds the lock, and what it has read is
  still what the file gives; `LogSequential` follows. For the error logs,
  which are dropped after the lock was given back, `LinkInv` numbers them: no two
  different lines link one error log, wherever they are, in the file, in the window's rows or
  in its request (`Numbers`), the line that the daemon is about to add has a
  new number (`Reported`), and once the file is renamed no line of it links
  what the deletion drops (`Gone`). A prune's second cutoff is known only in the step that
  drops the error logs, and is in `swept` after the same step, so no invariant about a prune
  under way is needed.
* Remotes, form. `HalfSavedIsKnown` is inductive: whoever leaves a question
  behind is a save that has not been called back, a callback either starts the next
  process, or ends with an error and puts the name among the unsure ones, or ends well,
  and then it counts for nothing, since its process left no question. Another save or a
  deletion between the two only replaces or removes the remote. The types need that the saves
  under way are records of saves (`SavesShaped`) and that the configuration holds a
  remote once (`OneRemoteEach`). `FormInv`: the invariants themselves with the fact that a
  stored schedule is one that the form reads back unchanged (`DaysReturn`).
* Browser. `PanesInv`: the open request of a pane's generation is for the path it
  shows as loading (`Awaiting`), and before remotes are known there is none (`Mapped`).
* Compare dialog. `NoLoadAfterClose` is a step property that needs no invariant. For
  `TallyMatchesRows` the lemmas follow the merge: an action decides at most one thing
  of a file (`KindsPart`), so the last one to name it gives it one kind (`ByPathPart`);
  the files of a preview have ranks of their own, so sorting loses none (`SortedIn`);
  the merge adds headers, which are not counted (`MergedCount`), and the counts of
  the kinds add up to the files (`SumOfParts`). `DryInv` carries what a dry run's loads hold. The
  proof found that an error entry that also says "copy" fell under two guards of
  the model's case distinction, where the code returns early; the same overlap was in
  `OpDone` of `Browser`. Both are exclusive now.

*Types.* The theorems above need only parts of the type invariants; those are proved
from the same invariants. The conjunct of the window needs `OwnInv`: a message may name
no job (`NoJob`), but one that puts a job into a list does not. The specification of
`MCDesktop` implements that of each component (`EachMoves`): a step is one of one component and
leaves the variables of the others. So each theorem about a component is one about the run
`desktop`, and `DesktopTypes` is their conjunction. Two attempts failed on values that no
instance had: a form without a button for Sunday, where "Weekly" would check no
day and leave the days of another preset, and a configuration that names a remote twice. Both
are excluded by assumptions now, as the code has seven buttons and rclone's file one
section for a name.

*Induction.* What a recursive function computes is proved by the lemma `Induction`
(a set of naturals with 0 and the successor of each of its members is all of them), used
with the set of lengths for which the claim holds. The walk of the calendar,
the loop of the socket, the selections of the log and the merge rest on it.

Model-checked only:

* `Settles` and `Healed`: liveness.
* The filter, the pages and the cuts of rows that `Compare` shows: no property is about them.

## Not modelled

* The socket file: the probe and removal of a stale one, and two daemons that
  start at once. Frames of different lengths, and a fragment of a frame that
  happens to be JSON.
* Several windows on one daemon, whose proxies number requests alike; the
  application is single-instance.
* Failed writes of `jobs.json`: the models take a save as done.
* A lock file that cannot be opened, without which the log is written all the same
  (`src/src/log/activity_log.cpp:47`).
* An edit that changes a job's type or its bisync flag under a run.
* The D-Bus objects of the tray and the notifications, progress texts,
  statistics, hints (`error_hints`), columns, icons, the calendar of the preview:
  output without state that anything reads back.
* The switches of the settings page but the retention; the fields of a
  provider's form and the capacities of remotes.
* The parsing of rclone's output, flags and sizes; the command line; the
  wrappers of `sandbox.hpp`; the welcome and about pages.

## Plan

What would come next:

1. `IpcChannel` under `GuiLink`: uncut connections refine its message sequences;
   then two clients and their request numbers, and the socket file.
2. Edits that change the type, in one module over `JobDaemon` and `MountJobs`.
3. The failed write of `jobs.json`, with its `.tmp`.
4. A theorem: `AutoRunsBounded` with deletions.
