# A verification development of propmonitor

propmonitor is a daemon that measures the level of radio beacons with an SDR, serves a page on the
operator's LAN, uploads its measurements to the microwaveprop website, keeps its config in step with
that website, and updates itself. This directory holds TLA+ models of the parts of it that are hard
to test, the TLC runs that check them, and proofs that TLAPS checks.

Paths below are relative to the repository's root; `sync.rs` stands for `src/sync.rs`.

## 1. Inventory

| Part | State it keeps | Operations | Speaks to |
|---|---|---|---|
| Config sync task (`sync.rs`) | `ReportState`, position in its loop, a socket | connect, session, push, acknowledgement, poll | website (WebSocket, HTTP), config writers, `sync_notify` |
| Config writers (`server.rs`, `yaml.rs`) | `config.yaml`, `AppState.config`, the `config_write` lock, the listener, the worker's handle | `PUT /api/config`, `apply_config`, `persist_config_version`, `restart_worker` | browsers, sync task, worker |
| Worker and bridge (`worker.rs`, `server.rs`) | the SDR, the window under way; `period_start`, `device_info` | open, window, stop; stamp, store, broadcast | bridge over mpsc, uploader and pages over a broadcast channel |
| Measurement store (`store.rs`) | ring buffer of 1440 | push, read | bridge, API |
| Uploader (`uploader.rs`) | retry queue of 1440, backoff | enqueue, POST, back off | website, config, `device_info` |
| Self-update task (`update.rs`, `main.rs`) | `UpdateState`, files at the install path | check, download, verify, preflight, swap, exec | release channel, file system |
| HTTP API and page feed (`server.rs`) | one task and one broadcast receiver per page | reads, the requests above, snapshot, frames | pages |
| Page (`web/app.js`) | the settings form and whether it is dirty, the readouts, its socket and two timers | connect, render, boot fetch, save | API, page feed |
| Config loading (`config.rs`, `yaml.rs`) | none | write, parse, validate | writers, process start |
| Spectrum analysis (`measure.rs`) and the capture loop (`worker.rs`) | one window's sums, a frame being filled, the ring of the waterfall | start, add, finish; read | bridge |
| Installer, `sdr_diag`, build scripts, workflows | none of the node's | | |

The tasks share memory (`AppState`) behind locks that are taken for one read or one write at a time;
only `config_write` is held across awaits, and in `persist_config_version` the config's write guard
as well, while the file is written (server.rs 575-587). What can go wrong therefore lies between two awaits of one
task: a config read before a lock and used under it, an acknowledgement taken for another, a handler
dropped half way, a measurement stamped from what has changed since. Beyond that: connections and
processes that end at any step, files a power cut leaves half written, and a website that edits too.

What makes each part correct:

- sync: versions are the website's alone and never go back; each local edit is reported, once at a
  time; both sides end up with the same content under the same version.
- writers: file, running config, listener and worker agree whenever the lock is free; nothing of a
  failed change stays; no request waits for ever; the SDR has one user.
- pipeline: a measurement is delivered, or given up for a reason the code names; in order; stamped
  with its own beginning and the settings it was made with.
- config file: what is written loads, and loads as what was written; nothing is lost between file,
  API, page and website; what is accepted can work.
- window: a measurement is of the samples of its own window, each once; the figures are those of the
  beacon and not of the pauses between or of the leakage beside it.
- page: an open page comes to show what the daemon holds, and never takes unsaved work away.
- update: what stands at the install path can be started with this node's config; there is something
  to roll back to; only the build that was checked is installed, unattended only over an official
  one; a node that updates by itself becomes current.

The hazards behind these are listed with their lines in `PROJECT.json`.

## 2. Modules

| Module | Models | Built on |
|---|---|---|
| `ConfigSync` | sync task and website | |
| `VersionLedger` | abstract: what a config version promises | implemented by `ConfigSync` |
| `ConfigSync_proofs` | theorems about `ConfigSync` | `ConfigSync`, TLAPS |
| `ConfigApply` | config writers, listener, worker life cycle | |
| `ConfigStore` | abstract: file and running config change in one step | implemented by `ConfigApply` |
| `ConfigApply_proofs` | theorems about `ConfigApply` | `ConfigApply`, TLAPS |
| `SelfUpdate` | update task, its files, the release channel | |
| `SelfUpdate_proofs` | theorems about `SelfUpdate` | `SelfUpdate`, TLAPS |
| `UploadPipeline` | worker to website, one measurement's way | |
| `UploadPipeline_proofs` | theorems about `UploadPipeline` | `UploadPipeline`, TLAPS |
| `Passband` | the bins of a passband, its guards and the noise | |
| `SpectrumWindow` | the capture loop and its analyzer, sample by sample | `Passband` |
| `SpectrumWindow_proofs` | theorems about `SpectrumWindow` and `Passband` | `SpectrumWindow`, TLAPS |
| `ConfigYaml` | config.yaml as lines: writer, parser, defaults, limits | |
| `ConfigFile` | the writers in sequence, and every conversion of a config | `ConfigYaml`, `Passband` |
| `ConfigFile_proofs` | theorems about `ConfigFile`, `SettingsForm` and the bins of a config | `SettingsForm`, TLAPS |
| `SettingsForm` | the page's form, filled from a config and made into a PUT | `ConfigFile` |
| `YamlText` | a quoted text, character by character | |
| `YamlText_proofs` | theorem about `YamlText`, for texts of any length | `YamlText`, TLAPS |
| `PageFeed` | broadcast, snapshot, socket and page | |
| `PageFeed_proofs` | theorems about `PageFeed` | `PageFeed`, TLAPS |
| `MC*` | the instances TLC checks | |

The modules meet where the code's parts do. `ConfigSync` takes `apply_config` and
`persist_config_version` for single steps; `ConfigApply` models them await by await and its property
`AtomicChanges` says that, seen from file and running config, they are the steps of `ConfigStore`.
`UploadPipeline` has one worker at a time, which is `OneWorker` of `ConfigApply`.

`ConfigFile` opens up the config that `ConfigApply` takes as a whole: there a write is many steps and a
config three values, here a write is one step and a config all of its fields. `PageFeed` in turn takes
the contents of a config for a number, and `SettingsForm` has what a form does to them.

The concurrent systems bound the environment and not the program: a variable `budget` holds how often each kind of
move (an edit, a drop, a failure, a crash, a release) may still happen, `Setups` lists the budgets
and the first states of an instance. The program's own steps are never bounded. Liveness properties
therefore speak of what happens once the environment has settled, which is the most they could say.
`ConfigFile` and `SpectrumWindow` are sequential and bounded by the versions minted and by the samples
read.

### ConfigSync

`mem`/`disk` are the running config and its file, each a version, a content and the kind of
`microwaveprop` block (`none`, no token, token). `phase` is where `run` stands: `idle` (head of the
loop), `waiting` (`wait_for_token`), `connecting`, `session` (`run_session`), `closed` (the poll's
turn), `posting`/`topull`/`pulling` (`poll_cycle`). `job` is the push between `apply_push`'s read of
the running config and its write. `unseen` is the watch channel `sync_notify`; `bumps` counts PUTs
between `apply_config`'s return and the bump. `toServer`/`toNode` are the socket's frames, or the
poll's request and response. `minted` is the website: version `v` is its `v`-th config. `parted` is
history: it is set when an edit slips from between node and website, and reset when a report goes up or
a push takes effect with nothing else in flight.

The website is external and modelled from api.md section 5 and the answers the code expects: at
hello it adopts the node's config if it has none and pushes if the node is behind; it mints a version
for each report that validates and answers an error otherwise; an edit on its page is pushed to the
socket it serves.

Simplifications: a config is one of a few contents; `hello_ack`, `status`, `ping` and
`config_applied` decide nothing and are left out; frames of a lost socket are handled before the loss
or never; a socket lost during an apply is the same as one lost right after it; there is one token
value, so a session ends on a token change only when the token goes; a file renamed into place is
taken to last, though `write_atomic` does not sync its directory (yaml.rs 297-310), here and in
`ConfigApply`.

### ConfigApply

One action per stretch between two awaits of `apply_config`: `LockToApply`, `BindListener`,
`WriteFile`, `CommitServer`, `Swap` (the running config, and `restart_worker` taking the handle),
`SpawnWorker`, then `Bump`; `LockToRecord` and `WriteRecord` for `persist_config_version`, or
`NothingToRecord` where it returns early. `at` says
where each applier stands: browsers (`Client`) and the sync task. `Leave` drops a browser's handler
at the await it stands at, as hyper does when the connection ends; a write handed to a blocking
thread goes on as a `stray` one, and while two writes overlap on the one `config.yaml.tmp` the file
may become either or `Torn`. `thread` is the worker threads: one opens the device, and fails if
another has it, sees its stop flag once open, and ends. `disturbed` records that a handler was
dropped after its write began; the properties that then no longer hold say so.

The version a change carries is found under the lock: the pushed one, or the running one for an edit,
or 0 for an edit that leaves no `microwaveprop` block to keep it in (the move `unlink`). A push may
bring any of the `Version`s above the running one, an acknowledgement any that is not below it (which
is `VersionsOrdered` of `ConfigSync`).

Simplifications: an invalid body changes nothing and is left out; a config is a content, an address,
whether there is a block, and a version; `http.bind` stands for what a push carries along from the config it read; connections
still draining on the old listener only show as binds that fail.

### SelfUpdate

`step` is where a pass stands (`check`, `install`, `download`, `verify`, `aside`, `rename` or `place`,
`sync`, `exec`), one action each; `place` is `rename` where there was no file to set aside, hence none
to put back. `path`, `prev` and `tmp` are the three files, each a build and whether its bytes have
reached the device; `durable` is the set of directory states a power cut may leave, which grows with
each rename and shrinks when the directory is synced. `release` has a binary and a manifest, which
the workflow replaces in this order. `Rejects` are the builds that do not start on this node's
config, `Legacy` those too old to be asked, `Dist` the official ones.

Simplifications: Linux only, where the code can update in place; a build is its commit and its
digest; the wait between checks is not timed; the config is fixed, so `Rejects` is a constant.

### UploadPipeline

A measurement is the number of its window, the stamp it got, and the generation of the config its
worker was started on. The worker sends `info`, `started`, `measured` over `pipe`; `Bridge` stamps,
stores and broadcasts (`feed`); the uploader (`pos`) enqueues, posts, backs off. The website keeps
one measurement per `measured_at` and answers 409 for another, as uploader.rs expects.
`since` is the last window of the processes before this one (history). `dropped` records those given
up and why: queue overflow, a permanent refusal, uploads off, a frame
lost to a full broadcast channel, a restart.

Simplifications: `apply_config` is the swap of the config and, later, the next worker; frames of the
waterfall and the raw level appear only as the chance (`Lag`) that they push a measurement out of the
channel; a POST is handled at once or never; the token does not change.

### Passband and SpectrumWindow

`SpectrumWindow` is `run_inner`'s two loops with the `SpectrumAnalyzer` inside. A `Read` brings a chunk
of any of the sizes in `Chunks`, never more than the frame still needs, with the beacon on or off the
air; samples are numbered, so that a property can say which of them a frame or a row of the waterfall
is made of. The environment's signal is `Received`: a power for the bins of the passband and a smaller
one for the bins beside it, which is what the guards are for. `Passband` has the arithmetic of
`start_window` and `finalize` on integers, rounding as the code does; `ConfigFile` uses it too, at the
real `FFT_SIZE`.

Simplifications: the FFT, the Hann window and the conversion to decibels keep the order of powers and
are left out; a mean is a sum and a count; the stop flag, a failed read and a bridge that is gone all
end the thread (`Return`).

### ConfigYaml, ConfigFile, SettingsForm and YamlText

A document is a sequence of lines (indent, key, value); `FromYaml` is `from_yaml_str`: the structure
`yaml::parse` accepts, the type each key must have, each default, `validate`. `BuildYaml` is
`build_yaml_from_update`, and `CfgToView`, `CfgToUpdate`, `FromConfig`, `ToConfigUpdate` the four
conversions between file, API and website. The one text that is written bare is the mode: `Bare` says
which lines are read where a text was written so, and all that is assumed of it is that a listed mode
reads back as itself (`BareAssumption`). `Trimmed` is what trimming leaves of a text, for the page that
trims what it sends and the addresses that cannot be bound (`Addresses`). The actions are the writers as single steps: `PutConfig`,
`Push` (with `decide_push`), `Accepted`, `Restart`; a failed write of a version leaves `unsaved`.
`SettingsForm` adds `applyConfig` and `saveConfig` of the page as functions, and `Tidied`, what a page
saved unedited makes of a config.

`YamlText` has the one part where characters matter: `write_quoted`, `strip_comment`, `unquote`. The
run has it beside `ConfigFile`, which knows of texts only whether they hold a line break (`Broken`),
and `QuotedComesBack` is why that is enough: `TextsComeBack` proves it for every text.

Simplifications: numbers are integers (frequencies in steps of 50 Hz) and print and parse exactly;
NaN and infinity cannot be written and are left out; unknown keys are ignored by code and model; line
comments and blank lines carry nothing; `BandFits` takes the sample rate the config asks for, the
worker's analyzer the one the device settled on (worker.rs 186), which differs where a device has steps.

### PageFeed

The daemon's side of `held` (last measurement, config) changes first and is broadcast then
(`unsent`), as `bridge_loop` and `apply_config` have it. `task` is `handle_ws` of the page's socket:
subscribed, then reading the snapshot one lock at a time, then sending it, then live. `feed` is its
broadcast receiver, `missed` what it lagged over. `link` is the socket as the page sees it, `dead` a
half-open one. The page has `readout`, `form`, `formDirty`, and its two requests `boot` and `save`.
Others' edits (`OtherEdit`) stand for other pages and the sync task.

Simplifications: one page, which saves once at a time (app.js 439-482 would let an operator save again
before the answer); device, raw level and upload status travel as the measurement does; the
heartbeat is only the fact that a working socket is never silent (`Silence` needs a dead one); the
update section, read anew at each connect, is left out.

## 3. Runs

| Run | Result | What it shows |
|---|---|---|
| `sync_safety` | holds | `VersionsOrdered`, `AwaitingIsOneReport`, `AgreesUnlessParted`, and `LedgerSpec`: the sync task implements `VersionLedger` |
| `sync_agreement` | holds | `EventuallyInStep`: unless they have parted for good, every edit is reported and both sides end in step |
| `sync_crossing` | violated | a report and a push that cross leave both sides on one version with two contents |
| `apply` | holds | `SettledWhenFree`, `ListensUndisturbed`, `OneWorker`, `AtomicChanges`, `EventuallyServed`, `EventuallyMeasuring` |
| `apply_disconnect` | violated | a client that leaves during its PUT: file and listener name two addresses |
| `config` | holds | `FileIsRunning`, `ComesBack`, `BandFits`, `QuotedComesBack`, `PushTakesHold` |
| `config_wide` | violated | a config that is accepted and whose windows never give a measurement |
| `window` | holds | `FramesAreTheWindow`, `MeasuresItsWindow`, `RowIsLatest` |
| `page` | holds | `NothingInTheGap`, `UnsavedKept`, `EventuallyShown` |
| `page_form` | violated | what is typed while a save is under way is overwritten |
| `pipeline` | holds | `Accounted`, `InOrder`, `Stamped`, `StoreKeepsNewest`, `EventuallyDelivered` |
| `update_channel` | holds | `PathLoads`, `Recoverable`, `BackupDiffers`, `DownOnlyMidSwap`, `InstallsWhatWasChecked`, `UnattendedOnlyOfficial`, `EventuallyCurrent` |

Each violated property quotes a comment or a document of the repository; `PROJECT.json` (`findings`)
gives the quotation, the line where the code departs from it, and the story of the counterexample.
More disagreements between code and documents, met while modelling, are listed there without a run:
each is a behaviour the modules have (an acknowledgement of an adoption taken for a report's, a push
that puts an old `http.bind` back, a config frame overtaken by the boot fetch, fields of a removed
block that come back with the next save, and others), left out of the setups or excepted in the
property where it would break one.

`BandFits` is what is left of "an accepted config can be measured" once wide passbands are excepted:
the passband lies in the spectrum, and one of at least four bins and at most two fifths of it leaves
noise bins beyond its guards. `ComesBack` says to the field what a save of an unedited page changes (`Tidied`): it
always sends a beacon block, shows the update interval in minutes, and trims driver, beacon name and
grid square; where the grid square is too short without its blanks the save is refused. `PushTakesHold`
speaks of the last field only for the modes there are: a pushed mode such as `usb # x` takes effect as
`usb` and never compares equal to what was pushed (see the findings).

`AgreesUnlessParted` and `EventuallyInStep` are what the code keeps of "keeps the node and the website in
agreement" (sync.rs 3-6). Three things part the two, and `parted` names them: a push that takes effect
while a report or its acknowledgement is in flight; a process that ends with something unreported or
with a version its file has missed; `wait_for_token`, which reads the notification of an edit. The first
does not need both sides to edit: with an acknowledgement lost along with its socket and one more edit
on the node, the push of the website's hello crosses the report behind the node's.

`BackupDiffers` is an action property: it speaks of the moment the backup is written. That the two
files differ from then on is neither claimed by the code nor true: a put-back that fails can leave a
build as the backup that is published again later.

### Bounds, and why they are enough

- `sync_*`: three contents (the node's, the website's, and one more: two edits differ from each other
  and from what was there), up to three local edits, two website edits, two connections, two drops,
  one failed write, one restart. Every order of an edit, a report, a push and an acknowledgement
  happens with fewer. `Config` is a symmetry set where no liveness is checked.
- `sync_safety` leaves out a report that is refused and an adoption together with local edits, which
  break `AwaitingIsOneReport` (see the findings). `sync_agreement` has the website's edits with drops
  and restarts, from a linked and from a new monitor; two edits of the node with two connections and a
  drop, so that a report or its acknowledgement is lost with the socket while the other edit waits; and
  edits of both, with a socket and a restart, and without a socket, where every report is a poll's.
  Where such a behaviour parts the two for good (`sync_crossing`, the findings) it is excused by `parted`.
- `apply`: two browsers and the sync task, two addresses, two contents, two worker threads (one
  stopping, one starting), one failure of each kind per setup, two versions with a gap between them, an
  edit that takes the block away beside one that keeps it or while the sync task works. Three appliers are enough for one to
  hold the lock, one to wait and one to act in between.
- `pipeline`: `MaxEntries = 2` stands for 1440: four windows against two entries overflow ring buffer
  and queue while a POST fails. Two config changes put three generations beside each other.
- `config`: 73 PUT bodies on both sides of every limit of `validate`, with every optional block there
  and absent, eleven pushes, versions up to 2 (one to apply and one to apply after it), ten documents
  an operator might write, eight of which are refused. Modes are written with blanks, with a comment,
  empty, with a line break that makes another line, a line that is there already or none; texts with
  blanks at either end. Every state is reached in seven steps or fewer.
  Texts of up to five of the six kinds of character that yaml.rs tells apart: each escape next to
  each other one, at both ends.
- `window`: six bins instead of 16384 leave room for a passband, its guards and noise on both sides,
  for one at the edge, and for one without noise bins. 21 samples are three frames and a remainder,
  over two windows; reads of 2, 3 and 6 samples end frames in every way; the ring of 4 wraps inside a
  chunk.
- `page`: `BROADCAST_CAPACITY = 2` stands for 256 and one frame fits the socket, so that two rows make
  the receiver lag; up to two measurements, two edits by others and two lost sockets, one restart. The
  setups keep apart a page that boots, one that saves, and others' edits: boot fetch or save together
  with others' edits break `NothingInTheGap` (see the findings).
- `update_channel`: an official build, an unofficial one and one that rejects the config; three
  releases, and one or two of each failure. A pass has two renames and one exec, so the second
  failure falls into a retry of the first. `Legacy` and `Unlisted` are empty: with a legacy build that
  rejects the config `DownOnlyMidSwap` fails by design of the fallback (update.rs 650-659).

Deadlock is checked in `config` only: in each of the other systems everything may come to rest with
nothing left to do (budget spent, nothing queued, thread ended, updates disabled or the service down).

### Fairness

- `ConfigSync`: weak fairness of the sync task's steps, of the website's answers, of the bump and of
  a connection attempt's end (each is a future tokio keeps polling, with timeouts on requests). The
  poll is strongly fair: `run` passes by `next_poll` again and again, and every pass more than
  `POLL_INTERVAL` after the last poll takes it. No edit or failure is fair.
- `ConfigApply`: weak fairness per applier, of the recorder, of each worker thread and of stray
  writes: runnable tasks and threads run. The lock needs no more, since tokio's mutex is
  first-come-first-served and the number of requests is bounded.
- `UploadPipeline`: weak fairness of thread, bridge, respawn, uploader and of an answer (the client
  has a timeout of 15 s).
- `SelfUpdate`: weak fairness of the task and of an upload under way.
- `PageFeed`: weak fairness of the daemon's handlers and of `handle_ws` (tasks tokio polls), and of what
  a browser does by itself: dial, deliver a frame, run the continuation of a `fetch`, fire a timer. The
  operator, other writers and failures are not fair.

## 4. Proofs

Every theorem holds for all values of the constants that satisfy the named assumptions of the module
it speaks of: any number of contents, browsers, threads, builds or samples, any capacity, and every
budget. Where a theorem needs more it says so by a named hypothesis in its statement; each of those is
met by the run that checks the same property, and what each leaves out is told with it, and where the
code goes wrong there, in a finding.

### ConfigSync_proofs

- `TypeCorrect`: `Spec => []TypeOK`, and `OnlyMintedVersions`: `Spec => []VersionsMinted`; no run
  repeats these two;
- `AcknowledgementsAreNewer`: `Spec => []VersionsOrdered`;
- `ImplementsLedger`: `Spec => LedgerSpec`, the refinement of `VersionLedger`.

The inductive invariant is `IInv == TypeOK /\ VersionsMinted /\ VersionsOrdered`. The two last parts
need each other. `persist_config_version` writes the version it is given without a comparison, so a
step that receives an acknowledgement keeps the version from going back only if each acknowledgement
on its way down is at least the running version (`AcksAbove(toNode, mem.ver)`). A push raises the
running version, so each acknowledgement behind it must be at least the push's version as well
(`AcksInOrder`), also while the push is being applied (`AcksAbove(toNode, job.ver)`). New
acknowledgements keep this because the website mints above everything it has sent, which is
`VersionsMinted`. The refinement maps each action to `Mint`, `Record`, `Save`, `Forget`, `Reload` or a
stutter.

And of what is in flight:

- `ReportsDoNotOverlap`: `SiteHasConfig /\ Spec => []NoOverlap`, and `OneReportAtATime`:
  `SiteHasConfig /\ Refused = {} /\ Spec => []AwaitingIsOneReport`, which says in addition that a
  report is under way while `awaiting_ack` is set;
- `Agreement`: `SiteHasConfig /\ Spec => []AgreesUnlessParted`;
- `UneditedFollows`: `NodeUnedited /\ Spec => []OwesOrAgrees`, without `parted`, for a node nobody edits.

`SiteHasConfig` leaves out an adoption over a socket, whose acknowledgement is taken for a report's;
`Refused = {}` a report the website refuses, which is never acknowledged. `Chan` is the invariant: it
counts frames of each kind on the two channels against `phase` and `awaiting_ack`; outside a session
there is at most one request or answer.

`Agreement` allows any edits on either side, drops, refused reports, failed writes and restarts: the
exceptions are not in its hypothesis but in `parted`, which the three steps set that lose an edit (see
section 3). Its invariant is `Together`: each report, each acknowledgement and each push of a poll on its
way carries what the node runs (`Carried`), or an edit after it is marked (`NewerEdit`: a bump to come,
the watch channel unseen, or `dirty`), which is why `report.dirty` may only be cleared as the code does
it; `Copies` ties the file to the running config, for the restart. `UneditedFollows` rests on the
opposite fact, `WebsiteAlone`: the node never has anything to tell, and both its copies are contents the
website minted under their version.

### ConfigApply_proofs

- `TypeCorrect`, `Settles` (`SettledWhenFree`), `ListensOnFile` (`ListensUndisturbed`), `OneAtATime`
  (`OneWorker`): the invariants of run `apply`; `Announces` (`EditsAnnounced`), proved only;
- `ImplementsStore`: `Spec => AtomicChanges`, that the writers implement `ConfigStore`.

The invariant follows the holder of `config_write`. `LockGood` ties the lock to the places of
`apply_config`; `Placed` says, for each place of the holder, which of file, listener and running
config have already changed, and `WorkersPlaced` which thread may be alive. All of it is claimed only
while no handler was dropped after its write began (`disturbed`); in particular `stray = {}` then, so
that a file has one writer (`OneWriter`). `VersionsCarried` is what lets a push or an acknowledgement be applied
under the lock with a version received before it: only the sync task moves the version up, so while it
waits for the lock the running version stays below the push's and not above the acknowledgement's; and
an edit under way carries the running version, or none without a block. The refinement maps the write to `Change` (the
config in effect is read from the file between write and swap), `LockToRecord` to `Record`,
`WriteRecord` to `Save` or a stutter, a restart to `Reload`, everything else to a stutter; a step after
which `disturbed` holds is excepted.

### SelfUpdate_proofs

- `TypeCorrect`; `SwapIsSafe`: each of the two files is absent or a whole build that preflight let in,
  and one of them is there (`NeverTorn`), also where an old build does not load the config;
- `OnlyCheckedBuilds` (`InstallsWhatWasChecked`), `OnlyOfficialUnattended` (`UnattendedOnlyOfficial`),
  `BackupSpared` (`BackupDiffers`): the action properties of run `update_channel`;
- `InstalledLoads` (`PathLoads`), `AlwaysRecoverable` (`Recoverable`), `NoCrashLoop`
  (`DownOnlyMidSwap`): its other invariants, under `LegacyLoads`.

`LegacyLoads` says that builds too old to be asked load this config. It is the premise the fallback of
`preflight` rests on and not one the code establishes, so it is a hypothesis of the theorems that speak
of loading and of no other. The inductive invariant does without it: it speaks of what preflight
admits (`Admitted`), which is what loads under `LegacyLoads` (`AdmittedLoads`). `FilesGood` makes it
inductive against power cuts: each directory state in `durable`, not only the one seen now, has a
whole, admitted file at one of the two names. `StepGood` carries what each gate of the pass has
found out (the build asked for differs from the installed one; the download is that build and loads;
the pass was asked for or runs over an official build) to the rename that relies on it.

### UploadPipeline_proofs

- `TypeCorrect`, `NoneLost` (`Accounted`), `DeliversInOrder` (`InOrder`), `StampsCorrect` (`Stamped`),
  `KeepsNewest` (`StoreKeepsNewest`): every invariant of run `pipeline`, without a hypothesis.

`InOrder` does not see what is on its way, so `Ordered` chains every hop: what the website has is not
younger than the queue (at most, because a POST whose answer is lost leaves its measurement on both
sides), the queue older than the broadcast channel, that older than the worker's channel, that
older than the window open now. `PipeStamped` says that each measurement in the channel follows the
`started` of its own window, which is why the one `period_start` the bridge keeps is the right one.
`OneGeneration` says that the channel carries the events of one worker, its info first; from it follows
that the gain stamped on a measurement is never older than the worker that made it.

`StoreKeepsNewest` speaks of what the bridge has had of this process (`Bridged`), delivered or not.
`PushKeeps` says that a push into the ring drops something only when the ring is full, and then the
oldest; `Made`, that what waits in the worker's channel was measured by this process too, so that
whatever the bridge takes from there may go into the store.

### PageFeed_proofs

- `TypeCorrect`; `MeasurementArrives`: `Spec => []MeasurementShown`, the half of `NothingInTheGap` that
  is about the measurement, without a hypothesis;
- `NothingLost`: `EditsApart /\ Spec => []NothingInTheGap`;
- `WorkKept`: `TypingWaits /\ Spec => UnsavedKept`.

`EditsApart` keeps apart a boot fetch, a page's own saves, and edits by others; `TypingWaits` leaves out
typing during a save. `NothingInTheGap` speaks of the moment at which nothing is on its way. `Flows` is
its inductive form: at every moment, what is held of a topic is the last of its kind along receiver,
snapshot, socket and screen, unless its broadcast is still to come or the receiver was too slow for
it. Subscribing before the snapshot is read is what starts it.

### SpectrumWindow_proofs

- `TypeCorrect`; `FramesCut` (`FramesAreTheWindow`); `MeasuresRight` (`MeasuresItsWindow`);
  `RowsInOrder` (`RowIsLatest`): every invariant of run `window`, for every FFT size, ring, set of
  passbands and chunk sizes, without a hypothesis.

`Accumulates` says what the analyzer's sums, maxima and counters are of the frames heard so far, while
a window is open; `MeasuresRight` follows because `finalize` divides out what `Accumulates` put in.
It rests on lemmas about `Passband`: the bins of the signal lie in the spectrum (`SignalBinsFit`), those
of the noise are clear of it and its guards (`NoiseBinsApart`), the median of equal values is that
value (`MedianOfSame`). `Latest` says which sample stands in each cell of the waterfall's ring, from
which a row sent is the newest samples in their order, wherever `pos` has wrapped.

The library's induction theorems take an operator as a parameter, which no installed prover can
instantiate. The module does without them: the intervals `1..k` of a set of numbers are finite sets,
strict inclusion among finite sets is well-founded (a fact of the library without such a parameter),
so a set of numbers has a least element (`Least`); hence induction on a set (`Induction`), hence that
a sum over a finite set exists and does not depend on the order it is taken in (`SumOf`,
`SumOneMore`), and what `DrawnAll` draws of the samples of a read.

### ConfigFile_proofs

- `TypeCorrect`; `FileLoads` (`FileIsRunning`); `ComesBackUnchanged` (`ComesBack`); `AcceptedFits`
  (`BandFits`); `PushesHold`: `Spec => PushTakesHold`. They speak of `ConfigFile`'s `Spec`, of which
  run `config` checks an instance beside `YamlText`.

Assumed is what serde and the line format guarantee of the inputs (`InputsAssumption`): the bodies and
pushes are records of their types, a line somebody wrote has a number, a flag or a text on it
(`Written`), a text without a line break is whole; that the words the code itself uses are texts
without one or blanks to trim (`TextsAssumption`); and that a listed mode written bare reads back as itself
(`BareAssumption`). Nothing else is assumed of what a body says, its mode included.

The inductive invariant says that the running config is `Sound` (of its type, valid, free of line
breaks), that the file loads as a sound config, and that this is the running one or, while `unsaved`,
the running one under another version (`Lags`). `FileIsRunning` alone is not inductive: after a
failed record the next version is written from memory, and only a config without line breaks comes
back from that file.

It rests on the round trip, `ComesBackAs`: the file of a config parses just when no text in it has a
line break, and reads as that config just when it is valid. A document is described by the set of its
top-level lines and the set of the lines under each block (`Doc`); one lemma for each function of
`YamlWriter` says what it adds to them, and that the block a nested line stands under is the one opened
last. What `from_yaml_str` reads follows from these sets. `Builds` brings `build_yaml_from_update` to
such a file: of a body with a listed mode, the running config and a version it makes `Merged`, which is
then compared with what the API showed (`ViewBack`), what the form makes of it (`FormBack`, which is
`Tidied`) or the website sent (`PushedTakesHold`). Of any other mode only this is known: it was written as
some lines (`BuildsWith`, `WrittenFile`). The blocks at the end of such a file are read as they were
written, whatever the mode made of the lines before them, if the file parses at all (`TailBack`), since
a second line for a key is refused; so a push is recorded under its version and leaves the node's own
fields alone with any mode, and a config it loads is sound (`LoadedSound`). `AcceptedFits` needs bounds on `Rounded` (`RoundedIs`) and holds for every even
`FFT_SIZE`: rounding adds at most a bin at either end, and two fifths of a spectrum leave a noise bin.

### YamlText_proofs

- `TextsComeBack`: `Typing => []QuotedComesBack`, for texts of any length (run `config` checks it up to
  `MaxText` characters; its text is typed as `Typing` says, before the first edit).

Writer and reader are folds and a flattening of the library, that is, recursive functions chosen by
`CHOOSE`. `FoldExists` and `FlattenExists` show by induction (`Counting`) that such functions exist, so
that the chosen ones obey their equations; then `StripRuns` and `UnescapeRuns` turn a fold into a run, a
state after each character. `Reads` is the invariant of those runs: the set `after` of the places
behind an escaping backslash, and what `unquote` has put together up to each place. `QuotedReads` shows
by induction on the text that what `write_quoted` puts between the quotes can be read so. It has two
consequences. Each quote inside stands behind such a backslash, so `strip_comment` is inside quotes
until the last one and cuts nothing (`StripKeeps`). And a line that a line break cuts off cannot end in
a quote that closes it: that quote was the text's own, so the backslash before it is left without a
character to escape, which `unquote` refuses (`ReadsCut`).

### Checked by TLC only

The six liveness properties (`EventuallyInStep`, `EventuallyServed`, `EventuallyMeasuring`,
`EventuallyShown`, `EventuallyDelivered`, `EventuallyCurrent`), as fairness and ENABLED are beyond the
provers installed.

## 5. Not modelled

Signal processing proper (FFT, Hann window, decibels: floating point, out of TLC's reach); device
set-up and the raw level in `worker.rs`; time formatting and error texts; the page's drawing, device
list and update section; static assets, the device enumeration and the read-only GET handlers of
`server.rs`; the installer, `sdr_diag`, build scripts and the build jobs of the workflows, which keep no
state of a running node.

## 6. Plan

Done: the systems above, with their runs, and theorems for every safety property of the passing runs.

Left for extensions of the models: the token a queued measurement is sent with; a config that changes
between preflight and exec (`SelfUpdate` composed with `ConfigApply`); the retry delays of `update.rs` and
`uploader.rs`.
