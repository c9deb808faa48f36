# Veracage: models, checks and proofs

Veracage opens VeraCrypt and LUKS containers for sandboxed apps. Its promise
about state is short: a container is decrypted only while a session is up, one
session exists at a time, and everything is closed again however the session
ends, whoever is killed. Keeping that promise takes a root helper in several
concurrent runs, a session leader, a nested compositor, an unprivileged broker,
a cleanup started by systemd and a suspend hook. They share no memory. They
coordinate through one flock, a handful of files and short-lived sockets.

This directory holds TLA+ models of that coordination, the TLC configurations
that check them on small instances, and TLAPS proofs for all instances.
Paths are relative to the repository root; `veracage/` is `src/veracage/`.

## 1. The system

### Components

| Component | Where | State it keeps | Operations |
|---|---|---|---|
| Root helper, shared session | `helper-rs/src/main.rs`, `crypt.rs` | session lock (header, one line per device), leader pidfile, dm devices, mounts, the flock | `session` (bootstrap or add-volume), teardown |
| Root helper, close-volume | same | a line of the lock, its volume's mount and device | check holders, park for an answer, umount, close, unlist |
| Root helper, spawn-compositor | same | compositor pidfile, Wayland socket | remove the stale socket, spawn |
| Crash cleanup | `veracage/cleanup.py` | none; edits lock, pidfile and devices | `cleanup_session`, from the unit's `ExecStopPost` |
| Suspend hook | `veracage/sleep_hook.py` | none | end or kill each leader, then clean up |
| Session leader | `veracage/leader.py`, `wayland.py` | its apps, `comp_seen`, the published `.apps` file, `closeapps.done` | serve loop: launch, close, close-apps, reap, publish |
| Broker | `agent-rs/src/broker.rs` | running attempts, dismounts, dialogs, the last nonce read | drain the command log, run helpers, ask the human |
| Compositor, quit gate and scan | `compositor-rs/src/winit.rs`, `toolbar.rs`, `state.rs` | `closing`, `leaders`, `clearing_apps`, dismount queue, idle timer | discovery scan, quit in two stages, close-apps |
| Compositor, clipboard bridge | `hostclip.rs`, `clipboard.rs`, `clipio.rs` | clipboard, auto-clear deadline, worker thread | copy in/out, clear on exit |
| Compositor, rendering | `winit.rs`, `toolbar.rs` | dirty flags, the toolbar's pending output, damage records, cursor | a frame when something changed |
| Compositor, Wayland handlers and input | `handlers/`, `grabs/`, `input.rs`, `shortcuts.rs` | windows, grabs, focus, pressed buttons and keys | answers to client requests, routing of events |
| Command line | `veracage/cli.py` | none | bring up the compositor, start the unit, wait |
| Configuration | `config.py`, `configure.py`, `apps.py`, `agent-rs/src/config.rs` | one TOML file and its published copy | load, save, publish |
| Sandbox command line | `veracage/sandbox.py` | none | bind the workspace, `--die-with-parent` |
| idmapped mounts, host socket | `idmap.rs`, `ipc.rs` | none | straight-line system calls |
| Agent dialogs | `agent-rs/src/ui_*.rs`, `detect.rs`, `theme.rs` | none shared | display |

### How they interact

* **The flock** serialises everything that edits the session lock or opens or
  closes a device: `session`, `close-volume`, the teardown, the cleanup. A
  child inherits the descriptor, so the lock outlives its parent. The cleanup
  alone stops waiting for it after a time.
* **The session lock file** is the only record of what is decrypted. It is
  written before the open and edited after the close. A bootstrap carries over
  what a crashed session could not close.
* **The leader pidfile** says which session a later run joins. The process
  id is checked against its start time, and a zombie still passes.
* **The leader's `.apps` file and socket** tell the compositor a session is
  there and take its `close` and `close-apps` lines.
* **The compositor's pidfile and Wayland socket** tell the leader the window
  is there.
* **`closeapps` and `closeapps.done`** carry one message each, from the broker
  to the compositor and from the leader to the broker. Their modification
  times are the messages.
* **`cmd.log`** carries the compositor's menu verbs to the broker, one line
  each, with the time as a nonce. The compositor empties it when it starts.
* **`open.req`** carries "open another volume" from a second launch to the
  broker that holds the lock on `broker.pid`.
* **`config.toml` and its published parts** carry the settings from the
  dialogs, the broker and the command line it runs to the compositor, which scans
  them. Broker and dialogs share one reader of the file; the command line has its
  own.
* **The host's data-control protocol** carries the clipboard, over a display
  the worker thread borrows from the event loop.
* **The helper's stdin and stdout** carry `holders` lines to the broker and
  `go`, or end of file, back.

### Where it is hard, and what has to be right

| Component | Hard behaviour | Properties |
|---|---|---|
| Shared session | runs started from the menu and from a shell interleave; a parent, a leader or both are killed at any point; the teardown of an old session runs beside a new one; a close fails after its umount | every device has a line, one session, the live session owns the lock, no device left open, teardown touches only its own |
| close-volume | a root process waits for a human while it holds the flock | it always ends, and never delays a teardown |
| Dismount conversation | file timestamps as messages, two attempts at once, a quit in the middle | one stop of the apps per consent, no lost wakeup |
| Quit | both sides poll, both may be killed, scans are old | the window outlives the volumes; a quit ends; the session ends after its window |
| Suspend hook | two deadlines against a leader that stops its apps, an open in flight | nothing decrypted in the devices it listed, when it reports success |
| Leader's serve loop | `launch.req` overwritten, early exits of apps | no app lost, none counted twice |
| Broker | a loop that blocks on a human, batches, restarts of either side, two launches at once | each verb served once and in order, none lost, the broker ends after its window |
| Clipboard bridge | an unbounded host call against a deadline, late events of an older source | cleared in time and on exit, exit bounded, no display freed under the worker |
| Rendering | a frame fails halfway, the toolbar paints behind the damage tracker's back | no click and no texture lost, what changed is shown |
| Input routing | toolbar, smithay and human track one pointer | nothing stays pressed or grabbed; focus is the human's |
| Configuration | several writers of the whole file, a broker that publishes while it changes | the compositor converges; a Save keeps the rest |

`PROJECT.json` lists the hazards one by one, each at its line, with the
properties that would catch it.

## 2. The modules

```
DeviceLedger            the promise: every decrypted device is recorded
   ^ refined by
Session                 helper runs, leader, cleanup: lock, pidfile, devices
   ^ SessionInv         its inductive invariant
   ^ SessionProofs      theorems
   ^ MCSession          TLC instance

Dismount                broker, helper, compositor and leader on one dismount
   ^ DismountProofs, MCDismount

Quit                    compositor and leader: the end of a window and a session
   ^ QuitProofs, MCQuit

HostClip                event loop, clipboard worker and host
   ^ HostClipProofs, MCHostClip
Frame                   the render loop and its failures     ^ FrameProofs, MCFrame
Shell                   input routing, grabs, focus, stacking   ^ ShellProofs, MCShell
Settings                one file, two readers: dialogs, broker, command line, compositor
   ^ SettingsProofs, MCSettings
Broker                  launches, command log, opens, exit
   ^ BrokerProofs, MCBroker
```

The first three models overlap where their processes do. Each keeps in detail
what the others summarise. Session has the files and devices, with apps reduced
to "something binds the session's volumes". Dismount has the conversation inside
one session, with the teardown in one step. Quit has the compositor and the
`.apps` file, with the lock reduced to there or not. The other five take one
component each, with its neighbours as its environment: Broker sees a window
that comes and goes and opens that end somehow or never, Settings sees broker
and command line only as publishers.

### Session

One element of `Helper` is one run of the root helper with the unit around it:
its parent process, its forked child, and the `cleanup_session` that follows.
A run's id also names its device and, when it bootstraps, its session.

| State | In the code |
|---|---|
| `flock` | the processes that hold a descriptor of the locked file (`flock_exclusive`, inherited through `fork`) |
| `lock` | the session lock: `there`, its generation (the parent pid of the header), its device lines |
| `pidfile` | the leader pidfile |
| `dm`, `mounted` | the decrypted devices and the mounted volumes |
| `pc`, `child`, `cl` | the program counters of parent, child and cleanup |
| `ses`, `src`, `tgt`, `snap` | the session a run belongs to, its container, the volume it closes, the lines a cleanup read |

Actions follow the functions: `BecomeBootstrap`, `Recover`, `CreateLock`,
`ForkLeader`, `WritePidfile`, `Reap`, `Ours`/`NotOurs`, `TeardownClose`,
`TeardownFiles` for `run_session_bootstrap`; `JoinSession`, `AddRefused`,
`AddAppend`, `AddFork`, `AddDone`, `AddFailed` for `run_session_add`; `Enter`,
`CryptOpen`, `Mount`, `ExecLeader` for the children; `CloseJoin` to `CloseExit`
for `run_close_volume`; `CleanupNoLock` to `CleanupUnlink` for
`cleanup_session`. One atomic step is what happens between two points at which
another process can see or change shared state. The removal of a stale lock and
the creation of its successor are two steps, because a kill fits between them.

Abstractions, all named at their definitions:

* A run starts in the step that grants it the flock. What it does before that
  (parsing, reading the request) changes nothing shared.
* A close with its retries is one step. A released device is closed, one that a
  live namespace or app pins is not, and one whose namespace is being torn down
  may go either way in a teardown; the longer retries of a cleanup outlast that.
* `KillPhases` bounds where a parent may be SIGKILLed, `Outwaits` says which
  waits for the flock may time out. The code only ever outwaits it in the
  cleanup; `"cleanup"`, `"parent"` and `"child"` name who holds the flock while
  it does.
* Failures of `fork` and of writing the pidfile are folded into the kill of the
  parent. Stale control sockets and mount directories are left out: they hold
  no state anyone reads.

### Dismount

`Attempt` are the dismounts the human asks for, over the volumes and apps of
one session. The module follows one attempt through four processes: the broker (`talk`,
`stamp`, `answer`), the root helper (`helper`), the compositor (`request`,
`clearing`) and the leader (`pokes`, `done`). `Scan` is the compositor's
discovery scan, `CloseApps` the leader's `close-apps`, `Check` and the
`Parked…` actions are `run_close_volume` around its wait.

Timestamps are counters: `done` counts the stamps of `closeapps.done`, and
`stamp[a]` is its value when attempt `a` began to wait, as `asked_at` is in
`broker.rs`. The broker blocked in the file picker or the passphrase prompt is
`broker = "modal"`. The leader stops its apps in one step, which the code
spreads over up to eight seconds during which it serves nothing else; the apps
are `dying` until the kernel is done with them.

### Quit

The compositor's `closing` with its exit (`comp`), what its last scan saw
(`listed`, `verdict`), and the session seen from outside (`leader`, `file`,
`lock`, `open`). `BeginQuit` and `Scan` are the quit gate; a scan reads the
directory, resends `close` and decides. The lock directory can always be read
(section 4). `verdict` is the probe of a dead
leader's socket and may be one scan old, as in the code. `LeaderStarts`,
`LeaderSees`, `LeaderNotices` are the startup check and `comp_seen` of
`run_leader`.

The compositor ends by its own decision (`closed`), by SIGTERM or SIGINT, which
stop the event loop without asking the gate, or by a crash, which leaves the
socket file. `CrashPhases` and `SignalPhases` say in which phase of the session
the latter two may happen.

### HostClip

Three parties: the event loop (`main`, `clip`, `volumes`, `published`,
`applied`, the drain threads `pullers`), the worker (`pc` and the fields of its
`State`) with its channel `cmds`, and the host (`sel`, `prim`) with the two
ordered streams `toHost` and `fromHost`. `HandleCmd` is `handle_cmd`; `ClearPushed`,
`ReadPrimary`, `CarryOut` and `Flushed` are `clear_pushed` around its two round trips;
`Exit` to `Abandon` are the end of `main`. `RoundTrip` says when a round trip
returns: everything under way has been seen, or the connection is lost.

A text is named by the Copy out it came from. Reading a pipe is one step with an
outcome. The host may hang, be lost, or have no data-control protocol
(`Faults`); hung or lost, it stays so. A scan falls between the last volume's end and
the next open, because an open takes longer than a scan interval, as the code
relies on too.

### Frame

The screen has two regions: the scene, whose changes smithay's damage tracker
sees in its elements, and the strip, which egui paints and reports by a commit
counter (`toolbarChanged`). `RenderFails`, `SubmitFails` and `Rendered` are the
three ways through the `Redraw` arm of `init_winit`, from one beginning
(`Begin`). `pending` is the toolbar's output not yet painted, with the texture
updates as numbers, so that one lost or swapped is seen. The tracker (`tracked`,
`frames`, `last`, `Damage`, `Recorded`) is smithay's and external; it is
modelled as far as the damage of two regions goes.

### Shell

`Motion`, `Press` and `Release` are the pointer arms of `process_input_event`,
each with the question to the toolbar first, unless a grab is active. Three views of one
pointer are kept: the human's (`ptr`, `held`), egui's (`overStrip`, `menu`) and
smithay's (`location`, `pressed`). `grab` has the five kinds the code starts or
smithay does: click, move, resize, drag and drop, popup. The screen is cut into
five kinds of spots: strip, backdrop, where all windows overlap, where only one
is. `kept` is history: the buttons whose release the toolbar kept to itself while
no grab was on. The clients' requests are as `handlers/xdg_shell.rs` answers
them; a client does not destroy its window or open a popup in the middle of its own drag.

### Settings

`file`, `state` (fine, malformed, one value mistyped, missing, unreadable) and
`mtime` are `config.toml`. A dialog is its copy of the whole configuration,
`loaded_ok` and what it still has to publish; `Kinds` says which groups of settings each dialog
shows and which it publishes by itself. `BrokerNotices`, `BrokerLoads`,
`BrokerPublishes`, `BrokerDone` are the loop's look at the modification time
and `publish_apps` step by step. A `command` is one run of `veracage _up` or
`_sync-apps`, which the broker starts after each change and does not wait for. Two
such runs may overlap, and `overtaken` records that somebody published from an older
file after a newer one. `Scan` is what the compositor takes over.

The two readers differ. `Load` and `LoadedOk` are the Rust one, which gives the
whole file up for one wrong type and publishes the theme as it is. `CommandLoad` is
the Python one, which skips what it cannot use and publishes the theme `Resolved`:
light or dark. The compositor understands these two only (`Found`), so with
"Follow the Host" it is the run of the command line that reaches it.

Of the values this is told apart: 0 (light), 1 (dark), `AsHost` for a theme left
to the Host, `Unset` for a line that is missing or says nothing acceptable, and
`None` for a part that was never published. No write falls between the
publications that follow a Save (`MayWrite`): they take microseconds.

### Broker

One record per launch of `veracage-agent`. `Claim`, `HandOver`, `NoteBacklog`,
`Raise` are its start; `Reap`, `Retry`, `Drain`, `Request`, `Decide` one turn of
`run_broker`, in that order; `modal` is the picker or the prompt it blocks in.
`log` is `cmd.log`, as a set of lines: the code sorts what it reads by nonce, so
the order in the file decides nothing. `Drain` takes the oldest line of what a
turn read (`batch`), one per step, as each may block. `seen` is the nonce of the
last line served, `served` what was dispatched since the beginning, by whichever
broker. The helper's work is reduced to opens that end well, with a wrong
passphrase or with an error.

A line is appended in one write, and the code's nonce is the wall clock: the model
takes it to be strictly increasing. See section 4 for what follows when it is not.

## 3. What TLC checks

`CHECK_DEADLOCK FALSE` everywhere: every model may really stop, when all runs are
over, all attempts done, or the window closed for good.

| Run | Question | Bounds | Result |
|---|---|---|---|
| `safety` | Do three overlapping runs keep every device recorded, one session, and nothing open in the end? | 3 helpers, 2 containers, kills in `recover`, `serve`, `close`, `addWait`; 1.8 million states | `TypeOK`, `Tracked`, `LiveSessionOwnsLock`, `OneSession`, `LeaderFindable`, `OneDevicePerSource`, `NothingLeftDecrypted`, `LedgerSpec` hold |
| `drains` | Is everything of a dead session closed in the end, and does a late teardown spare its successor, even when cleanups ignore the flock? | 2 helpers, 2 containers, kills in `recover`, `close`, `addWait`, all waits may run out, fair; 0.1 million states | `DeadSessionDrains`, `TeardownOnlyOwn` hold |
| `talks` | Does the dismount conversation neither overreach nor hang? | 2 attempts, 2 volumes, 1 app, fair; 0.4 million states | `TypeOK`, `OneStopPerConsent`, `SignalUnderway`, `NoHelperForgotten`, `TeardownProceeds`, `NoLostWakeup` hold |
| `window_exit` | Does the window outlive the volumes and the session end after it? | 3 sessions in a row, fair | `TypeOK`, `NeverVanishes`, `QuitEnds`, `SessionFollowsWindow` hold |
| `clipboard` | Is a text copied out taken away in time and at exit, and does the exit end? | 2 Copy outs, 1 drain thread, 1 command piled up by the human, host hung, lost or bare, fair; 0.23 million states | `TypeOK`, `CountsDown`, `ExitIsClean`, `NoCarryOver`, `CopyCleared`, `ExitEnds` hold |
| `frames` | Is everything shown that changed, whatever fails? | 1 texture update, 1 whole frame after a resize, ages 0 to 2, all failures, fair; 48 thousand states | `TypeOK`, `NoDeltaLost`, `ClickActed`, `ChangeShown`, `CursorReturns` hold |
| `shell` | Does a grab or a key end when the human lets go, and does focus stay? | 2 windows, 2 buttons, 1 key; 0.5 million states | `TypeOK`, `NothingStuck`, `FocusKept` hold |
| `settings` | Does the compositor end up with what the file says, and a Save keep the rest? | 2 dialogs, 2 groups of settings, 2 writes, 2 runs of the command line, a dark Host, a malformed, mistyped or unreadable file, fair; 1.3 million states | `TypeOK`, `Converges`, `SaveKeepsRest` hold |
| `broker` | Is each verb served once, in order and in the end, and does the broker stay after its window only for a child that runs? | 2 launches, 2 windows, 2 clicks, 1 passphrase, fair; 0.18 million states | `ServedInOrder`, `EachServed`, `EndsAfterWindow` hold |
| `twice` | Is one container never decrypted twice? | as `safety`, no kills | `NeverDecryptedTwice` **violated** |
| `stray` | Are apps stopped only while a dismount waits for it? | as `talks`, no fairness | `StoppedOnlyForADismount` **violated** |
| `orphan` | Does the session end after a window that crashed during the password prompt? | 1 session, fair | `SessionFollowsWindow` **violated** |

**Why the bounds are enough.** Every race of the session is between at most a
superseded run, its successor and a third that joins or cleans up, hence three
helpers. Two containers let a duplicate and a distinct open both happen.
Helpers are symmetric and so are containers, and the safety runs use both symmetries.
The liveness runs use none. For a dismount, two attempts make every coalescing of
requests, latches and pokes possible; one app goes through all its phases while both
attempts run, and it binds each volume or not. The quit's verdict and lists are
at most one session old, so a third session only confirms the second.

The clipboard needs a second Copy out for a `Cancelled` of the first one to come
late; a third could only replace again. One texture update is enough to lose one
or to upload it twice, and one whole frame stands for the code's four, which
differ only in number. Two windows let one be pressed, raised or focused over
the other. Two buttons let one be released while the other holds a grab or after
its own is over. Two dialogs of different kinds, one of which publishes by
itself and one of which leaves it to the broker, and two writes let a write fall
before, within and after a publication, and two runs of the command line
overtake each other. Two launches race for the lock or come one after the other,
and two verbs make a batch, a backlog, or one of each window.

**Fairness.** Weak fairness of the steps a process takes by itself: a blocked
`flock` is granted in the end, a poll loop polls, a signalled process dies, the
kernel releases a namespace without processes. In Session, Dismount and Quit
nothing obliges the human to answer, an app to close, a dialog to end or anyone
to open a volume. Dismount's two deadlines are unfair, so no liveness property holds merely because a timer
ran out. `NoHelperForgotten` names what then may keep a root helper parked, a
dialog the broker is blocked in, its own unanswered question, apps that take
their time, and says that nothing else does.
`DeadSessionDrains` says as its premise that every cleanup waits for the flock.
It also assumes that the root parent of a session survives its
leader: killed alone while the leader lives on (phase `serve`), it leaves a
unit cleanup that finds a live leader, does nothing, and does not come back.
Whether stopping the unit also reaches that leader, which runs under another
uid, is decided by systemd and not by this code. With `serve` among the
`KillPhases` the run reports exactly that behaviour, and
`NothingLeftDecrypted` states the same premise in its formula.
HostClip's worker, scan and timers run, and the host carries out requests unless
it has failed; the deadline is strongly fair, because the loop looks at it
whenever it has drained the channel. `CopyCleared` has a premise besides: Paste in
is not pressed, for ever, faster than the worker answers. In Frame a frame that was
asked for is drawn, and, strongly fair, works if it is asked for again and
again; no input, commit or scan is fair, so nothing is shown because something
else came along. In Settings the broker, the scan, a run of the command line and a
dialog that was saved go on, nobody has to save.
In Broker the human answers a picker and a prompt in the end, but
never has to close Settings, Help or an error, and no open or dismount has to end:
`veracage open` lasts as long as its session, which `orphan` shows to outlive a
window, and an authentication may stay unanswered. `EndsAfterWindow` therefore
speaks of a broker that has none of these left to wait for.
In Quit the human and the apps owe nothing either; the leader's and the
compositor's loops, the teardown and the end of a started open are fair.

## 4. What is disagreed about

Three runs violate what the repository says of itself. `PROJECT.json` quotes the
sentence and the line of each.

1. **`twice`** Only add-volume consults the duplicate guard; a bootstrap opens a
   container whose device it has just carried over.
2. **`stray`** `clearing_apps` outlives the dismount that set it: after the
   broker gave up, the next time no window is on screen the session's apps are
   stopped with no dismount waiting.
3. **`orphan`** A compositor that ended while a session was being opened, and
   left its socket file, is never noticed by the leader.

### Where the properties stop

The properties above are as strong as the code lets them be. These are the
places where a stronger one fails, found by running it or while modelling; no
run carries them.

*Session.*
* A cleanup that outwaits the flock against an add-volume's child removes the
  lock, and the device opened afterwards is recorded nowhere
  (`NothingLeftDecrypted` fails with `Outwaits = {"child"}`).
* A bootstrap killed between removing a stale lock and writing the new one loses
  the carried lines (`Tracked` fails with `"create"` in `KillPhases`).
* A parent killed between the fork and the pidfile leaves a leader nobody can find
  (`LeaderFindable` fails with `"pidfile"`).
* With the parent killed while its leader lives (`"serve"`), nobody closes the
  devices when that leader ends later (section 3, fairness).
* Holders are counted before the umount. An app started in between leaves the
  volume unmounted and decrypted; the comment at `main.rs:1038` says so.

*Dismount.*
* A helper parked behind a broker that is blocked in the picker or the passphrase
  prompt, and one whose apps sit at a quitting compositor's prompt, are released by
  nothing but a deadline. `NoHelperForgotten` excuses them (`Excused`).

*Quit.*
* A `/run/veracage` that cannot be read counts as "nothing left"
  (`toolbar.rs:867-870`; the comment above it says so), and the quit would close the
  window over a volume. `NeverVanishes` assumes that it can be read.
* Devices a crash left, between the removal of one lock and the creation of the
  next, are outside this model; Session has them.

*Clipboard.*
* `OpenVolume` needs a scan between the last volume's end and the next open. That is a
  matter of time in the code, not a check. With no scan in between, a text pasted
  in for one volume is still there for the next (`NoCarryOver` fails).
* A text copied on the host between the worker's last round trip and its
  `set_selection(None)` is cleared with ours.
* Two Copy outs whose apps are slow may reach the host in the other order.

*Rendering.*
* A banner past `NOTICE_TTL` stays until something else asks for a frame.
* A frame lost in the swap is asked for again, but the tracker has recorded it
  and finds no damage, so its content waits for the next change of that region. That is
  the exception `ChangeShown` makes.
* A `bind` that fails for good is retried without a pause.

*Input.*
* With two buttons a grab can outlive both. A popup's grab is ended by a press of
  the first button outside it, or a window's drag by a release of the first while
  the second is down too. No grab is on then, so the toolbar is asked, and
  one of its menus or the strip keeps the release that comes next. Smithay counts that
  button as down until it is clicked again, and the click grab of the other, later
  pressed and released, lasts as long. The comments at `input.rs:103-106` and
  `137-139`, that smithay hears of a release, speak of the time during a grab, and
  that is what `NothingStuck` says: `kept` holds only buttons whose release came
  with no grab on.
* A popup's grab moves the keyboard without a click. `FocusKept` allows it.
* The wheel is not asked of the toolbar: over the strip it scrolls the app that
  smithay's pointer was last over.

*Settings.*
* Two dialogs of different kinds each save everything: the later Save reverts the
  earlier one (the comment at `broker.rs:365` describes just that; the guard under it
  is about one dialog of each kind). `SaveKeepsRest` therefore
  speaks of a file not written since the dialog opened.
* An unreadable file counts as missing (`config.rs:265-268`), so `loaded_ok` stays
  true and a Save replaces it by defaults plus one change, against the comments
  at `config.rs:203` and `273-277`. The run's `Broken` has `"unreadable"`;
  `SaveKeepsRest` excepts it in its formula. A byte that is not UTF-8 is
  unreadable in this sense. It also ends the command line with an exception
  that `config.py:515-516` does not catch, so that it publishes nothing; the model
  has the errors it does catch.
* A theme line that is missing means light to the Rust reader (`config.rs:155-157`) and
  the Host to the Python one (`config.py:570`). A Save of any dialog writes the
  first, and the window follows the Host no longer. `KeepsRest` excepts it.
* The broker publishes "system" as it is, also when it starts, after `_up` has
  published the resolved theme; `docs/single-window-ux.md:116` says that it is
  published resolved. The compositor does not understand it and keeps what it had.
  Only a later change of the file brings the resolved one back, which is why `Converges`
  speaks of a file that was written since (`mtime > 0`).
* Two runs of `_sync-apps` are not serialised. The one that read the older file may
  publish last, and its settings stay until the next change; `Converges` excepts
  it (`overtaken`).
* `log_dir` is known to the Python reader only, so a Save of any dialog drops it,
  against `config.rs:1-3`. The model has no setting of one reader.
* A keyboard name of the Host that the compositor finds implausible
  is not taken over (`scan_keyboard`); the model's are plausible.
* `configure`'s refused Save closes its dialog without a word.

*Broker.*
* The nonce is the wall clock. Set back, it makes the broker drop verbs until it
  has caught up, which the comment at `broker.rs:123` calls impossible.
* An `open.req` written between a launch's claim and its first look, or to a broker
  that has decided to exit, is lost. `EachServed` is about the log only.
* While a picker or a prompt is up nothing is served, and both outlive the window.
* An open whose session goes on, a dismount, an error dialog or an unanswered
  authentication keeps the broker after its window, and with it the lock on
  `broker.pid`. `EndsAfterWindow` excepts these (`Waits`).

## 5. What is proved

All proofs are checked by `tlapm` with Z3, Zenon and, for the last temporal
step, LS4.

**Session (`SessionProofs`).** `TypeCorrect` needs no assumption beyond
`SessionAssumption`, nor does `TeardownTakesOwn` (below). The others hold for
every number of runs and containers under

    Patient == Outwaits = {} /\ KillPhases \cap {"create", "pidfile"} = {}

that is: nobody goes on without the flock, and no parent is killed in the two
places where its session exists only in its memory. Both conjuncts are needed,
and no more than them: without them, exactly two steps of the induction fail,
`CleanupWithoutFlock` and `KillParent`. The counterexamples appear when those
constants are set in the `safety` configuration (section 4). Parents may be
killed in every other phase, leaders and children anywhere.

`Tracked` and its companions are not inductive. `IInv`, which TLC finds to hold
in the `safety` configuration when it is listed there, adds, in layers:

* *Discipline*: the flock is held exactly in the phases that should hold it, and
  one run at a time acts under it (parent and child count as one, since they
  share the descriptor).
* *Ownership*: whose session the lock and the pidfile name. Whoever replaces a
  lock has seen that no session is live, and none can come up while it holds
  the flock.
* *Recording*: a child that may open a device has its line; lines are dropped
  only for closed devices.
* *Guarded*: an add-volume that passed the duplicate guard still would, until its
  device is open. Its negation for bootstraps is `twice`.
* *Accounted*: a lock belongs to a bootstrap whose teardown and cleanup are not
  both over, which is what makes `NothingLeftDecrypted` true at the end.

`Inductive` has one lemma per group of actions. From it follow `DevicesTracked`,
`LiveOwnsLock`, `NeverTwoSessions`, `LeaderFound`, `NoDoubleOpen`, `AllClosed`
and `LedgerImplemented`: Session implements DeviceLedger under the mapping that
counts as recorded the lines of the lock and, while a bootstrap rewrites the
file, those it carries.

`TeardownTakesOwn` does without `Patient`: a late teardown touches nothing of a
successor even when cleanups go on without the flock and parents are killed in
any phase. `IInv` is no help there, so it has an invariant of its own, `OwnFiles`:
one parent at a time is past its flock, and one that tears down has seen
its leader end and its own generation in the lock, which only a cleanup can have
removed since. TLC finds it to hold with all kill phases and all impatience.

**Dismount (`DismountProofs`).** `StopsNeedConsent`: the stops of the apps made
(`done`), poked for, latched and requested never exceed the human's answers.
The invariant adds that an attempt not yet answered has no stamp, so an answer
always adds one to the right-hand side. `SignalNeverDropped` is the other side, and
the safety half of `NoLostWakeup`: while compositor and leader run, what an agreed
dismount waits for has been stamped, or is a request, a latch or a poke. For a
new stamp to differ from the one noted, the noted one must not be later
than the file's (`Stamped`), which is why the code notes it before it
asks. `HelpersTakeTurns`: two helpers are never both between their first look
at the holders and their end.

**Quit (`QuitProofs`).** `WindowOutlivesVolumes`: the compositor never closes
its window by its own decision over a decrypted volume. The invariant is that
the lock covers the device from before the open until after the close; hence a
scan that finds no lock finds no device, however old its list of sessions is.

**HostClip (`HostClipProofs`).** No theorem assumes anything but
`HostClipAssumption`: any number of copies, of commands in the channel, of drain
threads, any faults of the host. The four safety properties follow from one
invariant, `Inv`, which TLC finds to hold in the `clipboard` configuration when it
is listed there. It has these layers:

* *Types*, with the channel and the two streams as sequences, and the cap on the
  drain threads as a cardinality.
* *Tokens*: a copied text is in one place at a time. It is with its drain thread,
  in a store command, in a set request, on the clipboard, or in a `Cancelled`
  event, and in each stream at most once.
* *Worked*: what the worker knows in each phase of its clear. It owns the
  clipboard exactly while it has a source; a text it owns is pushed, and a text
  pushed is armed unless the policy is off.
* *Traced*: the source is the text that the last set request under way carries
  or, when no request about the clipboard is under way, the one on the clipboard.
* *Scanned*: a text of volumes that are gone is kept only until the next scan.

*Traced* is the heart, and *Tokens* is what keeps it. A `Cancelled` event may be
arbitrarily late. It disowns the source it names; because a text is in one place
only, that is never the text of the clipboard nor one on its way there.
`NothingForgotten` then reads off *Traced* and *Worked*, `CleanExit` too:
when the worker has ended it owns nothing, so what the clipboard holds is foreign
or about to be replaced. The lemmas before them say what appending to and taking
from a stream does to the texts in it (`ArgsAppend`, `ArgsTail`, `FinalAppend`,
`FinalTail`); they are used by every layer.

**Broker (`BrokerProofs`).** `ServedOnceInOrder`: each verb of each window is
dispatched at most once and in the order of the clicks, whoever reads the log
and wherever a broker dies. The invariant is about the place in the log: what was
dispatched, by whichever broker, is older than every line of the batch and every
line newer than `seen` (`ReadInv`); and only the holder of the lock on
`broker.pid` has a place that counts (`OwnerInv`, which is `OneBroker` too). A
broker that starts steps over the newest line, so the proof has to know that
there is a newest one, and `Drain` that there is an oldest; both are set minima,
and `Least` gets them from the well-foundedness of the naturals.

**Frame (`FrameProofs`).** `DeltasKept`: for any number of texture updates and any
sequence of undrawn, failed or lost frames. `NoDeltaLost` is inductive as soon as
the two queues are known to be sequences; what has to be seen is that a frame
that paints and one that does not agree on uploaded and waiting together
(`FrameKeeps`), and that an update that joins the waiting ones keeps the order
(`QueueGrows`). `FrameTypes` is the type invariant.

**Shell (`ShellProofs`).** All theorems hold for any windows, buttons and keys.
For `NothingStaysStuck` the invariant adds that a drag has a button down as
smithay sees it, that a button down for smithay is down or `kept`, and that the
seat holds no key while the host has the keyboard focus elsewhere. `KeysReleased`
is the half about keys. `FocusNotStolen` is an action
property: no window takes the keyboard by appearing, by asking for something or
because another one went. `ShellTypes` needs that the stack lists a window at
most once, which raising and removing must preserve (`RaisedOnce`,
`WithoutOnce`).

**Settings (`SettingsProofs`).** `SettingsTypes` and `SavesKeepTheRest` assume
nothing but `SettingsAssumption`; a file that cannot be read is excepted in the
property itself, and only there. The invariant (`Faithful`) is that an open
dialog that may save has exactly what the file says until some write moves the
modification time on; it holds because `load` gives up saving when a line does
not parse.

### Only model-checked

Every invariant and action property of a passing run is a theorem, some under the
the assumption `Patient`. What is left to TLC
alone:

* Liveness (`DeadSessionDrains`, `NoHelperForgotten`, `TeardownProceeds`,
  `NoLostWakeup`, `QuitEnds`, `SessionFollowsWindow`, `CopyCleared`, `ExitEnds`,
  `ClickActed`, `ChangeShown`, `CursorReturns`, `Converges`, `EachServed`,
  `EndsAfterWindow`): `ENABLED` and fairness are out of the prover's reach.
* The violated properties, of course.

Also out of reach: facts about what a recursive definition computes for every
input. The modules have none.

## 6. What is not modelled

* The cryptography, `cryptsetup`, mounts, idmapping and namespaces are what the
  helper relies on. The models only know open, closed, mounted, pinned.
* Process ids do not wrap and start times tell processes apart, as the code
  assumes when it compares both.
* Geometry: positions, sizes, clamps, decorations, the layout of the toolbar;
  what is drawn rather than when. Wording of dialogs, logs and errors; command lines.
* The compositor's wheel and key bindings, the idle dismount (its flag stays set
  when a volume is opened later in the same idle episode, `winit.rs:458`), and
  the broker's status note.
* The components that section 1 lists and section 2 has no module for. They are
  the plan.

## 7. Plan

1. `Session`, `Dismount`, `Quit` with their proofs, `HostClip`, `Frame`,
   `Shell`, `Settings`, `Broker`: done.
2. A theorem for every safety property the runs check: done. What remains is
   abstract specifications beside DeviceLedger, of the log reader that Broker
   implements first.
3. `SleepHook`: the hook's snapshot and its two deadlines against Session's
   lock and leader, an open in flight; "what it reports closed is closed".
4. `LeaderLoop`: control socket, `launch.req`, reaping of early exits,
   publication; refines the leader as Dismount and Quit see it.
5. `Spawn`: two bring-ups of one compositor. The idle dismount, as the second
   writer of the command log.
6. `LockFile`: pure operators (`parse_session_lock`, `sanitize_label`,
   `workspace_path_in`, `fsck_ok`) against reference definitions over bounded
   inputs.
