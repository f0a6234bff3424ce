# Gateway manager: specifications, model checking and proofs

The gateway manager is one Go process that serves a web UI over HTTPS on a
Torizon device: it edits network interfaces, joins Wi-Fi networks, drives GPIO
lines, controls containers, configures updates, edits files and opens terminals.
The modules here specify the parts of it whose correctness depends on
interleavings, failures, time and the order of what is read. TLC checks them on
small instances, TLAPS proves the main safety properties for every instance.

## Inventory

One `http.Server` runs every request on a goroutine of its own. Handlers share
one `Server` and its services; what they share is listed as state. "Hard" names
what tests hardly reach, "correct" what has to hold.

| Component | State | Operations | Hard | Correct |
|---|---|---|---|---|
| Network editing: `network/edit.go`, `httpserver/network_edit.go` | NetworkManager's profiles, active connections and checkpoints; the pending map (`pendMu`, in memory) | apply, confirm, cancel; NetworkManager's timer | a call fails or its reply is lost half way; racing applies and answers; timer against deadline; a restart forgets the map | only what an operator confirmed stays; every change ends; the audit table is true |
| Wi-Fi: `network/wifi.go`, `handlers_wifi.go` | NetworkManager's profiles and active connections | list, connect, disconnect, forget | a connect or forget inside a pending edit; the connect scans anew and looks for another name than was posted | an edit stays with the profile its checkpoint guards; a connect treats a network as its scan lists it |
| Write probe: `network/write.go` | a checkpoint of all devices without a timer | create, destroy, from a separate process | a crash between the two | edits meanwhile are refused |
| Accounts, sessions, gate: `auth/`, `store/`, `auth_handlers.go`, `security.go` | SQLite tables users, sessions, audit; cookies | set-up, login, logout, `requireAuth`, lazy expiry | check and insert are separate statements; a session ends while a request works; a statement fails; restarts | sessions are earned; ended ones stay ended; set-up closes; rows name who acted |
| GPIO: `gpio/gpio.go`, `handlers_gpio.go` | kernel line handles; maps `held` and `lastRead` (`mu`) | page, read, set, release | reads outside the lock; kernel and map are two sources; other processes; restart | the map is the truth about outputs; no stale value is shown; rows are consistent |
| Terminal: `terminal/`, `handlers_terminal.go` | SSH session, pipe, WebSocket | dial, copy both ways, resize, close | which side closes first | both ends end; output is not cut off |
| Containers: `containers/` | Docker's containers; own id | start, stop, restart; list | client timeout against Docker's grace period; what mountinfo and the host's name say | the gateway does not stop itself; every action is on record |
| Container logs: `containers/logs.go` | the line begun | follow | frames cut lines, of two sources in turn | lines are sent as they were written |
| Start and shutdown: `cmd/gateway-manager` | listener, signal context | boot, serve, shut down | handlers and streams that are still there | shutdown ends, and after the handlers |
| TLS bootstrap: `httpserver/tls.go` | two PEM files | create on first boot | crash between or inside the writes | a pair that was served stays; boots heal |
| Live metrics: `httpserver/server.go`, `sysinfo/` | previous samples, per stream | tick every second | counters that wrap, go back or cannot be read; numbers a float cannot hold | a tick tells what was counted since the last; percentages are such |
| Files: `files/`, `handlers_files.go` | the host's file system | view, save, upload, delete, list | two savers; size limit after truncation; crash inside a write; a read that fails unnoticed | a file at rest is what the last operation meant; an untouched save keeps the file |
| Updates: `updates/` | configuration fragments on disk, aktualizr | polling interval, check, offline update | written and not restarted; two writes of different length overlap | aktualizr runs what is on file |
| Cloud status: `cloud/` | none; compares two runs of aktualizr-info | get | aktualizr works, or is restarted, between the runs; a run fails and is trusted | the verdict was true of some instant |
| System information: `sysinfo/`, `hal/` | none | reads of /proc, /sys, netlink | tables in any order, cut off, with doubles | pages show what is there |
| System logs: `logs/`, `handlers_logs.go` | the process of journalctl | stream, close | two goroutines close the same reader | journalctl ends with its stream |
| Network inventory, configuration, pages | none that outlives a request | reads | - | - |
| Audit log: `store/store.go` | table audit | `AddAudit`, called by every handler, error ignored | crash or failure between the deed and its row | a row never tells what did not happen |

The parts interact through NetworkManager (edits, Wi-Fi and the probe share its
profiles and checkpoints), through files (the explorer and the updates page
write the same fragment), through the store (every handler is behind the gate
and writes audit rows) and through the process itself: a crash or restart loses
all maps and handlers at once and leaves tables, checkpoints and files.

Every hazard is listed at its line in `PROJECT.json`, with the properties that
cover it or the reason why none does.

## Modules

| Module | Content |
|---|---|
| `NetworkManager` | The part of NetworkManager the gateway drives: profiles, active connections, checkpoints with timers. |
| `NetworkEdit` | `ApplyIPv4`, `Confirm`, `Rollback` and the apply, confirm and cancel handlers, one action per D-Bus call, map access or audit row. |
| `ConfirmOrRevert` | Abstract: a device leaves its good state only inside a trial, and a trial ends by consent or by reverting. |
| `NetworkEditInductive`, `NetworkEditRefinement` | The inductive invariants `FateInv` and `GuardInv`; the refinement mapping from `NetworkEdit` to `ConfirmOrRevert`. |
| `NetworkEditProofs` | Proofs of `FateInv`, of `GuardInv` with their consequences, and of the refinement. |
| `WiFi` | The Wi-Fi page and the write probe, composed with `NetworkEdit`. |
| `AccessPoints` | What the list and `matchAP` make of a scan. |
| `WiFiInductive`, `WiFiProofs` | The inductive invariants `WiFiInv` and `JoinInv` and their proofs. |
| `Accounts` | Set-up, login, gate, protected handlers, logout; one action per SQL statement. |
| `AccountsInductive`, `AccountsProofs` | The inductive invariants `AccountsInv` and `EndedInv` and their proofs. |
| `GpioLines` | `Chips`, `LineState`, `ReadLine`, `SetLine`, `ReleaseLine` and their handlers, the kernel, other processes. |
| `GpioInductive`, `GpioProofs` | The inductive invariant `GpioInv` and its proof. |
| `TerminalBridge`, `TerminalProofs` | One web terminal: the handler, the output goroutine, the copier of the ssh library, the goroutine that waits for the shell; the inductive invariant `BridgeInv` and its proof. |
| `Containers` | Container actions: detection of the own id, the guard, the HTTP client, the engine, the audit row. |
| `Gateway` | `main` from the TLS files to the end of `Shutdown`, composed with `Containers` and event streams. |
| `GatewayProofs` | Proofs about actions in the life of the process, the TLS files, and what streams carry. |
| `Streams` | What a log stream and a metrics stream carry. |
| `Journal` | One stream of the system log: three goroutines and journalctl. |
| `Readers`, `ReadersProofs` | What pages make of routes, mounts, trip points, media and netlink attributes; the proof that it is right for tables of any length. |
| `Files` | View, edit, save, upload and delete, one action per system call that changes a file. |
| `Updates` | The polling interval: its write is one of `Files`, then systemd and aktualizr; what the page and aktualizr read in the fragments. |
| `Cloud` | `Get`, `parseInfo`, `parseDirectorTargets` and the comparison, while aktualizr works or is restarted. |
| `UpdatesInductive`, `UpdatesProofs` | The inductive invariant `UpdatesInv` and its proof, and the proofs about the cloud page. |
| `MC...` | The modules TLC runs: constants, symmetry sets and the composition of parts that share no state. |

Each component has wrong variants next to its actions (`ConfirmUnchecked`,
`OpenInPlace`, ...): they are used by no specification and show, put in the
place of the action they vary, that a property can fail.

### NetworkEdit

`req[r].pc` is the point an apply has reached: `begun` (profile looked up),
`created` (checkpoint made), `updated` (profile rewritten), `applied`
(activated), `registered` (token in the map), `shown` (page sent), or `undo`,
`failing`, `failed` on the error path. `answer[a]` is a confirm or cancel:
`taken` (`takePending` succeeded), `record` (NetworkManager called), `done`.
Each D-Bus call either takes effect and returns, takes effect and loses its
reply, or fails without effect. `Crash` empties the pending map and kills the
handlers; NetworkManager, the audit table and the browsers' tokens survive.

`deadline` is the server's 120 seconds, which start at `Register`, and
`checkpoint[r].left` NetworkManager's, which start at `Create`; both are counted
in ticks of one clock. `confirmed` is a history variable: the setting of each
device that an operator last kept (the one at start, until then).

Assumed of NetworkManager: it refuses a checkpoint for a device that is in one;
a rollback restores the device's active profile and that profile's settings;
timers fire before the clock goes on; it does not restart.

`SlowBus` chooses whether the two calls after `CheckpointCreate` may outlast
the 120 seconds. `FALSE` is the normal device and what the runs use; the proofs
say which theorems need it.

### WiFi

`WiFi` extends `NetworkEdit`: `EditStep` is a step of an edit with what it means
for profiles that come and go (no checkpoint while the probe holds one; nothing
works on a deleted profile; a rollback stores a deleted profile again). `click[q]`
is a request of the Wi-Fi page between its look-up and its D-Bus call.
`AutoConnect` is NetworkManager on its own. `kept` is history, the IPv4 section
each profile should have at rest, and `loose` the profiles an apply rewrites
whose checkpoint guards another profile. `hold` is the probe's checkpoint; a probe
that dies simply never takes `ProbeDestroy`.

`Trim` is `strings.TrimSpace` on the names of networks. `Connect` and `Forget`
work with the posted name without its blanks, as their handlers do. `Connect`
draws a scan of its own, in which `matchAP` looks for the trimmed name; the scan a
page was rendered from decides nothing in the code and is not kept. `seen` is
what `WiFiNetworks` lists for the posted name in the scan of the connect, `exact`
whether the name had no blanks to lose: `JoinAsListed` compares the two rules for
such names, and `SecurityFromScan`, which says nothing about names, is refuted.

### Accounts

A session id is named by the request whose login made it, a password stands for
its hash. `session[s].left` is the time to `expires_at`. `late` holds the
requests begun after what they ask for was settled (a set-up when an account
exists; a cookie whose session is over), `over` the sessions whose row a logout
has deleted, `admitted` the requests the gate let through. `StoreFails` chooses
whether statements of the store may fail. Left out: the CSRF cookie, hashing,
checks on the wording of names and passwords (`CheckSetup` may refuse for them).

### GpioLines

`owner[l]` is the kernel's view: free, `Ours` (a handle in `held`), a request
that has it open as an input, or `Other`. `mu` is the request that keeps
`Service.mu` locked over several steps; only `Chips` does, every other critical
section is one action with the guard `mu = None`. `LineState` and `Chips` are
two steps for each line: the ioctl, then the maps. An error of an ioctl is an
alternative of its step. `driven` is a history of the levels set.

### TerminalBridge

Each of the four goroutines has a variable that says where it is. A chunk of
output goes from the ssh channel (`printed - copied`) through the copier, which
waits in `put` until the output goroutine reads (an `io.Pipe` has no buffer), to
the WebSocket (`sent`). `peer` is the browser. `refused` records that a key found
the shell gone: the handler then ends at once and may cut off output. Assumed of
the ssh library: what is in the channel can be read after the shell exited, and
`Wait` returns when the copier has ended. Left out: audit rows, resizing, a kill
of the gateway (the kernel closes both connections and nothing persists).

### Containers and Gateway

`req[r]` is a handler, `job[r]` what the engine does for it; they part when the
client gives up (`GiveUp`), and the job goes on. Ids and names are sequences,
`Id[c]` and `NameOf[c]`; `Ref` holds what requests name a container by: parts of
ids, the short ones the pages post (`shortID`) among them, and names. `Named` is
how the engine finds a container: a whole id, else a name, else the beginning of
one id. `Mountinfo` is what `/proc/self` may say and `Hostname` what `os.Hostname`
may return, which is the host's name under the shipped `network_mode: host`; from
these `detectSelfID` takes `selfHost`. Time is counted in ticks of five seconds:
the client waits `ActionTimeout`, the engine `Grace`, `Shutdown` `Drain`. `Tick`
waits for whoever has no time left.

`proc` is where `main` is: making the pair (`cert`, `certopen`, `key`,
`keyopen`), `listen`, `serve`, `drain`, `down`. A PEM file is absent, half
written, or of a pair in `Pair`. `Bring` is an operator who replaces or removes
files. `served`, `torn` and `touched` are history. Streams only have a life here;
what they carry is in `Streams`. Handlers that `Crash` or `Exit` finds are
`dead`. Assumed: an audit row, written to a local file, does not take five
seconds (`TimeMayPass`), and no handler of an action is blocked in a write to a browser
that does not read. Container actions are the only handlers with a life of their
own here: an upload, or a D-Bus call that hangs, could outlast `Drain` as well.
Left out: hijacked terminal connections, which `Shutdown` does not wait for.

### Streams

A log's frames carry payloads over `Byte` and `Feed`. The code does not look at
which source a frame is of and keeps one buffer, `line`, for both, so a log is
here the payloads in the order they came. `emitted` is what was sent; `received`
and `dropped` (the begun line when a log ends inside a frame) are history.

The metrics take `/proc/stat` as three counters and received bytes modulo `W`.
`NetCounters` gives the counter, or 0 when it cannot be read; `Minus64` is the
unsigned difference and `float64` its conversion, exact up to `Exact` and
truncated to multiples of `Ulp` beyond. `tick.cpu` is in tenths of a percent,
exactly as `round1` gives it, `tick.rx` the rate times the time it is about. With
each tick go `grown`, what the interface counted since the tick before, `amiss`,
that its counter started again or was not read, and `back`, that `iowait` went
back. `CounterAssumption` bounds what is counted (`Limit`) well below the width,
because `round1` multiplies, and below `Exact`: an interface does not count 2^53
bytes from one tick to the next.

### Journal

`at[c]` is where the handler and the goroutine that closes the reader are in
`procReader.Close`, `watch` where the goroutine of `exec.CommandContext` is. Both
closers may be inside `exec.Cmd.Wait` at once, a data race in which the kernel lets
one of them reap the process and os/exec hands its one result to one of them:
the other stays in `result` for ever. `Gateway` has that as a stream that never
ends.

### Readers

Each action chooses what was read and applies the function to it, and
`PagesAreTrue` compares the result with a definition that does not follow the
code. A loop over lines is a function on `0..n`: its value at `k` is the state of
the loop behind line `k`, and one operator is a turn of it (`AddRoute`,
`TakeMount`, `AddFolder`, `TakeAttr`). `Insert` stands for the stable sort: a route
goes behind all that are not worse. `parseAttrs` works on bytes that `Encoded`
lays out as the kernel does, low byte first, cut off anywhere; a turn that can do
no more leaves the state alone, as the `break` does.

### Files and Updates

A file is a sequence of chunks, a write truncates (`Open`) and then fills from
offset 0 (`Write`), so that two writers can leave a mixture (`Overlay`) and a
crash an empty or short file; both are remembered in `torn`, and the properties
say what holds for all other files. A file that is removed while it is open goes
on without a name (`orphan`). `last` is what the last finished operation meant.

`Read(p, got)` is a view of which `f.Read` got `got` chunks: all that fit into the
buffer (`Fill`), or fewer, or none, when it failed, which the code does not look
at. The editor's page is `Shown`: HTML has one kind of line end in a text area
and drops one directly behind `<textarea>`; `Posted` is what a browser sends of
it. A truncated view gives a page that is `locked`: its text area and button are
disabled by the template, and nothing else keeps it from being saved. `orig` is
history: the file a text was made of, if it was read to its end and not changed.

`Updates` adds requests of kind `polling` that use the same steps on a fragment
and then ask systemd for a restart; `job` is systemd's queue, `ran` what
aktualizr runs with, `unapplied` that somebody changed a fragment without a
restart, or that a restart was lost. A fragment's body is the key, the digits of
the number and a line feed, a chunk each, so that bodies of different length can
mix; its first line, `[uptane]`, is the same in all and left out. `mergeToml`
reads the lines of one file and lets the last one of the key win, whatever its
value, and `Effective` is what `ReadConfig` makes of the files of
`/etc/sota/conf.d` in order, `ConfD`. aktualizr's own parser is external and
stricter: what both read alike is `WellFormed`, and of anything else aktualizr
may run what the page reads or not run at all (`Readings`). A number past 2^63,
for which `Atoi` gives the largest there is, is out of range like any other and
has no value of its own.

### Cloud

A release is a number and stands for its hash. `Block`, `Listed` and `Output` are
what aktualizr-info prints, line by line; `ParseLine` is what the loop of
`parseInfo` does with a line, and `parseInfo` all of it. aktualizr tells what the
primary runs only some time after it was started (`announced`; `Restart`,
`Announce`). A run that fails is trusted for what it printed: any number of lines
from the first, the last of them perhaps with its hash cut short (`Cut`). A target
may be for several ECUs, of which `parseDirectorTargets` finds one. `told` is
history: whether the two runs told `all` there is, a `part`, or a hash cut short,
`garbled`; `saw` the states the device was in since `Get` began. Assumed: targets
are never taken back for older ones. Left out: a hash of fewer than 16
characters, on which the template's `slice` fails.

## Runs

| Run | Shows | Bounds |
|---|---|---|
| `network_edit_safety` | `OnlyConfirmedSurvives`, `ExpiredMeansReverted`, `AuditTellsFate`, `GuardInv` | 2 devices, profiles, configurations, applies, answers; window 2; symmetry |
| `network_edit_live` | `TrialEnds`; implements `ConfirmOrRevert` | 1 device and profile, 2 configurations, applies, answers; window 1 |
| `wifi` | `EditStaysWithItsProfile`, `JoinAsListed`, `WiFiInv` | 1 station, 1 wired device, 3 profiles, 2 clicks, 1 apply, 1 answer; 2 names of networks, one with a blank at its end; all scans of up to 3 of 9 access points; symmetry |
| `wifi_edit_race` | finding: an edit outside its checkpoint | as `wifi`, the station alone |
| `wifi_blank_name` | finding: a secured network is joined as an open one | as `wifi`, the station alone, 1 click |
| `accounts_safety` | `SessionIsEarned`, `SetupCloses`, `AuditNamesHolder`, `EndedStaysEnded` | 3 requests, 2 names, 2 passwords, TTL 2, failing statements; symmetry |
| `accounts_one_admin` | finding: two administrators | 2 requests, 2 names |
| `gpio` | `HeldIsDriven`, `ReadIsForgotten`, `PageIsConsistent`, `AuditTellsLevel`, `Answered`, `GpioInv` | 2 lines, 2 requests |
| `gateway`, containers, files and shutdown | `OnlyStreamsFailShutdown`, `CleanExitHasRecords`, `ShutdownEnds`, `ServedPairStays`, `BootHealsFiles` | 2 containers, 2 requests, 1 stream, 2 pairs and the operator's |
| `gateway`, the guard | `GuardHolds` | 1 request at a time; mountinfo with the own id, with a layer first, or empty; host's name foreign, a part of the id, or empty; short and whole ids and the gateway's name |
| `gateway`, the terminal | `OutputComplete`, `BothEnd` | 5 chunks of output, 2 frames of keys on their way |
| `gateway`, what is read | `JournalctlIsReaped`, `LinesAreWhole`, `TicksAreTrue`, `PagesAreTrue` | 1 journal; logs of 6 bytes in frames of up to 3; 2 ticks; tables of up to 3 rows |
| `container_self_guard` | finding: the gateway stops itself | 1 request, the mountinfo of overlay2 |
| `device_files`, files | `AtRestIsLast`, `UntouchedSaveKeeps`, `PollingTakesEffect`, `UpdatesInv` | 4 paths, 2 of them fragments, 3 requests, caps of 3 chunks, intervals 4, 5 and 100; symmetry |
| `device_files`, the cloud | `VerdictWasTrue` | 2 ECUs, 2 releases |
| `polling_overlap` | finding: two intervals mixed in one fragment | as `device_files` |

What the runs show, in a sentence each, is in `PROJECT.json`.

Why the bounds are enough: a race takes two actors, so two applies, two answers
and two lines with two configurations meet every pair of steps; a third request
lets a session be made, ended and presented again, and a third file request
changes a file between the two of a pair. A window of 2 separates the server's
deadline from NetworkManager's timer by a tick. Every request runs once, so the
numbers of requests also bound the length of a behaviour, crashes included; a
crash may happen at any step and any number of times. In the terminal one chunk
can be at each place of the chain, with more before and after. A window of 1 in
the Wi-Fi runs lets the timer fire at any point of an edit; three profiles are the
two a device changes between and the one a connect makes. Of the name with a blank
a connect matters for what it makes of its scan, not for an edit: beside an edit a
connect only joins a network shown as open, by its own name (`OthersApart`); beside
another click it does everything.

`ActionTimeout` 1, `Grace` 2 and `Drain` 2 stand for 5, 10 and 10 seconds. Two
pairs and the operator's own are enough for a served pair, a new one and a
foreign one. Contents one chunk short of, at and past the caps meet every
comparison with a cap, and 5 and 100 are intervals whose digits differ in number,
4 one that is refused. Logs of up to six bytes hold a line cut by three frames and
one whose frame is never finished. The two containers' ids begin
alike, so that a prefix may name none, one or both.
The metrics start a byte before the wrap (`First`), with `W` = 65536 for 2^64 and
`Exact` = 1024 for 2^53; `TicksCorrect` holds for any two, as `LinesCorrect` and
`VerdictCorrect` do for any sizes. One page of the cloud is made after the other,
so two releases give a device that is behind, up to date, and behind again.

Bounds in guards: `LogLength` (bytes of a log), `Limit` (what counters add up
to), `Ticks` (ticks of one stream), `MaxOutput`, `MaxKeys`, `Newest` (releases);
the operator changes TLS files once (`touched`). `Apart` in `MCGateway` leaves out
states in which files were brought or torn *and* actions are under way: they have
no variable in common, and the proofs below do without it. Parts without common
state share a run: the variable `part` chooses at the start which of them moves
(`life`, `guard`, `journal`, `log`, `cpu`, `net`, `pages`, `terminal` in `MCGateway`,
`files` and `cloud` in `MCUpdates`). `life` and `guard` are both the life of the
process: in `life` the gateway knows its id and is asked for containers as its pages
do (`FromPages`); in `guard` it may take itself for anything and is asked by names
and whole ids as well, with one request at a time that is not idle, no stream open
and nobody bringing files (`OneRequest`). `cpu` and
`net` are the two kernel interfaces a tick reads: in one the received bytes stand
still (`OnlyStat`), in the other the processor (`OnlyBytes`); a tick's two numbers
do not depend on each other. In `MCUpdates`, beside a request that works through the
explorer at most one other does anything (`FewExplorers`; three may set the
interval), and the fragment that `SetPolling` writes is not there at the start.

Of the two lines of `gpio`, one is `calm`: other processes leave it alone,
only the gateway changes its level, and what is posted to it is what the page's own
buttons post (`Calm`). None of these bounds forbids a step that
fairness promises.

Deadlock is checked where the outside can always move, and in `gateway` a terminal
that is over may stay so. The runs `device_files`, `polling_overlap` and those whose
name begins with `wifi` do not check it: requests are finite there. The runs
without symmetry are those with liveness properties or with few equals.

### Fairness

`NetworkEdit` assumes weak fairness of the handlers that run (Go schedules
goroutines and D-Bus calls return or fail), of a timer that is due and of the
clock, never of an operator or a crash. `GpioLines` assumes strong fairness of
each request's steps, because a waiter competes for the mutex; Go's `sync.Mutex`
hands it to a waiter that has starved for a millisecond. `TerminalBridge` assumes
weak fairness of the four goroutines, so also that a browser that is there reads
and a running shell takes keys; nobody is assumed to leave or to exit. `Gateway`
assumes weak fairness of the clock and of the return of `Shutdown`, and of each
request's handler and engine job; browsers are not assumed to leave their streams,
which is why `ShutdownEnds` needs the timeout. `Journal` assumes weak fairness of
its three goroutines, not of the browser or of journalctl. `WiFi`, `Accounts`,
`Files`, `Updates`, `Cloud`, `Streams` and `Readers` state only safety and assume
none.

### What the code does otherwise than its comments say

With a run each:

1. Two overlapping set-ups create two administrators (`auth.go:43-62`; run
   `accounts_one_admin`).
2. When the device changes its profile between `ApplyIPv4`'s look-up and its
   checkpoint, the edited profile is outside the checkpoint and never reverted
   (`edit.go:68-79`; run `wifi_edit_race`).
3. With the overlay2 driver `detectSelfID` takes an image layer for the
   gateway's container, and the guard against stopping itself is open
   (`client.go:127-147`; run `container_self_guard`).
4. A network whose name begins or ends with a blank is looked up without it, not
   found, and joined as an open one, whatever the scan says, against
   `wifi.go:207` (`handlers_wifi.go:99`; run `wifi_blank_name`).
5. Two requests for an interval that overlap both succeed and can leave a mixture
   that aktualizr need not take, against `updates.go:150-151` (`updates.go:158`;
   run `polling_overlap`). What aktualizr does with it is up to its parser, which
   is not in the repository.

Seen in the code while modelling, not stated as properties:

- Network: an apply that is slower than its checkpoint changes the device with
  nothing left to revert it, against `edit.go:51-53`; a kept change can be
  without an audit row (`network_edit.go:133-137`).
- Wi-Fi: with two stations a profile under trial can move to the other one, and
  an edit there takes the setting on trial for the good one; when both are rolled
  back, the unconfirmed setting stays (`edit.go:76` guards a device, not a
  profile). `WiFiForget` removes the first of several profiles of a network
  (`wifi.go:278-289`), and a rollback stores a profile again that was forgotten
  meanwhile; for a name with a blank at its end it looks for the profile without
  it; a connect to a network that has left the scan adds an open profile and
  drops the password; `bandChannel` gives channel -3 for 5935 MHz
  (`wifi.go:412`).
- Sessions: a logout whose DELETE fails leaves the session valid
  (`auth_handlers.go:99`); there is no idle timeout (`store.go:145`), against
  ARCHITECTURE.md 9.
- GPIO: the row `LineState` answers with (`gpio.go:163-189`) can show a line as
  held by us and unused.
- Terminal: when the browser leaves with output on its way, the copier and the
  goroutine that should close the pipe block for ever (`terminal.go:85`, `:97`).
- Containers: the guard knows ids only; a request that names the gateway by its
  container's name, which the engine takes as well, passes it
  (`actions.go:15-20`), against `ARCHITECTURE.md:238`. Without an id in mountinfo
  the guard has the hostname, which on the host's network is not the container's.
  An action reported as failed after five seconds still happens.
- Start and shutdown: one open event stream makes every shutdown wait its ten
  seconds and exit with status 1 without closing the store (`main.go:79`,
  `:93-98`); a `key.pem` cut short makes every later boot fail (`tls.go:20`,
  `:28`).
- Journal: when the browser leaves, two goroutines close the reader and both call
  `Wait` of one command (`journal.go:118`, `handlers_logs.go:74`, `:80`); one of
  them may never return, and if that is the handler's, every later shutdown times
  out.
- Logs: when a payload is cut short the begun line before it is dropped with it
  (`logs.go:88-90`); stdout and stderr share one line buffer, so parts of their
  lines are glued together (`logs.go:91`), against `logs.go:62`.
- Metrics: an interface that starts again, or cannot be read for one tick, gives a
  tick with an absurd rate, and `iowait` that goes back one with a utilisation far
  below 0 (`server.go:372`), against `server.go:368`; `TicksAreTrue` leaves those
  ticks out.
- Files: overlapping saves can leave a mixture, and the later of two editors
  overwrites the earlier; an upload over the limit destroys the file of that
  name, which `AtRestIsLast` counts as meant, and when it cannot be removed stays
  there (`files.go:103`); CRLF becomes LF; the editor drops a line feed at the
  beginning of a text (`fileedit.html:16`); a file that cannot be read is offered
  as an empty or short text, which an untouched save makes of it
  (`files.go:253`); a text cut inside a character at 1 MiB is called
  binary; only the template disables the editing of a truncated file.
- Updates: after a restart that failed the page shows the interval on file, not
  the one that runs; `ConfigWritable` writes a file into `conf.d` on every page.
- Cloud: the page says "up-to-date" when there is nothing to compare: the
  director's targets cannot be read, the running version is not announced yet, a
  run of aktualizr-info failed half way, or a target is for several ECUs
    (`VerdictWasTrue` names these cases). The primary's badge changes in the window
  after a restart of aktualizr, because its installed hash is read from just the
  line it is meant to do without (`cloud.go:121`), against `cloud.go:118-120`.

## Proofs

The theorems hold for all values of the constants, under the named assumptions
on them (`...Assumption`, in the module that declares the constant). These say
what a value is (a window, a time to live, a cap or a number of releases is a
number; a file's contents, ids, names and payloads are sequences; `None` and
`Feed` are no ordinary value; the digits of an interval are those of its number;
the pages' short ids are among what requests name; trimming gives a name or
nothing; one container's id is no prefix of another's; interfaces have
names of their own; a netlink attribute fits into its two bytes of length), that the
client's timeout is shorter than `Shutdown`'s, and that counters stay well below
their width, and their growth from tick to tick below what a float64 tells
exactly. TLC evaluates each of them in a run.

- **Fate of a change** (`NetworkEditProofs`). `FateInv` is inductive: a token is
  in the map or in one handler's hands, never both (`TakenOnce`); what can still
  be answered has not been kept (`OpenNotKept`); a handler about to write a row
  knows the fate (`RecordTellsFate`); the server's deadline is never before the
  timer (`DeadlineAfterTimer`). `AuditTellsFate` and `ExpiredMeansReverted`
  follow, with no assumption about the bus.
- **Anti-lockout** (`NetworkEditProofs`), under `~SlowBus`. `GuardInv` adds that
  a live checkpoint guards one device with the last confirmed setting
  (`LiveGuards`), that a request works on the profile its device runs
  (`HoldingIsActive`) and that its checkpoint outlives its two calls
  (`ChangingIsGuarded`). Without the last part the theorem is false.
  `OnlyConfirmedSurvives` alone is not inductive: it says nothing of what a
  rollback will restore. Nor does it hold once Wi-Fi moves the device to another
  profile; what is left then is `EditStaysWithItsProfile`.
- **Refinement** (`NetworkEditProofs`), under `~SlowBus`. `RefinementCorrect`:
  every behaviour of `NetworkEdit` is, under the mapping of
  `NetworkEditRefinement`, one of `ConfirmOrRevert`. Initial states map to initial
  states; making a checkpoint maps to `Open`, the two calls that change the device
  to `Alter`, a confirm that takes its token to `Consent`, destroying a checkpoint
  to `Keep`, a rollback or timeout to `Revert`, everything else to a stutter.
  `GuardInv` supplies that the device is changed inside its trial, and that what a
  revert restores is the good state. That trials end (`TrialEnds`) needs fairness
  and is TLC's.
- **Wi-Fi** (`WiFiProofs`). `WiFiInv` says, with `FateInv`: a device has one live
  checkpoint at most (`LiveAlone`); a checkpoint guards the profile its request
  works on, unless that profile is `loose` (`GuardsOrLoose`); what it would
  restore is what the profile should have at rest (`SnapshotKept`); a profile that
  differs from that is guarded, and no other request keeps it
  (`EditedIsGuarded`); what a wired device runs is nobody else's (`WiredTied`,
  `IdleWired`), for clicks only move stations. `EditCorrect` follows under
  `OneStation` and `~SlowBus`. With two stations and two applies it is false, as
  TLC shows: see the notes on the code above. `WiFiTypeCorrect` and
  `JoinCorrect` need neither hypothesis. `JoinCorrect` rests on
  `ListAndConnectAgree`, by induction over the access points of a scan: for a
  name, the best point that the list shows and the one that `matchAP` picks are
  equally strong and have the same kind of security. For a name that loses blanks
  they are about two names, and the theorem says only that no join without a
  profile is on record.
- **GPIO** (`GpioProofs`). `GpioInv` adds to the properties that a request that
  reads a line owns it (`ReadingIsOwner`), which is why its write to `lastRead`
  cannot follow a set; that the mutex belongs to whoever lists the lines
  (`MutexIsListing`), which is why a set cannot come between the two looks of
  `Chips` (`EntryIsUsed`); and that what is about to be audited was done.
- **Accounts** (`AccountsProofs`), whether or not statements fail. `AccountsInv`
  says that whoever is about to get a session, has one or carries its cookie
  named the account and gave its password (`GrantIsEarned`, `RowIsMade`,
  `CookieIsEarned`, `CarryingTyped`), and that accounts stay (`LateIsClosed`).
  `EndedInv` adds that a session whose row was deleted is not valid
  (`EndedIsInvalid`), nor is the one a late request carries (`LateIsInvalid`).
- **Terminal** (`TerminalProofs`). `BridgeInv` accounts for every chunk: it is
  with the copier, with the output goroutine or sent (`ChunksAccountedFor`); the
  goroutines end one after the other, each when the one before it has
  (`EndsInOrder`); the handler leaves only when the browser has, the connection
  is closed or a key was refused (`LeavesForReason`). `OutputComplete` follows.
- **Actions and shutdown** (`GatewayProofs`). `LifeInv`: handlers at work have
  a process that serves or drains (`WorksServed`); what a handler has brought to
  the engine and finished is on record (`Recorded`); a client has less time
  left than `Shutdown` has (`DrainInTime`), from
  `ActionTimeout < Drain`. `OnlyStreamsFailShutdown` and the action property
  `CleanExitHasRecords` follow. `GuardCorrect` is about the guard as it is, over
  any ids, names, mounts and host's names: where what `detectSelfID` gave begins
  the gateway's id, no request that names it by a part of its id stops it. What is
  posted and what was detected are then beginnings of one id, and one of them
  begins the other (`PrefixesComparable`). That the premise fails with overlay2,
  is what the run `container_self_guard` shows; a name is no part of an id.
- **TLS files** (`GatewayProofs`). `FilesInv`: a pair is only made when none was
  served (`MakesNew`), and there is no key without its certificate unless a
  write of the key was cut short or the operator came (`KeyAfterCert`).
- **Log lines** (`GatewayProofs`, about `LogSpec`). `LogInv`: the lines sent, each
  with its line feed, and the begun one are what was received, and no line has a
  line feed in it; at the end of a log the begun line is sent or is exactly what
  is missing. That a frame keeps this is an induction over its bytes
  (`CutKeeps`). `LinesCorrect` holds for every alphabet, every set of payloads and
  logs of any length. It says nothing of the two sources, whose frames share a buffer.
- **Metrics** (`GatewayProofs`, about `MetricsSpec`). `MetricsInv`: the counter is
  ahead of the last sample by what was counted since, modulo `W`, unless the
  counter started again or the sample missed it; as long as `iowait` has not gone
  back, idle and busy time have only grown since the last sample. `TicksCorrect`
  follows with the arithmetic of differences modulo `W` (`ModPlus`, `GrownSince`),
  and because such a difference is below `Exact` and so is its own float64.
- **Files and updates** (`UpdatesProofs`, about `UpdatesSpec`: any contents at the
  start). A file that is open has its name (`WritersHaveFile`); one whose writes
  did not overlap has one writer at most and is empty until that one writes
  (`LoneWriter`). `RestCorrect` follows. `SaveCorrect` rests on what `Shown`,
  `Posted` and `Normal` do to a text one after the other (`PostedIsShown`), and
  on a view that was cut off being locked. `PollingCorrect`: whoever changes a
  fragment owes a restart or leaves `unapplied` (`FileOpPolls`), and what aktualizr
  reads when it starts is what the page reads, if every fragment is well-formed.
  `RangeCorrect`, from `CarriesBody`: a request that was let in carries the body of
  an interval in range until it is over, also when its file vanishes under it.
- **Cloud** (`UpdatesProofs`, about `CloudSpec`). `OutputParsed`: of a whole output
  `parseInfo` gets exactly the ECUs that were printed, by induction over the
  secondaries. `HonestParsed`: of any lines of it, it gets nothing but what they
  tell, a hash that is the ECU's or none; `CutTells` puts both together for a run
  that failed. `CloudInv`: aktualizr never goes back (`NeverBack`), and while `Get`
  compares what it read in two runs, what it has read was so since the page was
  begun (`Known`). A target that differs from such a hash is a newer one, so the
  device was behind at that instant; only "up-to-date" can be told for want of
  data. `VerdictCorrect` follows, for any number of secondaries and releases.
- **Readers** (`ReadersProofs`, about `ReadersSpec`). `PagesCorrect` is
  `PagesAreTrue` for tables of any length and contents. A page is a function of
  what was read, so the work is in one lemma for each reader: `Recursion` gives
  the loop of the code as a function, and an induction over the lines read so far
  says what the loop has. Routes are in order and each interface is named once,
  its best route first (`InsertKeepsOrder`, `SortedIsInOrder`, `NamesOnce`); of
  the mounts of a device the map has one, of all of it if there is one
  (`BestMounts`); boxes are listed once, through however many roots they are found
  (`Once`). `parseAttrs` is the longest: attributes lie in the buffer one behind
  the other (`BufferHolds`, `EndsGrow`), and after some turns the loop stands
  behind a number of attributes that are whole, with the last of each type found
  (`Reached`, `TurnReaches`); it stops for good only where the next one is cut.

Each proof has one step per action and under it one per group of conjuncts.
Inductions over a sequence or a number use the lemmas `UpTo` (`UpToN`) of the
modules, from the library's theorem that a non-empty set of numbers has a least
one; the functions of the models they are about are recursive functions, not
`RECURSIVE` operators. Where a run composes parts without common state
(`MCGateway`, `MCUpdates`) or has bounds of its own (`MCWiFi`, `MCGpioLines`), the
theorems are about each part's own specification, which leaves out the bounds of
the run.

Only model-checked: the liveness properties `TrialEnds`, `Answered`, `BothEnd`,
`ShutdownEnds` and `JournalctlIsReaped`, because TLAPS does not prove properties
under fairness. Every safety invariant, action property and refinement that a
passing run checks is stated by a theorem.

## Not modelled

- Network inventory, configuration, routing and the templates keep no state and
  only read or render; of the templates, the editor's text area is modelled.
- `CheckForUpdates`, `OfflineUpdate` and the D-Bus properties of `Status`: one call
  each, with an audit row, and nothing that depends on order.
- CSRF cookies, password hashing and the rules for names and passwords; the syntax
  rules of an IPv4 configuration; directories and symbolic links in the explorer.
- The badges of single ECUs on the cloud page.
- A log of a container with a terminal (`bufio.Scanner`), memory, temperature and
  load on the dashboard, bands and channels of access points, processes on the
  cloud page.
- The list of containers, which decodes what the engine answers, but for the short
  ids it posts.

## What could come next

1. A second Wi-Fi station: what an edit's checkpoint still promises when its
   profile moves to the other one.
2. The hazards no property covers (`PROJECT.json` says why), among them what
   a crash between a kept change and its audit row leaves behind.
3. Liveness of the write probe: a watchdog for a checkpoint without a timer does
   not exist in the code, so there is nothing to promise yet.
