# HESAR: formal models and proofs

HESAR is a reverse-tunnel server in Go with a web panel. An operator defines
tunnels, starts and stops them, watches logs and statistics, and changes the
panel's settings. An "iran" side listens for clients and dials the remote
server; an "overseas" side accepts those connections and dials a local service.

This directory holds TLA+ models of the concurrent and stateful parts, TLC
configurations that check them on small instances, and TLAPS proofs that hold
for every instance. All definitions are read off the code under `src/`;
`PROJECT.json` gives the file and the lines of every definition that models
code, the mutation of the model that each checked property detects, and the
hazards that the properties are about.

## Inventory

| Component | State | Operations | Talks to |
|---|---|---|---|
| Connection pool `tunnel/pool.go` | slot channel, session map, stopped flag | Run, Acquire, Release, CloseAll | called by the handlers' accept loops, workers, Stop |
| TCP, KCP handlers `tunnel/tcp.go`, `kcp.go` | context, listeners, pool | Start, Stop, accept loops, workers | pool, secure channel, proxy, statistics |
| QUIC handler `tunnel/quic.go` | context, shared client connection, server connections, pool | Start, Stop, getSharedConn, accept loops, streams | pool, proxy |
| Proxy `tunnel/helper.go` | per session: context, activity clock, two pumps, watcher | proxyWithTimeout, halfCloseWrite, ParsePorts | handlers, secure channel, QUIC streams |
| Secure channel `tunnel/crypto/crypto.go` | keys, two nonces, read buffer, locks | handshake, Read, Write, Close, CloseWrite | TCP, KCP handlers |
| Manager `tunnel/manager.go` | handler map, mutex | StartTunnel, StopTunnel, StopAll, auto-start | API handlers, main, config |
| Config store `config/config.go` | settings, tunnels, file | Load, saveLocked, Add/Update/Delete tunnel, status, settings, key rotation | API, manager, handlers, main |
| Sessions `api/auth.go` | signing key, blacklist, rate limiter | login, logout, middleware, sweeper | config |
| WebSocket tickets `api/ws_ticket.go` | ticket map | issue, consume, cleanup | log stream |
| Tunnel and settings API `api/handlers.go` | none of its own: several critical sections per request | save, delete, start, stop, config update, stats | config, manager, logger |
| Logger `system/logger.go` | ring buffer, subscribers, file | log, Subscribe, Unsubscribe, UpdateConfig, rotation | log stream, config update |
| Main and server `cmd/hesar/main.go`, `api/server.go` | the process | boot, auto-start, graceful shutdown | everything |
| Panel `frontend/src` | browser session, log socket | requests, reconnecting log socket | API |
| Installer `scripts/hesar.sh` | binary, backup, staging directory, unit | update and roll-back, offline and online install, removal | systemd, GitHub |
| Tester, system metrics | none, or the machine's | probes, metrics | outside world |

What is hard in this code, and what makes each part correct:

* **Pool and handlers.** A setup slot can be given back in three places, and
  Stop races with accepting, admitting, acquiring, dialling and handshaking.
  Correct: the channel counts exactly the workers in setup; a stopped pool has
  no open connection left behind and admits nobody; slots always come back
  although peers may say nothing.
* **QUIC.** Many workers share one connection that may be dead at one end only,
  and Stop overlaps dials and accepts. Correct: one live client connection at a
  time, none after Stop; the server side lists whatever it serves, within the cap.
* **Proxy.** Four goroutines and an AfterFunc share two connections. Correct: a
  session that ends cleanly delivered everything; the watcher cuts only a
  session that was idle; every goroutine is joined.
* **Secure channel.** Concurrent writers, deadlines in the middle of a frame, a
  Close during a Read. Correct: what is read is a prefix of what was written, no
  nonce is used twice, an error has a cause in the network or in a cut write.
* **Manager, store, API, process.** Each request runs several critical sections,
  saves fail, the process dies between two of them. Correct: what clients were
  told survives, the status shown is the status, no path keeps the mutex.
* **Sessions.** A password change rotates the signing key in a second step, and
  memory may be ahead of the file. Correct: an answered change ends the sessions
  of older passwords for good, also across restarts.
* **Settings of a tunnel.** What is saved, what is shown (keys are masked) and what
  is started are three different readings of one form. Correct: a port list binds
  the ports it names, once each; what a save accepts a start can use; an echoed
  mask never becomes a key.
* **Limiter.** The attempt is counted in one critical section and forgiven in
  another, after the password check. Correct: the limit is exact, nobody is
  refused for attempts that were refused or forgiven.
* **Log file.** Every call of a rotation can fail, also the removal of one backup and
  not of the next; the settings form moves the file; the process restarts. Correct:
  a line is lost only behind enough later backups, without errors only the oldest
  are; a switch succeeds as a whole or changes nothing.
* **Tickets, log stream, browser.** A socket that dies with its ticket on its way.
  Correct: one attempt at a time, a stream that is in order and complete unless
  it was full, nothing left when a page is left.
* **Installer.** Any command may fail, and the operator or the machine may stop
  it between two commands. Correct: the previous binary is never lost, what runs
  was verified, and what the script reports is true.

## Modules

`A -> B`: A uses B.

| Module | Models | State and actions |
|---|---|---|
| `ConnPool` | pool.go | `sem`, `sessions`, `stopped`, closed connections; `Admit`/`Refuse` (Run), `TakeSlot`, `Release`, `CloseAll` |
| `TunnelHandler` -> `ConnPool`, `SessionLimit` | tcp.go, kcp.go, both modes | one `pc` per worker goroutine, one loop per port, Start and Stop step by step. `AcquireExpires`, `AcquireGivesUp`, `AcquireBacksOut` are the three-way select of Acquire; `ArmAfterFunc`/`AfterFuncCloses` the guard of the second connection; `Unwind*` the deferred calls in their order |
| `SessionLimit` | abstract | sessions enter while open, at most `MaxSessions`; at most `Slots` in setup; after closing nobody enters |
| `ConfigStore` | config.go, tunnel list | `mem`, `disk`; every setter changes memory first and then saves, and the save may fail |
| `TunnelSettings` | helper.go, config.go, handlers.go | functions: `ParsePorts`, `ValidateTunnel`, the key masks, `StartRefuses`, `PortsToBind` |
| `TunnelLifecycle` -> `ConfigStore`, `TunnelSettings` | manager.go, handlers.go, main.go | one task per request goroutine and main, the manager's mutex, the handler map; boot, auto-start, shutdown, crash. A start binds the ports its stored form asks for |
| `PanelSessions` | auth.go, config.go, handlers.go | password and signing key in memory and in the file, one record per settings request, login and token, blacklist, sweeper, time |
| `LoginLimiter` | auth.go | buckets of ages, one task per login request, time |
| `LogFile` | logger.go | path, size and handle of the log (`target`, `limit`, `handle`), what a switch under way has saved of them (`old`) and what was last answered or warned (`reported`); the lines in the file and in each backup; `RotateAndCleanup` with its rename, removals one by one and reopening, `UpdateConfig` as `BeginSwitch` and then `SwitchOpens` or `SwitchFails`, `InitLogger` |
| `LoginLog` -> `LoginLimiter`, `LogFile` | both | a login request logs its answer before it sends it; a new process forgets the buckets and keeps the files |
| `LogHub` | logger.go | ring, subscribers, channels with a capacity |
| `LogStream` -> `LogHub` | ws_ticket.go, handlers.go, api.ts, Logs.tsx | tickets with age, both ends of each socket, reconnect timer, page left |
| `ByteProxy` | helper.go | two pumps, watcher, AfterFunc, main goroutine, half-close, two clocks |
| `QUICTunnel` | quic.go | Start with credentials derived from the key, workers over `dialMu`, links with two ends, accept loop, sessions, Stop of either side |
| `Handshake` | crypto.go | the two messages, verification, derived directions |
| `ByteStream` | abstract | units are sent, then written, then read in order; the end comes when all that was written is read |
| `SecureConn` -> `ByteStream` | crypto.go | writers under `writeMu`, frames (whole, cut after or inside the header) on a stream, the reader under `readMu`, leftovers, Close |
| `SecureLink` -> `Handshake`, `SecureConn` | both | the channel is used only from its end's handshake on |
| `Installer` | hesar.sh | the script's next command, the four files it writes, the artifact of an offline installation and whether a manifest lies beside it, the unit and what its process was started from |

`MC*` modules give the bounds of a run (symmetry where only safety is checked),
`*Proofs` modules the theorems. Definitions marked "Mutant" are plausible
mistakes: putting one in the place of the definition it stands beside breaks the
property named in `PROJECT.json`.

## Runs

All runs are exhaustive for their bounds.

| Run | Bounds | States | Shows |
|---|---|---|---|
| `handler_iran` | 3 connections, 2 ports, 1 slot, 2 sessions; KCP client | 45,266 | slots accounted, Stop reaches every connection, nothing left open, refinement of `SessionLimit` |
| `handler_overseas` | 2 connections, 2 ports, 1 slot; TCP server; fair | 22,778 | Stop drains, slots come back from silent peers |
| `lifecycle` | 2 tunnels on 1 port, 2 requests, a failed save, a crash; port lists of up to 3 parts, 13,824 forms, 17 keys as inputs of the functions; fair | 279,314 | status agrees, answers survive, auto-start recorded, operations end, ports are parsed, what is saved is usable |
| `shutdown_keeps_autostart` | 1 tunnel | violation | see Findings |
| `deleted_tunnel_runs` | 1 tunnel, 2 requests | violation | see Findings |
| `sessions` | 2 tokens, 2 settings requests, 1 login, 2 changes, a failed save, a crash | 911,674 | a password change ends sessions and survives, logout holds, what ended stays ended |
| `login_log` | 1 address, 2 requests, limit 2, window 2; 2 paths, sizes of 1 and 2 lines, 1 backup kept, 3 lines, 2 lines that meet errors, 2 boots | 2,407,148 | the limit is exact, only old lines are lost, a switch of the log is whole |
| `log_stream` | 2 sockets, 2 tickets, ring 2, slack 1, 5 messages; fair | 191,356 | one attempt, complete streams, order after a loss, cleanup at both ends |
| `proxy` | 2 chunks, buffer 1, timeout 2; TCP against KCP; fair | 1,577,164 | complete on a clean end, cut only when idle, sessions end |
| `quic` | 2 workers, 2 links, caps of 1, 1 network failure, keys that agree or not; fair | 598,346 | one shared connection, Stop of either side, entries of dead connections leave |
| `secure_conn` | 2 keys, 2 writers, 2 closers, 3 chunks; fair | 736,672 | keys agree, order, nonces, errors earned, Close returns, refinement of `ByteStream` |
| `installer` | 2 releases; runs, faults and reboots without a bound | 1,586,193 | the old binary is kept, installations are whole, reports are true |

Why the bounds suffice. One slot and two sessions make the third connection meet
both limits at once, and with two ports two loops race for them. Two requests and
main cover every pair of critical sections; no guard looks at three of them. Two
password changes give a current, a previous and an initial key, and the crash may
come between any two saves. A ring of two with a slack of one overflows with four
messages, and the fifth may follow the overflow. Three lines with a size of one
rotate often enough to prune two backups at once; two errors are what a gap takes
(a removal that fails, and then the later backup removed before the earlier one),
and each may also be of a write, a rename or a reopening; the second boot finds the
files of the first. Port lists of up to three parts hold
every overlap of two ranges and a third part that is blank, bad or too high; the
keys have the lengths on both sides of each threshold (0, 8, 32 and those of the
masks). The proxy's two chunks may both go one way or cross; a third would
repeat a loop whose state is the same. Two workers and two links give one dead
and one live connection, or one connection with two users; a third link would
need a second failure. Two writers interleave as any number do, since a third is
only another one outside the lock. The proofs remove the bounds for the safety
properties they name.

`CHECK_DEADLOCK FALSE` stands where the system may rightly come to rest: a
stopped handler, a closed connection, an ended session, a machine without HESAR.

**Fairness** is assumed only of what the code or its platform schedules:

* goroutines take their next local step, and one that waits for a mutex gets it
  in the end (strong fairness of the start steps of `TunnelLifecycle`: Go's
  mutexes do not starve);
* deadlines and timeouts pass: Acquire's ten seconds, the handshake's deadline,
  idle and dial timeouts; the clock of `ByteProxy`;
* a Stop that was called runs to its end. Nobody has to call Stop, start a login,
  send a byte or close a connection: no peer, browser user or operator is fair,
  except that a browser delivers the events and timers it owes to a page;
* a proxied session ends only once its context is done (`TunnelHandler`) or by
  its own clock (`ByteProxy`);
* `SecureLink`: a Read whose frame or end has arrived goes on, and a Close that
  was called does. The writers need no fairness.

## Proofs

TLAPS checks every theorem below for all values of the constants, under the
assumptions on constants that each module names; the theorems are in the
`*Proofs` modules. Every invariant and every action property of the passing runs
is one of them, and so are the two refinements. The assumptions say that a cap or
a window is positive, that a bound is a natural number, that identifiers are
distinct, that `Path` and `Address` are not empty, that a port list is a sequence
of parts, and that a submitted form names ports of `Port` and comes without a
status, as the panel's forms do ("posts only the editable fields, so Status arrives
empty", config.go:462-464). A save takes over a status that another client posts, and
then `StatusAgrees` would not hold: what is claimed is claimed of the panel's forms.

* **TunnelHandler.** `IInv` conjoins the type invariant with `Stages` (what each
  program counter implies about slot, second connection and registration) and the
  invariants `SlotsAccounted`, `BoundedWorkers` and `StopReachesEveryConn`. "The channel counts the holders" is not inductive
  alone: that a worker gives back only a slot it holds follows from its stage and
  its `released` flag. `HandlerImplementsLimit` maps `open` to `~stopped`, `live` to
  `sessions` and `setup` to the workers that hold a slot, and shows every step to
  be a step of `SessionLimit` or a stutter.
* **TunnelLifecycle.** `StatusAgrees` speaks of moments without a holder of the
  mutex, so it is not inductive. `LifecycleInv` says who holds the mutex at which
  step (`OwnerHolds`), which steps a phase allows (`Stages`), what the handler map
  has at each of them (`HandlerStages`), that nothing of a tunnel precedes its
  creation (`AllIssued`), and that the status of every tunnel nobody holds tells
  whether it runs or main has still to see to it (`Agreement`). The other properties
  add to it: `AnswersKept` that memory, too, knows every tunnel reported created;
  `WantedRecorded` that memory equals the file as long as no save failed;
  `PortsOfForms` that what is stored, being started or running has the ports of a
  valid form. `PortsParsed` and `SavedIsUsable` also need the functions of
  `TunnelSettings` for lists and keys of any length: `AllListed` lists the ports
  named by the parts, `Unique` keeps each of them once.
* **PanelSessions.** `ChangeEndsSessions` and `ChangeSurvives` rest on `SecretsInv`:
  while the panel runs, the file's key is never newer than the one in memory, and no
  key in use exceeds the last one generated (`KeysOrdered`); passwords are ordered
  alike, and every change that was answered is in the file (`PasswordsOrdered`);
  whoever holds the file's key or a later one knew a password at least as late as
  the latest answered change (`HoldersKnow`); a panel that is down has no request
  half-way (`DownIsIdle`). `LogoutHolds` rests on `RevokedOutlives`: no entry of the
  blacklist ends before its session, so the sweeper takes nothing that still counts.
  `EndedStaysEnded` is shown of every step of a running panel.
* **LogHub, LogStream.** `StreamsComplete` is inductive once the ring is known to
  hold the last messages (`RingComplete`), because a new stream starts with a copy
  of it. That a stream which lost messages keeps their order needs no more: a message
  is newer than all before it. `OneAttempt` counts; `AttemptInv` says instead that the four ways to be
  under way exclude each other (`Exclusive`), that one of them is taken while the
  page is shown (`NeverIdle`) and none after the session ended (`StoppedIsQuiet`).
* **LoginLimiter.** A bucket keeps entries past their window until its address
  comes back, so it is not the list of attempts let through. `BucketsAreExact`: both
  have the same recent entries. What remains of a list as it ages and is filtered
  again (`RecentLater`) is shown by induction over the list.
* **LogFile.** `KeptInv`: per path, `Stored` (stamps are distinct, names give the
  order of the lines, and a line that is lost has `Kept` later backups), `NoGap` as
  long as nothing failed, and `OldIsReported`, that what a switch under way has saved
  is what was last reported. `KeptStay` is the step for pruning: whichever of the backups
  due are removed, the newest `Kept` stay, so a line that had `Kept` later backups
  before still has them. `NoMoreStay` bounds what a pruning without errors
  leaves. `SwitchIsWhole` follows since the roll-back restores what was reported.
* **ByteProxy.** `SessionInv` relates pumps, ends and closer (a chunk is in hand
  between read and write, an end is half-closed by the pump that met its end of
  stream); `ClockInv` bounds the activity clock by the time since the last chunk,
  unless a pump has yet to stamp the one it read.
  From them: a clean end is complete, a cut is earned.
* **QUICTunnel.** `LinkInv`: who is dialling excludes a live connection and other
  dials; an unused identity is untouched; a served connection is listed.
* **SecureConn, Handshake, SecureLink** (all in `SecureLinkProofs`). `ChannelInv` follows frames from writer to
  reader: a nonce is the number of frames sealed, at most the last frame on the
  stream is cut, the reader's nonce is its position, leftovers continue what was
  returned. `HandshakeInv`: keys are equal ends of one exchange or the end failed.
  `LinkImplementsChannel` carries `ChannelInv` over to the composition.
  `ChannelImplementsStream` and `LinkImplementsStream` map `sent` to the units of
  the frames sealed, `written` to those of the whole frames on the stream and `end`
  to what the reader met. A chunk is delivered only from whole frames because the
  reader is aligned with the frames; the end is earned because a cut frame is the
  last one.
* **Installer.** `InstallerInv`: every command belongs to a run of its kind, the
  backup equals the old binary from the copy on (if it succeeded), what is moved
  in was verified, and the process checked was started from it.
  `InstallsAlwaysWhole`: the staging directory holds exactly the artifact until it is
  renamed, and what passed the manifest is a release; when one that downloads
  reports success, the download was verified, replaced by a build, or removed.

**Induction over lists.** The induction theorems of the library have an operator as
a parameter and cannot be used. Two modules therefore prove the induction they
need, for sets of numbers (`SetInduction`: a set with 0 and closed under successor
is `Nat`) and of sequences (`SeqInduction`), and that a function defined by
recursion over the numbers exists and satisfies its equation (`Recursion`). To be
in reach of these lemmas `AllListed`, `Unique` and `Recent` are written as
recursive functions, which is also what the loops of the code do.

**Only model-checked** is what needs fairness, since liveness and ENABLED are out of
the prover's reach: `StopDrains` of the handlers and of QUIC, `SlotsComeBack`, `OperationsEnd`,
`LeavingCleansUp` and `DeadStreamsLeave`, `SessionEnds`, `DeadLinksLeave`,
`CloseReturns`; and the two properties of the findings, which do not hold. The
refinements carry safety only: `SessionLimit` and `ByteStream` promise no progress.

## Findings

* **A regular shutdown forgets which tunnels to start**
  (`shutdown_keeps_autostart`). `StopAll`, which main calls on SIGTERM, saves
  "inactive" for every running tunnel, and the next boot starts those that are
  "active". The installer's update stops the service this way and reports
  "Tunnels: Preserved" (hesar.sh:820). A crash keeps them.
* **A deleted tunnel keeps running** (`deleted_tunnel_runs`). The start request
  reads the tunnel and starts it in two critical sections; a delete in between
  leaves a handler that no request can reach by its entry.

Observed while modelling, without a run of their own.

Limiter and sessions:

* An expired bucket is removed only when its own address comes back, and a new one
  is put there at once; auth.go:54 reads as if buckets were evicted.
* The blacklist is in memory only: a logout ends with the process (auth.go:82).
* A request that was admitted before a logout or a password change acts after it
  (auth.go:157-172): nothing promises otherwise, and no property says so. The
  properties of `PanelSessions` hold with such requests under way.
* In the panel, a late 401 to a request that carried the previous token removes the
  token stored since (api.ts:37-53).

Tunnels:

* Port lists and the disabled UDP relay are not looked at when a tunnel is saved,
  only when it is started: `SavedIsUsable` names these two exceptions.
* The answer to a save carries the stored key, while handlers.go:129-131 says that
  the panel never receives it; the pointer it encodes is the stored entry, read
  outside the store's lock.
* The statistics read the tunnels and the running count one after the other, so
  "inactive" can come out negative for a moment (handlers.go:373-380).
* A save is renamed into place without being synced: what survives the process need
  not survive the machine.

Log file:

* When the file cannot be reopened after a rotation, file logging is off. Saving
  the same path again does not bring it back, because UpdateConfig returns when
  nothing differs (logger.go:180-182), though the answer is "Settings updated
  successfully" (handlers.go:242-246).
* Two settings requests at once may leave the saved path and the one in use
  different, since the logger is told after the save (handlers.go:247).
* Backups are recognised by a prefix of their name, so that a log whose path is a
  prefix of another's may prune the other's.
* The removals of a pruning are independent and their errors dropped
  (logger.go:127-129): one old backup that cannot be removed stays, later ones go, and
  what is on disk has a gap. `LinesKept` states what remains true.
* A rotation renames in the log's directory, which the packaged unit keeps read-only
  (`ReadWritePaths` lists only the file): the file then keeps growing.

Channel and QUIC:

* A frame cut exactly after its header reads as a plain end of stream
  (crypto.go:402), and ends of stream are not authenticated.
* A request that waits for `dialMu` while another worker dials (8 s, quic.go:65) holds its
  setup slot all that time (quic.go:395).

Installer:

* A failing backup is ignored (hesar.sh:710), and a roll-back copies whatever
  `hesar.bak` holds over a binary that may not have been touched yet, then
  reports "Previous version restored"; `RestoredIsPrevious` therefore assumes that
  both copies succeeded. A failing `rm`, `mv`, `chmod` or `systemctl restart` (778-780,
  794) ends the script without a roll-back and with the service stopped; a failing
  `chmod` (831) ends the roll-back before the restart. Removal leaves
  `hesar.bak`.
* A failing `go build` (425) is followed by "Binary installed", because `set -e`
  does not reach into a function whose caller tests its result; then nothing or a
  fragment of the download is in place, which `InstallsWhole` names as the one
  exception. The menu's offline installation runs without `set -e` too and
  reports success although `systemctl` failed.
* Without a manifest beside it an artifact is accepted by its header and a size of
  5 MB (hesar.sh:265-290): a binary cut short beyond that is installed as it is.
  `InstallsWhole` says that exactly the artifact or the old binary is in place, and
  only with a manifest that it is a release.
* The first config.json is written in place; an interruption leaves a part of it,
  which a later installation keeps as "Existing config preserved".

## Not modelled

* Cryptography is perfect: a frame opens under its key and nonce or not at all; the
  64-bit nonce does not wrap. Certificates are functions of the key.
* KCP's retransmission and congestion control, QUIC's streams and packets: ordered
  connections that may die. The UDP relay cannot be reached, Start refuses it.
* Byte statistics: two counters per tunnel, added to once at the end of a session,
  under the store's lock, and saved with whatever is saved next; no decision reads
  them. For their sake the config store is "partly" modelled. `Close` of the log hub has no caller.
* The tester's probes and the metrics keep no state of their own. BBR and the kernel
  tuning are one-shot commands on the machine whose outcome nothing else reads.
* The panel's pages, routing and the order of middleware, wording and layout.
* Of the installer: the first config.json, the user, the menus, verify_self. It is
  taken to run once at a time; it has no lock.
* Input validation of the panel's settings beyond what a refused value leaves
  behind (`PanelSessions`).

## Plan

The order followed the harm a fault would do: slots and sessions of the handlers;
tunnels and their persistence; panel sessions; the proxy; QUIC; the secure
channel; the log stream, the limiter; the installer; then the log file, the
settings of a tunnel and the abstract byte stream. Next:

1. `ByteProxy` over two `ByteStream`s: what a client sends through both ends.
2. An abstract durable store that `ConfigStore` implements.
3. Proofs: those two refinements, `SessionLimit` for the sessions of QUIC, and the
   types of `ByteProxy`, `QUICTunnel` and `SecureLink` on their own.
