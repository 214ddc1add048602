# Formal model of gotty

gotty is a terminal server: it runs commands in PTYs, keeps them as *sessions* that outlive the
browser, and lets one browser page at a time attach to each session over a multiplexed WebSocket.
Agents drive the sessions over REST, and `gotty capture` records them. This directory holds TLA+
models of these parts, the TLC runs that check them on small instances, and TLAPS proofs for every
size. Paths are relative to the repository; `internal/` stands for `src/internal/`.

Contents: [inventory](#1-inventory) · [modules](#2-modules) · [runs](#3-runs) ·
[fairness](#4-fairness) · [proofs](#5-proofs) · [findings](#6-what-disagrees-with-the-code) ·
[abstractions](#7-abstractions) · [not modelled](#8-not-modelled) · [plan](#9-plan)

## 1. Inventory

| Component | State | Operations | Interacts through |
|---|---|---|---|
| **session** `internal/session/session.go` | `state`, `conn`, `attachEpoch` (under `s.mu`); output ring, `total`, `replaySeq` (under `outMu`); mirror (under `mirrorMu`) | `Attach`, `bridge`, `replayOutput`, `outputPump`/`pumpChunk`, `Destroy`, resizing, `Wait` | writes to the channel of the attached client; reads and writes the PTY; closes the terminal |
| **session manager** `internal/session/manager.go` | `sessions` by id (under `m.mu`), the store | `CreateWithID` (idempotent, resurrecting), `Get`, `Destroy`, `DestroyExpired`, `UpdateTitle`, `History` | `Session.Destroy`, the store |
| **terminal process** `internal/terminal` | process, PTY or pseudoconsole, handles, `exited` channel, environment | start, read, write, resize, `Close` (signal, wait, SIGKILL) | process group; three goroutines |
| **session store**, **title store** `session/store.go`, `api/title_store.go` | map in memory, JSON file | `Record`, `Forget`, `Set`, `persist` (temporary file and rename), migration | files |
| **websocket router** `internal/api/ws_handler.go` | `chans` per connection; `virtualConn`: queue of 64, `closed` | read loop, `handleAttach`, `handleDetach`, `deliver`, `closeAll`, `CloseWithReason` | `Session.Attach` in a goroutine per channel; one write lock per connection |
| **web client channel** `apps/web/src/utils/{multiplexer,session-channel,ws}.ts` | channel table, pending attaches, reconnect timer, input gate | `attach`, `detach`, `reconnectNow`, `dispatch`, `onClose` | frames; hooks of the pane |
| **terminal pane** `components/TerminalPane.vue` | connection state, wrapper | attach, reconnect, close | the multiplexer, REST |
| **screen mirror** `api/mirror.go`, `internal/capture/{emulator,graphics,scrollback}.go` | scanner, grid of x/vt, modes, pictures, queue of answers | `Write`, `Resize`, `Snapshot`, `DrainAnswers` | fed by the pump; its answers go to the PTY |
| **screen monitor** `api/monitor_ws.go` | baseline and version per monitor | full frame, diff, tick | mirror, a WebSocket of its own |
| **agent API** `session/agent.go`, `api/agent_handler.go`, `cmd/agent.go` | held buttons and cursor of the agent's mouse | `Screen`, `Wait`, `Input`, `Paste`, `Mouse` | mirror, PTY, HTTP answers and exit codes |
| **attached capture** `session/capture.go`, `api/capture_handler.go` | one waiter, chunks, latest picture | `Capture`, `ResolveCapture` | a frame to the attached client, frames back through its relay |
| **recording driver** `internal/capture/driver.go` | drawn output, overlap of the marker search, time of last output | `Run`: reader and polling loop | emulator, process |
| **embedded browser**, **sampler** `internal/browser`, `internal/capture/gif.go` | session on the server, frames | `RunBrowser`, `TrySample`, `Force` | REST, Chromium |
| **log**, **self update** `utils/rotatingfile.go`, `internal/update` | files | write and rotate; download, verify, replace | files |
| **HTTP server**, **CLI** `internal/api/server.go`, `cmd/serve.go` | contexts, `err`, connections | `Run`, graceful and forced shutdown | signals, net/http |
| **protocol**, **keys**, **rendering**, **flags** | none | framing, key grammar, pixels, options | pure |
| **web user interface** `App.vue`, `TabBar.vue`, `manifest.ts`, `tabOrder.ts` | manifest of tabs | polls status, reorders | REST, local storage |

**What is hard.** A session is shared by an attach goroutine per client that ever came, the pump, the
goroutine that waits for the process, REST handlers and the sweep. `Attach` and `Destroy` decide under
`s.mu` and act outside of it: they close the previous client, write the handshake, replay the ring.
The pump picks the client of a chunk under `outMu` and `s.mu`, feeds the mirror and writes later. The
router keeps a second table of the same attaches, per connection, and the page a third one; the three
are brought together by messages only. Connections break on one side first. The manager gives up
`m.mu` around a `Destroy` that may take seconds, in which the same id can be created anew. A resize
sets the PTY and the mirror in two steps and without a common lock. A capture answer names no request.
The output is read in pieces that cut sequences, runes and markers anywhere. The stores, the log and the
update rewrite files in several calls, each of which can fail or be the last one of the process.

**What makes each component correct.**

* session: one owner; whoever lost the session is thrown out and leaves nothing behind; no output is
  lost; a terminal query is answered at most once, but for late answers and early gates; the mirror is
  complete when the end is announced; a destroyed session ends its process.
* manager: a live session is findable; a DELETE that is answered has stopped the process, or another one is
  about to; dead
  sessions are swept; nothing else takes a live session out of the registry.
* router and page: a bridge is always reachable by Detach and by the loss of its connection; a lost
  connection gives its sessions back; attaches are answered; a preempted page stays away.
* sizes and screens: PTY and mirror agree when nobody resizes; a jitter leaves no trace, but for a race on
  `t.size` and a failed restore; a monitor's client has the grid of the version the monitor recorded, and
  catches up; a Wait overlooks no match.
* agent: an answer says truly whether all the bytes reached the program; the agent's idea of the mouse is
  the program's.
* mirror: where reads cut the stream makes no difference; every answer is drained once, in order.
* captures and recordings: a picture is whole and belongs to its request; a waiter is always released;
  the reason for stopping is true of what was looked at; an animation lasts as long as what it shows.
* process: handles are closed once and not while somebody uses them, the tail of the output is read, the
  last value of a variable counts.
* files: stores survive crashes; a rotation drops the oldest lines only; an update leaves a binary.

The list of hazards, with source lines and the properties that cover them, is `hazards` in
`PROJECT.json`; a hazard without a property has the reason in its note.

## 2. Modules

| Module | Models | Built on |
|---|---|---|
| `SessionOwner` | what a session promises about ownership: *take*, *refuse*, *leave*, *destroy*, each atomic | - |
| `Session` | `session.go` attach, bridge, pump, process exit and `Destroy`, with the channel of each client (`virtualConn`) and the input gate of its page | implements `SessionOwner` |
| `Manager` | `manager.go`, with sessions as `SessionOwner` shows them to others | abstraction of `Session` |
| `Channels` | the page, its connections, `wsRouter`, `virtualConn` and the session | composes with `SessionOwner` |
| `Screen` | sizes of PTY and mirror, resizes, jitter, output, the monitor and `Wait` | `Session`'s attaches as relays |
| `Capture` | requests, the attached clients, chunks, timeout, takeover | - |
| `Agent` | one command each from its start to its exit code: handlers, `Input`, `Paste`, `EncodeMouse`; the program that reads it | - |
| `Emulator` | scanner, replacements, kitty pictures, modes, answers, against a reference that reads sequences whole | - |
| `Recorder` | `driver.go Run`: reader and loop | - |
| `Browser` | `RunBrowser` and the sampler | - |
| `Terminal` | start and its error paths, environment, output, exit, release, `Close`; unix and Windows | - |
| `Store` | `FileStore` and `TitleStore` over a file system with crashes | - |
| `LogFile` | `RotatingWriter` likewise | - |
| `Update` | `self update` likewise, unix and Windows | - |
| `Serve` | `waitSignals`, `Server.Run` and its goroutines, net/http | - |
| `Http` | the status codes `Capture` and `Agent` answer with | - |
| `Along` | the left fold over a sequence, for the modules that add up, filter or replay one | - |
| `MCSession`, `MCScreen`, `MCParts` | instances for TLC | |
| `SessionProofs`, `ManagerProofs`, `EmulatorProofs` | theorems about the module they are named after | TLAPS |
| `SocketProofs` | theorems about `Channels` and `Screen` | TLAPS |
| `RequestProofs` | theorems about `Capture` and `Agent` | TLAPS |
| `ProcessProofs` | theorems about `Terminal`, `Recorder` and `Browser` | TLAPS |
| `FilesProofs` | theorems about `Store`, `LogFile` and `Update` | TLAPS |
| `Induction` | induction over the natural numbers and functions defined by recursion, for the other proofs | the well-founded orders of the library |

`Session` implements `SessionOwner` (checked and proved), so `Channels` can use `SessionOwner` in its
place: the channels' goroutines call `Owner!Take`, `Owner!Refuse`, `Owner!Leave` and `Owner!Destroy`.

**Session.** One action per critical section or write. `pc[c]` is where the goroutine of attach `c`
stands: `AttachTake` (the block under `s.mu` at the start of `Attach`), `AttachCloseOld` and
`AttachNotifyOld` (the two halves of `CloseWithReason`, which closes the channel and then writes the
event), `BridgeSnapshot` (under `outMu`), `BridgeInit`, `BridgeReplay`, `BridgeReplayDone` (a write
each), `BridgeEnd`, `BridgeProtocolError`, and `AttachLeave` (the epilogue under `s.mu`). The pump is
`PumpChunk`, `PumpMirror`, `PumpDeliver`, `PumpExit`; `Destroy` is followed by `DestroyCloseConn`,
`DestroyNotifyConn` and `DestroyKill`. `Detach`, `NetworkFault` and `GateOpens` are the environment.
Output is counted in chunks, one per PTY read; `total` is `s.total`, `TailChunks` is
`attachReplayTailBytes`. `Queries` are the chunks with a terminal query (DA, DSR), and `answered`
counts the answers that reached the process, from the mirror and from the clients' terminals. An answer of
the mirror comes out of the emulator in a goroutine of its own: `Drain` takes as many as are there, and the
others (`owed = "due"`) meet a later chunk. The gate of a page opens after the Attach frame's two seconds,
or with the first batch its terminal has parsed after the replay-done frame; `GateOpens` lets it have parsed
any part of what it received (`Unparsed` is the rest, which it then answers), and `gate` is `"early"` when a
replayed chunk is in that rest.

**Manager.** Sessions are numbered in the order of their creation and stay in `objs` after they left
`sessions`, because handlers hold pointers. `locked` is `m.mu` held by the sweep; other callers hold it
for one action only. A `Destroy` has a program counter per caller, as it runs outside the lock (or, for
the sweep, inside of it). A process is `running`, `reaped` (collected, so it cannot be signalled any
more) or `exited` (`term.exited` closed).

**Channels.** One page with a pane for one session, and `Rivals`, channels of other clients. `pane`,
`wrapped`, `awaiting`, `seconds`, `timer` are the page; `up` and `down` the frames on each of its
connections, in order; `chans` is `wsRouter.chans`; `chan` the goroutine that `handleAttach` started for
each channel. `link` is seen from both ends: `lost` means gone for the page but not yet noticed by the
server's read loop, which goes on reading what was sent before.

**Screen.** A resize is `RelayResize` or `RestResize` or the jitter (`AttachReplays`, `Shrink`,
`Restore`). Each stores `t.size` (`StoreSize`) and then makes the ioctl, which reads `t.size` again,
columns and rows, and no lock covers the two: `read` is what `t.size` has been since the goroutine's own
store, and `PtyTakes` sets the PTY to any columns and any rows of it. `PtyRefuses` is the ioctl that
fails. Then come `SyncSize` under `mirrorMu` and `RecordSize` under `s.mu`, in the code's order; `Cast` is
the conversion to 16 bits. A PTY starts with the size it was created with, or with none, in which case the
mirror has `DefaultSize` (80 by 24) (`MirrorSize`). `Output` changes rows of the grid and moves `ver`,
which is `s.mirrorVer`. The monitor's tick takes the version and the screen under one lock (`MonitorTick`)
and then sends nothing, a full frame or the rows that differ; `view` is what its client has. `WaitLook`,
`WaitTick` and `WaitExit` are the loop of `Wait`. `raced` (two resizes overlapped), `amiss` (the PTY was
last given what another goroutine stored, or a restore failed) and `stale` (a shake of an old size) are
history.

**Capture.** A request installs itself under `captureMu`, sends its frame, and waits for the answer, its
timer, the end of its HTTP request or of the session. A client answers with numbered chunks, which its
relay reads one at a time; `Resolve` is `ResolveCapture`. A relay whose client was preempted may still
have chunks to read.

**Agent.** A handler is `HandleKeys`, `HandlePaste` or `HandleMouse`, `EncodeMouse` under `mirrorMu`,
`CheckState` under `s.mu`, then `WriteInput`, which may write all of the bytes, none, or a beginning
(`whole` is FALSE; the count is dropped and the answer is 500), or have none to write (`HasBytes`), with
the program's mode changes, a smaller screen and the end of the session in between; a program that resets
its terminal (`ProgramResets`, `onRIS`) clears the held buttons. `held` keeps buttons under the names the
requests gave them, as `markHeld` does. The command may give up first (`CommandEnds`) while its handler
goes on.

**Emulator.** `Advance` is the scanner byte by byte, `WriteByte` with `Flush`, `Splice`, `PutRune` and
`HandleAPC` what the wrapper does with its events, `VtByte` the external parser behind it. `EmReads`
takes any prefix of what the program wrote; `EmPumps` moves answers from x/vt to the queue, `EmDrains` takes
those that are there in time. `Reference` is the same program read sequence by sequence. `Gap` names the
sequences the wrapper knowingly does not get right, which `emOdd` excludes from the comparison.

**Recorder, Browser.** Two goroutines and a clock of ticks: the reader (`ReaderReads`, `ReaderDraws`,
`ReaderNotes`, `ReaderSearches`) against the loop (`LoopStops`, `LoopReturns`). `RunBrowser` is one loop
whose screenshots take time, with `AddLocked` and `ForceShot` as the sampler. Its poll looks three times: at the
page's last activity (`Polls`), at its tail (`ReadsTail`) and, over REST, at the session (`AsksExit`);
`LooksQuiet` then uses the activity read first. The page (`PageMounts`, `PageWrites`) and the command go on in
between; a chunk may have the marker, or push it out of the tail of 4096 characters. A create that fails may
have made a session, and `Deletes` may leave it.

**Terminal.** `Stages` are the handles a start takes one after the other, and `GivenBack` what the error
path of each returns. The reader, the waiter and the callers of `Close` go on by themselves; `Shut` closes
a handle under its `sync.Once` or flag. A write to a console that is gone closes the input (`WriteFails`).
On unix nothing in the package closes the master; `Collected` is the runtime, which closes a file nobody
refers to any more.

**Store, LogFile, Update.** One action per file system call. `StLoads` takes a title file it
cannot read for none (`stUnread`). `StFails`, `LgFails` and the failing
disjuncts of `Update` are its errors, `StCrashes`, `LgCrashes` and `UpKilled` the end of the process at
that place; the next start reads what it finds.

**Serve.** `svErr` is the variable `err` of `Run`, which two goroutines assign; `MainTakesSignal`,
`MainForces` and `MainReturns` are `waitSignals`, and nothing moves after `MainReturns`.

`Capture`, `Agent`, `Emulator`, `Recorder`, `Browser`, `Terminal`, `Store`, `LogFile` and `Update` share
no state in the code: each belongs to another session, process or file. `MCParts` puts them side by side
for one run, in which `part` says which one moves; its states are the union of theirs, not the product.

## 3. Runs

| Run | Instance | Shows |
|---|---|---|
| `session` | 2 attaches, 2 chunks, tail 1, a query in chunk 1 | `SupersededIsClosed`, `OwnerHoldsEpoch`, `NoLostOutput`, `AnsweredOnceUnlessLate`, `FinalScreen`, refinement of `SessionOwner` |
| `session_live` | 2 attaches, one connection may break | preempted attaches return, a broken connection gives back, destruction ends the process |
| `session_stall` | one connection may take no data | **violated**: `TakeoverCompletes` |
| `session_duplicate` | 1 chunk | **violated**: `DeliveredOnce` |
| `manager` | 2 ids, 2 sessions ever, a cap of 1, 2 DELETEs, sweep, idle timeout | `DeleteStopsProcess`, `LiveDroppedOnlyByLateDelete`, `DeadLeavesRegistry` |
| `manager_orphan` | 1 id created twice, 1 DELETE | **violated**: `LiveIsRegistered` |
| `channels` | 1 connection, 2 attach frames, a rival, reconnect timer on | `BridgeIsRegistered` |
| `channels_live` | 2 connections, 2 attach frames, no rival | `LostLinkFrees`, `AttachIsAnswered` |
| `channels_return` | 2 connections, a rival, no reconnect timer | **violated**: `PreemptedStaysAway` |
| `screen` | 2 relays, 2 REST resizes, 2 sizes, 2 texts, 1 chunk, 2 resize frames | `MonitorInStep`, `SizesAgree`, `NotLeftShort`, `ExitMissesNothing`, `MonitorCatchesUp` |
| `parts` | see below | the properties of the nine independent parts |
| `serve_drain` | 1 request, 1 connection | **violated**: `DrainedBeforeExit` |

The instance of `parts`, part by part:

| Part | Bounds | Properties |
|---|---|---|
| `Capture` | 2 requests, 2 clients, answers of at most 2 chunks | `PictureIsWhole`, `PictureIsOwn`, `WaiterIsReleased` |
| `Agent` | 2 commands, 3 buttons (one a wheel), drags of at most 3 steps, 1 event of the environment | `AnswerIsTrue`, `MouseAgrees`, `BareUpReleases` |
| `Emulator` | 3 items of 11 kinds, cut anywhere, 1 resize, queue of 2 | `StreamIntact`, `AnswersKept` |
| `Recorder` | 4 bytes, a marker of 3, quiet 2, timeout 3, clock to 4 | `ReasonIsTrue` |
| `Browser` | 2 pictures, period 2, 3 frames, duration 3, quiet 2, timeout 2, 2 chunks, clock to 4 | `BrowserReasonIsTrue`, `PlaysAsLong` |
| `Terminal` | both platforms, 2 callers of `Close`, 2 chunks, 4 names (two of them one name on Windows), up to 2 extra entries | `HandlesReleased`, `TailIsRead`, `EnvSaysLast` |
| `Store` | both stores, 2 ids, 3 changes | `StoreSurvives` |
| `LogFile` | 6 lines of sizes 1 to 3, files of 2, 3 backups | `LogKeepsLast` |
| `Update` | both platforms, 3 runs of the command | `BinaryIsWhole` |

`CHECK_DEADLOCK FALSE` everywhere: a process that printed everything and was destroyed, a page that
used up its bounds, a command that returned, have nothing left to do.

**Why the bounds are enough.** Every interaction in `Session` is between an attach and the one it
preempts, the pump and `Destroy`; two attaches give a takeover in each of its positions against the other
three. Two chunks are a tail of one and one that is cut off, and a query in the first has a later chunk to
be answered with. The proofs cover any number. `session_live` prints nothing (`MaxOut = 0`): a step of an
attach waits for the closing of its channel, the end of the process, or its own replay, never for output.
In `Manager` two sessions over two ids give both "the same id again" and "another id meanwhile", and two
DELETEs are the one that waits and the one that does not; the finding needs one id and one DELETE only. In
`Channels` two attach frames are what a page sends over a connection in one go (a waiting `attach` is
repeated by `onopen`), or one on each of two connections; the pane may be closed and opened as often as
that. The two passing instances split what the combined one has (a rival *and* two connections).

In `Screen` the second relay is the attach that takes over and restores the size of the first, the REST
requests the third kind of resize; one chunk suffices, as it may change any rows and may come before,
between or after any two steps of a resize. The watchers (monitor, `Wait`) only read, so `MCScreen` gives
each the resizers that matter to it and has the relays with the two requests unwatched. In `Capture` two
of each are needed for a late answer and for a takeover in the middle of an answer, and two chunks for an
answer that is cut. Three items of the emulator are a mode or a rune, the sequence under test and what
follows it. The marker `xyx` overlaps with itself, and four bytes hold it twice overlapping or after a
false start. Three changes of a store are two of one id with one of another between; six lines with three
backups of at most two bytes make the oldest file go. Three runs of an update are a killed one, one that
installs, and one that finds itself up to date and cleans up after the first.

Each property of a passing run has a mutant in `PROJECT.json`: a definition replaced by a plausible bug
(they stand next to the definitions, marked *Mutant*) for which the run fails.

## 4. Fairness

* `Session`: every runnable goroutine of the server runs (Go's scheduler), and the read loop of a broken
  connection notices in the end (`closeAll` detaches its channels; writes on a broken connection return
  errors, which `virtualConn.Write` ignores). No fairness for clients, for the process, or for a stalled
  connection. `Terminal.Close` escalates to SIGKILL after the close timeout, which `serve` sets to 3
  seconds; the process then ends.
* `Manager`: `Start` sweeps once a second; a caller in `Destroy` goes on; a process that was signalled
  ends, for the same reason. `ProcessExited` is the goroutine that waits for the process.
* `Channels`: frames arrive or the connection is lost, the server reads and notices a loss in the end
  (`conn.Reader` fails), the goroutines of channels run. A bridge has no duty to end while its channel is
  open. Nothing is assumed of the user, of timers or of opening a connection.
* `Screen`: the monitor's ticker ticks and its sequential code goes on. Nothing is assumed of output, of
  resizes or of the Wait.

The other modules have safety properties only and state no fairness: whether a clock, a program or a
file system goes on is not the code's to promise.

## 5. Proofs

The theorems hold for any values of the constants under the named assumptions of the modules.

| Module | Theorem | Says |
|---|---|---|
| `SessionProofs` | `TypeSafe` | `[]TypeOK` |
| | `NoLingeringClient` | `[]SupersededIsClosed` |
| | `EpochIsOwnership` | `[]OwnerHoldsEpoch` |
| | `Refinement` | `Spec => ImplementsOwner` |
| | `OutputReachesOwner` | `[]NoLostOutput` |
| | `ReplayGuardIsVacuous` | `[](replaySeq <= total)`: the guard that should skip replayed chunks never does |
| | `AnswersOnce` | `[]AnsweredOnceUnlessLate` |
| | `WaitSeesFinalScreen` | `[]FinalScreen` |
| `ManagerProofs` | `RegistryTypes` | `[]TypeOK`, and what is registered under an id has that id |
| | `OnlyLateDeleteDrops` | `LiveDroppedOnlyByLateDelete` |
| | `DeleteStops` | `[]DeleteStopsProcess` |
| `SocketProofs` | `ChannelTypes` | `[]TypeOK` |
| | `BridgesAreFound` | `[]BridgeIsRegistered` |
| | `MonitorFollows` | `[]MonitorInStep` |
| | `ShakeEnds` | `[]NotLeftShort` |
| | `PtyFollowsMirror` | `pty = Cast(grid.size)` between resizes that do not overlap and restore what they shook, for every size |
| | `MirrorFollowsPty` | `[]SizesAgree`, if every size asked for fits 16 bits |
| | `ExitIsNoMatch` | `[]ExitMissesNothing` |
| `EmulatorProofs` | `AnswersStayInOrder` | `[]AnswersKept` |
| | `StreamStaysIntact` | `[]StreamIntact` |
| `RequestProofs` | `WaiterNeverStale` | `[]WaiterIsReleased` |
| | `PicturesAreWhole` | `[]PictureIsWhole` |
| | `PicturesAreOwn` | `[]PictureIsOwn` |
| | `AgentTypedAlways` | the types |
| | `AnswersAreTrue` | `[]AnswerIsTrue` |
| | `MiceAgree` | `[]MouseAgrees` |
| | `BareUpLetsGo` | `BareUpReleases` |
| `ProcessProofs` | `HandlesAreReleased` | `[]HandlesReleased` |
| | `TailIsAlwaysRead` | `[]TailIsRead` |
| | `EnvIsLast` | `[]EnvSaysLast` |
| | `BrowserStopsForIt` | `[]BrowserReasonIsTrue` |
| | `AnimationIsTrue` | `[]PlaysAsLong` |
| | `ReasonsAreTrue` | `[]ReasonIsTrue` |
| `FilesProofs` | `StoreIsDurable` | `[]StoreSurvives` |
| | `LogKeepsItsLast` | `[]LogKeepsLast`, from `LogIsTail` and `LogRotatesInTime` |
| | `OldestIsDropped` | `DropsOldestOnly`: a step loses lines of the oldest backup only |
| | `UpdateKeepsBinary` | `[]BinaryIsWhole` |

**Session**, bottom up:

1. `ITyped` = `TypeOK` and `Targets`: a goroutine that is about to close or to write to a connection has
   one, and the chunk in the pump exists.
2. `IOwner` adds to `OwnerHoldsEpoch` and `SupersededIsClosed` that no attach has a newer epoch than
   `attachEpoch` and that an active one that has just this epoch is the owner (`Epochs`), and that only a
   destroyed session has a destroyer (`DestroyedOnce`). `OwnerHoldsEpoch` alone is not inductive: the
   epilogue compares epochs, and is right only because nobody but the owner can have the newest.
   `Refinement` maps each step of `Session` to a step of `SessionOwner` or to a stutter; the epilogue
   is a `Leave` that keeps the owner because, by `IOwner`, a different owner has a different epoch.
3. `IOutput` says which chunks an attach has received at each of its program points: in the replay all
   chunks of the tail before `next`, and everything after the snapshot either received or in the pump's
   hands for it.
4. `IReplay` says what a client has of the chunks up to its snapshot: nothing before the replay wrote it,
   and each of them once. `IAnswer`: a chunk is excused (`Excused`: its answer was late, or a gate opened
   early on its replay), or it is answered in its turn (`AnsweredInTurn`): not before it is printed, and
   while the mirror still owes the answer or a client still has the chunk to parse, by nobody yet, and
   these exclude each other. One lemma for each step that answers (`GateKeepsAnswers`,
   `MirrorKeepsAnswers`, `DeliverKeepsAnswers`, `ReplayKeepsAnswers`); an excuse is for ever
   (`ExcusesStay`).
5. `IScreen`: the mirror is at `total` except while the pump is at `mirror`.

**Manager.** `IRegistry` has the types (`ITyped`), that the sweep destroys under the lock, each id once,
what is still registered (`SweepLocks`), that a caller past its mark works on a destroyed session
(`CalledIsDestroyed`), that what a caller looked up is not newer than what is registered under that id
now (`LookedUpEarlier`), and that a process which still runs although its session is destroyed has a
caller that is about to kill it or is waiting (`KillUnderWay`). `DeleteStopsProcess` alone says nothing
about the sweep, which may have marked the session first; but the sweep holds the lock until it is done, so
the caller a DELETE is answered before is another DELETE (`AnsweredByEntry`), and it goes on until the process
has stopped (`ClosingGoesOn`).

**Channels.** `IBridges` adds to the types that a channel in a table has been used, and belongs to that
connection (`Tabled`). The step that needs it is `Drop`: a goroutine that ends takes only its own
channel out.

**Screen.** `MonitorKnows` extends `MonitorInStep` to the places inside of a tick: past the first full
frame the client has the monitor's baseline, and that is the mirror's grid unless the version is newer. It
rests on the lemma `VersionMoves`, that output and `SyncMirror` never change the grid without moving
`ver`. `ShakeEnds` needs that a resizer that has shrunk the PTY still has the size to restore, that the
size was asked for (`AskedFirst`, `RestoreFollows`), and that what an ioctl takes is the goroutine's own
size or `amiss` says so (`Stores`, `PtyMoves`). `SizesAgree` speaks of a moment at which nobody resizes;
`OneAtATime` extends it into a resize that is alone: before the mirror follows the PTY has the new size,
and in a shake only the PTY is off, by the row that is given back; while one resize is alone, `t.size` is
its own. What the PTY has is the mirror's size cut to 16 bits. The theorem that they are equal needs the
sizes to fit, which no handler checks; with 65538 columns TLC refutes it (section 6). `ExitSeen`: a Wait
that ended with the process saw the final grid, and later resizes only cut rows or add empty ones
(`ResizeAddsNoMatch`).

**Capture.** `OneWaiter`: a request is past its installation and before its cleanup exactly when it is the
waiter, so the cleanup of one never removes another. For `PictureIsWhole` a frame has to be followed
through three places: what a client sent is a row of whole answers of which the beginning may have been
read (`Chained`), what was read is the beginning of one answer (`Assembled`), and with one client the
next chunk of a picture under way is the next frame to be read (`OneLine`). For `PictureIsOwn` the
invariant says that while no request gave up there is one question or one answer under way, the waiter's
(`OneQuestion`); the frames that are left are what the answer still lacks (`RestOf`).

**Agent.** `IAnswer`: a command that is on its way has written nothing, one that was answered 200 is the
author of exactly one write, a whole one, or had no bytes, and one answered 500 of at most a part.
`IMouse`: at most one mouse request is between encoding and writing, and then the emulator is ahead of the
program by this one event, so its held set covers what the program will see. `IPath`: the path of the last
event ended where it was seen and is a glide; the lemmas about `Interpolate` (its ends, its steps of one
cell, its box) are arithmetic about truncated division.

**Emulator.** `IAnswers`: what was drained, what is queued and what the pump has in hand make up, in this
order, the answers that were not lost (`Kept`, inside `Works`). Write keeps this byte by byte
(`WriteByteStays`, and `WriteStays` for a whole chunk); what a full queue drops is the newest of all
(`RoomIsMade`), what a reset clears is a stretch of the row (`PartIsLost`), new answers go behind all others
(`NewAnswers`). That a replaced CSI is cut by a number of bytes that is not negative needs the count of its
bytes (`FullCSI`).

`StreamIntact` speaks of a pipe that is empty; `IStream` says where the terminal is when a read has cut an
item. `Stage` has a disjunct for each place in each kind of item: the scanner's state there, x/vt's state
once it has had the run (`Seen`), and that what the wrapper tracks is what the reference had before the
item (`Same`). A CSI that may be replaced needs more: its bytes can be taken back, as many as are still in
the run, and x/vt has shown nothing of the others (`Cuttable`). `StageStep` takes the terminal one byte
on, `Reads` any part of an item (induction over its bytes), `StageEnd` says that the last byte leaves it
where the reference is after the item, and `FlushStage` that the end of a read, which hands the run over,
changes no place. A repeat needs its bytes in the run, and x/vt must not have had them; a cut repeat is a
gap (`AllInRun`). Since the reference goes item by item (`RefMore`), a read from the middle of one item to
the middle of the next is the rest of the one (`RestIsRead`) and a part of the other (`ItemIsRead`). A
resize resets the scanner and is harmless between two items only: inside of one the scanner is in another
state than `"scan"`, and the step counts as odd.

**Terminal.** `WhoCloses`: each handle has one goroutine that may close it, or one flag that is taken
first; `ShutOnce`: a handle that was closed is not open; `MasterIsLast`: on unix the master is open until the
reader and the waiter are done. `ReaderIsLast`: while nobody closes, the reading end is
open until the reader has everything and the process is gone. `EnvIsLast` is about operators, not steps: what
a name says in an environment is decided by the highest entry that has it (`HitOrNone`), the entries `Those`
keeps say the same as the places they came from (`ThoseAre`, an induction over the entries), so
`dedupeEnv` changes no name (`DedupeKeepsLast`), and of two lists the later decides (`LastOfBoth`).

**Recorder.** `SearchIsExact`: the marker was found exactly if it is in the bytes the search has been
through, and until then the overlap is the end of these bytes, one shorter than the marker. The step
(`SearchMissesNone`) is that a marker in the longer text that was not in the shorter one begins in the
overlap. `DrawnInOrder` ties what the picture shows to what the search has seen.

**Browser.** `BrowserReasonIsTrue` rests on the order of the looks: the activity is read before the tail,
so a tail without the marker says that none of the chunks counted by then has it (`MarkerFirst`), and
later chunks have later numbers (`LooksInTime`), whatever is pushed out. `SamplesInTime`: a screenshot is
taken only when its time has come, one period after the last frame, and nothing is added after the end was
noted; the frame forced at the end is exempt from the period, not from the order (`Spaced`). `DelaysAddUp`
is an induction over the frames: the delays of the first `k` add up to the time from the first frame to
the end of the `k`-th, and one for each that lasted none.

**Store.** `IStore`: memory has every change before the file (`MemoryAhead`, `NumbersGiven`), unless the title
was not read, when nothing is being written (`UnreadIsIdle`); a temporary
file that is about to be renamed is whole and has what memory has (`ReadyToRename`), the file itself is
never torn and has what was reported done (`DiskIsWhole`).

**LogFile.** `ILog`: a file is moved onto an empty place only, but for the oldest backup (`EmptyPlace`),
also when a rotation failed earlier and its files were left where they were (`MissingIsEmpty`). `TailOf`
states `KeptIsTail` over the sets of line numbers of the files, so that a move of a file is a move of a
set (`FileMayMove`), the loss of the oldest keeps a tail (`OldestMayGo`), and a new line is above all
others (`NextLineFits`). `ISizes`: what the writer counts (`w.size`) is the size of the file it has open,
also after a restart (`SizeKept`), which needs that a line adds its own size (`SizesAdd`, an induction
over the lines).

**Induction.** The library's induction theorems take an operator, which the installed provers cannot
instantiate; `Climb` says the same of a set of numbers and follows from the well-foundedness of the order on
them. `Fold` and `StaysIn` give the functions that `Along` defines by recursion their values and types.

**Update.** `IUpdate`: whatever is about to be installed has been verified (`CheckedFirst`), the old
binary is in place, or moved aside, until the new one replaces it (`OldUntilReplaced`), and success is
reported last (`ReportedLast`).

**Only model-checked.** Everything under fairness is out of this prover's reach (`SupersededLeaves`,
`DestroyEndsProcess`, `DroppedGivesBack`, `DeadLeavesRegistry`, `LostLinkFrees`, `AttachIsAnswered`,
`MonitorCatchesUp`). `TakeoverCompletes`, `DeliveredOnce`, `LiveIsRegistered`, `PreemptedStaysAway` and
`DrainedBeforeExit` do not hold (section 6).

## 6. What disagrees with the code

The runs expected to fail; the lines are in `findings` of `PROJECT.json`.

* `session_stall`: closing a preempted client writes to its WebSocket; if that takes no more data, the
  client that takes over waits behind it, although "a new attach immediately takes over".
* `session_duplicate`: the comment says that a chunk that is in the replay snapshot is not delivered live.
  An attach publishes its connection before it takes the snapshot; a chunk printed in between is delivered
  live and replayed. The guard compares numbers that are always in order (`ReplayGuardIsVacuous`).
* `manager_orphan`: the delete at the end of `Manager.Destroy` may remove a newer session with the same id.
* `channels_return`: a preempted page attaches again when its connection is reopened for any reason.
* `serve_drain`: after one SIGINT `Serve` returns as soon as the listener is closed, `Run` and the process
  with it, while the goroutine that drains requests and connections is still at work.

Met while modelling, and kept out of the passing runs by a constant, a history variable or an
abstraction:

* `Session.Destroy` returns nil at once for a session that is being destroyed (session.go:530), so the second
  of two DELETEs is answered before the process has stopped. `DeleteStopsProcess` says that then the first is
  still closing it.
* A terminal query may be answered twice, which session.go:753-756 is there to avoid. `DrainAnswers` stops
  waiting after 10 ms; an answer that comes later is drained with a later chunk and written if that one
  had no client (session.go:765), although the client of its own chunk has answered (`owed = "late"`).
* The input gate is to be shut "attach 握手 + 重放解析完成前" (until handshake and replay are parsed,
  session-channel.ts:47), but opens two seconds after the Attach frame (session-channel.ts:91), and after the
  replay-done frame with the first batch xterm parses or after 600 ms: the rest of the replay is then answered
  again (`gate = "early"`).
* `Terminal.Resize` stores `t.size` and reads it again for the ioctl, without a lock
  (terminal.go:311-312). A request that is preempted between reading a shake's smaller size and its ioctl,
  until after the restore, leaves the PTY a row short with everybody idle. A restore that fails is ignored
  (session.go:696 and 850), with the same effect. `amiss` marks both.
* An input whose write fails half-way (process_unix.go:55: `os.File.Write` goes on until all is written or
  an error comes) is answered 500 although the program got its beginning; `Session.Input` and `Paste` drop
  the count.
* "The PTY is closed once the process exits" (terminal.go:356), by `Close` or its caller (terminal.go:91), and
  `exited` is closed after it (terminal.go:47). On unix nothing calls `unixProcess.Close` (process_unix.go:56):
  the master stays open until the garbage collector finds it (`Collected`).
* `RunBrowser` drops the error of `deleteRemoteSession` (browser.go:117), which itself ignores the status
  (browser.go:353-358): a session whose `Terminal.Close` failed stays on the server. So does one whose create
  answer was lost (browser.go:112).
* `opts.Timeout` "bounds the whole run" (browser.go:50), but its timer starts when the page is ready. The marker
  goes before the exit, as a command that ended may have printed it (browser.go:209-212); a marker that comes
  between the look at the tail and the GET, or is pushed out of the page's 4096 characters before a poll, still
  ends as "exit". "quiet" uses an activity read before two round trips.
* A title file that cannot be read is taken for an empty title (title_store.go:22-24) and stays on disk: the
  running server answers an older title than the one it reported done, until the next `Set`.
* The rotation takes every error of `Stat` for a missing backup (rotatingfile.go:109); the next rename then
  overwrites it. `LogFile` has missing files only.
* The size an attach shakes is the last one a client's frame set (session.go:690), not the one a REST
  request set later; PTY and mirror then differ until the next resize (`stale`). Overlapping resizes may
  leave them different as well (`raced`).
* "Resize resizes the underlying PTY and syncs the mirror grid to match" (session.go:286), but a width or
  height of 65536 or more is cut to 16 bits for the PTY (terminal.go:311) and not for the mirror, and
  `SizesAgree` fails; no handler has an upper bound.
* "A bare up releases whatever is held" (mouse.go:260), but `markHeld` keeps a button under the name of the
  request and `heldButton` (mouse.go:390) knows only names in lower case: a button held as `Left` stays in
  the held set. `BareUpReleases` speaks of the code's own names.
* A capture answer that comes after its request timed out meets the next request (`gaveUp`).
* The emulator's repeat (CSI b) cut by a read, under insert mode or after a wide rune, and a placeholder cut
  by a read are not what a terminal makes of them (`Gap`).
* X10 mouse coordinates above 222 wrap in a byte (mouse.go:341). A drag sends its motion without a press.
* `err` of `Server.Run` is assigned by two goroutines without synchronisation (server.go:113).
* The deferred delete of `RunBrowser` also deletes a session it was given by `--session-id`
  (browser.go:116).
* One write larger than the log's limit rotates a file that is not empty (rotatingfile.go:65), although the
  comment (rotatingfile.go:21) says that it is written without a rotation.
* On Windows the failure to move the old binary back is ignored, although the caller's comment says that
  the old one is still in place (replace.go:52); it is then beside its name.
* `buildEnv` knows TERM by its exact name (terminal.go:176), also on Windows, where names that differ in case
  are one: `term=a` before `TERM=b` is placed after it and wins. `TerminalAssumption` has no such names.

## 7. Abstractions

* Output is chunks; the ring's wrap-around and `alignTailStart` only move the first replayed byte.
* `Session` has the mirror's answers one per chunk with a query, in order; a queue that is full, a reset and a
  resize, which lose some, are in `Emulator`. `--answer-queries=false`, which turns them off, is not modelled.
* Input and sizes are not in `Session`: a jitter or resize does not touch ownership or output order.
* A frame order inside a client (a live chunk before its replay) is not judged: `recv` is used as a set,
  except by `DeliveredOnce`.
* `Manager` sees attaches as a flag, and the store as whether an id was recorded; files are in `Store`. A
  session whose start failed is not recorded.
* In `Channels` the frames of the handshake are one frame, the answer to the page's question for the
  session before a reconnect is immediate, and a session that is gone is not created anew.
* In `Screen` a row is one of a few texts; cursor, colours and wide cells are left out, as the monitor
  compares and sends whole rows.
* In `Agent` an event of the mouse is a record of button, kind and cell; its byte encodings, modifiers and
  repeats are left out. A text a command refers to is on the screen or not.
* In `Emulator` a byte is a token, parameters are one token, OSC, DCS and APC strings one kind; x/vt is an
  external parser of which only the four weaknesses the wrapper is there for are modelled.
* Time in `Recorder` and `Browser` is a clock of few ticks; in the others a timeout may happen at any
  moment.
* One server uses a store, a title file and a log; nothing in the code keeps two servers apart that were
  given the same path. A rename is atomic and durable in its order, as the code assumes (it does not
  `fsync` the stores).

## 8. Not modelled

* `terminal/protocol.go`, `keys/keys.go`: translations of bytes without state, covered by tables in their
  tests. Frames are records in the models.
* Drawing pixels, palettes, locating a text, the SVG and HTML output: functions of one grid. Scrollback
  and snapshots copy cells under one lock.
* `x/vt`, Chromium, net/http, ConPTY and the system calls: external, modelled as far as the code uses them.
* Flag tables, help texts, HTTP routing and validation: no state.
* The queue between a connection's read loop and a session (`virtualConn.queue`): a full queue holds up the
  read loop; the router models take the frames that matter to them directly.
* The web user interface's tabs, settings and layout.

## 9. Plan

Done: all modules of section 2.

1. `Tabs`: the manifest of tabs against status answers that are on their way (App.vue:159).
2. `Queue`: `virtualConn.queue` against the read loop (ws_handler.go:361 and 395).
3. The order of frames inside a client of `Session` (session.go:772).
4. Pure functions against reference definitions: protocol framing, version order, the ring.
