------------------------------- MODULE Screen -------------------------------
(***************************************************************************)
(* The rendered screen of a session and everybody who depends on it: the   *)
(* size of the PTY and of the mirror grid (internal/session/session.go),   *)
(* the read-only monitor that follows the grid by differences              *)
(* (internal/api/monitor_ws.go) and the agent's Wait.                      *)
(*                                                                         *)
(* A resize stores t.size and sets the PTY under no lock, and the mirror   *)
(* under mirrorMu, one after the other, and three kinds of goroutine do    *)
(* it: the relay of an attached client, the replay of an attach, and the   *)
(* REST handler.  The text of a row is one of a few values; a chunk of     *)
(* output may change any rows, or none (a cursor movement).                *)
(***************************************************************************)
EXTENDS Naturals, FiniteSets

CONSTANTS
  Relays,      \* the attaches of the session, in any order
  Rests,       \* the resize requests over REST
  Sizes,       \* the sizes <<columns, rows>> clients ask for
  DefaultSize, \* the size of the mirror while the PTY was given none (80x24)
  Texts,       \* the texts a row can have
  Blank,       \* the text of an empty row
  Hit,         \* the text the regular expression of the Wait matches
  FixedSize,   \* AttachOptions.FixedCols and FixedRows are set
  MaxChunks,   \* bound: chunks of output
  MaxResizes   \* bound: resize frames of an attach

\* The values of a uint16.
Uint16 == 65536

ASSUME ScreenAssumption ==
  /\ Blank \in Texts /\ Hit \in Texts /\ Blank # Hit
  /\ FixedSize \in BOOLEAN
  /\ Sizes \subseteq (Nat \ {0}) \X (Nat \ {0})
  /\ DefaultSize \in (Nat \ {0}) \X (Nat \ {0})
  /\ DefaultSize[1] < Uint16 /\ DefaultSize[2] < Uint16
  /\ Relays \cap Rests = {}

VARIABLES
  pty,         \* the size of the PTY, <<0, 0>> = none was given
  asked,       \* the sizes somebody asked the PTY to have, as it takes them
  last,        \* s.lastCols and s.lastRows, <<0, 0>> = never
  synced,      \* s.mirrorCols and s.mirrorRows, <<0, 0>> = never
  grid,        \* the mirror: its size and its rows
  ver,         \* s.mirrorVer
  chunks,      \* chunks of output so far
  resizer,     \* each relay and REST request: its pc, the size, the resize frames so far and,
               \* in Terminal.Resize, the sizes t.size had since its own store
  raced,       \* two resizes overlapped
  amiss,       \* the PTY was last given what another goroutine stored, or a restore failed
  stale,       \* an attach shook a size that was not the PTY's any more, or after a failed restore
  exited,      \* termExited is closed
  mon,         \* the monitor: pc, its baseline, lastVer and lastSize
  view,        \* what the monitor's client has: a size and rows
  wait         \* the Wait: pc and the result

sizeVars == <<pty, asked, last, resizer, raced, amiss, stale>>
mirrorVars == <<synced, grid, ver>>
watchVars == <<mon, view, wait>>
screenVars == <<sizeVars, mirrorVars, chunks, exited, watchVars>>

Never == <<0, 0>>
\* Terminal.Resize: a size is cast to 16 bits.
Cast(size) == <<size[1] % Uint16, size[2] % Uint16>>
EmptyRows(n) == [r \in 1 .. n |-> Blank]

\* captureMirror and Emulator.Resize keep the content from the top-left corner.
Resized(g, size) ==
  [size |-> size,
   rows |-> [r \in 1 .. size[2] |-> IF r \in DOMAIN g.rows THEN g.rows[r] ELSE Blank]]

\* MirrorFactory: the mirror starts with the size of the PTY, if it was given one.
MirrorSize(size) == IF size[1] > 0 /\ size[2] > 0 THEN size ELSE DefaultSize

ScreenInit ==
  /\ pty \in {Cast(s) : s \in Sizes} \cup {Never}
  /\ asked = {pty}
  /\ grid = [size |-> MirrorSize(pty), rows |-> EmptyRows(MirrorSize(pty)[2])]
  /\ last = Never /\ synced = Never
  /\ ver = 0 /\ chunks = 0
  /\ \E absent \in SUBSET (Relays \cup Rests) :
       resizer = [p \in Relays \cup Rests |->
                    [pc |-> IF p \in absent THEN "done" ELSE "idle", size |-> Never, frames |-> 0, read |-> {}]]
  /\ raced = FALSE /\ amiss = FALSE /\ stale = FALSE /\ exited = FALSE
  /\ \E pc \in {"prime", "gone"} : mon = [pc |-> pc, base |-> <<>>, ver |-> 0, size |-> Never]
  /\ view = [size |-> Never, rows |-> <<>>]
  /\ \E pc \in {"look", "done"} : wait = [pc |-> pc, result |-> "none"]

Idle(p) == resizer[p].pc \in {"idle", "relay", "done"}
Step(p, pc) == resizer' = [resizer EXCEPT ![p].pc = pc]

-----------------------------------------------------------------------------
(* Terminal.Resize: t.size is stored, and read again for the ioctl.  No     *)
(* lock covers the two, so the ioctl takes its columns and its rows from    *)
(* any size that t.size had since this goroutine stored its own.            *)

Resizes(p) == resizer[p].pc \in {"set", "shrink", "restoring"}

\* Resizer p goes on as the record says; everybody in the call may read its size.
StoreSize(p, record, size) ==
  resizer' = [q \in DOMAIN resizer |->
    IF q = p THEN [record EXCEPT !.read = {Cast(size)}]
    ELSE IF Resizes(q) THEN [resizer[q] EXCEPT !.read = @ \cup {Cast(size)}]
    ELSE resizer[q]]

Shrunk(size) == <<size[1], size[2] - 1>>

\* What p itself stored.
Wanted(p) == Cast(IF resizer[p].pc = "shrink" THEN Shrunk(resizer[p].size) ELSE resizer[p].size)

ResizeEnds(p, pc) == resizer' = [resizer EXCEPT ![p].pc = pc, ![p].read = {}]

PtyTakes(p) ==
  /\ Resizes(p)
  /\ \E a, b \in resizer[p].read :
       /\ pty' = <<a[1], b[2]>>
       /\ amiss' = (<<a[1], b[2]>> # Wanted(p))
  /\ ResizeEnds(p, CASE resizer[p].pc = "set" -> "sync"
              [] resizer[p].pc = "shrink" -> "restore"
              [] resizer[p].pc = "restoring" -> "relay")
  /\ UNCHANGED <<asked, last, mirrorVars, chunks, raced, stale, exited, watchVars>>

\* The ioctl fails.  The relay ends, the request is answered with the error,
\* a shake is given up; that its second resize failed is not asked.
PtyRefuses(p) ==
  /\ Resizes(p)
  /\ ResizeEnds(p, IF resizer[p].pc = "set" THEN "done" ELSE "relay")
  /\ amiss' = (amiss \/ resizer[p].pc = "restoring")
  /\ UNCHANGED <<pty, asked, last, mirrorVars, chunks, raced, stale, exited, watchVars>>

-----------------------------------------------------------------------------
(* The mirror.                                                              *)

\* Mutants: a resize alone does not move the version; only the first resize is synced.
SyncMirrorSilent(size) ==
  IF synced # size
  THEN synced' = size /\ grid' = Resized(grid, size) /\ UNCHANGED ver
  ELSE UNCHANGED mirrorVars

SyncMirrorOnce(size) ==
  IF synced = Never
  THEN synced' = size /\ grid' = Resized(grid, size) /\ ver' = ver + 1
  ELSE UNCHANGED mirrorVars

\* syncMirrorSize: a new size moves the version.
SyncMirror(size) ==
  IF synced # size
  THEN synced' = size /\ grid' = Resized(grid, size) /\ ver' = ver + 1
  ELSE UNCHANGED mirrorVars

-----------------------------------------------------------------------------
(* The resizes.                                                             *)

\* bridge: an attach that replayed something shakes the size it remembers.
AttachReplays(p) ==
  /\ p \in Relays /\ resizer[p].pc = "idle"
  /\ IF chunks = 0 \/ last[1] <= 1 \/ last[2] <= 1
     THEN resizer' = [resizer EXCEPT ![p].pc = "relay"] /\ UNCHANGED <<raced, stale>>
     ELSE /\ resizer' = [resizer EXCEPT ![p].pc = "shake", ![p].size = last]
          /\ raced' = (raced \/ \E q \in DOMAIN resizer : ~Idle(q))
          /\ stale' = (stale \/ amiss \/ last # pty)
  /\ UNCHANGED <<pty, asked, amiss, last, mirrorVars, chunks, exited, watchVars>>

\* masterToSlave: a resize frame; sizes of one row or column are ignored.
RelayResize(p) ==
  \E s \in Sizes :
    /\ p \in Relays /\ resizer[p].pc = "relay"
    /\ resizer[p].frames < MaxResizes
    /\ ~FixedSize /\ s[1] >= 2 /\ s[2] >= 2
    /\ asked' = asked \cup {Cast(s)}
    /\ StoreSize(p, [resizer[p] EXCEPT !.pc = "set", !.size = s, !.frames = @ + 1], s)
    /\ raced' = (raced \/ \E q \in DOMAIN resizer \ {p} : ~Idle(q))
    /\ UNCHANGED <<pty, amiss, last, mirrorVars, chunks, stale, exited, watchVars>>

\* Session.Resize from handleResizeSession.
RestResize(p) ==
  \E s \in Sizes :
    /\ p \in Rests /\ resizer[p].pc = "idle"
    /\ asked' = asked \cup {Cast(s)}
    /\ StoreSize(p, [resizer[p] EXCEPT !.pc = "set", !.size = s], s)
    /\ raced' = (raced \/ \E q \in DOMAIN resizer \ {p} : ~Idle(q))
    /\ UNCHANGED <<pty, amiss, last, mirrorVars, chunks, stale, exited, watchVars>>

SyncSize(p) ==
  /\ resizer[p].pc = "sync"
  /\ SyncMirror(resizer[p].size)
  /\ Step(p, IF p \in Rests THEN "done" ELSE "record")
  /\ UNCHANGED <<pty, asked, amiss, last, chunks, raced, stale, exited, watchVars>>

\* The size is remembered, and the first resize of an attach is followed by a shake.
RecordSize(p) ==
  /\ resizer[p].pc = "record"
  /\ last' = resizer[p].size
  /\ Step(p, IF resizer[p].frames = 1 THEN "shake" ELSE "relay")
  /\ UNCHANGED <<pty, asked, amiss, mirrorVars, chunks, raced, stale, exited, watchVars>>

\* jitterSize and the shake of the first resize: one row less, then the size again.
Shrink(p) ==
  /\ resizer[p].pc = "shake"
  /\ StoreSize(p, [resizer[p] EXCEPT !.pc = "shrink"], Shrunk(resizer[p].size))
  /\ UNCHANGED <<pty, asked, amiss, last, mirrorVars, chunks, raced, stale, exited, watchVars>>

\* Mutant: the second resize of a shake is left out.
RestoreSkipped(p) ==
  /\ resizer[p].pc = "restore"
  /\ Step(p, "relay")
  /\ UNCHANGED <<pty, asked, amiss, last, mirrorVars, chunks, raced, stale, exited, watchVars>>

Restore(p) ==
  /\ resizer[p].pc = "restore"
  /\ StoreSize(p, [resizer[p] EXCEPT !.pc = "restoring"], resizer[p].size)
  /\ UNCHANGED <<pty, asked, amiss, last, mirrorVars, chunks, raced, stale, exited, watchVars>>

\* The attach ends, at a takeover, with its connection or with the session.
RelayEnds(p) ==
  /\ p \in Relays /\ resizer[p].pc = "relay"
  /\ Step(p, "done")
  /\ UNCHANGED <<pty, asked, amiss, last, mirrorVars, chunks, raced, stale, exited, watchVars>>

-----------------------------------------------------------------------------
(* Output, and the end of it.                                               *)

Output ==
  /\ ~exited /\ chunks < MaxChunks
  /\ \E changed \in SUBSET DOMAIN grid.rows, t \in Texts :
       grid' = [grid EXCEPT !.rows = [r \in DOMAIN @ |-> IF r \in changed THEN t ELSE @[r]]]
  /\ ver' = ver + 1
  /\ chunks' = chunks + 1
  /\ UNCHANGED <<sizeVars, synced, exited, watchVars>>

OutputEnds ==
  /\ ~exited
  /\ exited' = TRUE
  /\ UNCHANGED <<sizeVars, mirrorVars, chunks, watchVars>>

-----------------------------------------------------------------------------
(* The monitor.  buildMirrorDiff pairs a snapshot with its version under    *)
(* mirrorMu; sending it and applyDiff touch nothing that is shared.         *)

Diff(full) == {r \in DOMAIN grid.rows : full \/ r \notin DOMAIN mon.base \/ mon.base[r] # grid.rows[r]}

\* applyDiff, which the client's side does as well.
Patch(rows, lines, full) ==
  [r \in 1 .. grid.size[2] |-> IF r \in lines THEN grid.rows[r]
                               ELSE IF ~full /\ r \in DOMAIN rows THEN rows[r] ELSE Blank]

Send(lines, full, pc) ==
  /\ view' = [size |-> grid.size, rows |-> Patch(view.rows, lines, full)]
  /\ mon' = [pc |-> pc, base |-> Patch(mon.base, lines, full), ver |-> ver, size |-> grid.size]

MonitorFull ==
  /\ mon.pc \in {"prime", "full"}
  /\ Send(Diff(TRUE), TRUE, "wait")
  /\ UNCHANGED <<sizeVars, mirrorVars, chunks, exited, wait>>

\* A tick: nothing to do while the version stands still.
MonitorTick ==
  /\ mon.pc = "wait" /\ mon.ver # ver
  /\ mon' = [mon EXCEPT !.pc = "diff"]
  /\ UNCHANGED <<sizeVars, mirrorVars, chunks, exited, view, wait>>

\* Mutant: the new size is recorded and no full frame follows.
MonitorResizedNoFrame ==
  /\ mon.pc = "diff" /\ grid.size # mon.size
  /\ mon' = [mon EXCEPT !.pc = "wait", !.ver = ver, !.size = grid.size]
  /\ UNCHANGED <<sizeVars, mirrorVars, chunks, exited, view, wait>>

MonitorResized ==
  /\ mon.pc = "diff" /\ grid.size # mon.size
  /\ mon' = [mon EXCEPT !.pc = "full"]
  /\ UNCHANGED <<sizeVars, mirrorVars, chunks, exited, view, wait>>

MonitorSame ==
  /\ mon.pc = "diff" /\ grid.size = mon.size /\ Diff(FALSE) = {}
  /\ mon' = [mon EXCEPT !.pc = "wait", !.ver = ver]
  /\ UNCHANGED <<sizeVars, mirrorVars, chunks, exited, view, wait>>

MonitorDiff ==
  /\ mon.pc = "diff" /\ grid.size = mon.size /\ Diff(FALSE) # {}
  /\ Send(Diff(FALSE), FALSE, "wait")
  /\ UNCHANGED <<sizeVars, mirrorVars, chunks, exited, wait>>

\* The client leaves, or the tick finds the session destroyed.
MonitorEnds ==
  /\ mon.pc = "wait"
  /\ mon' = [mon EXCEPT !.pc = "gone"]
  /\ UNCHANGED <<sizeVars, mirrorVars, chunks, exited, view, wait>>

-----------------------------------------------------------------------------
(* Wait: a snapshot, the tests on it, then the tick, the end of the process *)
(* or the end of the request.                                               *)

Matches(rows) == \E r \in DOMAIN rows : rows[r] = Hit
Return(result) == wait' = [pc |-> "done", result |-> result]

WaitLook ==
  /\ wait.pc = "look"
  /\ \/ Matches(grid.rows) /\ Return("matched")
     \/ ~Matches(grid.rows) /\ Return("quiet")
     \/ ~Matches(grid.rows) /\ Return("timed out")
     \/ ~Matches(grid.rows) /\ wait' = [wait EXCEPT !.pc = "select"]
  /\ UNCHANGED <<sizeVars, mirrorVars, chunks, exited, mon, view>>

WaitTick ==
  /\ wait.pc = "select"
  /\ \/ wait' = [wait EXCEPT !.pc = "look"]
     \/ Return("cancelled")
  /\ UNCHANGED <<sizeVars, mirrorVars, chunks, exited, mon, view>>

\* Mutant: the end of the process is reported with the screen of the last look.
WaitExitOldScreen ==
  /\ wait.pc = "select" /\ exited
  /\ Return("exited")
  /\ UNCHANGED <<sizeVars, mirrorVars, chunks, exited, mon, view>>

WaitExit ==
  /\ wait.pc = "select" /\ exited
  /\ Return(IF Matches(grid.rows) THEN "matched" ELSE "exited")
  /\ UNCHANGED <<sizeVars, mirrorVars, chunks, exited, mon, view>>

Resizing(p) ==
  \/ AttachReplays(p) \/ RelayResize(p) \/ RestResize(p) \/ SyncSize(p) \/ RecordSize(p)
  \/ Shrink(p) \/ Restore(p) \/ PtyTakes(p) \/ PtyRefuses(p) \/ RelayEnds(p)

Monitor == MonitorFull \/ MonitorTick \/ MonitorResized \/ MonitorSame \/ MonitorDiff
Waiting == WaitLook \/ WaitTick \/ WaitExit

ScreenNext ==
  \/ \E p \in Relays \cup Rests : Resizing(p)
  \/ Output \/ OutputEnds
  \/ Monitor \/ MonitorEnds \/ Waiting

ScreenSpec == ScreenInit /\ [][ScreenNext]_screenVars

\* The ticker of the monitor and the sequential code of a resize go on by themselves.
ScreenFairSpec == ScreenSpec /\ WF_screenVars(Monitor)

-----------------------------------------------------------------------------
(* Properties.                                                              *)

\* The monitor is never behind without knowing: when the version it recorded is the
\* version of the mirror, its client has the size and the rows of the mirror, also
\* after resizes without output and output that ends in the same picture.
MonitorInStep == mon.pc = "wait" /\ mon.ver = ver => view = grid

\* As long as resizes do not overlap, no restore failed and no attach restores the
\* size of an earlier client, the mirror has the size the PTY was given when nobody is
\* resizing; a resize that fails changes neither.
SizesAgree ==
  (\A p \in DOMAIN resizer : Idle(p)) /\ ~raced /\ ~amiss /\ ~stale /\ pty # Never => grid.size = pty

\* However shakes, frames and requests overlap, a size nobody asked for survives the
\* resizes in two ways only: the goroutine that set the PTY last read what another one
\* had stored in t.size, or the second resize of a shake failed.
NotLeftShort == (\A p \in DOMAIN resizer : Idle(p)) /\ ~amiss => pty \in asked

\* A Wait that reports the end of the process without a match has not overlooked a
\* match on the final screen, which came after its last look.
ExitMissesNothing == wait.result = "exited" => ~Matches(grid.rows)

\* When output and resizes stop, the monitor's client ends up with the mirror's screen.
MonitorCatchesUp == <>[](mon.pc = "gone" \/ view = grid)

=============================================================================
