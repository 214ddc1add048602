------------------------------- MODULE Agent -------------------------------
(***************************************************************************)
(* Driving a session without attaching: the command line (cmd/agent.go),   *)
(* the handlers for keys, pastes and mouse events (api/agent_handler.go),  *)
(* Session.Input, Paste and Mouse (session/agent.go), and the mouse the    *)
(* emulator keeps for the agent (capture/mouse.go).                        *)
(*                                                                         *)
(* A handler looks at the session several times, each time under a lock it *)
(* gives up again: the state, the modes, the screen, the encoding, the     *)
(* state once more, the write.  The program changes its modes, a client    *)
(* changes the size and somebody deletes the session in between.  The      *)
(* program is what the bytes mean to it: the buttons it sees down and the  *)
(* cell of the last event.                                                 *)
(***************************************************************************)
EXTENDS Integers, FiniteSets, Sequences, SequencesExt, Http

CONSTANTS
  Cmds,          \* the commands, each run once
  Requests,      \* what a command may ask: kind, button, cell, cell a drag goes to, force, empty text
  Buttons,       \* the plain buttons under the names the code keeps them by
  Names,         \* the names requests give them
  Lower,         \* strings.ToLower of a name
  Left,          \* the default button
  Wheels,        \* the buttons that are steps of the wheel
  MaxSteps,      \* maxSteps of interpolate
  MaxEvents      \* bound: changes of modes, size and state by others

NoButton == "none"
AtCursor == <<>>      \* no cell given
Cells == Int \X Int
Kinds == {"keys", "paste", "click", "down", "up", "move", "drag", "scroll"}
Mouse(k) == k \notin {"keys", "paste"}

ASSUME AgentAssumption ==
  /\ Left \in Buttons /\ Wheels \subseteq Buttons /\ NoButton \notin Names
  /\ Buttons \subseteq Names /\ Lower \in [Names -> Buttons]
  /\ MaxSteps \in Nat \ {0}
  /\ \A r \in Requests :
       /\ r \in [kind : Kinds, button : Names \cup {NoButton}, at : Cells \cup {AtCursor},
                 to : Cells \cup {AtCursor}, force : BOOLEAN, empty : BOOLEAN]
       /\ r.empty => ~Mouse(r.kind)
       /\ r.kind = "drag" => r.to \in Cells

VARIABLES
  permit,        \* --permit-write
  state,         \* "running", "closed" (the PTY is gone) or "destroyed"
  modes,         \* the modes of the program as the emulator tracked them
  screen,        \* the size of the emulator's grid
  held, cursor,  \* e.mouseHeld; e.mouseCol and e.mouseRow
  cmd,           \* each command: pc, what it asks, its target, payload and status
  input,         \* the writes that reached the PTY, in whole or in part
  seen,          \* the mouse as the program sees it
  loose,         \* mouse requests overlapped, or one with a reset, or was encoded and not written
  events         \* changes by others so far

agentVars == <<permit, state, modes, screen, held, cursor, cmd, input, seen, loose, events>>
keptVars == <<held, cursor>>

\* A command that was not run yet.
Idle == [pc |-> "idle", kind |-> "keys", button |-> NoButton, at |-> AtCursor, to |-> AtCursor,
         force |-> FALSE, empty |-> FALSE, wrapped |-> FALSE, status |-> NoStatus, exit |-> -1]

AgentInit ==
  /\ permit \in BOOLEAN
  /\ state = "running"
  /\ modes \in [mouse : BOOLEAN, paste : BOOLEAN]
  /\ screen = <<6, 4>>
  /\ held = {} /\ cursor = <<0, 0>>
  /\ cmd = [c \in Cmds |-> Idle]
  /\ input = <<>>
  /\ seen = [down |-> {}, at |-> <<0, 0>>, path |-> <<>>]
  /\ loose = FALSE /\ events = 0

-----------------------------------------------------------------------------
(* The session's other actors.                                              *)

InFlight(c) == cmd[c].pc \notin {"idle", "answered", "done"}
Pointing(c) == InFlight(c) /\ Mouse(cmd[c].kind)

ProgramSetsMode ==
  /\ \E m \in {"mouse", "paste"} : modes' = [modes EXCEPT ![m] = ~@]
  /\ UNCHANGED <<state, screen, held, seen, loose>>

\* onRIS; a program that resets its terminal starts over with the buttons.
ProgramResets ==
  /\ modes' = [mouse |-> FALSE, paste |-> FALSE]
  /\ held' = {} /\ seen' = [seen EXCEPT !.down = {}]
  /\ loose' = (loose \/ \E c \in Cmds : Pointing(c) /\ cmd[c].pc \in {"check", "write"})
  /\ UNCHANGED <<state, screen>>

ScreenShrinks ==
  /\ screen = <<6, 4>> /\ screen' = <<3, 2>>
  /\ UNCHANGED <<state, modes, held, seen, loose>>

SessionEnds ==
  /\ state # "destroyed" /\ state' \in {"closed", "destroyed"} \ {state}
  /\ UNCHANGED <<modes, screen, held, seen, loose>>

Others ==
  /\ events < MaxEvents /\ events' = events + 1
  /\ ProgramSetsMode \/ ProgramResets \/ ScreenShrinks \/ SessionEnds
  /\ UNCHANGED <<permit, cursor, cmd, input>>

-----------------------------------------------------------------------------
(* The command line: one request, whose answer decides the exit code; a     *)
(* request that times out is not sent again, and the handler goes on.       *)

Goto(c, pc) == cmd' = [cmd EXCEPT ![c].pc = pc]
Answer(c, status) == cmd' = [cmd EXCEPT ![c].pc = "answered", ![c].status = status]

Asks(r) ==
  [Idle EXCEPT !.pc = "handler", !.kind = r.kind, !.button = r.button, !.at = r.at, !.to = r.to,
               !.force = r.force, !.empty = r.empty]

KeysCommand(c) ==
  /\ cmd[c].pc = "idle"
  /\ \E r \in Requests : ~Mouse(r.kind) /\ cmd' = [cmd EXCEPT ![c] = Asks(r)]
  /\ UNCHANGED <<permit, state, modes, screen, keptVars, input, seen, loose>>

MouseCommand(c) ==
  /\ cmd[c].pc = "idle"
  /\ \E r \in Requests : Mouse(r.kind) /\ cmd' = [cmd EXCEPT ![c] = Asks(r)]
  /\ loose' = (loose \/ \E d \in Cmds : Pointing(d))
  /\ UNCHANGED <<permit, state, modes, screen, keptVars, input, seen>>

\* The answer, or the timeout of the HTTP client: the server does not notice it.
CommandEnds(c) ==
  /\ cmd[c].pc = "answered"
  /\ \E exit \in IF cmd[c].status = StatusOK THEN {0, 1} ELSE {1} :
       cmd' = [cmd EXCEPT ![c].pc = "done", ![c].exit = exit]
  /\ UNCHANGED <<permit, state, modes, screen, keptVars, input, seen, loose>>

-----------------------------------------------------------------------------
(* handleKeys with Session.Paste and Session.Input.                         *)

\* A read-only server, an unknown session, a bad request, a text that is not on the screen.
RefuseRequest(c) ==
  /\ cmd[c].pc = "handler"
  /\ \E status \in IF permit THEN {StatusBadRequest, StatusNotFound, StatusServiceUnavailable}
                 ELSE {StatusForbidden} : Answer(c, status)
  /\ UNCHANGED <<permit, state, modes, screen, keptVars, input, seen, loose>>

\* No input at all is answered at once, also for a session that is destroyed; a base64
\* input of no bytes takes the way of the others.
HandleKeys(c) ==
  /\ permit /\ cmd[c].pc = "handler" /\ cmd[c].kind = "keys"
  /\ Goto(c, "check") \/ (cmd[c].empty /\ Answer(c, StatusOK))
  /\ UNCHANGED <<permit, state, modes, screen, keptVars, input, seen, loose>>

\* BracketedPaste under mirrorMu, then wrapPaste; a paste of nothing goes no further.
HandlePaste(c) ==
  /\ permit /\ cmd[c].pc = "handler" /\ cmd[c].kind = "paste"
  /\ LET wraps == modes.paste \/ cmd[c].force
         nothing == cmd[c].empty /\ ~wraps
     IN cmd' = [cmd EXCEPT ![c].wrapped = wraps, ![c].pc = IF nothing THEN "answered" ELSE "check",
                           ![c].status = IF nothing THEN StatusOK ELSE @]
  /\ UNCHANGED <<permit, state, modes, screen, keptVars, input, seen, loose>>

\* handleMouse: the state, and resolveMouseTarget (a text, a cell, else the cursor).
HandleMouse(c) ==
  /\ permit /\ cmd[c].pc = "handler" /\ Mouse(cmd[c].kind)
  /\ IF state = "destroyed"
     THEN Answer(c, StatusConflict)
     ELSE cmd' = [cmd EXCEPT ![c].pc = "encode", ![c].at = IF @ = AtCursor THEN cursor ELSE @]
  /\ UNCHANGED <<permit, state, modes, screen, keptVars, input, seen, loose>>

-----------------------------------------------------------------------------
(* EncodeMouse.                                                             *)

Abs(n) == IF n < 0 THEN -n ELSE n
Quot(a, b) == IF a < 0 THEN -((-a) \div b) ELSE a \div b    \* Go's division of integers

Interpolate(from, to) ==
  LET d == [i \in 1 .. 2 |-> to[i] - from[i]]
      far == IF Abs(d[1]) > Abs(d[2]) THEN Abs(d[1]) ELSE Abs(d[2])
      steps == IF far > MaxSteps THEN MaxSteps ELSE far
  IN IF far = 0 THEN <<from>>
     ELSE [n \in 1 .. steps + 1 |-> [i \in 1 .. 2 |-> from[i] + Quot(d[i] * (n - 1), steps)]]

OnScreen(cell) == \A k \in 1 .. 2 : 0 <= cell[k] /\ cell[k] < screen[k]

\* heldButton: a name that is not one of the code's own is not found.
HeldButtons == IF held \cap Buttons = {} THEN {NoButton} ELSE held \cap Buttons
Otherwise(button) == IF button = NoButton THEN Left ELSE button

\* Mutant: a bare up lets go of the left button.
MarkHeldLeft(c, button) ==
  CASE cmd[c].kind = "click" -> held \ {cmd[c].button}
    [] cmd[c].kind = "down" -> held \cup {cmd[c].button}
    [] cmd[c].kind = "drag" -> held \cup {button}
    [] cmd[c].kind = "up" -> held \ {Left}
    [] OTHER -> held

\* markHeld: click and down keep the name of the request, drag and up the code's own.
MarkHeld(c, button) ==
  CASE cmd[c].kind = "click" -> held \ {cmd[c].button}
    [] cmd[c].kind = "down" -> held \cup {cmd[c].button}
    [] cmd[c].kind = "drag" -> held \cup {button}
    [] cmd[c].kind = "up" -> held \ {button}
    [] OTHER -> held

\* Mutant: the cursor stays where a drag began.
LandsAtStart(c) == cmd[c].at

\* The cell the cursor is left at.
Lands(c) == IF cmd[c].kind = "drag" THEN cmd[c].to ELSE cmd[c].at

WellFormed(c) ==
  /\ OnScreen(cmd[c].at) /\ OnScreen(Lands(c))
  /\ cmd[c].kind \in {"click", "down"} => cmd[c].button # NoButton
  /\ cmd[c].kind = "scroll" => cmd[c].button \in Names /\ Lower[cmd[c].button] \in Wheels

\* EncodeMouse under mirrorMu; the button of a bare up or drag is any one that is held.
EncodeMouse(c) ==
  /\ cmd[c].pc = "encode"
  /\ \/ ~modes.mouse /\ ~cmd[c].force /\ Answer(c, StatusConflict) /\ UNCHANGED keptVars
     \/ /\ modes.mouse \/ cmd[c].force
        /\ ~WellFormed(c) /\ Answer(c, StatusBadRequest) /\ UNCHANGED keptVars
     \/ /\ modes.mouse \/ cmd[c].force
        /\ WellFormed(c)
        /\ \E b \in IF cmd[c].button = NoButton THEN HeldButtons ELSE {Lower[cmd[c].button]} :
             held' = MarkHeld(c, Otherwise(b))
        /\ cursor' = Lands(c)
        /\ Goto(c, "check")
  /\ UNCHANGED <<permit, state, modes, screen, input, seen, loose>>

-----------------------------------------------------------------------------
(* The state once more, and the write.                                      *)

CheckState(c) ==
  /\ cmd[c].pc = "check"
  /\ IF state = "destroyed" THEN Answer(c, StatusConflict) ELSE Goto(c, "write")
  /\ loose' = (loose \/ (state = "destroyed" /\ Mouse(cmd[c].kind)))
  /\ UNCHANGED <<permit, state, modes, screen, keptVars, input, seen>>

\* What the program makes of a mouse event; a release is a release of everything.
See(c) ==
  LET m == cmd[c] IN
  seen' = [down |-> CASE m.kind = "down" -> seen.down \cup {Lower[m.button]}
                      [] m.kind \in {"up", "click"} -> {}
                      [] OTHER -> seen.down,
           at |-> Lands(c),
           path |-> IF m.kind = "drag" THEN Interpolate(m.at, m.to) ELSE <<m.at>>]

\* Something is written: the text, or the markers around none.
HasBytes(c) == ~cmd[c].empty \/ (cmd[c].kind = "paste" /\ cmd[c].wrapped)

Payload(c, whole) == [by |-> c, kind |-> cmd[c].kind, wrapped |-> cmd[c].wrapped, whole |-> whole]

\* Mutant: the answer is there before the bytes are.
WriteInputLate(c) ==
  /\ cmd[c].pc = "write"
  /\ Answer(c, StatusOK)
  /\ IF state = "running" /\ HasBytes(c)
     THEN input' = Append(input, Payload(c, TRUE)) /\ (IF Mouse(cmd[c].kind) THEN See(c) ELSE UNCHANGED seen)
     ELSE UNCHANGED <<input, seen>>
  /\ loose' = (loose \/ (state # "running" /\ Mouse(cmd[c].kind)))
  /\ UNCHANGED <<permit, state, modes, screen, keptVars>>

\* One write of all bytes.  When the PTY goes away before it or under it, it fails, and the
\* program may have had a beginning of them: how many is dropped.
WriteInput(c) ==
  /\ cmd[c].pc = "write"
  /\ \/ /\ state = "running"
        /\ IF HasBytes(c) THEN input' = Append(input, Payload(c, TRUE)) ELSE UNCHANGED input
        /\ IF Mouse(cmd[c].kind) THEN See(c) ELSE UNCHANGED seen
        /\ Answer(c, StatusOK) /\ UNCHANGED loose
     \/ /\ state # "running"
        /\ UNCHANGED input \/ (HasBytes(c) /\ input' = Append(input, Payload(c, FALSE)))
        /\ Answer(c, StatusInternalServerError)
        /\ loose' = (loose \/ Mouse(cmd[c].kind))
        /\ UNCHANGED seen
  /\ UNCHANGED <<permit, state, modes, screen, keptVars>>

Commanding(c) ==
  \/ KeysCommand(c) \/ MouseCommand(c) \/ CommandEnds(c)
  \/ RefuseRequest(c) \/ HandleKeys(c) \/ HandlePaste(c) \/ HandleMouse(c)
  \/ EncodeMouse(c) \/ CheckState(c) \/ WriteInput(c)

AgentNext ==
  \/ Others
  \/ UNCHANGED events /\ \E c \in Cmds : Commanding(c)

AgentSpec == AgentInit /\ [][AgentNext]_agentVars

-----------------------------------------------------------------------------
(* Properties.                                                              *)

Writes(c) == {i \in DOMAIN input : input[i].by = c}
Wholly(c) == {i \in Writes(c) : input[i].whole}

\* An answer tells what became of the bytes, whenever the session ended.  200, and exit code
\* 0, say that the PTY took them all, once, or that there were none; 500 says that it did not
\* take them all, though it may have taken a beginning; any other status, and a read-only
\* server, that it took none.  A command never writes twice.
AnswerIsTrue ==
  \A c \in Cmds :
    /\ Cardinality(Writes(c)) <= 1
    /\ cmd[c].status = StatusOK \/ cmd[c].exit = 0 =>
         Cardinality(Wholly(c)) = Cardinality(Writes(c)) /\ (Writes(c) # {} <=> HasBytes(c))
    /\ cmd[c].status = StatusInternalServerError => Wholly(c) = {}
    /\ cmd[c].status \notin {StatusOK, StatusInternalServerError} => Writes(c) = {}
    /\ ~permit => Writes(c) = {}

\* A drag reaches the program as a glide: cell by cell unless that takes more than MaxSteps,
\* and within the rectangle of its two ends.
Glides(path) ==
  LET Between(x, a, b) == (a <= x /\ x <= b) \/ (b <= x /\ x <= a)
  IN /\ Len(path) <= MaxSteps + 1
     /\ Len(path) <= MaxSteps =>
          \A i \in 1 .. Len(path) - 1, k \in 1 .. 2 : Abs(path[i][k] - path[i + 1][k]) <= 1
     /\ \A i \in DOMAIN path, k \in 1 .. 2 : Between(path[i][k], path[1][k], Last(path)[k])

\* The agent's mouse is the program's mouse: as long as no two mouse requests overlapped,
\* no reset of the terminal came between, and none was encoded without being written, a button the program sees down is in the
\* held set, and the cursor is the last cell the program was shown; a drag got there in a
\* glide.
MouseAgrees ==
  /\ (\A c \in Cmds : ~Pointing(c)) /\ ~loose =>
       seen.down \subseteq {Lower[n] : n \in held} /\ seen.at = cursor
  /\ seen.path # <<>> => Last(seen.path) = seen.at /\ Glides(seen.path)

BareUp ==
  \A c \in Cmds, b \in Buttons :
    cmd[c].kind = "up" /\ cmd[c].button = NoButton /\ cmd[c].pc = "encode" /\ cmd'[c].pc = "check"
      => (held = {b} => held' = {})

\* A bare up releases the button that is held, if it is held under the code's own name for
\* it, however it came to be held (mouse.go heldButton, markHeld).
BareUpReleases == [][BareUp]_agentVars

=============================================================================
