------------------------------ MODULE MCParts ------------------------------
(* The parts of gotty that share no state, side by side: a behaviour is one *)
(* of one of them, and the others stay where they start.                    *)
EXTENDS Capture, Agent, Emulator, Recorder, Browser, Terminal, Store, LogFile, Update

VARIABLE part    \* the one that moves

allVars == <<captureVars, agentVars, emulatorVars, recorderVars, browserVars, terminalVars,
             storeVars, logFileVars, updateVars>>
partsVars == <<allVars, part>>

MCClients == <<"c1", "c2">>

\* What the commands of Agent may ask.
Ask(kind, button, at, to, force) ==
  [kind |-> kind, button |-> button, at |-> at, to |-> to, force |-> force, empty |-> FALSE]
AskNothing(kind) == [Ask(kind, NoButton, AtCursor, AtCursor, FALSE) EXCEPT !.empty = TRUE]
Near == <<1, 0>>
Far  == <<5, 2>>
MCRequests ==
  {Ask("keys", NoButton, AtCursor, AtCursor, FALSE),
   Ask("paste", NoButton, AtCursor, AtCursor, FALSE), AskNothing("paste"),
   Ask("click", Left, Near, AtCursor, FALSE),
   Ask("down", Left, Near, AtCursor, TRUE), Ask("down", "Right", Near, AtCursor, FALSE),
   Ask("up", NoButton, AtCursor, AtCursor, FALSE),
   Ask("scroll", "wheelup", AtCursor, AtCursor, FALSE),
   Ask("drag", NoButton, Far, Near, FALSE), Ask("drag", "right", AtCursor, Far, TRUE)}
MCLower == [n \in Names |-> IF n = "Right" THEN "right" ELSE n]

MCMarker == <<"x", "y", "x">>

\* What is added to a process's environment: at most two entries.
MCFold == [n \in TmNames |-> IF n = "x" THEN "X" ELSE n]
MCInherited == << <<"TERM", "old">>, <<"X", "old">>, <<"PROMPT", "old">> >>
Entries == TmNames \X {"1", "2"}
MCExtras == {<<>>} \cup {<<a>> : a \in Entries} \cup {<<a, b>> : a \in Entries, b \in Entries}

\* A part that does not move has one initial state.
MCInit ==
  /\ part \in {"capture", "agent", "emulator", "recorder", "browser", "terminal", "store", "log", "update"}
  /\ CaptureInit /\ AgentInit /\ EmulatorInit /\ RecorderInit /\ BrowserInit /\ TerminalInit
  /\ StoreInit /\ LogFileInit /\ UpdateInit
  /\ part # "agent" => permit /\ modes.mouse /\ modes.paste
  /\ part # "terminal" => tmPlatform = "unix" /\ tmEnv.extra = <<>>
  /\ part # "store" => stKind = "title"
  /\ part # "update" => upPlatform = "unix"

CapturePart  == part = "capture"  /\ CaptureNext  /\ UNCHANGED <<agentVars, emulatorVars, recorderVars, browserVars, terminalVars, storeVars, logFileVars, updateVars, part>>
AgentPart    == part = "agent"    /\ AgentNext    /\ UNCHANGED <<captureVars, emulatorVars, recorderVars, browserVars, terminalVars, storeVars, logFileVars, updateVars, part>>
EmulatorPart == part = "emulator" /\ EmulatorNext /\ UNCHANGED <<captureVars, agentVars, recorderVars, browserVars, terminalVars, storeVars, logFileVars, updateVars, part>>
RecorderPart == part = "recorder" /\ RecorderNext /\ UNCHANGED <<captureVars, agentVars, emulatorVars, browserVars, terminalVars, storeVars, logFileVars, updateVars, part>>
BrowserPart  == part = "browser"  /\ BrowserNext  /\ UNCHANGED <<captureVars, agentVars, emulatorVars, recorderVars, terminalVars, storeVars, logFileVars, updateVars, part>>
TerminalPart == part = "terminal" /\ TerminalNext /\ UNCHANGED <<captureVars, agentVars, emulatorVars, recorderVars, browserVars, storeVars, logFileVars, updateVars, part>>
StorePart    == part = "store"    /\ StoreNext    /\ UNCHANGED <<captureVars, agentVars, emulatorVars, recorderVars, browserVars, terminalVars, logFileVars, updateVars, part>>
LogPart      == part = "log"      /\ LogFileNext  /\ UNCHANGED <<captureVars, agentVars, emulatorVars, recorderVars, browserVars, terminalVars, storeVars, updateVars, part>>
UpdatePart   == part = "update"   /\ UpdateNext   /\ UNCHANGED <<captureVars, agentVars, emulatorVars, recorderVars, browserVars, terminalVars, storeVars, logFileVars, part>>

MCNext ==
  \/ CapturePart \/ AgentPart \/ EmulatorPart \/ RecorderPart \/ BrowserPart
  \/ TerminalPart \/ StorePart \/ LogPart \/ UpdatePart

MCSpec == MCInit /\ [][MCNext]_partsVars
=============================================================================
