------------------------------ MODULE Terminal ------------------------------
(***************************************************************************)
(* A process on its pseudoterminal (internal/terminal): how it is started, *)
(* read, ended and released, on unix (process_unix.go, raw_linux.go) and   *)
(* on Windows (process_windows.go), and the environment it gets            *)
(* (terminal.go buildEnv).                                                 *)
(*                                                                         *)
(* The goroutines are the reader, the one that waits for the process, the  *)
(* callers of Close and those that write input.  Closing the Windows       *)
(* pseudoconsole takes the whole process tree down, and breaks the channel *)
(* of the reader.  On unix nothing in the program closes the master: it    *)
(* goes with the terminal, when the garbage collector finds it.            *)
(***************************************************************************)
EXTENDS Integers, Sequences, SequencesExt, FiniteSets, Along

CONSTANTS
  TmPlatforms,  \* of "unix" and "windows"
  TmClosers,    \* the callers of Terminal.Close
  TmMaxOut,     \* bound: chunks the process writes
  TmNames,      \* of variables
  TmFold,       \* a name as Windows compares it
  TmValues,     \* of variables
  TmInherited,  \* os.Environ(), a sequence of <<name, value>>
  TmExtras      \* the environments a session is given, likewise

ASSUME TerminalAssumption ==
  /\ TmPlatforms \subseteq {"unix", "windows"} /\ TmMaxOut \in Nat
  /\ TmExtras \subseteq Seq(TmNames \X TmValues) /\ TmInherited \in Seq(TmNames \X TmValues)
  /\ {"TERM", "PROMPT"} \subseteq TmNames
  \* gap: buildEnv compares names exactly, on Windows too; README, section 6
  /\ \A n \in TmNames : TmFold[n] = TmFold["TERM"] => n = "TERM"

VARIABLES
  tmPlatform,
  tmEnv,       \* the environment the process was started with, and the extra one asked for
  tmStart,     \* "new", "failed" or "started"
  tmOpen,      \* the handles this side holds
  tmShut,      \* history: handles closed, in order
  tmProc,      \* the process: "none", "running" or "gone"
  tmOut,       \* chunks written by the process
  tmRead,      \* chunks the reader has
  tmReader,    \* "reads" or "ended"
  tmWaiter,    \* the goroutine of New: "waits", "releases", "publishes" or "done"
  tmCloser     \* each caller of Close: its next step

terminalVars == <<tmPlatform, tmEnv, tmStart, tmOpen, tmShut, tmProc, tmOut, tmRead, tmReader, tmWaiter, tmCloser>>

-----------------------------------------------------------------------------
(* The environment.                                                          *)

\* The value of the last entry with one of these names; no value if there is none.
LastOf(env, names) ==
  LET hits == {i \in 1 .. Len(env) : env[i][1] \in names}
  IN {env[i][2] : i \in {h \in hits : \A j \in hits : j <= h}}

\* Mutant: the first of several entries is kept.
DedupeEnvFirst(env) == Those(env, {i \in 1 .. Len(env) : \A j \in 1 .. i - 1 : env[j][1] # env[i][1]})

\* dedupeEnv: the last entry of each key, in the order they came.
DedupeEnv(env) == Those(env, {i \in 1 .. Len(env) : \A j \in i + 1 .. Len(env) : env[j][1] # env[i][1]})

Without(env, names) == Those(env, {i \in 1 .. Len(env) : env[i][1] \notin names})

\* buildEnv, for bash: TERM (COLORTERM alike) has one entry; PROMPT_COMMAND is added unless
\* it was asked for; an inherited entry gives way to one that was asked for.
BuildEnv(extra) ==
  LET asked == DedupeEnv(Without(extra, {"TERM"}))
      over == {asked[i][1] : i \in 1 .. Len(asked)}
      last == LastOf(extra, {"TERM"})
      term == <<"TERM", CHOOSE v \in IF last = {} THEN {"xterm"} ELSE last : TRUE>>
      prompt == IF "PROMPT" \in over THEN <<>> ELSE << <<"PROMPT", "reset">> >>
  IN Append(Without(TmInherited, {"TERM"} \cup over), term) \o prompt \o asked

\* The names that are the same to a process: on Windows, in any case.
SameNames(platform, key) ==
  {n \in TmNames : n = key \/ (platform = "windows" /\ TmFold[n] = TmFold[key])}

\* What the process sees under a name: os/exec keeps the last entry of a key, newEnvBlock
\* the last of the same name.
Sees(platform, env, key) == LastOf(env, SameNames(platform, key))

-----------------------------------------------------------------------------
TerminalInit ==
  /\ tmPlatform \in TmPlatforms
  /\ tmEnv \in {[extra |-> e, got |-> <<>>] : e \in TmExtras}
  /\ tmStart = "new" /\ tmOpen = {} /\ tmShut = <<>> /\ tmProc = "none"
  /\ tmOut = 0 /\ tmRead = 0 /\ tmReader = "reads" /\ tmWaiter = "waits"
  /\ tmCloser = [c \in TmClosers |-> "idle"]

Stages(platform) ==
  IF platform = "unix" THEN {"open", "raw", "start"} ELSE {"pipe1", "pipe2", "console", "attach", "find"}

\* The handles taken before a stage.
Taken(stage) ==
  CASE stage \in {"open", "pipe1"} -> {}
    [] stage \in {"raw", "start"} -> {"master", "slave"}
    [] stage = "pipe2" -> {"inR", "in"}
    [] stage = "console" -> {"inR", "in", "out", "outW"}
    [] stage = "attach" -> {"inR", "in", "out", "outW", "console"}
    [] OTHER -> {"inR", "in", "out", "outW", "console", "process"}

\* What the error path of a stage gives back.
GivenBack(stage) ==
  CASE stage \in {"raw", "start"} -> {"master", "slave"}
    [] stage = "pipe2" -> {"inR", "in"}
    [] stage = "console" -> {"inR", "in", "out", "outW"}
    [] stage \in {"attach", "find"} -> {"inR", "outW"} \cup {"process"} \cup {"console", "in", "out"}
    [] OTHER -> {}

\* startProcess fails at a stage.  Closing the console ends a process that was created.
StartFails(stage) ==
  /\ tmStart = "new" /\ stage \in Stages(tmPlatform)
  /\ tmStart' = "failed"
  /\ tmOpen' = Taken(stage) \ GivenBack(stage)
  /\ UNCHANGED <<tmPlatform, tmEnv, tmShut, tmProc, tmOut, tmRead, tmReader, tmWaiter, tmCloser>>

\* It succeeds; the ends given to the other side are closed here, and so are the handles
\* CreateProcess returned.
Starts ==
  /\ tmStart = "new"
  /\ tmStart' = "started" /\ tmProc' = "running"
  /\ tmOpen' = (IF tmPlatform = "unix" THEN {"master"} ELSE {"console", "in", "out"})
  /\ tmEnv' = [tmEnv EXCEPT !.got = BuildEnv(tmEnv.extra)]
  /\ UNCHANGED <<tmPlatform, tmShut, tmOut, tmRead, tmReader, tmWaiter, tmCloser>>

-----------------------------------------------------------------------------
(* The process, external.                                                    *)

ProcessWrites ==
  /\ tmProc = "running" /\ tmOut < TmMaxOut
  /\ tmOut' = tmOut + 1
  /\ UNCHANGED <<tmPlatform, tmEnv, tmStart, tmOpen, tmShut, tmProc, tmRead, tmReader, tmWaiter, tmCloser>>

ProcessGone ==
  /\ tmProc = "running"
  /\ tmProc' = "gone"
  /\ UNCHANGED <<tmPlatform, tmEnv, tmStart, tmOpen, tmShut, tmOut, tmRead, tmReader, tmWaiter, tmCloser>>

\* Mutant: a handle is closed by everyone who comes by.
ShutAgain(h) == tmOpen' = tmOpen \ {h} /\ tmShut' = Append(tmShut, h)

\* closeConsole, closeIn, closeOut: each once.
Shut(h) ==
  IF h \in tmOpen THEN tmOpen' = tmOpen \ {h} /\ tmShut' = Append(tmShut, h)
  ELSE UNCHANGED <<tmOpen, tmShut>>

\* The channel has nothing more to give: the process is gone, and on Windows the console is
\* closed too, which holds the writing end.
Broken == tmProc = "gone" /\ (tmPlatform = "windows" => "console" \notin tmOpen)

Reads ==
  /\ tmStart = "started" /\ tmReader = "reads"
  /\ \/ /\ tmRead < tmOut /\ (tmPlatform = "windows" => "out" \in tmOpen)
        /\ tmRead' = tmRead + 1
        /\ UNCHANGED <<tmReader, tmOpen, tmShut>>
     \/ /\ tmPlatform = "windows"
        /\ "out" \notin tmOpen \/ (Broken /\ tmRead = tmOut)
        /\ tmReader' = "ended" /\ Shut("out") /\ UNCHANGED tmRead
     \/ /\ tmPlatform = "unix" /\ Broken /\ tmRead = tmOut
        /\ tmReader' = "ended" /\ UNCHANGED <<tmRead, tmOpen, tmShut>>
  /\ UNCHANGED <<tmPlatform, tmEnv, tmStart, tmProc, tmOut, tmWaiter, tmCloser>>

\* Mutant: the release closes the reading end too.
ReleasesAll ==
  /\ tmStart = "started" /\ tmPlatform = "windows" /\ tmWaiter = "releases"
  /\ tmOpen' = {} /\ tmShut' = tmShut \o SetToSeq(tmOpen)
  /\ tmWaiter' = "publishes"
  /\ UNCHANGED <<tmPlatform, tmEnv, tmStart, tmProc, tmOut, tmRead, tmReader, tmCloser>>

\* releaseAfterExit: nothing on unix; on Windows the console, then the input.
Releases ==
  /\ tmStart = "started" /\ tmPlatform = "windows" /\ tmWaiter = "releases"
  /\ \/ "console" \in tmOpen /\ Shut("console") /\ UNCHANGED tmWaiter
     \/ "console" \notin tmOpen /\ Shut("in") /\ tmWaiter' = "publishes"
  /\ UNCHANGED <<tmPlatform, tmEnv, tmStart, tmProc, tmOut, tmRead, tmReader, tmCloser>>

\* Write, on Windows: when the console is gone the channel is broken, and its end here is
\* closed.  Other writes change nothing.
WriteFails ==
  /\ tmPlatform = "windows" /\ tmStart = "started" /\ "console" \notin tmOpen /\ "in" \in tmOpen
  /\ Shut("in")
  /\ UNCHANGED <<tmPlatform, tmEnv, tmStart, tmProc, tmOut, tmRead, tmReader, tmWaiter, tmCloser>>

\* The other steps of the goroutine of New: Wait returns, the exit is published.
Waits ==
  /\ tmStart = "started"
  /\ \/ tmWaiter = "waits" /\ tmProc = "gone"
        /\ tmWaiter' = (IF tmPlatform = "unix" THEN "publishes" ELSE "releases")
     \/ tmWaiter = "publishes" /\ tmWaiter' = "done"
  /\ UNCHANGED <<tmPlatform, tmEnv, tmStart, tmOpen, tmShut, tmProc, tmOut, tmRead, tmReader, tmCloser>>

-----------------------------------------------------------------------------
(* Close.  On unix it signals, and kills when the grace period is over; on   *)
(* Windows either is terminate.                                              *)

Go(c, next) == tmCloser' = [tmCloser EXCEPT ![c] = next]

CloseStarts(c) ==
  /\ tmStart = "started" /\ tmCloser[c] = "idle"
  /\ Go(c, IF tmWaiter = "done" THEN "done" ELSE IF tmPlatform = "unix" THEN "signal" ELSE "kill")
  /\ UNCHANGED <<tmPlatform, tmEnv, tmStart, tmOpen, tmShut, tmProc, tmOut, tmRead, tmReader, tmWaiter>>

\* The close signal may be ignored; a process that was waited for has no group any more, and
\* Close fails.
CloseSignals(c) ==
  /\ tmCloser[c] = "signal"
  /\ \/ tmWaiter = "waits" /\ Go(c, "grace") /\ tmProc' \in {tmProc, "gone"}
     \/ tmWaiter # "waits" /\ Go(c, "failed") /\ UNCHANGED tmProc
  /\ UNCHANGED <<tmPlatform, tmEnv, tmStart, tmOpen, tmShut, tmOut, tmRead, tmReader, tmWaiter>>

\* The exit is seen within the grace period, or SIGKILL follows (which fails in the same way).
CloseEscalates(c) ==
  /\ tmCloser[c] = "grace"
  /\ \/ tmWaiter = "done" /\ Go(c, "done") /\ UNCHANGED tmProc
     \/ tmWaiter = "waits" /\ Go(c, "exit") /\ tmProc' = "gone"
     \/ tmWaiter = "publishes" /\ Go(c, "failed") /\ UNCHANGED tmProc
  /\ UNCHANGED <<tmPlatform, tmEnv, tmStart, tmOpen, tmShut, tmOut, tmRead, tmReader, tmWaiter>>

\* terminate: Kill, the console (and with it every process attached), the input, the output.
Terminates(c) ==
  /\ tmCloser[c] \in {"kill", "console", "in", "out"}
  /\ CASE tmCloser[c] = "kill" -> Go(c, "console") /\ tmProc' = "gone" /\ UNCHANGED <<tmOpen, tmShut>>
       [] tmCloser[c] = "console" -> Go(c, "in") /\ Shut("console") /\ UNCHANGED tmProc
       [] tmCloser[c] = "in" -> Go(c, "out") /\ Shut("in") /\ UNCHANGED tmProc
       [] tmCloser[c] = "out" -> Go(c, "exit") /\ Shut("out") /\ UNCHANGED tmProc
  /\ UNCHANGED <<tmPlatform, tmEnv, tmStart, tmOut, tmRead, tmReader, tmWaiter>>

\* The exit was published; of the handles, Close itself closes none on unix.
CloseReturns(c) ==
  /\ tmCloser[c] = "exit" /\ tmWaiter = "done"
  /\ Go(c, "done")
  /\ UNCHANGED <<tmPlatform, tmEnv, tmStart, tmOpen, tmShut, tmProc, tmOut, tmRead, tmReader, tmWaiter>>

\* External: the last reference to the terminal is gone, so the runtime closes the master.
\* Until then the reader, the goroutine of New and the callers of Close hold one.
Busy(c) == tmCloser[c] \notin {"idle", "done", "failed"}

Collected ==
  /\ tmPlatform = "unix" /\ "master" \in tmOpen
  /\ tmReader = "ended" /\ tmWaiter = "done" /\ \A c \in TmClosers : ~Busy(c)
  /\ Shut("master")
  /\ UNCHANGED <<tmPlatform, tmEnv, tmStart, tmProc, tmOut, tmRead, tmReader, tmWaiter, tmCloser>>

TerminalNext ==
  \/ \E s \in Stages("unix") \cup Stages("windows") : StartFails(s)
  \/ Starts
  \/ ProcessWrites \/ ProcessGone
  \/ Reads \/ Releases \/ WriteFails \/ Waits \/ Collected
  \/ \E c \in TmClosers : CloseStarts(c) \/ CloseSignals(c) \/ CloseEscalates(c) \/ Terminates(c) \/ CloseReturns(c)

TerminalSpec == TerminalInit /\ [][TerminalNext]_terminalVars

-----------------------------------------------------------------------------
\* A start that fails leaves no handle.  Whoever comes first of the reader, the waiter, the
\* writers and the callers of Close, no handle is closed twice, and on Windows none is left
\* when the reader and the waiter are done (process_windows.go).  On unix the master is there
\* for as long as somebody may use it, and after that until it is collected: no Close gives
\* it back.
HandlesReleased ==
  /\ tmStart = "failed" => tmOpen = {}
  /\ \A h \in {tmShut[i] : i \in DOMAIN tmShut} : Cardinality({i \in DOMAIN tmShut : tmShut[i] = h}) = 1
  /\ tmPlatform = "windows" /\ tmReader = "ended" /\ tmWaiter = "done" => tmOpen = {}
  /\ tmPlatform = "unix" /\ tmStart = "started" =>
       tmOpen = {"master"} \/ (tmReader = "ended" /\ tmWaiter = "done" /\ tmShut = <<"master">>)

\* The reader of a process that nobody closed gets the last of its output
\* (releaseAfterExit, and the note in New about the master).
TailIsRead ==
  tmReader = "ended" /\ (tmPlatform = "unix" \/ \A c \in TmClosers : tmCloser[c] = "idle") => tmRead = tmOut

\* Under every name the process sees the last value that was asked for; an environment that
\* was not asked about is inherited, but for TERM and the prompt (buildEnv, newEnvBlock).
EnvSaysLast ==
  tmStart = "started" =>
    \A k \in TmNames :
      LET asked == Sees(tmPlatform, tmEnv.extra, k)
          default == CASE k = "TERM" -> {"xterm"}
                       [] "PROMPT" \in SameNames(tmPlatform, k) -> {"reset"}
                       [] OTHER -> Sees(tmPlatform, TmInherited, k)
      IN Sees(tmPlatform, tmEnv.got, k) = IF asked = {} THEN default ELSE asked

=============================================================================
