------------------------------ MODULE LogFile ------------------------------
(***************************************************************************)
(* The server's log (utils/rotatingfile.go): a file that is renamed to     *)
(* path.1 before it grows past maxSize, after path.1 .. path.N-1 were      *)
(* renamed one up.  Each call on the file system is a step that may fail,  *)
(* and after which the process may die; a new one appends to what it finds.*)
(***************************************************************************)
EXTENDS Naturals, Sequences, SequencesExt, Along

CONSTANTS
  LgMaxSize,     \* maxSize
  LgMaxBackups,  \* maxBackups
  LgSizes,       \* sizes of lines
  LgMaxLines     \* bound: lines written in all

ASSUME LogFileAssumption ==
  /\ LgMaxSize \in Nat \ {0} /\ LgMaxBackups \in Nat \ {0}
  /\ LgSizes \subseteq Nat \ {0}     \* package log ends every line with a newline

VARIABLES
  lgFiles,   \* path (0) and its backups; a missing one is Missing
  lgPc,      \* "down" | "idle" | "remove" | "shift" | "move" | "reopen" | "append"
  lgNext,    \* the backup that is renamed next
  lgOpen,    \* w.file # nil
  lgSize,    \* w.size
  lgLine,    \* the size of the line being written
  lgWritten  \* lines whose Write returned without an error

logFileVars == <<lgFiles, lgPc, lgNext, lgOpen, lgSize, lgLine, lgWritten>>

Missing == [here |-> FALSE, lines |-> <<>>]
Present(lines) == [here |-> TRUE, lines |-> lines]

SizeOf(lines) == Along(LAMBDA sum, line : sum + line.size, 0, lines)

LogFileInit ==
  /\ lgFiles = [i \in 0..LgMaxBackups |-> Missing]
  /\ lgPc = "down" /\ lgNext = 0 /\ lgOpen = FALSE /\ lgSize = 0 /\ lgLine = 0 /\ lgWritten = 0

\* Mutant: the file is truncated when the server starts.
LgOpensAnew ==
  /\ lgPc = "down" /\ lgPc' = "idle"
  /\ lgFiles' = [lgFiles EXCEPT ![0] = Present(<<>>)]
  /\ lgOpen' = TRUE /\ lgSize' = 0
  /\ UNCHANGED <<lgNext, lgLine, lgWritten>>

\* NewRotatingWriter
LgOpens ==
  /\ lgPc = "down" /\ lgPc' = "idle"
  /\ lgFiles' = [lgFiles EXCEPT ![0] = Present(@.lines)]
  /\ lgOpen' = TRUE /\ lgSize' = SizeOf(lgFiles[0].lines)
  /\ UNCHANGED <<lgNext, lgLine, lgWritten>>

\* Write, up to the close of the old file.
LgBegins(size) ==
  /\ lgPc = "idle" /\ lgOpen /\ lgWritten < LgMaxLines
  /\ lgLine' = size
  /\ IF lgSize > 0 /\ lgSize + size > LgMaxSize
     THEN lgPc' = "remove" /\ lgOpen' = FALSE
     ELSE lgPc' = "append" /\ lgOpen' = TRUE
  /\ UNCHANGED <<lgFiles, lgNext, lgSize, lgWritten>>

\* The oldest backup goes; that this may fail is ignored.
LgRemoves ==
  /\ lgPc = "remove" /\ lgPc' = "shift" /\ lgNext' = LgMaxBackups - 1
  /\ \/ lgFiles' = [lgFiles EXCEPT ![LgMaxBackups] = Missing]
     \/ UNCHANGED lgFiles
  /\ UNCHANGED <<lgOpen, lgSize, lgLine, lgWritten>>

\* The backups move one up, the oldest first.
LgShifts ==
  /\ lgPc = "shift"
  /\ IF lgNext >= 1
     THEN /\ lgFiles' = IF lgFiles[lgNext].here
                        THEN [lgFiles EXCEPT ![lgNext + 1] = lgFiles[lgNext], ![lgNext] = Missing]
                        ELSE lgFiles
          /\ lgNext' = lgNext - 1 /\ lgPc' = "shift"
     ELSE lgPc' = "move" /\ UNCHANGED <<lgFiles, lgNext>>
  /\ UNCHANGED <<lgOpen, lgSize, lgLine, lgWritten>>

LgMoves ==
  /\ lgPc = "move" /\ lgPc' = "reopen"
  /\ lgFiles' = IF lgFiles[0].here THEN [lgFiles EXCEPT ![1] = lgFiles[0], ![0] = Missing] ELSE lgFiles
  /\ UNCHANGED <<lgNext, lgOpen, lgSize, lgLine, lgWritten>>

\* O_TRUNC
LgReopens ==
  /\ lgPc = "reopen" /\ lgPc' = "append"
  /\ lgFiles' = [lgFiles EXCEPT ![0] = Present(<<>>)]
  /\ lgOpen' = TRUE /\ lgSize' = 0
  /\ UNCHANGED <<lgNext, lgLine, lgWritten>>

LgAppends ==
  /\ lgPc = "append" /\ lgPc' = "idle"
  /\ lgFiles' = [lgFiles EXCEPT ![0] = Present(Append(@.lines, [number |-> lgWritten + 1, size |-> lgLine]))]
  /\ lgSize' = lgSize + lgLine /\ lgWritten' = lgWritten + 1
  /\ UNCHANGED <<lgNext, lgOpen, lgLine>>

\* A rename or the open fails: Write returns the error with w.file still nil, so that every
\* later Write fails too, until the server is started again.
LgFails ==
  /\ lgPc \in {"shift", "move", "reopen"} /\ lgPc' = "idle"
  /\ UNCHANGED <<lgFiles, lgNext, lgOpen, lgSize, lgLine, lgWritten>>

LgCrashes ==
  /\ lgPc # "down" /\ lgPc' = "down" /\ lgOpen' = FALSE
  /\ UNCHANGED <<lgFiles, lgNext, lgSize, lgLine, lgWritten>>

LogFileNext ==
  \/ LgOpens \/ LgRemoves \/ LgShifts \/ LgMoves \/ LgReopens \/ LgAppends \/ LgFails \/ LgCrashes
  \/ \E size \in LgSizes : LgBegins(size)

LogFileSpec == LogFileInit /\ [][LogFileNext]_logFileVars

-----------------------------------------------------------------------------
LinesOf(file) == ToSet(file.lines)
Numbers(file) == {line.number : line \in LinesOf(file)}
KeptNumbers == UNION {Numbers(lgFiles[i]) : i \in 0 .. LgMaxBackups}

\* The lines the files hold are the last ones written: each once, in order from the oldest
\* backup to the current file, and without a gap, whatever rotation failed or was cut off.
KeptIsTail ==
  /\ \A i \in 0 .. LgMaxBackups : LET lines == lgFiles[i].lines IN
       \A k, l \in DOMAIN lines : k < l => lines[k].number < lines[l].number
  /\ \A i, j \in 0 .. LgMaxBackups : i > j =>
       \A a \in Numbers(lgFiles[i]), b \in Numbers(lgFiles[j]) : a < b
  /\ \A a \in KeptNumbers : a .. lgWritten \subseteq KeptNumbers

\* No file grows past maxSize, unless it has one line only.
RotatesInTime ==
  \A i \in 0 .. LgMaxBackups : SizeOf(lgFiles[i].lines) > LgMaxSize => Len(lgFiles[i].lines) = 1

\* What a log is kept for: its last lines, in files of bounded size (rotatingfile.go Write,
\* rotate), whatever failed.
LogKeepsLast == KeptIsTail /\ RotatesInTime

\* No step loses a line of any file but the oldest.
OldestGoesFirst ==
  lgFiles' # lgFiles => \A i \in 0 .. LgMaxBackups - 1 :
    LinesOf(lgFiles[i]) \subseteq UNION {LinesOf(lgFiles'[j]) : j \in 0 .. LgMaxBackups}

\* Whatever step of a rotation failed or was the last one of a process, what is dropped is
\* the oldest file (rotatingfile.go rotate).
DropsOldestOnly == [][OldestGoesFirst]_logFileVars

=============================================================================
