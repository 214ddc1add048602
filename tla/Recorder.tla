------------------------------ MODULE Recorder ------------------------------
(***************************************************************************)
(* gotty capture, native engine (capture/driver.go Run).  Two goroutines:  *)
(* the reader takes what the program wrote, draws it, notes the time and   *)
(* looks for the marker; the loop of Run polls those notes until the       *)
(* program has exited, the marker was seen, the output was quiet for       *)
(* WaitMs, or the time is up.  Time is a clock of a few ticks.             *)
(***************************************************************************)
EXTENDS Integers, Sequences, SequencesExt, FiniteSetsExt

CONSTANTS
  RecBytes,    \* the bytes a program writes
  RecMarker,   \* opts.Marker
  RecMaxOut,   \* bound: bytes the program writes
  RecWait,     \* opts.WaitMs, in ticks; 0 = off
  RecTimeout,  \* opts.Timeout, in ticks
  RecEnd       \* bound: the last tick

ASSUME RecorderAssumption ==
  /\ RecMarker \in Seq(RecBytes) /\ RecMarker # <<>>
  /\ {RecMaxOut, RecWait, RecTimeout, RecEnd} \subseteq Nat

VARIABLES
  recOut,      \* what the program wrote
  recAlive,    \* the program runs
  recClock,
  recReader,   \* the reader: pc, how much it has read, the chunk it holds
  recDrawn,    \* what the emulator was given
  recOverlap,  \* the tail kept for the next search
  recHit,      \* markerHit
  recLastOut,  \* lastOutNs; anyOutput is recDrawn # <<>> by then
  recLoop      \* Run's loop: pc, why it stopped, when

recorderVars == <<recOut, recAlive, recClock, recReader, recDrawn, recOverlap, recHit, recLastOut, recLoop>>

RecorderInit ==
  /\ recOut = <<>> /\ recAlive = TRUE /\ recClock = 0
  /\ recReader = [pc |-> "read", got |-> 0, chunk |-> <<>>]
  /\ recDrawn = <<>> /\ recOverlap = <<>> /\ recHit = FALSE
  /\ recLastOut = -1
  /\ recLoop = [pc |-> "poll", why |-> "none", at |-> 0]

-----------------------------------------------------------------------------
(* The program and the clock, external.                                      *)

ProgramWrites(b) ==
  /\ recAlive /\ Len(recOut) < RecMaxOut
  /\ recOut' = Append(recOut, b)
  /\ UNCHANGED <<recAlive, recClock, recReader, recDrawn, recOverlap, recHit, recLastOut, recLoop>>

ProgramExits ==
  /\ recAlive
  /\ recAlive' = FALSE
  /\ UNCHANGED <<recOut, recClock, recReader, recDrawn, recOverlap, recHit, recLastOut, recLoop>>

RecTick ==
  /\ recClock < RecEnd
  /\ recClock' = recClock + 1
  /\ UNCHANGED <<recOut, recAlive, recReader, recDrawn, recOverlap, recHit, recLastOut, recLoop>>

-----------------------------------------------------------------------------
(* The reader.                                                               *)

\* term.Read: any part of what is there; nothing is left and the program has exited: the
\* exit code is sent, and the reader ends.
ReaderReads ==
  /\ recReader.pc = "read"
  /\ \/ \E n \in recReader.got + 1 .. Len(recOut) :
          recReader' = [pc |-> "draw", got |-> n, chunk |-> SubSeq(recOut, recReader.got + 1, n)]
     \/ recReader.got = Len(recOut) /\ ~recAlive /\ recReader' = [recReader EXCEPT !.pc = "ended"]
  /\ UNCHANGED <<recOut, recAlive, recClock, recDrawn, recOverlap, recHit, recLastOut, recLoop>>

\* emu.Write, and the answers go back to the program.
ReaderDraws ==
  /\ recReader.pc = "draw"
  /\ recDrawn' = recDrawn \o recReader.chunk
  /\ recReader' = [recReader EXCEPT !.pc = "note"]
  /\ UNCHANGED <<recOut, recAlive, recClock, recOverlap, recHit, recLastOut, recLoop>>

\* lastOutNs and anyOutput.
ReaderNotes ==
  /\ recReader.pc = "note"
  /\ recLastOut' = recClock
  /\ recReader' = [recReader EXCEPT !.pc = "search"]
  /\ UNCHANGED <<recOut, recAlive, recClock, recDrawn, recOverlap, recHit, recLoop>>

Has(s, m) == \E i \in 0 .. Len(s) - Len(m) : SubSeq(s, i + 1, i + Len(m)) = m
KeepTail(s, n) == IF Len(s) > n THEN SubSeq(s, Len(s) - n + 1, Len(s)) ELSE s

\* Mutant: one byte too few is kept for the next search.
ReaderSearchesShort ==
  LET scan == recOverlap \o recReader.chunk IN
  /\ recReader.pc = "search"
  /\ recHit' = (recHit \/ Has(scan, RecMarker))
  /\ recOverlap' = (IF recHit THEN recOverlap ELSE KeepTail(scan, Len(RecMarker) - 2))
  /\ recReader' = [recReader EXCEPT !.pc = "read"]
  /\ UNCHANGED <<recOut, recAlive, recClock, recDrawn, recLastOut, recLoop>>

\* The tail of the last search and the chunk are searched, then the tail is cut.
ReaderSearches ==
  LET scan == recOverlap \o recReader.chunk IN
  /\ recReader.pc = "search"
  /\ recHit' = (recHit \/ Has(scan, RecMarker))
  /\ recOverlap' = (IF recHit THEN recOverlap ELSE KeepTail(scan, Len(RecMarker) - 1))
  /\ recReader' = [recReader EXCEPT !.pc = "read"]
  /\ UNCHANGED <<recOut, recAlive, recClock, recDrawn, recLastOut, recLoop>>

-----------------------------------------------------------------------------
(* The loop of Run.  The select takes any case that is ready.                *)

Stops(why) == recLoop' = [pc |-> "close", why |-> why, at |-> recClock]

LoopStops ==
  /\ recLoop.pc = "poll"
  /\ \/ recReader.pc = "ended" /\ Stops("exit")
     \/ recClock >= RecTimeout /\ Stops("timeout")
     \/ recHit /\ Stops("marker")
     \/ /\ ~recHit /\ RecWait > 0 /\ recLastOut >= 0
        /\ recClock - recLastOut >= RecWait
        /\ Stops("quiet")
  /\ UNCHANGED <<recOut, recAlive, recClock, recReader, recDrawn, recOverlap, recHit, recLastOut>>

\* The deferred Close of a program that has not exited; the reader is not waited for.
LoopReturns ==
  /\ recLoop.pc = "close"
  /\ recLoop' = [recLoop EXCEPT !.pc = "done"]
  /\ recAlive' = FALSE
  /\ UNCHANGED <<recOut, recClock, recReader, recDrawn, recOverlap, recHit, recLastOut>>

RecorderNext ==
  \/ \E b \in RecBytes : ProgramWrites(b)
  \/ ProgramExits
  \/ RecTick
  \/ ReaderReads \/ ReaderDraws \/ ReaderNotes \/ ReaderSearches
  \/ LoopStops \/ LoopReturns

RecorderSpec == RecorderInit /\ [][RecorderNext]_recorderVars

-----------------------------------------------------------------------------
\* The reason Run gives is true of the picture, wherever the reads cut the output: the marker
\* is noticed exactly when it is in what was read, and only after it was drawn; when the
\* program has exited all it wrote is drawn (driver.go:145, driver.go:163).
ReasonIsTrue ==
  /\ recReader.pc = "read" => (recHit <=> Has(SubSeq(recOut, 1, recReader.got), RecMarker))
  /\ recLoop.why = "marker" => Has(recDrawn, RecMarker)
  /\ recLoop.why = "exit" => recDrawn = recOut

=============================================================================
