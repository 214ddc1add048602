------------------------------ MODULE Browser ------------------------------
(***************************************************************************)
(* gotty capture --engine browser (internal/browser/browser.go RunBrowser) *)
(* and the sampler of its animation (internal/capture/gif.go).  The run    *)
(* creates a session on a server of its own, opens a page on it, polls     *)
(* the page and the session until a stop condition holds, and asks for the *)
(* session to be deleted whatever happened.  A poll looks at the page      *)
(* twice and at the session once, and the page goes on between the looks.  *)
(* Time is a clock of a few ticks, 0 when the session was created; a       *)
(* screenshot takes a while.                                               *)
(***************************************************************************)
EXTENDS Integers, Sequences, FiniteSets, SequencesExt, FiniteSetsExt, Along

CONSTANTS
  BrPictures,   \* what a screenshot may show
  BrPeriod,     \* ticks between two samples
  BrMaxFrames,  \* opts.MaxFrames; 0 = no limit
  BrDuration,   \* opts.Duration of the recording, in ticks; 0 = until the stop
  BrWait,       \* opts.WaitMs, in ticks; 0 = off
  BrTimeout,    \* opts.Timeout, in ticks
  BrMaxOut,     \* bound: chunks of output the page gets
  BrEnd         \* bound: the last tick

ASSUME BrowserAssumption ==
  {BrPeriod, BrMaxFrames, BrDuration, BrWait, BrTimeout, BrMaxOut, BrEnd} \subseteq Nat

VARIABLES
  brPc,        \* "create", "page", "poll", "tail", "exit?", "quiet?", "sample", "shot", "final", "delete", "done", "failed"
  brWhy,       \* result.StopReason, or "error"
  brSession,   \* the session on the server: "none", "runs", "exited" or "gone"
  brPage,      \* the page: when it was mounted and got each chunk; in its tail, the oldest chunk with the marker (0 none)
  brClock,
  brTimer,     \* when timeoutTimer was started
  brGif,       \* the sampler: frames as [pic, at], nextAt, end (-1: not noted)
  brLook       \* what this poll read: the last activity, as an index of the page's times; the time of the shot

browserVars == <<brPc, brWhy, brSession, brPage, brClock, brTimer, brGif, brLook>>

BrowserInit ==
  /\ brPc = "create" /\ brWhy = "none" /\ brSession = "none"
  /\ brPage = [times |-> <<>>, tail |-> 0]
  /\ brClock = 0 /\ brTimer = 0
  /\ brGif = [frames |-> <<>>, next |-> 0, end |-> -1]
  /\ brLook = [read |-> 0, at |-> 0]

-----------------------------------------------------------------------------
(* The command and the clock, external, and the page.                        *)

\* The page is mounted, which counts as activity.
PageMounts ==
  /\ brPc = "page" /\ brPage.times = <<>>
  /\ brPage' = [brPage EXCEPT !.times = <<brClock>>]
  /\ UNCHANGED <<brPc, brWhy, brSession, brClock, brTimer, brGif, brLook>>

\* A chunk of output reaches the page, live or replayed: the session may have ended.  It
\* may hold the marker, and it may push an earlier one out of the tail.
PageWrites(marker, pushed) ==
  LET n == Len(brPage.times) IN
  /\ n \in 1 .. BrMaxOut /\ brSession # "none" /\ brPc \notin {"delete", "done", "failed"}
  /\ brPage' = [times |-> Append(brPage.times, brClock),
                tail |-> IF brPage.tail # 0 /\ ~pushed THEN brPage.tail ELSE IF marker THEN n + 1 ELSE 0]
  /\ UNCHANGED <<brPc, brWhy, brSession, brClock, brTimer, brGif, brLook>>

\* The command ends, or its session is removed: the answer to a GET reads the same.
CommandExits ==
  /\ brSession = "runs"
  /\ brSession' = "exited"
  /\ UNCHANGED <<brPc, brWhy, brPage, brClock, brTimer, brGif, brLook>>

BrTick ==
  /\ brClock < BrEnd /\ brPc \notin {"create", "done", "failed"}
  /\ brClock' = brClock + 1
  /\ UNCHANGED <<brPc, brWhy, brSession, brPage, brTimer, brGif, brLook>>

-----------------------------------------------------------------------------
\* Leave the loop, or RunBrowser, with the deferred delete still to come.
To(pc, why) == brPc' = pc /\ brWhy' = why

\* createRemoteSession; when its answer is an error or is lost, RunBrowser returns before
\* the delete is deferred.
Creates ==
  /\ brPc = "create"
  /\ \/ brSession' = "runs" /\ To("page", "none")
     \/ brSession' \in {"none", "runs"} /\ To("failed", "error")
  /\ UNCHANGED <<brPage, brClock, brTimer, brGif, brLook>>

\* The page is waited for, the viewport is set, the timer starts.
PageReady ==
  /\ brPc = "page"
  /\ \/ brPage.times # <<>> /\ To("poll", "none") /\ brTimer' = brClock
     \/ To("delete", "error") /\ UNCHANGED brTimer
  /\ UNCHANGED <<brSession, brPage, brClock, brGif, brLook>>

\* One case of the select: the timer, or a poll, which reads the last activity first.
Polls ==
  /\ brPc = "poll"
  /\ \/ brClock - brTimer >= BrTimeout /\ To("final", "timeout") /\ UNCHANGED brLook
     \/ To("tail", "none") /\ brLook' = [brLook EXCEPT !.read = Len(brPage.times)]
     \/ To("delete", "error") /\ UNCHANGED brLook
  /\ UNCHANGED <<brSession, brPage, brClock, brTimer, brGif>>

\* Mutant: the exit of the session goes before the marker.
ReadsTailLast ==
  /\ brPc = "tail"
  /\ IF brSession # "runs" THEN To("final", "exit")
     ELSE IF brPage.tail # 0 THEN To("final", "marker") ELSE To("exit?", "none")
  /\ UNCHANGED <<brSession, brPage, brClock, brTimer, brGif, brLook>>

\* Then the tail: the marker goes before the exit of the session, that before the quiet.
ReadsTail ==
  /\ brPc = "tail"
  /\ \/ IF brPage.tail # 0 THEN To("final", "marker") ELSE To("exit?", "none")
     \/ To("delete", "error")
  /\ UNCHANGED <<brSession, brPage, brClock, brTimer, brGif, brLook>>

\* sessionExited, a request of its own.
AsksExit ==
  /\ brPc = "exit?"
  /\ \/ IF brSession # "runs" THEN To("final", "exit") ELSE To("quiet?", "none")
     \/ To("delete", "error")
  /\ UNCHANGED <<brSession, brPage, brClock, brTimer, brGif, brLook>>

\* The silence lasts from the activity that was read to the present.
LooksQuiet ==
  /\ brPc = "quiet?"
  /\ IF BrWait > 0 /\ brClock - brPage.times[brLook.read] >= BrWait
     THEN To("final", "quiet") ELSE To("sample", "none")
  /\ UNCHANGED <<brSession, brPage, brClock, brTimer, brGif, brLook>>

-----------------------------------------------------------------------------
(* The sampler.                                                              *)

Over(at) == BrDuration > 0 /\ at >= BrDuration
Full == BrMaxFrames > 0 /\ Len(brGif.frames) >= BrMaxFrames

\* TrySample looks at the time, then the screenshot is taken, under the sampler's lock.
TrySample ==
  /\ brPc = "sample"
  /\ IF Over(brClock) \/ brClock < brGif.next \/ Full THEN To("poll", "none") ELSE To("shot", "none")
  /\ brLook' = [brLook EXCEPT !.at = brClock]
  /\ UNCHANGED <<brSession, brPage, brClock, brTimer, brGif>>

\* addLocked with Optimize: a picture like the last one is dropped, its time goes to that one.
AddLocked(g, pic, at) ==
  [g EXCEPT !.next = at + BrPeriod,
            !.frames = IF g.frames # <<>> /\ Last(g.frames).pic = pic THEN @
                       ELSE Append(@, [pic |-> pic, at |-> at])]

\* The screenshot is added under the time it was asked for; a failed one is no frame.
Shot(pic) ==
  /\ brPc = "shot" /\ To("poll", "none")
  /\ brGif' \in {brGif, AddLocked(brGif, pic, brLook.at)}
  /\ UNCHANGED <<brSession, brPage, brClock, brTimer, brLook>>

\* The last screenshot, and Force: a frame whatever the period is, and the end.
ForceShot(pic) ==
  /\ brPc = "final"
  /\ \/ To("delete", brWhy)
        /\ brGif' = [IF Over(brClock) \/ Full THEN brGif ELSE AddLocked(brGif, pic, brClock) EXCEPT !.end = brClock]
     \/ To("delete", "error") /\ UNCHANGED brGif
  /\ UNCHANGED <<brSession, brPage, brClock, brTimer, brLook>>

\* The deferred deleteRemoteSession, whose error and whose status nobody reads: a session
\* that would not close stays.
Deletes ==
  /\ brPc = "delete" /\ To("done", brWhy)
  /\ brSession' \in {"gone", brSession}
  /\ UNCHANGED <<brPage, brClock, brTimer, brGif, brLook>>

\* EncodeGIF: a frame lasts until the next one, the last one until the end.
Until(i) == IF i = Len(brGif.frames) THEN brGif.end ELSE brGif.frames[i+1].at

\* Mutant: a delay may be none.
DelayOfNone(i) == Until(i) - brGif.frames[i].at

\* The delay is at least one tick.  Ticks are hundredths of a second, so nothing is rounded
\* here.
Delay(i) == Max({1, Until(i) - brGif.frames[i].at})

BrowserNext ==
  \/ PageMounts \/ \E m, p \in BOOLEAN : PageWrites(m, p)
  \/ CommandExits \/ BrTick
  \/ Creates \/ PageReady \/ Polls \/ ReadsTail \/ AsksExit \/ LooksQuiet
  \/ TrySample \/ Deletes
  \/ \E pic \in BrPictures : Shot(pic) \/ ForceShot(pic)

BrowserSpec == BrowserInit /\ [][BrowserNext]_browserVars

-----------------------------------------------------------------------------
\* The stop reason is true of the run, though its looks are taken one after another and the
\* page and the command go on between them: after an exit or a quiet, the tail holds no
\* marker the page had when the poll began; after an exit the command is over; after a quiet,
\* nothing the page had got by then came in the last BrWait ticks; after a timeout, as long
\* has passed since the polls began.
BrowserReasonIsTrue ==
  /\ brWhy \in {"exit", "quiet"} => brPage.tail = 0 \/ brPage.tail > brLook.read
  /\ brWhy = "exit" => brSession # "runs"
  /\ brWhy = "quiet" => \A i \in 1 .. brLook.read : brClock - brPage.times[i] >= BrWait
  /\ brWhy = "timeout" => brClock - brTimer >= BrTimeout

\* The frames are in the order of time and no two in a row are alike; they are a period
\* apart, but for the last one, which is taken whatever the time is.
FramesAreApart ==
  LET g == brGif.frames IN
  \A i \in 1 .. Len(g) - 1 :
    /\ g[i].pic # g[i+1].pic /\ g[i+1].at >= g[i].at
    /\ i + 1 < Len(g) \/ brGif.end < 0 => g[i+1].at - g[i].at >= BrPeriod

\* The delays of the frames add up to the time from the first one to the stop, and a tick for
\* each that lasted none.
AddsUp ==
  LET g == brGif.frames
      sum == Along(LAMBDA s, i : s + Delay(i), 0, [i \in 1 .. Len(g) |-> i])
  IN
  brGif.end >= 0 /\ g # <<>> =>
    sum - (brGif.end - g[1].at) = Cardinality({i \in 1 .. Len(g) : Until(i) = g[i].at})

\* The animation shows what was on the screen for as long as it was there (gif.go addLocked,
\* Force, EncodeGIF), whatever the screenshots took and missed.
PlaysAsLong == FramesAreApart /\ AddsUp

=============================================================================
