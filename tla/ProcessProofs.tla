---------------------------- MODULE ProcessProofs ----------------------------
(***************************************************************************)
(* Proofs about a process on its pseudoterminal (Terminal) and about the   *)
(* runs that record one (Recorder, Browser).                               *)
(***************************************************************************)
EXTENDS Terminal, Recorder, Browser, Induction, FiniteSetTheorems, SequenceTheorems, TLAPS

-----------------------------------------------------------------------------
(* Terminal.                                                                *)

Handles == {"master", "console", "in", "out"}
ShutHandles == {tmShut[i] : i \in DOMAIN tmShut}

\* Nothing happens before the start, and nothing after one that failed.
BeforeStart ==
  /\ tmPlatform \in {"unix", "windows"}
  /\ tmCloser \in [TmClosers -> {"idle", "signal", "grace", "kill", "console", "in", "out", "exit", "done", "failed"}]
  /\ tmStart \in {"new", "failed", "started"}
  /\ tmShut \in Seq(Handles)
  /\ tmStart # "started" =>
       /\ tmOpen = {} /\ tmShut = <<>> /\ tmProc = "none" /\ tmReader = "reads" /\ tmWaiter = "waits"
       /\ \A c \in TmClosers : tmCloser[c] = "idle"
  /\ tmStart = "started" =>
       /\ tmProc \in {"running", "gone"}
       /\ tmOpen \subseteq (IF tmPlatform = "unix" THEN {"master"} ELSE {"console", "in", "out"})

\* A handle that was closed is not held any more, and was closed once.
ShutOnce ==
  /\ tmOpen \cap ShutHandles = {}
  /\ \A i, j \in DOMAIN tmShut : tmShut[i] = tmShut[j] => i = j

\* The reader's end of the Windows channel goes with the reader, the other two with the
\* waiter's release.
WhoCloses ==
  /\ tmPlatform = "windows" /\ tmReader = "ended" => "out" \notin tmOpen
  /\ tmPlatform = "windows" /\ tmWaiter \in {"publishes", "done"} => tmOpen \subseteq {"out"}
  /\ tmPlatform = "unix" => tmWaiter # "releases" /\ \A c \in TmClosers : tmCloser[c] \notin {"kill", "console", "in", "out"}

\* The master is there until the reader and the waiter are done, and then closed once.
MasterIsLast ==
  tmPlatform = "unix" /\ tmStart = "started" =>
    \/ tmOpen = {"master"} /\ tmShut = <<>>
    \/ tmOpen = {} /\ tmShut = <<"master">> /\ tmReader = "ended" /\ tmWaiter = "done"

\* While nobody closes, the reading end is there until the reader is at the end of the
\* output, and of a process that is gone.
ReaderIsLast ==
  tmPlatform = "unix" \/ (\A c \in TmClosers : tmCloser[c] = "idle") =>
    /\ tmReader = "ended" => tmProc = "gone" /\ tmRead = tmOut
    /\ tmPlatform = "windows" /\ tmStart = "started" /\ tmReader = "reads" => "out" \in tmOpen

ITerminal == BeforeStart /\ ShutOnce /\ WhoCloses /\ ReaderIsLast /\ MasterIsLast

\* Closing a handle, or leaving it closed, closes none twice.
LEMMA ShutKeeps ==
  ASSUME BeforeStart, ShutOnce, NEW h \in Handles, Shut(h)
  PROVE  /\ tmShut' \in Seq(Handles) /\ ShutOnce'
         /\ tmOpen' = tmOpen \ {h}
<1>1. CASE h \notin tmOpen
  BY <1>1 DEF Shut, BeforeStart, ShutOnce, ShutHandles
<1>2. CASE h \in tmOpen
  <2>1. tmOpen' = tmOpen \ {h} /\ tmShut' = Append(tmShut, h)
    BY <1>2 DEF Shut
  <2>2. /\ tmShut' \in Seq(Handles)
        /\ DOMAIN tmShut' = DOMAIN tmShut \cup {Len(tmShut) + 1}
        /\ \A i \in DOMAIN tmShut : tmShut'[i] = tmShut[i]
        /\ tmShut'[Len(tmShut) + 1] = h
    BY <2>1 DEF BeforeStart
  <2>3. \A i \in DOMAIN tmShut : tmShut[i] # h
    BY <1>2 DEF ShutOnce, ShutHandles
  <2>4. \A i, j \in DOMAIN tmShut' : tmShut'[i] = tmShut'[j] => i = j
    BY <2>2, <2>3 DEF ShutOnce
  <2>5. ShutHandles' = ShutHandles \cup {h}
    BY <2>2 DEF ShutHandles
  <2>6. tmOpen' \cap ShutHandles' = {}
    BY <2>1, <2>5 DEF ShutOnce
  <2> QED
    BY <2>1, <2>2, <2>4, <2>6 DEF ShutOnce
<1> QED
  BY <1>1, <1>2

LEMMA ITerminalInit == TerminalInit => ITerminal
<1> SUFFICES ASSUME TerminalInit PROVE ITerminal
  OBVIOUS
<1>1. <<>> \in Seq(Handles)
  OBVIOUS
<1>2. tmShut = <<>> /\ DOMAIN tmShut = {}
  BY DEF TerminalInit
<1>3. tmPlatform \in {"unix", "windows"}
  BY TerminalAssumption DEF TerminalAssumption, TerminalInit
<1>4. BeforeStart
  BY <1>1, <1>3 DEF TerminalInit, BeforeStart
<1> QED
  BY <1>2, <1>4 DEF TerminalInit, ITerminal, ShutOnce, ShutHandles, WhoCloses, ReaderIsLast, MasterIsLast

LEMMA ITerminalStep == ITerminal /\ [TerminalNext]_terminalVars => ITerminal'
<1> SUFFICES ASSUME ITerminal, [TerminalNext]_terminalVars PROVE ITerminal'
  OBVIOUS
<1>0. BeforeStart /\ ShutOnce /\ WhoCloses /\ ReaderIsLast /\ MasterIsLast
  BY DEF ITerminal
<1>1. ASSUME NEW s, StartFails(s) PROVE ITerminal'
  <2>1. s \in {"open", "raw", "start", "pipe1", "pipe2", "console", "attach", "find"}
    BY <1>1 DEF StartFails, Stages
  <2>2. tmOpen' = {}
    BY <1>1, <2>1 DEF StartFails, Taken, GivenBack
  <2> QED
    BY <1>0, <1>1, <2>2 DEF StartFails, ITerminal, BeforeStart, ShutOnce, ShutHandles, WhoCloses, ReaderIsLast, MasterIsLast
<1>2. CASE Starts
  <2>1. tmShut = <<>> /\ UNCHANGED tmShut /\ ShutHandles' = {}
    BY <1>0, <1>2 DEF Starts, BeforeStart, ShutHandles
  <2> QED
    BY <1>0, <1>2, <2>1 DEF Starts, ITerminal, BeforeStart, ShutOnce, WhoCloses, ReaderIsLast, MasterIsLast
<1>3. CASE ProcessWrites
  BY <1>0, <1>3 DEF ProcessWrites, ITerminal, BeforeStart, ShutOnce, ShutHandles, WhoCloses, ReaderIsLast, MasterIsLast
<1>4. CASE ProcessGone
  BY <1>0, <1>4 DEF ProcessGone, ITerminal, BeforeStart, ShutOnce, ShutHandles, WhoCloses, ReaderIsLast, MasterIsLast
<1>5. CASE Reads
  <2>1. UNCHANGED <<tmPlatform, tmStart, tmProc, tmOut, tmWaiter, tmCloser>> /\ tmStart = "started"
    BY <1>5 DEF Reads
  <2>2. CASE UNCHANGED <<tmReader, tmOpen, tmShut>>
    BY <1>0, <1>5, <2>1, <2>2 DEF Reads, ITerminal, BeforeStart, ShutOnce, ShutHandles, WhoCloses, ReaderIsLast, MasterIsLast
  <2>3. CASE /\ tmPlatform = "windows" /\ ("out" \notin tmOpen \/ (Broken /\ tmRead = tmOut))
             /\ tmReader' = "ended" /\ Shut("out") /\ UNCHANGED tmRead /\ tmReader = "reads"
    <3>1. tmShut' \in Seq(Handles) /\ ShutOnce' /\ tmOpen' = tmOpen \ {"out"}
      BY <1>0, <2>3, ShutKeeps DEF Handles
    <3> QED
      BY <1>0, <2>1, <2>3, <3>1 DEF ITerminal, BeforeStart, WhoCloses, ReaderIsLast, MasterIsLast, Broken
  <2>4. CASE /\ tmPlatform = "unix" /\ Broken /\ tmRead = tmOut
             /\ tmReader' = "ended" /\ UNCHANGED <<tmRead, tmOpen, tmShut>>
    BY <1>0, <2>1, <2>4 DEF ITerminal, BeforeStart, ShutOnce, ShutHandles, WhoCloses, ReaderIsLast, MasterIsLast, Broken
  <2> QED
    BY <1>5, <2>2, <2>3, <2>4 DEF Reads
<1>6. CASE Releases
  <2>1. /\ UNCHANGED <<tmPlatform, tmStart, tmProc, tmOut, tmRead, tmReader, tmCloser>>
        /\ tmPlatform = "windows" /\ tmStart = "started" /\ tmWaiter = "releases"
    BY <1>6 DEF Releases
  <2>2. CASE Shut("console") /\ UNCHANGED tmWaiter
    <3>1. tmShut' \in Seq(Handles) /\ ShutOnce' /\ tmOpen' = tmOpen \ {"console"}
      BY <1>0, <2>2, ShutKeeps DEF Handles
    <3> QED
      BY <1>0, <2>1, <2>2, <3>1 DEF ITerminal, BeforeStart, WhoCloses, ReaderIsLast, MasterIsLast
  <2>3. CASE "console" \notin tmOpen /\ Shut("in") /\ tmWaiter' = "publishes"
    <3>1. tmShut' \in Seq(Handles) /\ ShutOnce' /\ tmOpen' = tmOpen \ {"in"}
      BY <1>0, <2>3, ShutKeeps DEF Handles
    <3> QED
      BY <1>0, <2>1, <2>3, <3>1 DEF ITerminal, BeforeStart, WhoCloses, ReaderIsLast, MasterIsLast
  <2> QED
    BY <1>6, <2>2, <2>3 DEF Releases
<1>14. CASE WriteFails
  <2>1. tmShut' \in Seq(Handles) /\ ShutOnce' /\ tmOpen' = tmOpen \ {"in"}
    BY <1>0, <1>14, ShutKeeps DEF WriteFails, Handles
  <2> QED
    BY <1>0, <1>14, <2>1 DEF WriteFails, ITerminal, BeforeStart, WhoCloses, ReaderIsLast, MasterIsLast
<1>15. CASE Collected
  <2>1. tmShut' \in Seq(Handles) /\ ShutOnce' /\ tmOpen' = tmOpen \ {"master"}
    BY <1>0, <1>15, ShutKeeps DEF Collected, Handles
  <2>2. tmStart = "started" /\ tmOpen = {"master"} /\ tmShut = <<>>
    BY <1>0, <1>15 DEF Collected, BeforeStart, MasterIsLast
  <2>3. tmShut' = <<"master">> /\ tmOpen' = {}
    BY <1>15, <2>1, <2>2 DEF Collected, Shut
  <2> QED
    BY <1>0, <1>15, <2>1, <2>2, <2>3 DEF Collected, ITerminal, BeforeStart, WhoCloses, ReaderIsLast, MasterIsLast
<1>7. CASE Waits
  BY <1>0, <1>7 DEF Waits, ITerminal, BeforeStart, ShutOnce, ShutHandles, WhoCloses, ReaderIsLast, MasterIsLast
<1>8. ASSUME NEW c \in TmClosers, CloseStarts(c) PROVE ITerminal'
  BY <1>0, <1>8 DEF CloseStarts, Go, ITerminal, BeforeStart, ShutOnce, ShutHandles, WhoCloses, ReaderIsLast, MasterIsLast
<1>9. ASSUME NEW c \in TmClosers, CloseSignals(c) PROVE ITerminal'
  BY <1>0, <1>9 DEF CloseSignals, Go, ITerminal, BeforeStart, ShutOnce, ShutHandles, WhoCloses, ReaderIsLast, MasterIsLast
<1>10. ASSUME NEW c \in TmClosers, CloseEscalates(c) PROVE ITerminal'
  BY <1>0, <1>10 DEF CloseEscalates, Go, ITerminal, BeforeStart, ShutOnce, ShutHandles, WhoCloses, ReaderIsLast, MasterIsLast
<1>11. ASSUME NEW c \in TmClosers, Terminates(c) PROVE ITerminal'
  <2>1. /\ UNCHANGED <<tmPlatform, tmStart, tmOut, tmRead, tmReader, tmWaiter>>
        /\ tmCloser[c] \in {"kill", "console", "in", "out"}
    BY <1>11 DEF Terminates
  <2>2. tmPlatform = "windows" /\ tmStart = "started"
    BY <1>0, <2>1 DEF BeforeStart, WhoCloses
  <2>3. \E next \in {"console", "in", "out", "exit"} : Go(c, next)
    BY <1>11, <2>1 DEF Terminates
  <2>4. /\ tmCloser' \in [TmClosers -> {"idle", "signal", "grace", "kill", "console", "in", "out", "exit", "done", "failed"}]
        /\ tmCloser'[c] # "idle"
    BY <1>0, <2>3 DEF BeforeStart, Go
  <2>5. CASE UNCHANGED <<tmOpen, tmShut>> /\ tmProc' = "gone"
    BY <1>0, <2>1, <2>2, <2>4, <2>5 DEF ITerminal, BeforeStart, ShutOnce, ShutHandles, WhoCloses, ReaderIsLast, MasterIsLast
  <2>6. ASSUME NEW h \in Handles, Shut(h), UNCHANGED tmProc PROVE ITerminal'
    <3>1. tmShut' \in Seq(Handles) /\ ShutOnce' /\ tmOpen' = tmOpen \ {h}
      BY <1>0, <2>6, ShutKeeps
    <3> QED
      BY <1>0, <2>1, <2>2, <2>4, <2>6, <3>1 DEF ITerminal, BeforeStart, WhoCloses, ReaderIsLast, MasterIsLast
  <2> QED
    BY <1>11, <2>1, <2>5, <2>6 DEF Terminates, Handles
<1>12. ASSUME NEW c \in TmClosers, CloseReturns(c) PROVE ITerminal'
  BY <1>0, <1>12 DEF CloseReturns, Go, ITerminal, BeforeStart, ShutOnce, ShutHandles, WhoCloses, ReaderIsLast, MasterIsLast
<1>13. CASE UNCHANGED terminalVars
  BY <1>0, <1>13 DEF terminalVars, ITerminal, BeforeStart, ShutOnce, ShutHandles, WhoCloses, ReaderIsLast, MasterIsLast
<1> QED
  BY <1>1, <1>2, <1>3, <1>4, <1>5, <1>6, <1>7, <1>8, <1>9, <1>10, <1>11, <1>12, <1>13, <1>14, <1>15 DEF TerminalNext

\* For any number of callers of Close, and whichever stage of the start fails: no handle is
\* closed twice; on Windows none is left; on unix the master outlives its users, and only the
\* collector closes it.
THEOREM HandlesAreReleased == TerminalSpec => []HandlesReleased
<1>1. ITerminal => HandlesReleased
  <2> SUFFICES ASSUME ITerminal PROVE HandlesReleased
    OBVIOUS
  <2>1. tmStart = "failed" => tmOpen = {}
    BY DEF ITerminal, BeforeStart
  <2>2. ASSUME NEW h \in ShutHandles PROVE Cardinality({i \in DOMAIN tmShut : tmShut[i] = h}) = 1
    <3>1. PICK k \in DOMAIN tmShut : tmShut[k] = h
      BY <2>2 DEF ShutHandles
    <3>2. {i \in DOMAIN tmShut : tmShut[i] = h} = {k}
      BY <3>1 DEF ITerminal, ShutOnce
    <3> QED
      BY <3>2, FS_Singleton
  <2>3. tmPlatform = "windows" /\ tmReader = "ended" /\ tmWaiter = "done" => tmOpen = {}
    BY DEF ITerminal, WhoCloses
  <2>4. tmPlatform = "unix" /\ tmStart = "started" =>
          tmOpen = {"master"} \/ (tmReader = "ended" /\ tmWaiter = "done" /\ tmShut = <<"master">>)
    BY DEF ITerminal, MasterIsLast
  <2> QED
    BY <2>1, <2>2, <2>3, <2>4 DEF HandlesReleased, ShutHandles
<1> QED
  BY <1>1, ITerminalInit, ITerminalStep, PTL DEF TerminalSpec

\* The end of the output reaches the reader of a process that nobody closed.
THEOREM TailIsAlwaysRead == TerminalSpec => []TailIsRead
<1>1. ITerminal => TailIsRead
  BY DEF ITerminal, ReaderIsLast, TailIsRead
<1> QED
  BY <1>1, ITerminalInit, ITerminalStep, PTL DEF TerminalSpec

-----------------------------------------------------------------------------
(* Terminal: the environment.                                               *)

\* LastOf of the entries of env at some places only.
LastAt(env, at, names) ==
  LET hits == {i \in at : env[i][1] \in names}
  IN {env[i][2] : i \in {h \in hits : \A j \in hits : j <= h}}

\* One more place, above the others.
LEMMA LastAtMore ==
  ASSUME NEW env, NEW names, NEW at \in SUBSET Nat, NEW k \in Nat, \A i \in at : i < k
  PROVE  LastAt(env, at \cup {k}, names) = IF env[k][1] \in names THEN {env[k][2]} ELSE LastAt(env, at, names)
<1> DEFINE hits == {i \in at : env[i][1] \in names}
           more == {i \in at \cup {k} : env[i][1] \in names}
<1>1. CASE env[k][1] \in names
  <2>1. more = hits \cup {k}
    BY <1>1
  <2>2. \A i \in hits : i \in Nat /\ i < k
    OBVIOUS
  <2> HIDE DEF hits
  <2>3. {h \in hits \cup {k} : \A j \in hits \cup {k} : j <= h} = {k}
    BY <2>2
  <2> DEFINE top == {h \in more : \A j \in more : j <= h}
  <2>4. top = {k}
    BY <2>1, <2>3
  <2>5. LastAt(env, at \cup {k}, names) = {env[i][2] : i \in top}
    BY DEF LastAt
  <2> HIDE DEF top
  <2> QED
    BY <1>1, <2>4, <2>5
<1>2. CASE env[k][1] \notin names
  <2>1. more = hits
    BY <1>2
  <2> QED
    BY <1>2, <2>1 DEF LastAt
<1> QED
  BY <1>1, <1>2

LEMMA LastOfAppend ==
  ASSUME NEW E, NEW env \in Seq(E), NEW e \in E, NEW names
  PROVE  LastOf(Append(env, e), names) = IF e[1] \in names THEN {e[2]} ELSE LastOf(env, names)
<1> DEFINE n == Len(env)
           more == Append(env, e)
<1>1. /\ n \in Nat /\ Len(more) = n + 1 /\ more[n + 1] = e
      /\ \A i \in 1 .. n : more[i] = env[i]
  OBVIOUS
<1> HIDE DEF more, n
<1>2. 1 .. n + 1 = (1 .. n) \cup {n + 1} /\ 1 .. n \in SUBSET Nat /\ n + 1 \in Nat /\ \A i \in 1 .. n : i < n + 1
  BY <1>1
<1>3. LastAt(more, (1 .. n) \cup {n + 1}, names) =
        IF more[n + 1][1] \in names THEN {more[n + 1][2]} ELSE LastAt(more, 1 .. n, names)
  <2> DEFINE at == 1 .. n
             k == n + 1
  <2>1. at \in SUBSET Nat /\ k \in Nat /\ \A i \in at : i < k
    BY <1>2
  <2> HIDE DEF at, k
  <2>2. LastAt(more, at \cup {k}, names) = IF more[k][1] \in names THEN {more[k][2]} ELSE LastAt(more, at, names)
    BY <2>1, LastAtMore
  <2> QED
    BY <2>2 DEF at, k
<1>4. LastAt(more, 1 .. n, names) = LastAt(env, 1 .. n, names)
  <2>1. {i \in 1 .. n : more[i][1] \in names} = {i \in 1 .. n : env[i][1] \in names}
    BY <1>1
  <2>2. \A i \in 1 .. n : more[i][2] = env[i][2]
    BY <1>1
  <2> QED
    BY <2>1, <2>2 DEF LastAt
<1>5. LastOf(more, names) = LastAt(more, 1 .. n + 1, names) /\ LastOf(env, names) = LastAt(env, 1 .. n, names)
  BY <1>1 DEF LastOf, LastAt, n
<1> QED
  BY <1>1, <1>2, <1>3, <1>4, <1>5 DEF more

\* The entries at some places, and what their last one says.
LEMMA ThoseAre ==
  ASSUME NEW E, NEW env \in Seq(E), NEW at \in SUBSET (1 .. Len(env))
  PROVE  /\ Those(env, at) \in Seq(E)
         /\ \A names : LastOf(Those(env, at), names) = LastAt(env, at, names)
<1>6. PICK f : f \in Grows(E, env, at)
  BY ThoseGrow
<1> DEFINE n == Len(env)
           W == Seq(E)
<1>0. n \in Nat /\ \A i \in 1 .. n : env[i] \in E
  OBVIOUS
<1>7. /\ f[0] = <<>>
      /\ \A i \in 1 .. n : f[i] = IF i \in at THEN Append(f[i - 1], env[i]) ELSE f[i - 1]
  BY <1>6 DEF Grows
<1>8. f \in [0 .. n -> W]
  BY <1>6 DEF Grows
<1>9. Those(env, at) = f[n]
  BY <1>6 DEF Grows
<1>10. ASSUME NEW names PROVE LastOf(f[n], names) = LastAt(env, at, names)
  <2> DEFINE Upto(k) == {i \in at : i <= k}
             S == {k \in Nat : k <= n => LastOf(f[k], names) = LastAt(env, Upto(k), names)}
  <2>1. 0 \in S
    <3>1. Upto(0) = {} /\ LastOf(<<>>, names) = {}
      <4>1. at \subseteq 1 .. n
        OBVIOUS
      <4>2. \A i \in at : ~ (i <= 0)
        BY <4>1, <1>0
      <4>3. 1 .. Len(<<>>) = {}
        OBVIOUS
      <4> QED
        BY <4>2, <4>3 DEF LastOf
    <3>2. LastAt(env, Upto(0), names) = {}
      BY <3>1 DEF LastAt
    <3> HIDE DEF Upto
    <3> QED
      BY <1>7, <3>1, <3>2
  <2>2. ASSUME NEW k \in Nat, k \in S PROVE k + 1 \in S
    <3> SUFFICES ASSUME k + 1 <= n
                 PROVE  LastOf(f[k + 1], names) = LastAt(env, Upto(k + 1), names)
      <4> HIDE DEF Upto, n
      <4> QED
        OBVIOUS
    <3>1. k \in 0 .. n /\ k + 1 \in 1 .. n /\ (k + 1) - 1 = k /\ k <= n
      BY <1>0
    <3>2. LastOf(f[k], names) = LastAt(env, Upto(k), names) /\ f[k] \in Seq(E)
      <4>1. f[k] \in W
        <5> HIDE DEF n, W
        <5> QED
          BY <1>8, <3>1
      <4> HIDE DEF Upto, n
      <4> QED
        BY <2>2, <3>1, <4>1
    <3>3. f[k + 1] = IF k + 1 \in at THEN Append(f[k], env[k + 1]) ELSE f[k]
      <4> HIDE DEF n
      <4> QED
        BY <1>7, <3>1
    <3>4. CASE k + 1 \in at
      <4>1. Upto(k + 1) = Upto(k) \cup {k + 1} /\ Upto(k) \in SUBSET Nat /\ \A i \in Upto(k) : i < k + 1
        <5>1. \A i \in at : i \in Nat
          OBVIOUS
        <5>2. \A i \in at : i <= k + 1 <=> (i <= k \/ i = k + 1)
          BY <5>1
        <5>3. \A i \in Upto(k) : i \in Nat /\ i < k + 1
          BY <5>1
        <5> HIDE DEF n
        <5> QED
          BY <3>4, <5>2, <5>3
      <4>2. env[k + 1] \in E
        BY <1>0, <3>1
      <4> HIDE DEF Upto
      <4>3. LastOf(Append(f[k], env[k + 1]), names) =
              IF env[k + 1][1] \in names THEN {env[k + 1][2]} ELSE LastOf(f[k], names)
        <5> DEFINE g == f[k]
                   e == env[k + 1]
        <5>1. g \in Seq(E) /\ e \in E
          BY <3>2, <4>2
        <5> HIDE DEF g, e
        <5>2. LastOf(Append(g, e), names) = IF e[1] \in names THEN {e[2]} ELSE LastOf(g, names)
          BY <5>1, LastOfAppend
        <5> QED
          BY <5>2 DEF g, e
      <4>4. LastAt(env, Upto(k) \cup {k + 1}, names) =
              IF env[k + 1][1] \in names THEN {env[k + 1][2]} ELSE LastAt(env, Upto(k), names)
        <5> DEFINE up == Upto(k)
                   m == k + 1
        <5>1. up \in SUBSET Nat /\ m \in Nat /\ \A i \in up : i < m
          BY <4>1
        <5> HIDE DEF up, m
        <5>2. LastAt(env, up \cup {m}, names) = IF env[m][1] \in names THEN {env[m][2]} ELSE LastAt(env, up, names)
          BY <5>1, LastAtMore
        <5> QED
          BY <5>2 DEF up, m
      <4> QED
        BY <3>2, <3>3, <3>4, <4>1, <4>3, <4>4
    <3>5. CASE k + 1 \notin at
      <4>1. Upto(k + 1) = Upto(k)
        <5>1. \A i \in at : i \in Nat /\ i # k + 1
          BY <3>5
        <5>2. \A i \in at : i <= k + 1 <=> i <= k
          BY <5>1
        <5> HIDE DEF n
        <5> QED
          BY <5>2
      <4> HIDE DEF Upto
      <4> QED
        BY <3>2, <3>3, <3>5, <4>1
    <3> QED
      BY <3>4, <3>5
  <2> HIDE DEF S
  <2>3. n \in S
    BY <1>0, <2>1, <2>2, Climb
  <2>4. Upto(n) = at
    <3>1. \A i \in at : i <= n
      OBVIOUS
    <3> HIDE DEF n
    <3> QED
      BY <3>1
  <2> HIDE DEF Upto
  <2> QED
    BY <1>0, <2>3, <2>4 DEF S
<1>11. f[n] \in W
  <2> HIDE DEF W
  <2> QED
    BY <1>0, <1>8
<1> HIDE DEF n
<1> QED
  BY <1>9, <1>10, <1>11

\* Some places that are not beyond n have a highest one.
LEMMA HighestPlace ==
  ASSUME NEW n \in Nat, NEW T \in SUBSET (1 .. n), T # {}
  PROVE  \E m \in T : \A j \in T : j <= m
<1> DEFINE down == {d \in Nat : n - d \in T}
<1>1. PICK i : i \in T
  OBVIOUS
<1>2. n - i \in Nat /\ n - (n - i) = i
  BY <1>1
<1>3. down \subseteq Nat /\ down # {}
  BY <1>1, <1>2
<1>4. PICK d \in down : \A e \in down : d <= e
  <2> HIDE DEF down
  <2> QED
    BY <1>3, LeastNumber
<1>5. ASSUME NEW j \in T PROVE j <= n - d
  <2>1. n - j \in Nat /\ n - (n - j) = j
    OBVIOUS
  <2>2. n - j \in down
    BY <2>1
  <2> HIDE DEF down
  <2>3. d \in Nat /\ d <= n - j
    BY <1>3, <1>4, <2>2
  <2> QED
    BY <2>3
<1>6. n - d \in T
  BY <1>4
<1> QED
  BY <1>5, <1>6

\* What LastAt says: nothing, of names that are not there, or the value at the highest place.
LEMMA HitOrNone ==
  ASSUME NEW env, NEW names, NEW n \in Nat, NEW at \in SUBSET (1 .. n)
  PROVE  \/ /\ LastAt(env, at, names) = {}
            /\ \A i \in at : env[i][1] \notin names
         \/ \E m \in at : /\ env[m][1] \in names /\ LastAt(env, at, names) = {env[m][2]}
                          /\ \A i \in at : env[i][1] \in names => i <= m
<1> DEFINE hits == {i \in at : env[i][1] \in names}
           top == {h \in hits : \A j \in hits : j <= h}
<1>1. LastAt(env, at, names) = {env[i][2] : i \in top}
  BY DEF LastAt
<1>2. CASE hits = {}
  <2>1. top = {}
    BY <1>2
  <2>2. \A i \in at : env[i][1] \notin names
    BY <1>2
  <2> HIDE DEF top
  <2> QED
    BY <1>1, <2>1, <2>2
<1>3. CASE hits # {}
  <2>1. hits \in SUBSET (1 .. n)
    OBVIOUS
  <2>2. PICK m \in hits : \A j \in hits : j <= m
    <3> HIDE DEF hits
    <3> QED
      BY <1>3, <2>1, HighestPlace
  <2>3. m \in at /\ env[m][1] \in names
    OBVIOUS
  <2>4. \A i \in at : env[i][1] \in names => i <= m
    BY <2>2
  <2>5. top = {m}
    <3>1. \A h \in hits : h \in Int
      BY <2>1
    <3> HIDE DEF hits
    <3> QED
      BY <2>2, <3>1
  <2> HIDE DEF top
  <2> QED
    BY <1>1, <2>3, <2>4, <2>5
<1> QED
  BY <1>2, <1>3

\* m is the highest place with one of these names.
Highest(env, at, names, m) ==
  m \in at /\ env[m][1] \in names /\ \A i \in at : env[i][1] \in names => i <= m

\* The highest place decides: LastAt is the value there.
LEMMA TopDecides ==
  ASSUME NEW env, NEW names, NEW n \in Nat, NEW at \in SUBSET (1 .. n), NEW m,
         Highest(env, at, names, m)
  PROVE  LastAt(env, at, names) = {env[m][2]}
<1>1. PICK k \in at : /\ env[k][1] \in names /\ LastAt(env, at, names) = {env[k][2]}
                      /\ \A i \in at : env[i][1] \in names => i <= k
  BY HitOrNone DEF Highest
<1>2. k <= m /\ m <= k /\ k \in Int /\ m \in Int
  BY <1>1 DEF Highest
<1>3. k = m
  BY <1>2
<1> QED
  BY <1>1, <1>3

\* The entries of LastOf are those at every place.
LEMMA LastOfIsLastAt ==
  ASSUME NEW env, NEW names
  PROVE  LastOf(env, names) = LastAt(env, 1 .. Len(env), names)
BY DEF LastOf, LastAt

\* Of two environments one after the other, the second decides where it has the name.
LEMMA LastOfBoth ==
  ASSUME NEW E, NEW a \in Seq(E), NEW b \in Seq(E), NEW names
  PROVE  LastOf(a \o b, names) = IF LastOf(b, names) = {} THEN LastOf(a, names) ELSE LastOf(b, names)
<1> DEFINE n == Len(a)
           k == Len(b)
           c == a \o b
<1>1. /\ n \in Nat /\ k \in Nat /\ Len(c) = n + k
      /\ \A i \in 1 .. n : c[i] = a[i]
      /\ \A i \in 1 .. k : c[n + i] = b[i]
  OBVIOUS
<1>2. /\ LastOf(c, names) = LastAt(c, 1 .. n + k, names) /\ LastOf(a, names) = LastAt(a, 1 .. n, names)
      /\ LastOf(b, names) = LastAt(b, 1 .. k, names)
  BY <1>1, LastOfIsLastAt
<1> HIDE DEF n, k, c
<1>3. n + k \in Nat /\ \A i \in 1 .. n + k : i \in 1 .. n \/ (i - n \in 1 .. k /\ n + (i - n) = i)
  BY <1>1
<1>4. ASSUME NEW m \in 1 .. k, b[m][1] \in names, LastAt(b, 1 .. k, names) = {b[m][2]},
             \A i \in 1 .. k : b[i][1] \in names => i <= m
      PROVE  LastAt(c, 1 .. n + k, names) = {b[m][2]}
  <2> DEFINE t == n + m
             all == 1 .. n + k
  <2>1. t \in all /\ c[t] = b[m]
    BY <1>1
  <2>2. ASSUME NEW i \in all, c[i][1] \in names PROVE i <= t
    <3>1. CASE i \in 1 .. n
      BY <1>1, <3>1
    <3>2. CASE i - n \in 1 .. k /\ n + (i - n) = i
      <4>1. c[i] = b[i - n]
        BY <1>1, <3>2
      <4>2. i - n <= m
        BY <1>4, <2>2, <3>2, <4>1
      <4> QED
        BY <1>1, <4>2
    <3> QED
      BY <1>3, <3>1, <3>2
  <2>3. all \in SUBSET (1 .. n + k)
    OBVIOUS
  <2> HIDE DEF t, all
  <2>4. LastAt(c, all, names) = {c[t][2]}
    <3> DEFINE len == n + k
    <3>1. len \in Nat /\ all \in SUBSET (1 .. len)
      BY <1>3, <2>3
    <3>2. Highest(c, all, names, t)
      BY <1>4, <2>1, <2>2 DEF Highest
    <3> HIDE DEF len
    <3> QED
      BY <3>1, <3>2, TopDecides
  <2> QED
    BY <2>1, <2>4 DEF all
<1>5. ASSUME \A i \in 1 .. k : b[i][1] \notin names
      PROVE  LastAt(c, 1 .. n + k, names) = LastAt(a, 1 .. n, names)
  <2>1. ASSUME NEW i \in 1 .. n + k, c[i][1] \in names PROVE i \in 1 .. n
    <3> SUFFICES ASSUME i - n \in 1 .. k /\ n + (i - n) = i PROVE FALSE
      BY <1>3
    <3>1. c[i] = b[i - n]
      BY <1>1
    <3> QED
      BY <1>5, <2>1, <3>1
  <2>2. \A i \in 1 .. n : i \in 1 .. n + k /\ c[i] = a[i]
    BY <1>1
  <2> DEFINE hitsC == {i \in 1 .. n + k : c[i][1] \in names}
             hitsA == {i \in 1 .. n : a[i][1] \in names}
             top == {h \in hitsA : \A j \in hitsA : j <= h}
  <2>3. hitsC = hitsA
    BY <2>1, <2>2
  <2>4. LastAt(c, 1 .. n + k, names) = {c[i][2] : i \in {h \in hitsC : \A j \in hitsC : j <= h}}
    BY DEF LastAt
  <2>5. LastAt(a, 1 .. n, names) = {a[i][2] : i \in top}
    BY DEF LastAt
  <2>6. \A i \in top : c[i] = a[i]
    BY <2>2
  <2> HIDE DEF hitsC
  <2>7. LastAt(c, 1 .. n + k, names) = {c[i][2] : i \in top}
    BY <2>3, <2>4
  <2> HIDE DEF top
  <2>8. {c[i][2] : i \in top} = {a[i][2] : i \in top}
    BY <2>6
  <2> QED
    BY <2>5, <2>7, <2>8
<1>6. 1 .. k \in SUBSET (1 .. k) /\ k \in Nat
  BY <1>1
<1>7. CASE LastAt(b, 1 .. k, names) = {} /\ \A i \in 1 .. k : b[i][1] \notin names
  BY <1>2, <1>5, <1>7 DEF c
<1>8. CASE \E m \in 1 .. k : /\ b[m][1] \in names /\ LastAt(b, 1 .. k, names) = {b[m][2]}
                             /\ \A i \in 1 .. k : b[i][1] \in names => i <= m
  <2>1. PICK m \in 1 .. k : /\ b[m][1] \in names /\ LastAt(b, 1 .. k, names) = {b[m][2]}
                            /\ \A i \in 1 .. k : b[i][1] \in names => i <= m
    BY <1>8
  <2>2. LastAt(c, 1 .. n + k, names) = {b[m][2]}
    BY <1>4, <2>1
  <2> QED
    BY <1>2, <2>1, <2>2 DEF c
<1> QED
  BY <1>6, <1>7, <1>8, HitOrNone

\* dedupeEnv keeps the entry that a name's reader takes.
LEMMA DedupeKeepsLast ==
  ASSUME NEW E, NEW env \in Seq(E)
  PROVE  /\ DedupeEnv(env) \in Seq(E)
         /\ \A names : LastOf(DedupeEnv(env), names) = LastOf(env, names)
<1> DEFINE n == Len(env)
           at == {i \in 1 .. n : \A j \in i + 1 .. n : env[j][1] # env[i][1]}
<1>1. n \in Nat /\ at \in SUBSET (1 .. n) /\ 1 .. n \in SUBSET (1 .. n)
  OBVIOUS
<1>2. DedupeEnv(env) = Those(env, at)
  BY DEF DedupeEnv
<1>3. Those(env, at) \in Seq(E) /\ \A names : LastOf(Those(env, at), names) = LastAt(env, at, names)
  <2> HIDE DEF at
  <2> QED
    BY <1>1, ThoseAre
<1>4. ASSUME NEW names PROVE LastAt(env, at, names) = LastAt(env, 1 .. n, names)
  <2>1. CASE \A i \in 1 .. n : env[i][1] \notin names
    <3> HIDE DEF at, n
    <3>1. LastAt(env, 1 .. n, names) = {}
      BY <1>1, <2>1, HitOrNone
    <3>2. LastAt(env, at, names) = {}
      BY <1>1, <2>1, HitOrNone
    <3> QED
      BY <3>1, <3>2
  <2>2. CASE \E m \in 1 .. n : /\ env[m][1] \in names /\ LastAt(env, 1 .. n, names) = {env[m][2]}
                               /\ \A i \in 1 .. n : env[i][1] \in names => i <= m
    <3>1. PICK m \in 1 .. n : /\ env[m][1] \in names /\ LastAt(env, 1 .. n, names) = {env[m][2]}
                              /\ \A i \in 1 .. n : env[i][1] \in names => i <= m
      BY <2>2
    <3>2. ASSUME NEW j \in m + 1 .. n PROVE env[j][1] # env[m][1]
      <4>1. j \in 1 .. n /\ ~ (j <= m)
        BY <1>1
      <4> QED
        BY <3>1, <4>1
    <3>3. m \in at
      BY <3>2
    <3>4. \A i \in at : env[i][1] \in names => i <= m
      BY <3>1
    <3> HIDE DEF at, n
    <3>5. LastAt(env, at, names) = {env[m][2]}
      <4>1. Highest(env, at, names, m)
        BY <3>1, <3>3, <3>4 DEF Highest
      <4> QED
        BY <1>1, <4>1, TopDecides
    <3> QED
      BY <3>1, <3>5
  <2> HIDE DEF n
  <2> QED
    BY <1>1, <2>1, <2>2, HitOrNone
<1> HIDE DEF at
<1> QED
  BY <1>2, <1>3, <1>4, LastOfIsLastAt

\* Without some names, the others say what they said.
LEMMA WithoutKeepsOthers ==
  ASSUME NEW E, NEW env \in Seq(E), NEW gone
  PROVE  /\ Without(env, gone) \in Seq(E)
         /\ \A names : LastOf(Without(env, gone), names) = LastOf(env, names \ gone)
<1> DEFINE n == Len(env)
           at == {i \in 1 .. n : env[i][1] \notin gone}
<1>1. at \in SUBSET (1 .. n)
  OBVIOUS
<1>2. Without(env, gone) = Those(env, at)
  BY DEF Without
<1>3. Those(env, at) \in Seq(E) /\ \A names : LastOf(Those(env, at), names) = LastAt(env, at, names)
  <2> HIDE DEF at
  <2> QED
    BY <1>1, ThoseAre
<1>4. ASSUME NEW names PROVE LastAt(env, at, names) = LastAt(env, 1 .. n, names \ gone)
  <2>1. {i \in at : env[i][1] \in names} = {i \in 1 .. n : env[i][1] \in names \ gone}
    OBVIOUS
  <2> HIDE DEF at, n
  <2> QED
    BY <2>1 DEF LastAt
<1> HIDE DEF at
<1> QED
  BY <1>2, <1>3, <1>4, LastOfIsLastAt

\* What a process sees in the environment that buildEnv makes.
BuiltSaysLast(platform, extra) ==
  \A k \in TmNames :
    LET asked == Sees(platform, extra, k)
        default == CASE k = "TERM" -> {"xterm"}
                     [] "PROMPT" \in SameNames(platform, k) -> {"reset"}
                     [] OTHER -> Sees(platform, TmInherited, k)
    IN Sees(platform, BuildEnv(extra), k) = IF asked = {} THEN default ELSE asked

LEMMA BuildEnvSaysLast ==
  ASSUME NEW platform, NEW extra \in TmExtras
  PROVE  BuiltSaysLast(platform, extra)
<1> DEFINE E0 == TmNames \X TmValues
           asked == DedupeEnv(Without(extra, {"TERM"}))
           over == {asked[i][1] : i \in 1 .. Len(asked)}
           last == LastOf(extra, {"TERM"})
           pick == IF last = {} THEN {"xterm"} ELSE last
           term == <<"TERM", CHOOSE v \in pick : TRUE>>
           reset == <<"PROMPT", "reset">>
           prompt == IF "PROMPT" \in over THEN <<>> ELSE <<reset>>
           E == E0 \cup {term, reset}
           kept == Without(TmInherited, {"TERM"} \cup over)
           got == Append(kept, term) \o prompt \o asked
<1>1. BuildEnv(extra) = got
  BY DEF BuildEnv
<1>2. extra \in Seq(E) /\ TmInherited \in Seq(E) /\ term \in E /\ reset \in E
  <2>1. extra \in Seq(E0) /\ TmInherited \in Seq(E0) /\ E0 \subseteq E
    BY TerminalAssumption DEF TerminalAssumption
  <2> HIDE DEF E0, term, reset
  <2> QED
    BY <2>1
<1> HIDE DEF E, E0
<1>3. /\ asked \in Seq(E)
      /\ \A names : LastOf(asked, names) = LastOf(extra, names \ {"TERM"})
  <2> DEFINE some == Without(extra, {"TERM"})
  <2>1. some \in Seq(E) /\ \A names : LastOf(some, names) = LastOf(extra, names \ {"TERM"})
    BY <1>2, WithoutKeepsOthers
  <2> HIDE DEF some
  <2>2. DedupeEnv(some) \in Seq(E) /\ \A names : LastOf(DedupeEnv(some), names) = LastOf(some, names)
    BY <2>1, DedupeKeepsLast
  <2> QED
    BY <2>1, <2>2 DEF some
<1> HIDE DEF asked
<1>4. kept \in Seq(E) /\ \A names : LastOf(kept, names) = LastOf(TmInherited, names \ ({"TERM"} \cup over))
  <2> HIDE DEF over
  <2> QED
    BY <1>2, WithoutKeepsOthers
<1>5. pick # {} /\ \A v, w \in pick : v = w
  <2>1. last = {} \/ \E m : last = {extra[m][2]}
    <3> DEFINE n == Len(extra)
               at == 1 .. n
               names == {"TERM"}
    <3>1. n \in Nat /\ at \in SUBSET (1 .. n)
      BY <1>2
    <3>2. last = LastAt(extra, at, names)
      BY LastOfIsLastAt
    <3> HIDE DEF n, last, names, at
    <3>3. \/ /\ LastAt(extra, at, names) = {}
             /\ \A i \in at : extra[i][1] \notin names
          \/ \E m \in at : /\ extra[m][1] \in names /\ LastAt(extra, at, names) = {extra[m][2]}
                           /\ \A i \in at : extra[i][1] \in names => i <= m
      BY <3>1, HitOrNone
    <3> QED
      BY <3>2, <3>3
  <2> HIDE DEF last
  <2> QED
    BY <2>1
<1>6. {term[2]} = pick /\ term[1] = "TERM"
  <2> HIDE DEF pick
  <2>1. (CHOOSE v \in pick : TRUE) \in pick
    BY <1>5
  <2> QED
    BY <1>5, <2>1
<1> HIDE DEF term, pick, last, kept
<1>7. ASSUME NEW names
      PROVE  LastOf(prompt, names) = IF "PROMPT" \in over \/ "PROMPT" \notin names THEN {} ELSE {"reset"}
  <2>1. LastOf(<<>>, names) = {}
    BY DEF LastOf
  <2>2. LastOf(<<reset>>, names) = IF reset[1] \in names THEN {reset[2]} ELSE LastOf(<<>>, names)
    <3> DEFINE none == <<>>
    <3>1. <<reset>> = Append(none, reset) /\ none \in Seq(E)
      OBVIOUS
    <3> HIDE DEF reset, none
    <3>2. LastOf(Append(none, reset), names) = IF reset[1] \in names THEN {reset[2]} ELSE LastOf(none, names)
      BY <1>2, <3>1, LastOfAppend
    <3> QED
      BY <3>1, <3>2 DEF none
  <2> HIDE DEF over
  <2> QED
    BY <2>1, <2>2
<1>8. ASSUME NEW names
      PROVE  LastOf(got, names) = IF LastOf(asked, names) # {} THEN LastOf(asked, names)
                                  ELSE IF LastOf(prompt, names) # {} THEN LastOf(prompt, names)
                                  ELSE IF "TERM" \in names THEN pick ELSE LastOf(kept, names)
  <2> DEFINE start == Append(kept, term)
             most == start \o prompt
  <2>1. start \in Seq(E) /\ LastOf(start, names) = IF "TERM" \in names THEN pick ELSE LastOf(kept, names)
    <3>1. start \in Seq(E)
      BY <1>2, <1>4
    <3>2. LastOf(start, names) = IF term[1] \in names THEN {term[2]} ELSE LastOf(kept, names)
      BY <1>2, <1>4, LastOfAppend
    <3> QED
      BY <1>6, <3>1, <3>2
  <2>2. prompt \in Seq(E)
    <3> HIDE DEF over, reset
    <3> QED
      BY <1>2
  <2> HIDE DEF prompt, start
  <2>3. most \in Seq(E)
    BY <2>1, <2>2
  <2>4. LastOf(most, names) = IF LastOf(prompt, names) = {} THEN LastOf(start, names) ELSE LastOf(prompt, names)
    BY <2>1, <2>2, LastOfBoth
  <2> HIDE DEF most
  <2>5. LastOf(most \o asked, names) = IF LastOf(asked, names) = {} THEN LastOf(most, names) ELSE LastOf(asked, names)
    BY <1>3, <2>3, LastOfBoth
  <2> QED
    BY <2>1, <2>4, <2>5 DEF most, start
<1>9. ASSUME NEW names, LastOf(asked, names) = {}
      PROVE  over \cap names = {}
  <2> DEFINE n == Len(asked)
  <2>1. n \in Nat /\ 1 .. n \in SUBSET (1 .. n)
    BY <1>3
  <2>2. LastAt(asked, 1 .. n, names) = {}
    BY <1>9, LastOfIsLastAt
  <2>3. \A i \in 1 .. n : asked[i][1] \notin names
    <3> DEFINE at == 1 .. n
    <3>1. \A m : {asked[m][2]} # {}
      OBVIOUS
    <3> HIDE DEF n
    <3>2. LastAt(asked, at, names) = {}
      BY <2>2
    <3>4. n \in Nat /\ at \in SUBSET (1 .. n)
      BY <2>1
    <3> HIDE DEF at
    <3>3. \/ /\ LastAt(asked, at, names) = {}
             /\ \A i \in at : asked[i][1] \notin names
          \/ \E m \in at : /\ asked[m][1] \in names /\ LastAt(asked, at, names) = {asked[m][2]}
                           /\ \A i \in at : asked[i][1] \in names => i <= m
      BY <3>4, HitOrNone
    <3> QED
      BY <3>1, <3>2, <3>3 DEF at
  <2> QED
    BY <2>3
<1> HIDE DEF prompt, got, over
<1> DEFINE names(k) == SameNames(platform, k)
<1>10. ASSUME NEW k \in TmNames
       PROVE  LastOf(got, names(k)) =
                IF LastOf(extra, names(k)) # {} THEN LastOf(extra, names(k))
                ELSE CASE k = "TERM" -> {"xterm"}
                       [] "PROMPT" \in names(k) -> {"reset"}
                       [] OTHER -> LastOf(TmInherited, names(k))
  <2>1. CASE k = "TERM"
    <3>1. names(k) = {"TERM"}
      BY <2>1, TerminalAssumption DEF SameNames, TerminalAssumption
    <3>2. LastOf(asked, {"TERM"}) = {}
      <4>1. {"TERM"} \ {"TERM"} = {} /\ LastOf(extra, {}) = {}
        BY DEF LastOf
      <4> QED
        BY <1>3, <4>1
    <3>3. LastOf(prompt, {"TERM"}) = {}
      BY <1>7
    <3> HIDE DEF names
    <3>4. LastOf(got, {"TERM"}) = pick
      BY <1>8, <3>2, <3>3
    <3> QED
      BY <2>1, <3>1, <3>4 DEF pick, last
  <2>2. CASE k # "TERM"
    <3>1. "TERM" \notin names(k) /\ names(k) \ {"TERM"} = names(k)
      BY <2>2, TerminalAssumption DEF SameNames, TerminalAssumption
    <3> HIDE DEF names
    <3>2. LastOf(asked, names(k)) = LastOf(extra, names(k))
      BY <1>3, <3>1
    <3>3. CASE LastOf(extra, names(k)) # {}
      BY <1>8, <3>2, <3>3
    <3>4. CASE LastOf(extra, names(k)) = {}
      <4>1. over \cap names(k) = {}
        BY <1>9, <3>2, <3>4
      <4>2. names(k) \ ({"TERM"} \cup over) = names(k)
        BY <3>1, <4>1
      <4>3. LastOf(kept, names(k)) = LastOf(TmInherited, names(k))
        BY <1>4, <4>2
      <4>4. LastOf(prompt, names(k)) = IF "PROMPT" \in names(k) THEN {"reset"} ELSE {}
        BY <1>7, <4>1
      <4>5. LastOf(got, names(k)) = IF "PROMPT" \in names(k) THEN {"reset"} ELSE LastOf(TmInherited, names(k))
        BY <1>8, <3>1, <3>2, <3>4, <4>3, <4>4
      <4> QED
        BY <2>2, <3>4, <4>5
    <3> QED
      BY <3>3, <3>4
  <2> QED
    BY <2>1, <2>2
<1> HIDE DEF names
<1> QED
  BY <1>1, <1>10 DEF BuiltSaysLast, Sees, names

\* Under every name the process sees the last value that was asked for, or else the
\* default one (buildEnv, newEnvBlock).
THEOREM EnvIsLast == TerminalSpec => []EnvSaysLast
<1> DEFINE IEnv == /\ \E e \in TmExtras : \E g : tmEnv = [extra |-> e, got |-> g]
                   /\ tmStart = "started" => tmEnv.got = BuildEnv(tmEnv.extra)
<1>1. TerminalInit => IEnv
  BY DEF TerminalInit
<1>2. IEnv /\ [TerminalNext]_terminalVars => IEnv'
  <2> SUFFICES ASSUME IEnv, [TerminalNext]_terminalVars PROVE IEnv'
    OBVIOUS
  <2>1. CASE Starts
    <3>1. PICK e \in TmExtras : \E g : tmEnv = [extra |-> e, got |-> g]
      OBVIOUS
    <3> DEFINE built == BuildEnv(tmEnv.extra)
    <3>2. tmEnv' = [tmEnv EXCEPT !.got = built]
      BY <2>1 DEF Starts
    <3> HIDE DEF built
    <3>3. tmEnv' = [extra |-> e, got |-> built] /\ tmEnv.extra = e
      <4>1. PICK g : tmEnv = [extra |-> e, got |-> g]
        BY <3>1
      <4> QED
        BY <3>2, <4>1
    <3>4. tmEnv'.got = built /\ tmEnv'.extra = e
      BY <3>3
    <3>5. tmEnv'.got = BuildEnv(tmEnv'.extra)
      BY <3>3, <3>4 DEF built
    <3> QED
      BY <3>3, <3>5
  <2>2. ASSUME tmEnv' = tmEnv, tmStart' = tmStart \/ tmStart' = "failed" PROVE IEnv'
    BY <2>2
  <2>3. ASSUME NEW s, StartFails(s) PROVE IEnv'
    BY <2>2, <2>3 DEF StartFails
  <2>4. CASE ProcessWrites \/ ProcessGone \/ Reads \/ Releases \/ WriteFails \/ Waits \/ Collected
    BY <2>2, <2>4 DEF ProcessWrites, ProcessGone, Reads, Releases, WriteFails, Waits, Collected
  <2>5. ASSUME NEW c \in TmClosers,
               CloseStarts(c) \/ CloseSignals(c) \/ CloseEscalates(c) \/ Terminates(c) \/ CloseReturns(c)
        PROVE  IEnv'
    BY <2>2, <2>5 DEF CloseStarts, CloseSignals, CloseEscalates, Terminates, CloseReturns
  <2>6. CASE UNCHANGED terminalVars
    BY <2>2, <2>6 DEF terminalVars
  <2> HIDE DEF IEnv
  <2> QED
    BY <2>1, <2>3, <2>4, <2>5, <2>6 DEF TerminalNext
<1>3. IEnv => EnvSaysLast
  <2> SUFFICES ASSUME IEnv, tmStart = "started" PROVE EnvSaysLast
    BY DEF EnvSaysLast
  <2>1. tmEnv.extra \in TmExtras /\ tmEnv.got = BuildEnv(tmEnv.extra)
    OBVIOUS
  <2>2. BuiltSaysLast(tmPlatform, tmEnv.extra)
    BY <2>1, BuildEnvSaysLast
  <2> HIDE DEF IEnv
  <2> QED
    BY <2>1, <2>2 DEF EnvSaysLast, BuiltSaysLast
<1> QED
  BY <1>1, <1>2, <1>3, PTL DEF TerminalSpec

-----------------------------------------------------------------------------
(* Browser.                                                                 *)

\* The sampler's animation, whose last frame is no later than now.
Frames == Seq([pic : BrPictures, at : Nat])
Gifs   == [frames : Frames, next : Nat, end : Int]

LastTime(g) == g.frames[Len(g.frames)].at

\* The frames of g but for its last are a period apart; the last one too, if it is forced no more.
Spaced(g, all) ==
  \A i \in 1 .. Len(g.frames) - 1 :
    /\ g.frames[i].pic # g.frames[i+1].pic /\ g.frames[i+1].at >= g.frames[i].at
    /\ i + 1 < Len(g.frames) \/ all => g.frames[i+1].at - g.frames[i].at >= BrPeriod

SamplerTyped ==
  /\ brClock \in Nat
  /\ brPage \in [times : Seq(Nat), tail : Nat]
  /\ brLook \in [read : Nat, at : Nat]
  /\ brGif \in Gifs

\* A picture is asked for when the time of the next one has come, and that is a period after
\* the last one; the end is noted once, and nothing follows it.
SamplesInTime ==
  /\ brGif.frames # <<>> => LastTime(brGif) <= brClock /\ brGif.next >= LastTime(brGif) + BrPeriod
  /\ brPc = "shot" => brLook.at <= brClock /\ brLook.at >= brGif.next
  /\ brGif.end >= 0 => brPc \in {"delete", "done"}
  /\ brGif.end >= 0 /\ brGif.frames # <<>> => LastTime(brGif) <= brGif.end
  /\ Spaced(brGif, brGif.end < 0)

ISampler == SamplerTyped /\ SamplesInTime

\* A frame that is added is not like the last one, and comes after it.
LEMMA AddedInOrder ==
  ASSUME NEW g \in Gifs, NEW pic \in BrPictures, NEW at \in Nat, Spaced(g, TRUE),
         g.frames # <<>> => LastTime(g) <= at
  PROVE  /\ AddLocked(g, pic, at) \in Gifs
         /\ AddLocked(g, pic, at).end = g.end
         /\ AddLocked(g, pic, at).frames # <<>>
         /\ LastTime(AddLocked(g, pic, at)) <= at
         /\ AddLocked(g, pic, at).next >= LastTime(AddLocked(g, pic, at)) + BrPeriod
         /\ Spaced(AddLocked(g, pic, at), g.frames # <<>> => at - LastTime(g) >= BrPeriod)
<1> DEFINE f == g.frames
           n == Len(f)
           line == [pic |-> pic, at |-> at]
           h == AddLocked(g, pic, at)
<1>0. /\ f \in Frames /\ n \in Nat /\ BrPeriod \in Nat
      /\ f # <<>> => n >= 1 /\ f[n].at \in Nat
  <2>1. f \in Seq([pic : BrPictures, at : Nat])
    BY DEF Gifs, Frames
  <2>2. BrPeriod \in Nat
    BY BrowserAssumption DEF BrowserAssumption
  <2>3. n \in Nat /\ (f # <<>> => n \in 1 .. n)
    BY <2>1, EmptySeq
  <2>4. f # <<>> => f[n] \in [pic : BrPictures, at : Nat]
    BY <2>1, <2>3, ElementOfSeq
  <2> QED
    BY <2>1, <2>2, <2>3, <2>4 DEF Frames
<1>1. CASE f # <<>> /\ Last(f).pic = pic
  <2>1. h.frames = f /\ h.next = at + BrPeriod /\ h.end = g.end
    BY <1>1 DEF AddLocked, Gifs
  <2>2. h \in Gifs
    <3>1. h = [g EXCEPT !.next = at + BrPeriod, !.frames = f] /\ at + BrPeriod \in Nat
      BY <1>0, <1>1 DEF AddLocked
    <3> HIDE DEF h, f
    <3> QED
      BY <1>0, <3>1 DEF Gifs
  <2>3. LastTime(h) = LastTime(g)
    BY <2>1 DEF LastTime
  <2>4. Spaced(h, g.frames # <<>> => at - LastTime(g) >= BrPeriod)
    BY <2>1 DEF Spaced
  <2> QED
    BY <1>0, <1>1, <2>1, <2>2, <2>3, <2>4 DEF LastTime
<1>2. CASE ~(f # <<>> /\ Last(f).pic = pic)
  <2>1. h.frames = Append(f, line) /\ h.next = at + BrPeriod /\ h.end = g.end
    BY <1>2 DEF AddLocked, Gifs
  <2>2. line \in [pic : BrPictures, at : Nat]
    OBVIOUS
  <2>3. /\ Append(f, line) \in Frames /\ Len(Append(f, line)) = n + 1
        /\ \A i \in 1 .. n : Append(f, line)[i] = f[i]
        /\ Append(f, line)[n + 1] = line
    BY <1>0, <2>2 DEF Frames
  <2>4. h \in Gifs
    <3> DEFINE longer == Append(f, line)
    <3>0. (IF f # <<>> /\ Last(f).pic = pic THEN f ELSE longer) = longer
      BY <1>2
    <3>1. h = [g EXCEPT !.next = at + BrPeriod, !.frames = longer]
      BY <3>0 DEF AddLocked
    <3>p. at + BrPeriod \in Nat
      BY <1>0
    <3>2. longer \in Frames
      BY <2>3
    <3> HIDE DEF h, longer
    <3> QED
      BY <3>1, <3>p, <3>2 DEF Gifs
  <2> HIDE DEF h
  <2>5. /\ Len(h.frames) = n + 1 /\ h.frames # <<>>
        /\ \A i \in 1 .. n : h.frames[i] = f[i]
        /\ h.frames[n + 1].pic = pic /\ h.frames[n + 1].at = at
    BY <1>0, <2>1, <2>3, EmptySeq
  <2>6. LastTime(h) = at
    BY <2>5 DEF LastTime
  <2>7. f # <<>> => f[n].pic # pic /\ f[n].at <= at /\ LastTime(g) = f[n].at
    BY <1>2 DEF Last, LastTime
  <2>8. ASSUME NEW i \in 1 .. Len(h.frames) - 1
        PROVE  /\ h.frames[i].pic # h.frames[i+1].pic /\ h.frames[i+1].at >= h.frames[i].at
               /\ i + 1 < Len(h.frames) \/ (f # <<>> => at - LastTime(g) >= BrPeriod)
                    => h.frames[i+1].at - h.frames[i].at >= BrPeriod
    <3>0. i \in 1 .. n /\ f # <<>>
      BY <1>0, <2>5, EmptySeq
    <3>1. CASE i < n
      <4>1. i \in 1 .. n - 1 /\ i + 1 \in 1 .. n
        BY <1>0, <3>0, <3>1
      <4>2. h.frames[i] = f[i] /\ h.frames[i+1] = f[i+1]
        BY <2>5, <3>0, <4>1
      <4> QED
        BY <4>1, <4>2 DEF Spaced
    <3>2. CASE ~(i < n)
      <4>1. i = n
        BY <1>0, <3>0, <3>2
      <4>2. h.frames[i] = f[n] /\ h.frames[i+1].pic = pic /\ h.frames[i+1].at = at
        BY <2>5, <3>0, <4>1
      <4>3. ~(i + 1 < Len(h.frames))
        BY <1>0, <2>5, <4>1
      <4> QED
        BY <1>0, <2>7, <3>0, <4>2, <4>3
    <3> QED
      BY <3>1, <3>2
  <2>9. Spaced(h, f # <<>> => at - LastTime(g) >= BrPeriod)
    BY <2>8 DEF Spaced
  <2> QED
    BY <1>0, <2>1, <2>4, <2>5, <2>6, <2>9 DEF h
<1> QED
  BY <1>1, <1>2

\* A step of the page adds the time of a chunk.
LEMMA PageIsTyped ==
  ASSUME SamplerTyped, PageMounts \/ \E m, q \in BOOLEAN : PageWrites(m, q)
  PROVE  /\ brPage' \in [times : Seq(Nat), tail : Nat]
         /\ Len(brPage'.times) = Len(brPage.times) + 1
         /\ \A i \in 1 .. Len(brPage.times) : brPage'.times[i] = brPage.times[i]
         /\ brPage'.times[Len(brPage.times) + 1] = brClock
         /\ brPage'.tail \in {0, brPage.tail, Len(brPage.times) + 1}
<1>0. /\ brPage \in [times : Seq(Nat), tail : Nat] /\ brPage.times \in Seq(Nat) /\ brPage.tail \in Nat
      /\ brClock \in Nat
  BY DEF SamplerTyped
<1>1. CASE PageMounts
  <2>1. brPage.times = <<>> /\ brPage' = [brPage EXCEPT !.times = <<brClock>>]
    BY <1>1 DEF PageMounts
  <2>2. <<brClock>> \in Seq(Nat) /\ Len(<<brClock>>) = 1 /\ <<brClock>>[1] = brClock /\ Len(<<>>) = 0
    BY <1>0
  <2>3. brPage'.times = <<brClock>> /\ brPage'.tail = brPage.tail /\ brPage' = [times |-> <<brClock>>, tail |-> brPage.tail]
    BY <1>0, <2>1
  <2>4. Len(brPage.times) = 0
    BY <2>1, <2>2
  <2>5. brPage' \in [times : Seq(Nat), tail : Nat]
    BY <1>0, <2>2, <2>3
  <2>6. brPage'.times[Len(brPage.times) + 1] = brClock
    <3>1. Len(brPage.times) + 1 = 1
      BY <2>4
    <3> QED
      BY <2>2, <2>3, <3>1
  <2>7. \A i \in 1 .. Len(brPage.times) : FALSE
    BY <2>4
  <2> QED
    BY <2>2, <2>3, <2>4, <2>5, <2>6, <2>7
<1>2. CASE \E m, q \in BOOLEAN : PageWrites(m, q)
  <2> DEFINE longer == Append(brPage.times, brClock)
  <2>1. PICK m \in BOOLEAN, q \in BOOLEAN : PageWrites(m, q)
    BY <1>2
  <2>2. /\ brPage'.times = longer /\ brPage' = [times |-> longer, tail |-> brPage'.tail]
        /\ brPage'.tail \in {0, brPage.tail, Len(brPage.times) + 1}
    BY <2>1 DEF PageWrites
  <2>3. longer \in Seq(Nat) /\ Len(longer) = Len(brPage.times) + 1 /\ Len(brPage.times) \in Nat
    BY <1>0, AppendProperties, LenProperties
  <2>4. /\ \A i \in 1 .. Len(brPage.times) : longer[i] = brPage.times[i]
        /\ longer[Len(brPage.times) + 1] = brClock
    BY <1>0, AppendProperties
  <2> HIDE DEF longer
  <2>5. brPage'.tail \in Nat
    BY <1>0, <2>2, <2>3
  <2>6. brPage' \in [times : Seq(Nat), tail : Nat]
    BY <2>2, <2>3, <2>5
  <2>7. /\ Len(brPage'.times) = Len(brPage.times) + 1
        /\ \A i \in 1 .. Len(brPage.times) : brPage'.times[i] = brPage.times[i]
        /\ brPage'.times[Len(brPage.times) + 1] = brClock
    BY <2>2, <2>3, <2>4
  <2> QED
    BY <2>2, <2>6, <2>7
<1> QED
  BY <1>1, <1>2

\* Whatever the screenshots show, take and miss, the sampler keeps its period.
LEMMA ISamplerKept == BrowserSpec => []ISampler
<1>1. BrowserInit => ISampler
  <2> SUFFICES ASSUME BrowserInit PROVE ISampler
    OBVIOUS
  <2>1. <<>> \in Frames /\ Len(<<>>) = 0
    BY DEF Frames
  <2>2. brGif.frames = <<>> /\ brGif \in Gifs /\ brGif.end = -1
    BY <2>1 DEF BrowserInit, Gifs
  <2>3. SamplerTyped
    BY <2>2 DEF BrowserInit, SamplerTyped
  <2>4. SamplesInTime
    BY <2>1, <2>2 DEF BrowserInit, SamplesInTime, Spaced
  <2> QED
    BY <2>3, <2>4 DEF ISampler
<1>2. ISampler /\ [BrowserNext]_browserVars => ISampler'
  <2> SUFFICES ASSUME ISampler, [BrowserNext]_browserVars PROVE ISampler'
    OBVIOUS
  <2>0. SamplerTyped /\ SamplesInTime
    BY DEF ISampler
  <2>p. BrPeriod \in Nat
    BY BrowserAssumption DEF BrowserAssumption
  <2>c. brGif.frames # <<>> => LastTime(brGif) \in Nat
    <3> SUFFICES ASSUME brGif.frames # <<>> PROVE LastTime(brGif) \in Nat
      OBVIOUS
    <3>1. brGif.frames \in Seq([pic : BrPictures, at : Nat])
      BY <2>0 DEF SamplerTyped, Gifs, Frames
    <3>2. Len(brGif.frames) \in 1 .. Len(brGif.frames)
      BY <3>1, EmptySeq
    <3>3. brGif.frames[Len(brGif.frames)] \in [pic : BrPictures, at : Nat]
      BY <3>1, <3>2, ElementOfSeq
    <3> QED
      BY <3>3 DEF LastTime
  <2>1. ASSUME UNCHANGED <<brClock, brGif, brLook>>, brPage' \in [times : Seq(Nat), tail : Nat],
               brPc' # "shot" \/ brPc' = brPc, brPc' \in {"delete", "done"} \/ brPc \notin {"delete", "done"} \/ brPc' = brPc
        PROVE  ISampler'
    BY <2>0, <2>1 DEF ISampler, SamplerTyped, SamplesInTime, Spaced, LastTime
  <2>2. CASE PageMounts \/ \E m, q \in BOOLEAN : PageWrites(m, q)
    <3>1. UNCHANGED <<brPc, brClock, brGif, brLook>>
      BY <2>2 DEF PageMounts, PageWrites
    <3>2. brPage' \in [times : Seq(Nat), tail : Nat]
      BY <2>0, <2>2, PageIsTyped
    <3> QED
      BY <2>1, <3>1, <3>2
  <2>3. CASE CommandExits \/ Creates \/ PageReady \/ ReadsTail \/ AsksExit \/ LooksQuiet \/ Deletes \/ UNCHANGED browserVars
    <3>1. UNCHANGED <<brClock, brGif, brLook, brPage>>
      BY <2>3 DEF CommandExits, Creates, PageReady, ReadsTail, AsksExit, LooksQuiet, Deletes, browserVars
    <3>2. /\ brPc' # "shot" \/ brPc' = brPc
          /\ brPc' \in {"delete", "done"} \/ brPc \notin {"delete", "done"} \/ brPc' = brPc
      <4>1. CASE ReadsTail \/ AsksExit \/ LooksQuiet
        BY <4>1 DEF ReadsTail, AsksExit, LooksQuiet, To
      <4>2. CASE CommandExits \/ Creates \/ PageReady \/ Deletes \/ UNCHANGED browserVars
        BY <4>2 DEF CommandExits, Creates, PageReady, Deletes, To, browserVars
      <4> QED
        BY <2>3, <4>1, <4>2
    <3> QED
      BY <2>0, <2>1, <3>1, <3>2 DEF SamplerTyped
  <2>4. CASE BrTick
    <3>1. brClock' = brClock + 1 /\ UNCHANGED <<brPc, brPage, brGif, brLook>>
      BY <2>4 DEF BrTick
    <3>2. SamplerTyped'
      BY <2>0, <3>1 DEF SamplerTyped
    <3>3. brClock \in Nat /\ brLook.at \in Nat
      BY <2>0 DEF SamplerTyped
    <3>4. SamplesInTime'
      BY <2>0, <2>c, <3>1, <3>3 DEF SamplesInTime, Spaced, LastTime
    <3> QED
      BY <3>2, <3>4 DEF ISampler
  <2>5. CASE Polls
    <3>1. /\ UNCHANGED <<brClock, brGif, brPage>> /\ brPc = "poll" /\ brPc' \in {"final", "tail", "delete"}
          /\ brLook' = brLook \/ brLook' = [brLook EXCEPT !.read = Len(brPage.times)]
      BY <2>5 DEF Polls, To
    <3>2. brLook' \in [read : Nat, at : Nat]
      <4>1. Len(brPage.times) \in Nat
        BY <2>0, LenProperties DEF SamplerTyped
      <4> QED
        BY <2>0, <3>1, <4>1 DEF SamplerTyped
    <3> QED
      BY <2>0, <3>1, <3>2 DEF ISampler, SamplerTyped, SamplesInTime, Spaced, LastTime
  <2>6. CASE TrySample
    <3>1. /\ UNCHANGED <<brClock, brGif, brPage>> /\ brPc = "sample" /\ brPc' \in {"poll", "shot"}
          /\ brLook' = [brLook EXCEPT !.at = brClock]
          /\ brPc' = "shot" => ~(brClock < brGif.next)
      BY <2>6 DEF TrySample, To
    <3>2. brLook' \in [read : Nat, at : Nat] /\ brLook'.at = brClock
      BY <2>0, <3>1 DEF SamplerTyped
    <3>3. brClock \in Nat /\ brGif.next \in Nat
      BY <2>0 DEF SamplerTyped, Gifs
    <3> QED
      BY <2>0, <3>1, <3>2, <3>3 DEF ISampler, SamplerTyped, SamplesInTime, Spaced, LastTime
  <2>7. ASSUME NEW pic \in BrPictures, Shot(pic) PROVE ISampler'
    <3>1. /\ brPc = "shot" /\ brPc' = "poll" /\ UNCHANGED <<brClock, brLook, brPage>>
          /\ brGif' = brGif \/ brGif' = AddLocked(brGif, pic, brLook.at)
      BY <2>7 DEF Shot, To
    <3>2. CASE brGif' = brGif
      BY <2>0, <3>1, <3>2 DEF ISampler, SamplerTyped, SamplesInTime, Spaced, LastTime
    <3>3. CASE brGif' = AddLocked(brGif, pic, brLook.at)
      <4> DEFINE at == brLook.at
      <4>1. /\ at \in Nat /\ at <= brClock /\ brClock \in Nat /\ brGif \in Gifs
            /\ brGif.next \in Nat /\ at >= brGif.next
        BY <2>0, <3>1 DEF SamplerTyped, SamplesInTime, Gifs
      <4>2. brGif.end < 0 /\ brGif.end \in Int
        BY <2>0, <3>1 DEF SamplesInTime, SamplerTyped, Gifs
      <4>3. brGif.frames # <<>> => LastTime(brGif) <= at /\ at - LastTime(brGif) >= BrPeriod
        BY <2>0, <2>c, <2>p, <4>1 DEF SamplesInTime
      <4>4. Spaced(brGif, TRUE)
        BY <2>0, <4>2 DEF SamplesInTime, Spaced
      <4> HIDE DEF at
      <4>5. /\ brGif' \in Gifs /\ brGif'.end = brGif.end /\ LastTime(brGif') <= at
            /\ brGif'.next >= LastTime(brGif') + BrPeriod
            /\ Spaced(brGif', brGif.frames # <<>> => at - LastTime(brGif) >= BrPeriod)
        BY <3>3, <4>1, <4>3, <4>4, AddedInOrder DEF at
      <4>6. Spaced(brGif', TRUE)
        BY <4>3, <4>5 DEF Spaced
      <4>7. LastTime(brGif') <= brClock
        <5>1. LastTime(brGif') \in Int
          <6>1. brGif'.frames \in Seq([pic : BrPictures, at : Nat]) /\ brGif'.frames # <<>>
            BY <3>3, <4>1, <4>3, <4>4, <4>5, AddedInOrder DEF Gifs, Frames, at
          <6>2. Len(brGif'.frames) \in 1 .. Len(brGif'.frames)
            BY <6>1, EmptySeq
          <6>3. brGif'.frames[Len(brGif'.frames)] \in [pic : BrPictures, at : Nat]
            BY <6>1, <6>2, ElementOfSeq
          <6> QED
            BY <6>3 DEF LastTime
        <5> QED
          BY <4>1, <4>5, <5>1
      <4>8. SamplerTyped'
        BY <2>0, <3>1, <4>5 DEF SamplerTyped
      <4>9. SamplesInTime'
        BY <3>1, <4>2, <4>5, <4>6, <4>7 DEF SamplesInTime, LastTime, Spaced
      <4> QED
        BY <4>8, <4>9 DEF ISampler
    <3> QED
      BY <3>1, <3>2, <3>3
  <2>8. ASSUME NEW pic \in BrPictures, ForceShot(pic) PROVE ISampler'
    <3> DEFINE a == IF Over(brClock) \/ Full THEN brGif ELSE AddLocked(brGif, pic, brClock)
    <3>1. /\ brPc = "final" /\ brPc' = "delete" /\ UNCHANGED <<brClock, brLook, brPage>>
          /\ brGif' = brGif \/ brGif' = [a EXCEPT !.end = brClock]
      BY <2>8 DEF ForceShot, To
    <3>2. CASE brGif' = brGif
      BY <2>0, <3>1, <3>2 DEF ISampler, SamplerTyped, SamplesInTime, Spaced, LastTime
    <3>3. CASE brGif' = [a EXCEPT !.end = brClock]
      <4>1. brClock \in Nat /\ brGif \in Gifs /\ brGif.end < 0
        BY <2>0, <3>1 DEF SamplerTyped, SamplesInTime, Gifs
      <4>2. brGif.frames # <<>> => LastTime(brGif) <= brClock
        BY <2>0 DEF SamplesInTime
      <4>3. Spaced(brGif, TRUE)
        BY <2>0, <4>1 DEF SamplesInTime, Spaced
      <4>4. /\ a \in Gifs
            /\ a.frames # <<>> => LastTime(a) <= brClock /\ a.next >= LastTime(a) + BrPeriod
            /\ Spaced(a, FALSE)
        <5>1. CASE a = brGif
          BY <2>0, <4>1, <4>2, <4>3, <5>1 DEF SamplesInTime, Spaced
        <5>2. CASE a = AddLocked(brGif, pic, brClock)
          <6> HIDE DEF a
          <6>1. /\ a \in Gifs /\ LastTime(a) <= brClock /\ a.next >= LastTime(a) + BrPeriod
                /\ Spaced(a, brGif.frames # <<>> => brClock - LastTime(brGif) >= BrPeriod)
            BY <4>1, <4>2, <4>3, <5>2, AddedInOrder
          <6> QED
            BY <6>1 DEF Spaced
        <5> QED
          BY <5>1, <5>2
      <4> HIDE DEF a
      <4>5. /\ brGif' \in Gifs /\ brGif'.frames = a.frames /\ brGif'.next = a.next /\ brGif'.end = brClock
        BY <3>3, <4>1, <4>4 DEF Gifs
      <4>6. SamplerTyped'
        BY <2>0, <3>1, <4>5 DEF SamplerTyped
      <4>7. SamplesInTime'
        BY <3>1, <4>1, <4>4, <4>5 DEF SamplesInTime, LastTime, Spaced
      <4> QED
        BY <4>6, <4>7 DEF ISampler
    <3> QED
      BY <3>1, <3>2, <3>3
  <2> QED
    BY <2>2, <2>3, <2>4, <2>5, <2>6, <2>7, <2>8 DEF BrowserNext
<1> QED
  BY <1>1, <1>2, PTL DEF BrowserSpec

-----------------------------------------------------------------------------
(* The stop of the run.                                                      *)

Times == brPage.times

\* The chunks came in the order of time, and the polls look at what is there.
LooksInTime ==
  /\ brTimer \in Nat
  /\ \A i \in 1 .. Len(Times) : Times[i] <= brClock
  /\ \A i \in 1 .. Len(Times), j \in 1 .. Len(Times) : i <= j => Times[i] <= Times[j]
  /\ brLook.read <= Len(Times) /\ brPage.tail <= Len(Times)
  /\ brPc \in {"poll", "tail", "exit?", "quiet?", "sample", "shot"} => Len(Times) >= 1
  /\ brPc \in {"tail", "exit?", "quiet?"} => brLook.read >= 1

\* Once the tail was read without a marker, any it holds came after the poll began.
NoOldMarker == brPage.tail = 0 \/ brPage.tail > brLook.read

MarkerFirst ==
  /\ brPc \in {"exit?", "quiet?"} => NoOldMarker
  /\ brPc \in {"create", "page", "poll", "tail", "exit?", "quiet?", "sample", "shot"} => brWhy = "none"

IBrowser == LooksInTime /\ MarkerFirst /\ BrowserReasonIsTrue

\* What a step of the page, the command or the clock leaves of IBrowser.
LEMMA PageGoesOn ==
  ASSUME SamplerTyped, SamplerTyped', IBrowser,
         \/ PageMounts \/ CommandExits \/ BrTick
         \/ \E m, q \in BOOLEAN : PageWrites(m, q)
  PROVE  IBrowser'
<1>0. /\ Times \in Seq(Nat) /\ Len(Times) \in Nat /\ brPage.tail \in Nat /\ brLook.read \in Nat /\ brClock \in Nat
      /\ brTimer \in Nat
      /\ BrWait \in Nat /\ BrTimeout \in Nat /\ \A i \in 1 .. Len(Times) : Times[i] \in Nat
  BY BrowserAssumption, LenProperties, ElementOfSeq DEF SamplerTyped, IBrowser, LooksInTime, BrowserAssumption, Times
<1>1. CASE PageMounts \/ \E m, q \in BOOLEAN : PageWrites(m, q)
  <2>1. /\ Len(Times') = Len(Times) + 1 /\ \A i \in 1 .. Len(Times) : Times'[i] = Times[i]
        /\ Times'[Len(Times) + 1] = brClock
        /\ brPage'.tail \in {0, brPage.tail, Len(Times) + 1}
    BY <1>1, PageIsTyped DEF Times
  <2>2. UNCHANGED <<brPc, brWhy, brSession, brClock, brTimer, brLook>>
    BY <1>1 DEF PageMounts, PageWrites
  <2>3. LooksInTime'
    <3>1. \A i \in 1 .. Len(Times') : i \in 1 .. Len(Times) \/ i = Len(Times) + 1
      BY <1>0, <2>1
    <3>2. \A i \in 1 .. Len(Times') : Times'[i] <= brClock
      BY <1>0, <2>1, <3>1 DEF IBrowser, LooksInTime
    <3>3. \A i \in 1 .. Len(Times'), j \in 1 .. Len(Times') : i <= j => Times'[i] <= Times'[j]
      <4> SUFFICES ASSUME NEW i \in 1 .. Len(Times'), NEW j \in 1 .. Len(Times'), i <= j PROVE Times'[i] <= Times'[j]
        OBVIOUS
      <4>1. CASE j = Len(Times) + 1
        BY <1>0, <2>1, <3>2, <4>1
      <4>2. CASE j \in 1 .. Len(Times)
        <5>1. i \in 1 .. Len(Times)
          BY <1>0, <4>2
        <5> QED
          BY <2>1, <4>2, <5>1 DEF IBrowser, LooksInTime
      <4> QED
        BY <3>1, <4>1, <4>2
    <3> QED
      BY <1>0, <2>1, <2>2, <3>2, <3>3 DEF IBrowser, LooksInTime
  <2>4. NoOldMarker => NoOldMarker'
    BY <1>0, <2>1, <2>2 DEF NoOldMarker, IBrowser, LooksInTime
  <2>5. brWhy = "quiet" => \A i \in 1 .. brLook.read : Times'[i] = Times[i]
    <3>1. \A i \in 1 .. brLook.read : i \in 1 .. Len(Times)
      BY <1>0 DEF IBrowser, LooksInTime
    <3> QED
      BY <2>1, <3>1
  <2>6. MarkerFirst' /\ BrowserReasonIsTrue'
    BY <2>2, <2>4, <2>5 DEF IBrowser, MarkerFirst, BrowserReasonIsTrue, NoOldMarker, Times
  <2> QED
    BY <2>3, <2>6 DEF IBrowser
<1>2. CASE CommandExits
  BY <1>2 DEF CommandExits, IBrowser, LooksInTime, MarkerFirst, NoOldMarker, BrowserReasonIsTrue, Times
<1>3. CASE BrTick
  <2>1. brClock' = brClock + 1 /\ UNCHANGED <<brPc, brWhy, brSession, brPage, brTimer, brLook>>
    BY <1>3 DEF BrTick
  <2>2. LooksInTime' /\ MarkerFirst'
    BY <1>0, <2>1 DEF IBrowser, LooksInTime, MarkerFirst, NoOldMarker, Times
  <2>3. brWhy = "quiet" => \A i \in 1 .. brLook.read : brClock' - Times[i] >= BrWait
    <3> SUFFICES ASSUME brWhy = "quiet", NEW i \in 1 .. brLook.read PROVE brClock' - Times[i] >= BrWait
      OBVIOUS
    <3>1. i \in 1 .. Len(Times) /\ Times[i] \in Nat
      BY <1>0 DEF IBrowser, LooksInTime
    <3>2. brClock - Times[i] >= BrWait
      BY DEF IBrowser, BrowserReasonIsTrue, Times
    <3> QED
      BY <1>0, <2>1, <3>1, <3>2
  <2>4. BrowserReasonIsTrue'
    BY <1>0, <2>1, <2>3 DEF IBrowser, BrowserReasonIsTrue, Times
  <2> QED
    BY <2>2, <2>4 DEF IBrowser
<1> QED
  BY <1>1, <1>2, <1>3

\* For any limits, any clock and however the looks of a poll fall: the run stops for the reason it gives.
THEOREM BrowserStopsForIt == BrowserSpec => []BrowserReasonIsTrue
<1>1. BrowserInit => IBrowser
  BY DEF BrowserInit, IBrowser, LooksInTime, MarkerFirst, NoOldMarker, BrowserReasonIsTrue, Times
<1>2. SamplerTyped /\ SamplerTyped' /\ IBrowser /\ [BrowserNext]_browserVars => IBrowser'
  <2> SUFFICES ASSUME SamplerTyped, SamplerTyped', IBrowser, [BrowserNext]_browserVars PROVE IBrowser'
    OBVIOUS
  <2>0. /\ Times \in Seq(Nat) /\ Len(Times) \in Nat /\ brPage.tail \in Nat /\ brLook \in [read : Nat, at : Nat]
        /\ brLook.read \in Nat /\ brClock \in Nat /\ brTimer \in Nat /\ BrWait \in Nat /\ BrTimeout \in Nat
        /\ Len(Times) = 0 <=> Times = <<>>
    BY BrowserAssumption, LenProperties DEF SamplerTyped, IBrowser, LooksInTime, BrowserAssumption, Times
  <2>1. CASE \/ PageMounts \/ CommandExits \/ BrTick
             \/ \E m, q \in BOOLEAN : PageWrites(m, q)
    BY <2>1, PageGoesOn
  <2>2. ASSUME UNCHANGED <<brPage, brClock, brTimer>>, brLook'.read = brLook.read,
               brPc' \in {"failed", "page", "delete", "done", "final"} \/ (brPc \in {"sample", "shot"} /\ brPc' \in {"poll", "shot"}),
               brPc' = "page" \/ brPc' = "poll" \/ brPc' = "shot" => brWhy' = "none",
               brWhy' \in {"none", "error", "marker"} \/ (brWhy' = brWhy /\ brSession' \in {brSession, "gone"})
        PROVE  IBrowser'
    BY <2>2 DEF IBrowser, LooksInTime, MarkerFirst, NoOldMarker, BrowserReasonIsTrue, Times
  <2>3. CASE Creates
    BY <2>2, <2>3 DEF Creates, To
  <2>4. CASE PageReady
    <3>1. CASE brPc' = "delete"
      BY <2>2, <2>4, <3>1 DEF PageReady, To
    <3>2. CASE brPc' = "poll"
      BY <2>0, <2>4, <3>2 DEF PageReady, To, IBrowser, LooksInTime, MarkerFirst, NoOldMarker, BrowserReasonIsTrue, Times
    <3> QED
      BY <2>4, <3>1, <3>2 DEF PageReady, To
  <2>5. CASE Polls
    <3>0. UNCHANGED <<brSession, brPage, brClock, brTimer, brGif>> /\ brPc = "poll"
      BY <2>5 DEF Polls
    <3>1. CASE brPc' = "delete"
      BY <2>2, <2>5, <3>1 DEF Polls, To
    <3>2. CASE brPc' = "final"
      BY <2>0, <2>5, <3>2 DEF Polls, To, IBrowser, LooksInTime, MarkerFirst, NoOldMarker, BrowserReasonIsTrue, Times
    <3>3. CASE brPc' = "tail"
      <4>1. brLook'.read = Len(Times) /\ brWhy' = "none"
        BY <2>0, <2>5, <3>3 DEF Polls, To, Times
      <4> QED
        BY <2>0, <3>0, <3>3, <4>1 DEF IBrowser, LooksInTime, MarkerFirst, NoOldMarker, BrowserReasonIsTrue, Times
    <3> QED
      BY <2>5, <3>1, <3>2, <3>3 DEF Polls, To
  <2>6. CASE ReadsTail
    <3>0. UNCHANGED <<brSession, brPage, brClock, brTimer, brLook>> /\ brPc = "tail"
      BY <2>6 DEF ReadsTail
    <3>1. CASE brPc' = "exit?"
      BY <2>0, <2>6, <3>0, <3>1 DEF ReadsTail, To, IBrowser, LooksInTime, MarkerFirst, NoOldMarker, BrowserReasonIsTrue, Times
    <3>2. CASE brPc' # "exit?"
      BY <2>2, <2>6, <3>0, <3>2 DEF ReadsTail, To
    <3> QED
      BY <3>1, <3>2
  <2>7. CASE AsksExit
    <3>0. UNCHANGED <<brSession, brPage, brClock, brTimer, brLook>> /\ brPc = "exit?"
      BY <2>7 DEF AsksExit
    <3>1. CASE brPc' # "delete"
      BY <2>0, <2>7, <3>0, <3>1 DEF AsksExit, To, IBrowser, LooksInTime, MarkerFirst, NoOldMarker, BrowserReasonIsTrue, Times
    <3>2. CASE brPc' = "delete"
      BY <2>2, <2>7, <3>0, <3>2 DEF AsksExit, To
    <3> QED
      BY <3>1, <3>2
  <2>8. CASE LooksQuiet
    <3>0. UNCHANGED <<brSession, brPage, brClock, brTimer, brLook>> /\ brPc = "quiet?"
      BY <2>8 DEF LooksQuiet
    <3>1. CASE brPc' = "final"
      <4>1. brWhy' = "quiet" /\ brClock - Times[brLook.read] >= BrWait
        BY <2>8, <3>1 DEF LooksQuiet, To, Times
      <4>2. \A i \in 1 .. brLook.read : brClock - Times[i] >= BrWait
        <5> SUFFICES ASSUME NEW i \in 1 .. brLook.read PROVE brClock - Times[i] >= BrWait
          OBVIOUS
        <5>1. i \in 1 .. Len(Times) /\ brLook.read \in 1 .. Len(Times) /\ i <= brLook.read
          BY <2>0, <3>0 DEF IBrowser, LooksInTime
        <5>2. Times[i] <= Times[brLook.read]
          BY <5>1 DEF IBrowser, LooksInTime
        <5>3. Times[i] \in Nat /\ Times[brLook.read] \in Nat
          BY <2>0, <5>1, ElementOfSeq
        <5> QED
          BY <2>0, <4>1, <5>2, <5>3
      <4> QED
        BY <3>0, <3>1, <4>1, <4>2 DEF IBrowser, LooksInTime, MarkerFirst, NoOldMarker, BrowserReasonIsTrue, Times
    <3>2. CASE brPc' = "sample"
      BY <2>8, <3>0, <3>2 DEF LooksQuiet, To, IBrowser, LooksInTime, MarkerFirst, NoOldMarker, BrowserReasonIsTrue, Times
    <3> QED
      BY <2>8, <3>1, <3>2 DEF LooksQuiet, To
  <2>9. CASE TrySample
    <3>1. brLook'.read = brLook.read
      BY <2>0, <2>9 DEF TrySample
    <3> QED
      BY <2>2, <2>9, <3>1 DEF TrySample, To
  <2>10. CASE Deletes
    BY <2>2, <2>10 DEF Deletes, To
  <2>11. ASSUME NEW pic \in BrPictures, Shot(pic) PROVE IBrowser'
    BY <2>2, <2>11 DEF Shot, To
  <2>12. ASSUME NEW pic \in BrPictures, ForceShot(pic) PROVE IBrowser'
    BY <2>2, <2>12 DEF ForceShot, To
  <2>13. CASE UNCHANGED browserVars
    BY <2>13 DEF browserVars, IBrowser, LooksInTime, MarkerFirst, NoOldMarker, BrowserReasonIsTrue, Times
  <2> QED
    BY <2>1, <2>3, <2>4, <2>5, <2>6, <2>7, <2>8, <2>9, <2>10, <2>11, <2>12, <2>13 DEF BrowserNext
<1>3. ISampler => SamplerTyped
  BY DEF ISampler
<1>4. IBrowser => BrowserReasonIsTrue
  BY DEF IBrowser
<1> QED
  BY <1>1, <1>2, <1>3, <1>4, ISamplerKept, PTL DEF BrowserSpec

-----------------------------------------------------------------------------
\* The largest of 1 and a number of ticks, which is what EncodeGIF writes.
LEMMA AtLeastOne ==
  ASSUME NEW x \in Nat
  PROVE  Max({1, x}) = x + (IF x = 0 THEN 1 ELSE 0)
<1>1. ASSUME NEW y \in {1, x}, \A z \in {1, x} : y >= z PROVE y = x + (IF x = 0 THEN 1 ELSE 0)
  BY <1>1
<1>2. x + (IF x = 0 THEN 1 ELSE 0) \in {1, x} /\ \A z \in {1, x} : x + (IF x = 0 THEN 1 ELSE 0) >= z
  <2>1. CASE x = 0
    BY <2>1
  <2>2. CASE x # 0
    BY <2>2
  <2> QED
    BY <2>1, <2>2
<1> QED
  BY <1>1, <1>2 DEF Max

\* The time a frame lasts is up to that of the next one, so the sum is the time to the end.
LEMMA DelaysAddUp == ISampler => AddsUp
<1> SUFFICES ASSUME ISampler, brGif.end >= 0, brGif.frames # <<>> PROVE AddsUp
  BY DEF AddsUp
<1> DEFINE g == brGif.frames
           n == Len(g)
           ids == [i \in 1 .. n |-> i]
           Sums(f) == [k \in 0 .. Len(ids) |-> IF k = 0 THEN 0 ELSE f[k-1] + Delay(ids[k])]
           step == [i \in 1 .. n |-> [x \in Nat |-> x + Delay(i)]]
           f == CHOOSE f : f = Sums(f)
           Still == {i \in 1 .. n : Until(i) = g[i].at}
           Reach == [k \in 0 .. n |-> IF k = 0 THEN g[1].at ELSE Until(k)]
           Upto(k) == {i \in 1 .. k : Until(i) = g[i].at}
<1>0. /\ g \in Seq([pic : BrPictures, at : Nat]) /\ n \in Nat \ {0}
      /\ brGif.end \in Nat /\ g[n].at <= brGif.end
      /\ \A i \in 1 .. n - 1 : g[i+1].at >= g[i].at
      /\ \A i \in 1 .. n : g[i].at \in Nat
  <2>1. brGif \in Gifs /\ g \in Seq([pic : BrPictures, at : Nat]) /\ SamplesInTime
    BY DEF ISampler, SamplerTyped, Gifs, Frames
  <2>2. n \in Nat \ {0}
    BY <2>1, EmptySeq
  <2>3. \A i \in 1 .. n : g[i] \in [pic : BrPictures, at : Nat]
    BY <2>1, ElementOfSeq
  <2>4. g[n].at <= brGif.end /\ Spaced(brGif, FALSE)
    BY <2>1 DEF SamplesInTime, LastTime, Spaced
  <2>5. \A i \in 1 .. n - 1 : g[i+1].at >= g[i].at
    BY <2>4 DEF Spaced
  <2>6. brGif.end \in Nat
    BY <2>1 DEF Gifs
  <2> QED
    BY <2>1, <2>2, <2>3, <2>4, <2>5, <2>6
<1>1. \A k \in 1 .. n : Until(k) \in Nat /\ Until(k) - g[k].at \in Nat
  <2> SUFFICES ASSUME NEW k \in 1 .. n PROVE Until(k) \in Nat /\ Until(k) - g[k].at \in Nat
    OBVIOUS
  <2>1. CASE k = n
    <3>1. Until(k) = brGif.end
      BY <2>1 DEF Until
    <3> QED
      BY <1>0, <2>1, <3>1
  <2>2. CASE k # n
    <3>1. Until(k) = g[k+1].at /\ k \in 1 .. n - 1 /\ k + 1 \in 1 .. n
      BY <1>0, <2>2 DEF Until
    <3> QED
      BY <1>0, <3>1
  <2> QED
    BY <2>1, <2>2
<1>2. \A k \in 1 .. n : /\ Delay(k) = (Until(k) - g[k].at) + (IF Until(k) = g[k].at THEN 1 ELSE 0)
                        /\ Delay(k) \in Nat
  <2> SUFFICES ASSUME NEW k \in 1 .. n
               PROVE  /\ Delay(k) = (Until(k) - g[k].at) + (IF Until(k) = g[k].at THEN 1 ELSE 0)
                      /\ Delay(k) \in Nat
    OBVIOUS
  <2> DEFINE x == Until(k) - g[k].at
  <2>1. x \in Nat /\ Until(k) \in Nat /\ g[k].at \in Nat
    BY <1>0, <1>1
  <2>2. x = 0 <=> Until(k) = g[k].at
    BY <2>1
  <2>3. Delay(k) = Max({1, x})
    BY DEF Delay
  <2> HIDE DEF x
  <2>4. Delay(k) = x + (IF x = 0 THEN 1 ELSE 0)
    BY <2>1, <2>3, AtLeastOne
  <2>5. Delay(k) \in Nat
    BY <2>1, <2>4
  <2> QED
    BY <2>2, <2>4, <2>5 DEF x
<1>3. ids \in Seq(Nat) /\ Len(ids) = n /\ \A k \in 1 .. n : ids[k] = k
  BY <1>0
<1>4. PICK h : h \in Folds(Nat, 0, step, n)
  <2>1. n \in Nat /\ 0 \in Nat
    BY <1>0
  <2>2. \A i \in 1 .. n, x \in Nat : step[i][x] \in Nat
    BY <1>2
  <2> HIDE DEF step, n
  <2> QED
    BY <2>1, <2>2, Fold
<1>h. h \in [0 .. n -> Nat] /\ h[0] = 0 /\ \A i \in 1 .. n : h[i] = step[i][h[i - 1]]
  <2> HIDE DEF step, n
  <2> QED
    BY <1>4 DEF Folds
<1>5. h = Sums(h)
  <2>1. ASSUME NEW i \in 0 .. n PROVE h[i] = Sums(h)[i]
    <3>1. CASE i = 0
      BY <1>3, <1>h, <3>1
    <3>2. CASE i # 0
      <4>1. i \in 1 .. n /\ i - 1 \in 0 .. n
        BY <1>0, <3>2
      <4>2. h[i] = step[i][h[i - 1]] /\ h[i - 1] \in Nat
        BY <1>h, <4>1
      <4>3. step[i][h[i - 1]] = h[i - 1] + Delay(i)
        BY <4>1, <4>2
      <4>4. Sums(h)[i] = h[i - 1] + Delay(i)
        BY <1>3, <3>2, <4>1
      <4> QED
        BY <4>2, <4>3, <4>4
    <3> QED
      BY <3>1, <3>2
  <2>2. DOMAIN Sums(h) = 0 .. n
    BY <1>3
  <2>3. h = [i \in 0 .. n |-> h[i]]
    BY <1>h
  <2>4. Sums(h) = [i \in 0 .. n |-> Sums(h)[i]]
    BY <1>3
  <2> HIDE DEF Sums, ids, n
  <2> QED
    BY <2>1, <2>3, <2>4
<1>6. f = Sums(f)
  <2> HIDE DEF Sums
  <2> QED
    BY <1>5
<1>7. f[0] = 0 /\ \A i \in 1 .. n : f[i] = f[i - 1] + Delay(i)
  <2> HIDE DEF f, n, ids
  <2>1. \A i \in 0 .. n : f[i] = (IF i = 0 THEN 0 ELSE f[i - 1] + Delay(ids[i]))
    <3>1. \A i \in 0 .. n : Sums(f)[i] = (IF i = 0 THEN 0 ELSE f[i - 1] + Delay(ids[i]))
      BY <1>3
    <3> HIDE DEF Sums
    <3> QED
      BY <1>6, <3>1
  <2>2. f[0] = 0
    BY <1>0, <2>1
  <2>3. ASSUME NEW i \in 1 .. n PROVE f[i] = f[i - 1] + Delay(i)
    <3>1. i \in 0 .. n /\ i # 0 /\ ids[i] = i
      BY <1>0, <1>3
    <3> QED
      BY <2>1, <3>1
  <2> QED
    BY <2>2, <2>3
<1>8. f \in [0 .. n -> Nat]
  <2>1. f = [i \in 0 .. n |-> f[i]]
    <3> HIDE DEF f, n, ids
    <3> QED
      BY <1>3, <1>6
  <2>2. n \in Nat /\ f[0] \in Nat
    <3> HIDE DEF f
    <3> QED
      BY <1>0, <1>7
  <2>3. ASSUME NEW i \in 1 .. n, f[i - 1] \in Nat PROVE f[i] \in Nat
    <3> HIDE DEF f, n
    <3>1. f[i] = f[i - 1] + Delay(i) /\ Delay(i) \in Nat
      BY <1>2, <1>7
    <3> QED
      BY <2>3, <3>1
  <2> HIDE DEF f, n, ids, Sums
  <2> QED
    BY <2>1, <2>2, <2>3, StaysIn, Zenon
<1>9. /\ \A k \in 0 .. n : Reach[k] \in Nat
      /\ \A k \in 1 .. n : Reach[k] = Until(k) /\ Reach[k - 1] = g[k].at
      /\ Reach[0] = g[1].at /\ Reach[n] = brGif.end
  <2>1. ASSUME NEW k \in 1 .. n PROVE Reach[k - 1] = g[k].at
    <3>1. CASE k = 1
      BY <1>0, <3>1
    <3>2. CASE k # 1
      <4>1. k - 1 \in 1 .. n /\ k - 1 # 0 /\ k - 1 # n /\ (k - 1) + 1 = k
        BY <1>0, <3>2
      <4>2. Until(k - 1) = g[k].at
        BY <4>1 DEF Until
      <4> QED
        BY <4>1, <4>2
    <3> QED
      BY <3>1, <3>2
  <2>2. Reach[n] = brGif.end
    BY <1>0 DEF Until
  <2> QED
    BY <1>0, <1>1, <2>1, <2>2
<1>10. ASSUME NEW k \in 0 .. n PROVE IsFiniteSet(Upto(k)) /\ Cardinality(Upto(k)) \in Nat
  <2>1. IsFiniteSet(1 .. k)
    BY <1>0, FS_Interval
  <2>2. Upto(k) \subseteq 1 .. k
    OBVIOUS
  <2> HIDE DEF Upto
  <2> QED
    BY <2>1, <2>2, FS_Subset, FS_CardinalityType
<1>11. \A k \in 0 .. n : f[k] = (Reach[k] - Reach[0]) + Cardinality(Upto(k))
  <2> DEFINE S == {k \in Nat : k <= n => f[k] = (Reach[k] - Reach[0]) + Cardinality(Upto(k))}
  <2>1. 0 \in S
    <3>1. Upto(0) = {}
      OBVIOUS
    <3>2. Cardinality(Upto(0)) = 0
      BY <3>1, FS_EmptySet
    <3> HIDE DEF Upto, Reach, f
    <3> QED
      BY <1>0, <1>7, <1>9, <3>2
  <2>2. ASSUME NEW k \in Nat, k \in S PROVE k + 1 \in S
    <3> SUFFICES ASSUME k + 1 <= n
                 PROVE  f[k + 1] = (Reach[k + 1] - Reach[0]) + Cardinality(Upto(k + 1))
      <4> HIDE DEF f, Reach, Upto, n
      <4> QED
        OBVIOUS
    <3>1. k \in 0 .. n /\ 0 \in 0 .. n /\ k + 1 \in 1 .. n /\ k + 1 \in 0 .. n /\ (k + 1) - 1 = k
      BY <1>0
    <3>2. f[k] = (Reach[k] - Reach[0]) + Cardinality(Upto(k))
      <4> HIDE DEF f, Reach, Upto
      <4> QED
        BY <2>2, <3>1
    <3>3. f[k + 1] = f[k] + Delay(k + 1)
      <4> HIDE DEF f
      <4> QED
        BY <1>7, <3>1
    <3>4. Delay(k + 1) = (Reach[k + 1] - Reach[k]) + (IF Until(k + 1) = g[k + 1].at THEN 1 ELSE 0)
      <4> HIDE DEF Reach
      <4> QED
        BY <1>2, <1>9, <3>1
    <3>5. Cardinality(Upto(k + 1)) = Cardinality(Upto(k)) + (IF Until(k + 1) = g[k + 1].at THEN 1 ELSE 0)
      <4>1. CASE Until(k + 1) = g[k + 1].at
        <5>1. Upto(k + 1) = Upto(k) \cup {k + 1} /\ k + 1 \notin Upto(k)
          BY <3>1, <4>1
        <5>2. IsFiniteSet(Upto(k)) /\ Cardinality(Upto(k)) \in Nat
          BY <1>10, <3>1
        <5> HIDE DEF Upto
        <5>3. Cardinality(Upto(k) \cup {k + 1}) = Cardinality(Upto(k)) + 1
          BY <5>1, <5>2, FS_AddElement
        <5> QED
          BY <4>1, <5>1, <5>3
      <4>2. CASE Until(k + 1) # g[k + 1].at
        <5>1. Upto(k + 1) = Upto(k)
          BY <3>1, <4>2
        <5>2. Cardinality(Upto(k)) \in Nat
          BY <1>10, <3>1
        <5> HIDE DEF Upto
        <5> QED
          BY <4>2, <5>1, <5>2
      <4> QED
        BY <4>1, <4>2
    <3>6. Reach[k] \in Nat /\ Reach[k + 1] \in Nat /\ Reach[0] \in Nat /\ Cardinality(Upto(k)) \in Nat
      BY <1>9, <1>10, <3>1
    <3> HIDE DEF Reach, Upto, f
    <3> QED
      BY <3>2, <3>3, <3>4, <3>5, <3>6
  <2> HIDE DEF S
  <2>3. \A k \in Nat : k \in S
    BY <2>1, <2>2, Climb
  <2> HIDE DEF f, Reach, Upto
  <2> QED
    BY <1>0, <2>3 DEF S
<1>12. f[n] - (brGif.end - g[1].at) = Cardinality(Still)
  <2>1. f[n] = (Reach[n] - Reach[0]) + Cardinality(Upto(n)) /\ Cardinality(Upto(n)) \in Nat
    <3> HIDE DEF f, Reach, Upto
    <3> QED
      BY <1>0, <1>10, <1>11
  <2>2. Reach[n] \in Nat /\ Reach[0] \in Nat
    BY <1>0, <1>9
  <2>3. Still = Upto(n)
    OBVIOUS
  <2> HIDE DEF f, Reach, Upto, Still
  <2> QED
    BY <1>9, <2>1, <2>2, <2>3
<1>13. Along(LAMBDA s, i : s + Delay(i), 0, ids) = f[n]
  BY <1>3 DEF Along
<1> QED
  BY <1>12, <1>13 DEF AddsUp

\* The animation shows each picture for as long as it was there, and lasts as long as the run,
\* whatever the screenshots show, take and miss, for any limits and any clock.
THEOREM AnimationIsTrue == BrowserSpec => []PlaysAsLong
<1>1. ISampler => FramesAreApart
  BY DEF ISampler, SamplesInTime, Spaced, FramesAreApart
<1> QED
  BY <1>1, ISamplerKept, DelaysAddUp, PTL DEF PlaysAsLong

-----------------------------------------------------------------------------
(* Recorder: the search for the marker, chunk by chunk.                     *)

\* A part of a sequence, element by element.
LEMMA CutIs ==
  ASSUME NEW S, NEW s \in Seq(S), NEW a \in Nat, NEW b \in Nat, a <= b, b <= Len(s)
  PROVE  /\ SubSeq(s, a + 1, b) \in Seq(S)
         /\ Len(SubSeq(s, a + 1, b)) = b - a
         /\ \A j \in 1 .. b - a : SubSeq(s, a + 1, b)[j] = s[a + j]
<1>1. \A i \in a + 1 .. b : s[i] \in S
  OBVIOUS
<1> QED
  BY <1>1, SubSeqProperties

\* Has, element by element: m is in s after the first i elements, and ends before k.
IsAt(s, m, i) == \A j \in 1 .. Len(m) : s[i + j] = m[j]
IsWithin(s, m, k) == \E i \in 0 .. k - Len(m) : IsAt(s, m, i)

LEMMA HasAt ==
  ASSUME NEW S, NEW s \in Seq(S), NEW m \in Seq(S)
  PROVE  Has(s, m) <=> IsWithin(s, m, Len(s))
<1>1. ASSUME NEW i \in 0 .. Len(s) - Len(m)
      PROVE  SubSeq(s, i + 1, i + Len(m)) = m <=> IsAt(s, m, i)
  <2>1. i \in Nat /\ i + Len(m) \in Nat /\ i <= i + Len(m) /\ i + Len(m) <= Len(s)
    OBVIOUS
  <2>2. /\ SubSeq(s, i + 1, i + Len(m)) \in Seq(S)
        /\ Len(SubSeq(s, i + 1, i + Len(m))) = Len(m)
        /\ \A j \in 1 .. Len(m) : SubSeq(s, i + 1, i + Len(m))[j] = s[i + j]
    BY <2>1, CutIs
  <2>3. (\A j \in 1 .. Len(m) : SubSeq(s, i + 1, i + Len(m))[j] = m[j])
           => SubSeq(s, i + 1, i + Len(m)) = m
    BY <2>2, SeqEqual
  <2> QED
    BY <2>2, <2>3 DEF IsAt
<1> QED
  BY <1>1 DEF Has, IsWithin

\* The marker is in a prefix when it starts early enough.
LEMMA HasIn ==
  ASSUME NEW S, NEW s \in Seq(S), NEW m \in Seq(S), NEW k \in 0 .. Len(s)
  PROVE  Has(SubSeq(s, 1, k), m) <=> IsWithin(s, m, k)
<1> DEFINE p == SubSeq(s, 1, k)
<1>1. p \in Seq(S) /\ Len(p) = k /\ \A j \in 1 .. k : p[j] = s[j]
  BY CutIs, 0 \in Nat, 0 <= k, k \in Nat, k <= Len(s), 0 + 1 = 1
<1> HIDE DEF p
<1>2. Has(p, m) <=> IsWithin(p, m, k)
  BY <1>1, HasAt
<1>3. ASSUME NEW i \in 0 .. k - Len(m) PROVE IsAt(p, m, i) <=> IsAt(s, m, i)
  <2>1. ASSUME NEW j \in 1 .. Len(m) PROVE p[i + j] = s[i + j]
    <3>1. i + j \in 1 .. k
      OBVIOUS
    <3> QED
      BY <1>1, <3>1
  <2> QED
    BY <2>1 DEF IsAt
<1> QED
  BY <1>2, <1>3 DEF IsWithin, p

\* What is kept of the first k bytes for the next search, and where it begins.
KeptOf(s, m, k) == KeepTail(SubSeq(s, 1, k), Len(m) - 1)
KeptFrom(m, k) == IF k > Len(m) - 1 THEN k - (Len(m) - 1) ELSE 0

LEMMA KeptIs ==
  ASSUME NEW S, NEW s \in Seq(S), NEW m \in Seq(S), m # <<>>, NEW k \in 0 .. Len(s)
  PROVE  /\ KeptFrom(m, k) \in 0 .. k
         /\ KeptOf(s, m, k) = SubSeq(s, KeptFrom(m, k) + 1, k)
<1>1. SubSeq(s, 1, k) \in Seq(S) /\ Len(SubSeq(s, 1, k)) = k /\ \A j \in 1 .. k : SubSeq(s, 1, k)[j] = s[j]
  BY CutIs, 0 \in Nat, 0 <= k, k \in Nat, k <= Len(s), 0 + 1 = 1
<1>2. Len(m) \in Nat \ {0} /\ k \in Nat
  BY EmptySeq
<1>3. KeptFrom(m, k) \in 0 .. k
  BY <1>2 DEF KeptFrom
<1>4. CASE k > Len(m) - 1
  <2> DEFINE p == SubSeq(s, 1, k)
             a == KeptFrom(m, k)
  <2>1. KeptOf(s, m, k) = SubSeq(p, a + 1, k)
    BY <1>1, <1>2, <1>4 DEF KeptOf, KeepTail, KeptFrom
  <2>2. p \in Seq(S) /\ Len(p) = k /\ \A j \in 1 .. k : p[j] = s[j]
    BY <1>1
  <2>3. a \in Nat /\ a <= k /\ \A j \in 1 .. k - a : a + j \in 1 .. k
    BY <1>2, <1>3
  <2> HIDE DEF p, a
  <2>4. /\ SubSeq(p, a + 1, k) \in Seq(S)
        /\ Len(SubSeq(p, a + 1, k)) = k - a
        /\ \A j \in 1 .. k - a : SubSeq(p, a + 1, k)[j] = p[a + j]
    BY <1>2, <2>2, <2>3, CutIs
  <2>5. /\ SubSeq(s, a + 1, k) \in Seq(S)
        /\ Len(SubSeq(s, a + 1, k)) = k - a
        /\ \A j \in 1 .. k - a : SubSeq(s, a + 1, k)[j] = s[a + j]
    BY <1>2, <2>3, CutIs
  <2>6. SubSeq(p, a + 1, k) = SubSeq(s, a + 1, k)
    BY <2>2, <2>3, <2>4, <2>5, SeqEqual
  <2> QED
    BY <1>3, <2>1, <2>6 DEF a
<1>5. CASE ~(k > Len(m) - 1)
  <2>1. KeptOf(s, m, k) = SubSeq(s, 1, k) /\ KeptFrom(m, k) = 0
    BY <1>1, <1>2, <1>5 DEF KeptOf, KeepTail, KeptFrom
  <2> QED
    BY <1>3, <2>1, 0 + 1 = 1
<1> QED
  BY <1>4, <1>5

\* The search of the kept end and the chunk finds what a search of everything would find,
\* when the marker was not there before, and keeps the same end.
LEMMA SearchMissesNone ==
  ASSUME NEW S, NEW s \in Seq(S), NEW m \in Seq(S), m # <<>>,
         NEW k \in 0 .. Len(s), NEW n \in k .. Len(s),
         ~Has(SubSeq(s, 1, k), m)
  PROVE  /\ Has(KeptOf(s, m, k) \o SubSeq(s, k + 1, n), m) <=> Has(SubSeq(s, 1, n), m)
         /\ KeepTail(KeptOf(s, m, k) \o SubSeq(s, k + 1, n), Len(m) - 1) = KeptOf(s, m, n)
<1> DEFINE a == KeptFrom(m, k)
           b == KeptFrom(m, n)
           o == SubSeq(s, a + 1, k)
           c == SubSeq(s, k + 1, n)
           scan == o \o c
           l == Len(m)
<1>0. l \in Nat \ {0} /\ k \in Nat /\ n \in Nat /\ k <= n /\ n <= Len(s)
  BY EmptySeq
<1>1. /\ KeptOf(s, m, k) = o /\ KeptOf(s, m, n) = SubSeq(s, b + 1, n)
      /\ a \in 0 .. k /\ b \in 0 .. n /\ a <= b
      /\ a > 0 => k > l - 1 /\ a = k - (l - 1)
      /\ a = 0 => k <= l - 1 \/ k - (l - 1) = 0
      /\ n > l - 1 => b = n - (l - 1)
      /\ n <= l - 1 => b = 0
  <2>1. /\ KeptOf(s, m, k) = o /\ KeptOf(s, m, n) = SubSeq(s, b + 1, n)
        /\ a \in 0 .. k /\ b \in 0 .. n
    BY KeptIs, n \in 0 .. Len(s)
  <2> QED
    BY <1>0, <2>1 DEF KeptFrom
<1> HIDE DEF a, b, l
<1>2. /\ o \in Seq(S) /\ Len(o) = k - a /\ \A j \in 1 .. k - a : o[j] = s[a + j]
      /\ c \in Seq(S) /\ Len(c) = n - k /\ \A j \in 1 .. n - k : c[j] = s[k + j]
  BY <1>0, <1>1, CutIs
<1> HIDE DEF o, c
<1>3. scan \in Seq(S) /\ Len(scan) = n - a /\ \A j \in 1 .. n - a : scan[j] = s[a + j]
  <2>1. /\ scan \in Seq(S) /\ Len(scan) = Len(o) + Len(c)
        /\ \A j \in 1 .. Len(o) + Len(c) : scan[j] = IF j <= Len(o) THEN o[j] ELSE c[j - Len(o)]
    <3> HIDE DEF scan
    <3>1. /\ o \o c \in Seq(S) /\ Len(o \o c) = Len(o) + Len(c)
          /\ \A j \in 1 .. Len(o) + Len(c) : (o \o c)[j] = IF j <= Len(o) THEN o[j] ELSE c[j - Len(o)]
      BY <1>2, ConcatProperties
    <3> QED
      BY <3>1 DEF scan
  <2>2. Len(o) = k - a /\ Len(o) + Len(c) = n - a
    BY <1>0, <1>1, <1>2
  <2>3. ASSUME NEW j \in 1 .. n - a PROVE scan[j] = s[a + j]
    <3>1. CASE j <= k - a
      <4>1. j \in 1 .. k - a /\ j \in 1 .. Len(o) + Len(c) /\ j <= Len(o)
        BY <1>0, <1>1, <2>2, <3>1
      <4>2. scan[j] = o[j]
        BY <2>1, <4>1
      <4> QED
        BY <1>2, <4>1, <4>2
    <3>2. CASE ~(j <= k - a)
      <4>1. j - (k - a) \in 1 .. n - k /\ k + (j - (k - a)) = a + j
        BY <1>0, <1>1, <3>2
      <4>2. j \in 1 .. Len(o) + Len(c) /\ ~(j <= Len(o))
        BY <2>2, <3>2
      <4>3. scan[j] = c[j - (k - a)]
        BY <2>1, <2>2, <4>2
      <4>4. c[j - (k - a)] = s[k + (j - (k - a))]
        BY <1>2, <4>1
      <4> QED
        BY <4>1, <4>3, <4>4
    <3> QED
      BY <3>1, <3>2
  <2> QED
    BY <2>1, <2>2, <2>3
<1> HIDE DEF scan
<1>4. ASSUME NEW i \in 0 .. (n - a) - l PROVE IsAt(scan, m, i) <=> IsAt(s, m, a + i)
  <2>1. ASSUME NEW j \in 1 .. l PROVE scan[i + j] = s[(a + i) + j]
    <3>1. i + j \in 1 .. n - a /\ a + (i + j) = (a + i) + j
      BY <1>0, <1>1
    <3> QED
      BY <1>3, <3>1
  <2> QED
    BY <2>1 DEF IsAt, l
<1>5. /\ Has(scan, m) <=> IsWithin(scan, m, n - a)
      /\ Has(SubSeq(s, 1, n), m) <=> IsWithin(s, m, n)
      /\ ~IsWithin(s, m, k)
  <2>1. Has(scan, m) <=> IsWithin(scan, m, n - a)
    BY <1>3, HasAt
  <2> QED
    BY <1>0, <2>1, HasIn, n \in 0 .. Len(s)
<1>6. Has(scan, m) => Has(SubSeq(s, 1, n), m)
  <2> SUFFICES ASSUME IsWithin(scan, m, n - a) PROVE IsWithin(s, m, n)
    BY <1>5
  <2>1. PICK i \in 0 .. (n - a) - l : IsAt(scan, m, i)
    BY DEF IsWithin, l
  <2>2. a + i \in 0 .. n - l
    BY <1>0, <1>1
  <2> QED
    BY <1>4, <2>1, <2>2 DEF IsWithin, l
<1>7. Has(SubSeq(s, 1, n), m) => Has(scan, m)
  <2> SUFFICES ASSUME IsWithin(s, m, n) PROVE IsWithin(scan, m, n - a)
    BY <1>5
  <2>1. PICK i \in 0 .. n - l : IsAt(s, m, i)
    BY DEF IsWithin, l
  <2>2. ~(i \in 0 .. k - l)
    BY <1>5, <2>1 DEF IsWithin, l
  <2>3. i - a \in 0 .. (n - a) - l /\ a + (i - a) = i
    BY <1>0, <1>1, <2>2
  <2> QED
    BY <1>4, <2>1, <2>3 DEF IsWithin, l
<1>8. KeepTail(scan, l - 1) = SubSeq(s, b + 1, n)
  <2>1. /\ SubSeq(s, b + 1, n) \in Seq(S)
        /\ Len(SubSeq(s, b + 1, n)) = n - b
        /\ \A j \in 1 .. n - b : SubSeq(s, b + 1, n)[j] = s[b + j]
    BY <1>0, <1>1, CutIs
  <2>2. CASE n - a > l - 1
    <3> DEFINE x == b - a
               y == n - a
    <3>1. b = n - (l - 1)
      BY <1>0, <1>1, <2>2
    <3>2. x \in Nat /\ y \in Nat /\ x <= y /\ y = Len(scan) /\ y - x = n - b /\ (y - (l - 1)) + 1 = x + 1
      BY <1>0, <1>1, <1>3, <3>1
    <3>3. KeepTail(scan, l - 1) = SubSeq(scan, x + 1, y)
      BY <1>3, <2>2, <3>2 DEF KeepTail
    <3>4. ASSUME NEW j \in 1 .. n - b PROVE scan[x + j] = s[b + j]
      <4>1. x + j \in 1 .. n - a /\ a + (x + j) = b + j
        BY <1>0, <1>1
      <4> QED
        BY <1>3, <4>1
    <3> HIDE DEF x, y
    <3>5. /\ SubSeq(scan, x + 1, y) \in Seq(S)
          /\ Len(SubSeq(scan, x + 1, y)) = y - x
          /\ \A j \in 1 .. y - x : SubSeq(scan, x + 1, y)[j] = scan[x + j]
      <4>1. scan \in Seq(S) /\ x \in Nat /\ y \in Nat /\ x <= y /\ y <= Len(scan)
        BY <1>3, <3>2
      <4> QED
        BY <4>1, CutIs, Zenon
    <3>6. SubSeq(scan, x + 1, y) = SubSeq(s, b + 1, n)
      <4> DEFINE u == SubSeq(scan, x + 1, y)
                 v == SubSeq(s, b + 1, n)
      <4>3. u \in Seq(S) /\ Len(u) = n - b /\ \A j \in 1 .. n - b : u[j] = scan[x + j]
        BY <3>2, <3>5
      <4>4. v \in Seq(S) /\ Len(v) = n - b /\ \A j \in 1 .. n - b : v[j] = s[b + j]
        BY <2>1
      <4> HIDE DEF u, v
      <4>1. u \in Seq(S) /\ v \in Seq(S) /\ Len(u) = Len(v) /\ \A j \in 1 .. Len(u) : u[j] = v[j]
        BY <3>4, <4>3, <4>4
      <4>2. u = v
        BY <4>1, SeqEqual
      <4> QED
        BY <4>2 DEF u, v
    <3> QED
      BY <3>3, <3>6
  <2>3. CASE ~(n - a > l - 1)
    <3>1. a = b
      BY <1>0, <1>1, <2>3
    <3>2. KeepTail(scan, l - 1) = scan
      BY <1>0, <1>3, <2>3 DEF KeepTail
    <3> HIDE DEF KeepTail
    <3>3. scan = SubSeq(s, b + 1, n)
      BY <1>3, <2>1, <3>1, SeqEqual
    <3> QED
      BY <3>2, <3>3
  <2> QED
    BY <2>2, <2>3
<1> QED
  BY <1>1, <1>6, <1>7, <1>8 DEF scan, o, c, l

-----------------------------------------------------------------------------
(* Recorder: the goroutines.                                                *)

\* What the search has been through, and what the picture shows.
Searched == IF recReader.pc \in {"read", "ended"} THEN recReader.got ELSE recReader.got - Len(recReader.chunk)
Drawn    == IF recReader.pc = "draw" THEN recReader.got - Len(recReader.chunk) ELSE recReader.got

RecorderTyped ==
  /\ recOut \in Seq(RecBytes)
  /\ recClock \in Nat
  /\ recLoop \in [pc : {"poll", "close", "done"}, why : {"none", "exit", "timeout", "marker", "quiet"}, at : Nat]
  /\ recAlive \in BOOLEAN /\ recHit \in BOOLEAN
  /\ recReader \in [pc : {"read", "draw", "note", "search", "ended"}, got : Nat, chunk : Seq(RecBytes)]
  /\ recReader.got <= Len(recOut)
  /\ recReader.pc \in {"draw", "note", "search"} => Len(recReader.chunk) <= recReader.got

\* A chunk that is held is the last one read, and what is drawn is all before it or all with it.
DrawnInOrder ==
  /\ recReader.pc \in {"draw", "note", "search"} =>
       recReader.chunk = SubSeq(recOut, (recReader.got - Len(recReader.chunk)) + 1, recReader.got)
  /\ recDrawn = SubSeq(recOut, 1, Drawn)
  /\ recReader.pc = "ended" => recReader.got = Len(recOut) /\ ~recAlive

\* The search is exact for what it has been through, and while it has not found the marker
\* it keeps what the next search needs.
SearchIsExact ==
  /\ recHit <=> Has(SubSeq(recOut, 1, Searched), RecMarker)
  /\ ~recHit => recOverlap = KeptOf(recOut, RecMarker, Searched)

\* Run stops on what the reader has noted.
StopsAreNoted ==
  /\ recLoop.why = "marker" => recHit
  /\ recLoop.why = "exit" => recReader.pc = "ended"

IRecorder == RecorderTyped /\ DrawnInOrder /\ SearchIsExact /\ StopsAreNoted

\* A prefix that has the marker is part of every longer one that has it.
LEMMA HasStays ==
  ASSUME NEW S, NEW s \in Seq(S), NEW m \in Seq(S),
         NEW k \in 0 .. Len(s), NEW n \in k .. Len(s), Has(SubSeq(s, 1, k), m)
  PROVE  Has(SubSeq(s, 1, n), m)
<1>1. IsWithin(s, m, k)
  BY HasIn
<1>2. PICK i \in 0 .. k - Len(m) : IsAt(s, m, i)
  BY <1>1 DEF IsWithin
<1>3. i \in 0 .. n - Len(m) /\ n \in 0 .. Len(s)
  OBVIOUS
<1>4. IsWithin(s, m, n)
  BY <1>2, <1>3 DEF IsWithin
<1> QED
  BY <1>3, <1>4, HasIn

\* What was written stays when more is.
LEMMA PrefixStays ==
  ASSUME NEW S, NEW s \in Seq(S), NEW b \in S, NEW a \in Nat, NEW k \in Nat, a <= k, k <= Len(s)
  PROVE  SubSeq(Append(s, b), a + 1, k) = SubSeq(s, a + 1, k)
<1> DEFINE t == Append(s, b)
           u == SubSeq(t, a + 1, k)
           v == SubSeq(s, a + 1, k)
<1>1. t \in Seq(S) /\ Len(t) = Len(s) + 1 /\ \A j \in 1 .. Len(s) : t[j] = s[j]
  OBVIOUS
<1>2. k <= Len(t) /\ \A j \in 1 .. k - a : a + j \in 1 .. Len(s)
  BY <1>1
<1> HIDE DEF t
<1>3. u \in Seq(S) /\ Len(u) = k - a /\ \A j \in 1 .. k - a : u[j] = t[a + j]
  BY <1>1, <1>2, CutIs
<1>4. v \in Seq(S) /\ Len(v) = k - a /\ \A j \in 1 .. k - a : v[j] = s[a + j]
  BY CutIs
<1>5. Len(u) = Len(v) /\ \A j \in 1 .. Len(u) : u[j] = v[j]
  BY <1>1, <1>2, <1>3, <1>4
<1> HIDE DEF u, v
<1>6. u = v
  BY <1>3, <1>4, <1>5, SeqEqual
<1> QED
  BY <1>6 DEF t, u, v

\* A prefix and the next chunk are a prefix.
LEMMA PrefixGrows ==
  ASSUME NEW S, NEW s \in Seq(S), NEW k \in 0 .. Len(s), NEW n \in k .. Len(s)
  PROVE  SubSeq(s, 1, k) \o SubSeq(s, k + 1, n) = SubSeq(s, 1, n)
<1> DEFINE p == SubSeq(s, 1, k)
           c == SubSeq(s, k + 1, n)
           t == SubSeq(s, 1, n)
           w == p \o c
<1>0. k \in Nat /\ n \in Nat /\ k <= n /\ n <= Len(s) /\ 0 \in Nat /\ 0 + 1 = 1 /\ 0 <= k /\ 0 <= n
  OBVIOUS
<1>1. /\ p \in Seq(S) /\ Len(p) = k /\ \A j \in 1 .. k : p[j] = s[j]
      /\ c \in Seq(S) /\ Len(c) = n - k /\ \A j \in 1 .. n - k : c[j] = s[k + j]
      /\ t \in Seq(S) /\ Len(t) = n /\ \A j \in 1 .. n : t[j] = s[j]
  BY <1>0, CutIs
<1> HIDE DEF p, c, t
<1>2. /\ w \in Seq(S) /\ Len(w) = Len(p) + Len(c)
      /\ \A j \in 1 .. Len(p) + Len(c) : w[j] = IF j <= Len(p) THEN p[j] ELSE c[j - Len(p)]
  <2> HIDE DEF w
  <2>1. /\ p \o c \in Seq(S) /\ Len(p \o c) = Len(p) + Len(c)
        /\ \A j \in 1 .. Len(p) + Len(c) : (p \o c)[j] = IF j <= Len(p) THEN p[j] ELSE c[j - Len(p)]
    BY <1>1, ConcatProperties
  <2> QED
    BY <2>1 DEF w
<1> HIDE DEF w
<1>3. ASSUME NEW j \in 1 .. n PROVE w[j] = t[j]
  <2>1. CASE j <= k
    BY <1>0, <1>1, <1>2, <2>1
  <2>2. CASE ~(j <= k)
    <3>1. j - k \in 1 .. n - k /\ k + (j - k) = j
      BY <1>0, <2>2
    <3>2. w[j] = c[j - k]
      BY <1>0, <1>1, <1>2, <2>2
    <3> QED
      BY <1>1, <3>1, <3>2
  <2> QED
    BY <2>1, <2>2
<1>4. Len(w) = Len(t)
  BY <1>0, <1>1, <1>2
<1>5. w = t
  BY <1>1, <1>2, <1>3, <1>4, SeqEqual
<1> QED
  BY <1>5 DEF w, p, c, t

LEMMA IRecorderInit == RecorderInit => IRecorder
<1> SUFFICES ASSUME RecorderInit PROVE IRecorder
  OBVIOUS
<1>1. RecMarker \in Seq(RecBytes) /\ RecMarker # <<>> /\ Len(RecMarker) \in Nat \ {0}
  BY RecorderAssumption, EmptySeq DEF RecorderAssumption
<1>2. <<>> \in Seq(RecBytes) /\ Len(<<>>) = 0 /\ SubSeq(<<>>, 1, 0) = <<>>
  BY SubSeqEmpty
<1>3. RecorderTyped
  <2>1. /\ recReader \in [pc : {"read", "draw", "note", "search", "ended"}, got : Nat, chunk : Seq(RecBytes)]
        /\ recReader.got = 0 /\ recReader.pc = "read"
    BY <1>2 DEF RecorderInit
  <2>2. recOut \in Seq(RecBytes) /\ Len(recOut) = 0
    BY <1>2 DEF RecorderInit
  <2>3. recAlive \in BOOLEAN /\ recHit \in BOOLEAN
    BY DEF RecorderInit
  <2>4. recLoop \in [pc : {"poll", "close", "done"},
                    why : {"none", "exit", "timeout", "marker", "quiet"}, at : Nat]
        /\ recClock \in Nat
    BY DEF RecorderInit
  <2> QED
    BY <2>1, <2>2, <2>3, <2>4 DEF RecorderTyped
<1>4. DrawnInOrder
  BY <1>2 DEF RecorderInit, DrawnInOrder, Drawn
<1>5. ~IsWithin(recOut, RecMarker, 0)
  BY <1>1 DEF IsWithin
<1>6. SearchIsExact
  <2>1. Searched = 0 /\ recOut = <<>> /\ recHit = FALSE /\ recOverlap = <<>>
    BY DEF RecorderInit, Searched
  <2>2. 0 \in 0 .. Len(recOut)
    BY <1>2, <2>1
  <2>3. ~Has(SubSeq(recOut, 1, 0), RecMarker)
    BY <1>1, <1>2, <1>5, <2>1, <2>2, HasIn
  <2>4. KeptOf(recOut, RecMarker, 0) = <<>>
    BY <1>1, <1>2, <2>1 DEF KeptOf, KeepTail
  <2> QED
    BY <2>1, <2>3, <2>4 DEF SearchIsExact
<1>7. StopsAreNoted
  BY DEF RecorderInit, StopsAreNoted
<1> QED
  BY <1>3, <1>4, <1>6, <1>7 DEF IRecorder

\* What is drawn or searched is no more than what was written.
LEMMA SearchedInRange ==
  ASSUME RecorderTyped
  PROVE  /\ Searched \in 0 .. recReader.got /\ Drawn \in 0 .. recReader.got
         /\ recReader.got \in 0 .. Len(recOut)
         /\ Searched \in 0 .. Len(recOut) /\ Drawn \in 0 .. Len(recOut)
<1>1. recReader.got \in Nat /\ Len(recOut) \in Nat /\ Len(recReader.chunk) \in Nat
  BY DEF RecorderTyped
<1>2. recReader.pc \in {"read", "draw", "note", "search", "ended"}
  BY DEF RecorderTyped
<1> QED
  BY <1>1, <1>2 DEF RecorderTyped, Searched, Drawn

LEMMA IRecorderStep == IRecorder /\ [RecorderNext]_recorderVars => IRecorder'
<1> SUFFICES ASSUME IRecorder, [RecorderNext]_recorderVars PROVE IRecorder'
  OBVIOUS
<1>0. RecorderTyped /\ DrawnInOrder /\ SearchIsExact /\ StopsAreNoted
  BY DEF IRecorder
<1>m. RecMarker \in Seq(RecBytes) /\ RecMarker # <<>> /\ Len(RecMarker) \in Nat \ {0}
  BY RecorderAssumption, EmptySeq DEF RecorderAssumption
<1>r. /\ Searched \in 0 .. recReader.got /\ Drawn \in 0 .. recReader.got
      /\ recReader.got \in 0 .. Len(recOut)
      /\ Searched \in 0 .. Len(recOut) /\ Drawn \in 0 .. Len(recOut)
  BY <1>0, SearchedInRange
<1>1. ASSUME NEW b \in RecBytes, ProgramWrites(b) PROVE IRecorder'
  <2>1. /\ recOut' = Append(recOut, b) /\ recAlive
        /\ UNCHANGED <<recAlive, recClock, recReader, recDrawn, recOverlap, recHit, recLoop>>
    BY <1>1 DEF ProgramWrites
  <2>2. recOut \in Seq(RecBytes) /\ recOut' \in Seq(RecBytes) /\ Len(recOut') = Len(recOut) + 1
    BY <1>0, <2>1 DEF RecorderTyped
  <2>3. RecorderTyped'
    BY <1>0, <2>1, <2>2, <1>r DEF RecorderTyped
  <2>4. Searched' = Searched /\ Drawn' = Drawn
    BY <2>1 DEF Searched, Drawn
  <2>5. ASSUME NEW k \in 0 .. Len(recOut) PROVE SubSeq(recOut', 1, k) = SubSeq(recOut, 1, k)
    <3>1. 0 \in Nat /\ k \in Nat /\ 0 <= k /\ k <= Len(recOut) /\ 0 + 1 = 1
      OBVIOUS
    <3> QED
      BY <2>1, <2>2, <3>1, PrefixStays
  <2>6. recReader.pc # "ended"
    BY <1>0, <2>1 DEF DrawnInOrder
  <2>7. recReader.pc \in {"draw", "note", "search"} =>
          recReader.chunk = SubSeq(recOut', (recReader.got - Len(recReader.chunk)) + 1, recReader.got)
    <3> SUFFICES ASSUME recReader.pc \in {"draw", "note", "search"}
                 PROVE  recReader.chunk = SubSeq(recOut', (recReader.got - Len(recReader.chunk)) + 1, recReader.got)
      OBVIOUS
    <3> DEFINE a == recReader.got - Len(recReader.chunk)
               k == recReader.got
    <3>1. a \in Nat /\ k \in Nat /\ a <= k /\ k <= Len(recOut)
      BY <1>0, <1>r DEF RecorderTyped
    <3>2. recReader.chunk = SubSeq(recOut, a + 1, k)
      BY <1>0 DEF DrawnInOrder
    <3> HIDE DEF a, k
    <3>3. SubSeq(recOut', a + 1, k) = SubSeq(recOut, a + 1, k)
      BY <2>1, <2>2, <3>1, PrefixStays
    <3> QED
      BY <3>2, <3>3 DEF a, k
  <2>8. DrawnInOrder'
    BY <1>0, <1>r, <2>1, <2>4, <2>5, <2>6, <2>7 DEF DrawnInOrder
  <2>9. SearchIsExact'
    BY <1>0, <1>r, <2>1, <2>4, <2>5 DEF SearchIsExact, KeptOf
  <2>10. StopsAreNoted'
    BY <1>0, <2>1 DEF StopsAreNoted
  <2> QED
    BY <2>3, <2>8, <2>9, <2>10 DEF IRecorder
<1>2. CASE ProgramExits \/ RecTick \/ LoopReturns
  <2>1. /\ UNCHANGED <<recOut, recReader, recDrawn, recOverlap, recHit>>
        /\ recAlive' = recAlive \/ recAlive' = FALSE
        /\ recLoop' = recLoop \/ recLoop' = [recLoop EXCEPT !.pc = "done"]
        /\ recClock' = recClock \/ recClock' = recClock + 1
    BY <1>2 DEF ProgramExits, RecTick, LoopReturns
  <2>2. recLoop'.why = recLoop.why
    BY <1>0, <2>1 DEF RecorderTyped
  <2>3. RecorderTyped'
    <3>0. recAlive' \in BOOLEAN
      BY <1>0, <2>1, Zenon DEF RecorderTyped
    <3>1. recClock' \in Nat
      BY <1>0, <2>1 DEF RecorderTyped
    <3>2. recLoop' \in [pc : {"poll", "close", "done"},
                       why : {"none", "exit", "timeout", "marker", "quiet"}, at : Nat]
      BY <1>0, <2>1 DEF RecorderTyped
    <3> QED
      BY <1>0, <2>1, <3>0, <3>1, <3>2 DEF RecorderTyped
  <2>4. Searched' = Searched /\ Drawn' = Drawn
    BY <2>1 DEF Searched, Drawn
  <2> QED
    BY <1>0, <2>1, <2>2, <2>3, <2>4 DEF IRecorder, DrawnInOrder, SearchIsExact, StopsAreNoted
<1>3. CASE ReaderReads
  <2>1. /\ recReader.pc = "read"
        /\ UNCHANGED <<recOut, recAlive, recClock, recDrawn, recOverlap, recHit, recLastOut, recLoop>>
    BY <1>3 DEF ReaderReads
  <2>2. Searched = recReader.got /\ Drawn = recReader.got
    BY <2>1 DEF Searched, Drawn
  <2>3. ASSUME NEW n \in recReader.got + 1 .. Len(recOut),
               recReader' = [pc |-> "draw", got |-> n, chunk |-> SubSeq(recOut, recReader.got + 1, n)]
        PROVE  IRecorder'
    <3> DEFINE g == recReader.got
               c == SubSeq(recOut, g + 1, n)
    <3>1. g \in Nat /\ n \in Nat /\ g <= n /\ n <= Len(recOut) /\ recOut \in Seq(RecBytes)
      BY <1>0, <1>r, <2>3 DEF RecorderTyped
    <3>2. recReader'.pc = "draw" /\ recReader'.got = n /\ recReader'.chunk = c
      BY <2>3
    <3> HIDE DEF g
    <3>3. c \in Seq(RecBytes) /\ Len(c) = n - g
      BY <3>1, CutIs
    <3>4. Searched' = g /\ Drawn' = g
      BY <3>1, <3>2, <3>3 DEF Searched, Drawn
    <3>5. RecorderTyped'
      BY <1>0, <2>1, <2>3, <3>1, <3>2, <3>3 DEF RecorderTyped, g
    <3>6. DrawnInOrder'
      <4>1. n - Len(c) = g
        BY <3>1, <3>3
      <4> HIDE DEF c
      <4>2. c = SubSeq(recOut, (n - Len(c)) + 1, n)
        BY <4>1 DEF c
      <4>3. recDrawn = SubSeq(recOut, 1, g)
        BY <1>0, <2>2 DEF DrawnInOrder, g
      <4> QED
        BY <2>1, <3>2, <3>4, <4>2, <4>3 DEF DrawnInOrder
    <3>7. SearchIsExact'
      BY <1>0, <2>1, <2>2, <3>4 DEF SearchIsExact, g
    <3>8. StopsAreNoted'
      BY <1>0, <2>1 DEF StopsAreNoted
    <3> QED
      BY <3>5, <3>6, <3>7, <3>8 DEF IRecorder
  <2>4. CASE recReader.got = Len(recOut) /\ ~recAlive /\ recReader' = [recReader EXCEPT !.pc = "ended"]
    <3>1. /\ recReader'.pc = "ended" /\ recReader'.got = recReader.got
          /\ recReader' \in [pc : {"read", "draw", "note", "search", "ended"}, got : Nat, chunk : Seq(RecBytes)]
      BY <1>0, <2>4 DEF RecorderTyped
    <3>2. Searched' = Searched /\ Drawn' = Drawn
      BY <2>2, <3>1 DEF Searched, Drawn
    <3>3. RecorderTyped'
      BY <1>0, <2>1, <3>1 DEF RecorderTyped
    <3> QED
      BY <1>0, <2>1, <2>4, <3>1, <3>2, <3>3 DEF IRecorder, DrawnInOrder, SearchIsExact, StopsAreNoted
  <2> QED
    BY <1>3, <2>3, <2>4 DEF ReaderReads
<1>4. CASE ReaderDraws
  <2>1. /\ recReader.pc = "draw" /\ recReader' = [recReader EXCEPT !.pc = "note"]
        /\ recDrawn' = recDrawn \o recReader.chunk
        /\ UNCHANGED <<recOut, recAlive, recClock, recOverlap, recHit, recLoop>>
    BY <1>4 DEF ReaderDraws
  <2>2. /\ recReader'.pc = "note" /\ recReader'.got = recReader.got /\ recReader'.chunk = recReader.chunk
        /\ recReader' \in [pc : {"read", "draw", "note", "search", "ended"}, got : Nat, chunk : Seq(RecBytes)]
    BY <1>0, <2>1 DEF RecorderTyped
  <2>3. Searched' = Searched /\ Drawn' = recReader.got /\ Drawn = recReader.got - Len(recReader.chunk)
    BY <2>1, <2>2 DEF Searched, Drawn
  <2>4. RecorderTyped'
    BY <1>0, <2>1, <2>2 DEF RecorderTyped
  <2>5. recDrawn' = SubSeq(recOut, 1, recReader.got)
    <3> DEFINE k == recReader.got - Len(recReader.chunk)
               n == recReader.got
    <3>1. recReader.chunk = SubSeq(recOut, k + 1, n) /\ recDrawn = SubSeq(recOut, 1, k)
      BY <1>0, <2>1, <2>3 DEF DrawnInOrder
    <3>2. recOut \in Seq(RecBytes) /\ k \in 0 .. Len(recOut) /\ n \in k .. Len(recOut)
      BY <1>0, <1>r, <2>1, <2>3 DEF RecorderTyped
    <3> HIDE DEF k, n
    <3>3. SubSeq(recOut, 1, k) \o SubSeq(recOut, k + 1, n) = SubSeq(recOut, 1, n)
      BY <3>2, PrefixGrows
    <3> QED
      BY <2>1, <3>1, <3>3 DEF n
  <2> QED
    BY <1>0, <2>1, <2>2, <2>3, <2>4, <2>5 DEF IRecorder, DrawnInOrder, SearchIsExact, StopsAreNoted
<1>5. CASE ReaderNotes
  <2>1. /\ recReader.pc = "note" /\ recReader' = [recReader EXCEPT !.pc = "search"]
        /\ UNCHANGED <<recOut, recAlive, recClock, recDrawn, recOverlap, recHit, recLoop>>
    BY <1>5 DEF ReaderNotes
  <2>2. /\ recReader'.pc = "search" /\ recReader'.got = recReader.got /\ recReader'.chunk = recReader.chunk
        /\ recReader' \in [pc : {"read", "draw", "note", "search", "ended"}, got : Nat, chunk : Seq(RecBytes)]
    BY <1>0, <2>1 DEF RecorderTyped
  <2>3. Searched' = Searched /\ Drawn' = Drawn
    BY <2>1, <2>2 DEF Searched, Drawn
  <2>4. RecorderTyped'
    BY <1>0, <2>1, <2>2 DEF RecorderTyped
  <2> QED
    BY <1>0, <2>1, <2>2, <2>3, <2>4 DEF IRecorder, DrawnInOrder, SearchIsExact, StopsAreNoted
<1>6. CASE ReaderSearches
  <2> DEFINE k == recReader.got - Len(recReader.chunk)
             n == recReader.got
             scan == recOverlap \o recReader.chunk
  <2>1. /\ recReader.pc = "search" /\ recReader' = [recReader EXCEPT !.pc = "read"]
        /\ recHit' = (recHit \/ Has(scan, RecMarker))
        /\ recOverlap' = (IF recHit THEN recOverlap ELSE KeepTail(scan, Len(RecMarker) - 1))
        /\ UNCHANGED <<recOut, recAlive, recClock, recDrawn, recLoop>>
    BY <1>6 DEF ReaderSearches
  <2>2. /\ recReader'.pc = "read" /\ recReader'.got = n
        /\ recReader' \in [pc : {"read", "draw", "note", "search", "ended"}, got : Nat, chunk : Seq(RecBytes)]
    BY <1>0, <2>1 DEF RecorderTyped
  <2>3. Searched = k /\ Drawn = n /\ Searched' = n /\ Drawn' = n
    BY <2>1, <2>2 DEF Searched, Drawn
  <2>4. recHit' \in BOOLEAN
    BY <1>0, <2>1 DEF RecorderTyped, Has
  <2>5. RecorderTyped'
    BY <1>0, <2>1, <2>2, <2>4 DEF RecorderTyped
  <2>6. recOut \in Seq(RecBytes) /\ k \in 0 .. Len(recOut) /\ n \in k .. Len(recOut)
    BY <1>0, <1>r, <2>1, <2>3 DEF RecorderTyped
  <2>7. recReader.chunk = SubSeq(recOut, k + 1, n)
    BY <1>0, <2>1 DEF DrawnInOrder
  <2>8. /\ recHit <=> Has(SubSeq(recOut, 1, k), RecMarker)
        /\ ~recHit => recOverlap = KeptOf(recOut, RecMarker, k)
    BY <1>0, <2>3 DEF SearchIsExact
  <2> HIDE DEF k, n
  <2>9. /\ recHit' <=> Has(SubSeq(recOut, 1, n), RecMarker)
        /\ ~recHit' => recOverlap' = KeptOf(recOut, RecMarker, n)
    <3>1. CASE recHit
      <4>1. Has(SubSeq(recOut, 1, n), RecMarker)
        BY <1>m, <2>6, <2>8, <3>1, HasStays
      <4> QED
        BY <2>1, <3>1, <4>1
    <3>2. CASE ~recHit
      <4>1. scan = KeptOf(recOut, RecMarker, k) \o SubSeq(recOut, k + 1, n)
        BY <2>7, <2>8, <3>2
      <4> HIDE DEF scan
      <4>2. /\ Has(scan, RecMarker) <=> Has(SubSeq(recOut, 1, n), RecMarker)
            /\ KeepTail(scan, Len(RecMarker) - 1) = KeptOf(recOut, RecMarker, n)
        BY <1>m, <2>6, <2>8, <3>2, <4>1, SearchMissesNone
      <4>3. recHit' <=> Has(scan, RecMarker)
        BY <2>1, <3>2
      <4> QED
        BY <2>1, <3>2, <4>2, <4>3
    <3> QED
      BY <3>1, <3>2
  <2>10. SearchIsExact'
    BY <2>1, <2>3, <2>9 DEF SearchIsExact
  <2>11. DrawnInOrder'
    BY <1>0, <2>1, <2>2, <2>3 DEF DrawnInOrder
  <2>12. StopsAreNoted'
    <3>1. recHit => recHit'
      BY <2>1
    <3> QED
      BY <1>0, <2>1, <2>2, <3>1 DEF StopsAreNoted
  <2> QED
    BY <2>5, <2>10, <2>11, <2>12 DEF IRecorder
<1>7. CASE LoopStops
  <2>1. /\ UNCHANGED <<recOut, recAlive, recClock, recReader, recDrawn, recOverlap, recHit>>
        /\ \E why \in {"exit", "timeout", "marker", "quiet"} :
             /\ recLoop' = [pc |-> "close", why |-> why, at |-> recClock]
             /\ why = "exit" => recReader.pc = "ended"
             /\ why = "marker" => recHit
    BY <1>7 DEF LoopStops, Stops
  <2>2. RecorderTyped'
    BY <1>0, <2>1 DEF RecorderTyped
  <2>3. Searched' = Searched /\ Drawn' = Drawn
    BY <2>1 DEF Searched, Drawn
  <2> QED
    BY <1>0, <2>1, <2>2, <2>3 DEF IRecorder, DrawnInOrder, SearchIsExact, StopsAreNoted
<1>8. CASE UNCHANGED recorderVars
  <2>1. Searched' = Searched /\ Drawn' = Drawn
    BY <1>8 DEF recorderVars, Searched, Drawn
  <2> QED
    BY <1>0, <1>8, <2>1 DEF recorderVars, IRecorder, RecorderTyped, DrawnInOrder, SearchIsExact, StopsAreNoted
<1> QED
  BY <1>1, <1>2, <1>3, <1>4, <1>5, <1>6, <1>7, <1>8 DEF RecorderNext

\* The reason Run gives for stopping is true of the picture, for any marker, any output and
\* any way the reads cut it.
THEOREM ReasonsAreTrue == RecorderSpec => []ReasonIsTrue
<1>1. IRecorder => ReasonIsTrue
  <2> SUFFICES ASSUME IRecorder PROVE ReasonIsTrue
    OBVIOUS
  <2>0. RecorderTyped /\ DrawnInOrder /\ SearchIsExact /\ StopsAreNoted
    BY DEF IRecorder
  <2>1. /\ Searched \in 0 .. recReader.got /\ Drawn \in 0 .. recReader.got
        /\ Searched \in 0 .. Len(recOut) /\ Drawn \in 0 .. Len(recOut)
    BY <2>0, SearchedInRange
  <2>2. recReader.pc = "read" => (recHit <=> Has(SubSeq(recOut, 1, recReader.got), RecMarker))
    BY <2>0 DEF SearchIsExact, Searched
  <2>3. recLoop.why = "marker" => Has(recDrawn, RecMarker)
    <3> SUFFICES ASSUME recHit PROVE Has(recDrawn, RecMarker)
      BY <2>0 DEF StopsAreNoted
    <3>1. Searched <= Drawn
      <4>1. recReader.got \in Nat /\ Len(recReader.chunk) \in Nat
            /\ recReader.pc \in {"read", "draw", "note", "search", "ended"}
        BY <2>0 DEF RecorderTyped
      <4> QED
        BY <4>1 DEF Searched, Drawn
    <3>2. Drawn \in Searched .. Len(recOut) /\ recOut \in Seq(RecBytes) /\ RecMarker \in Seq(RecBytes)
      BY <2>0, <2>1, <3>1, RecorderAssumption DEF RecorderTyped, RecorderAssumption
    <3>3. Has(SubSeq(recOut, 1, Searched), RecMarker)
      BY <2>0 DEF SearchIsExact
    <3> QED
      BY <2>0, <2>1, <3>2, <3>3, HasStays DEF DrawnInOrder
  <2>4. recLoop.why = "exit" => recDrawn = recOut
    <3> SUFFICES ASSUME recReader.pc = "ended" PROVE recDrawn = recOut
      BY <2>0 DEF StopsAreNoted
    <3>1. recDrawn = SubSeq(recOut, 1, Len(recOut)) /\ recOut \in Seq(RecBytes)
      BY <2>0 DEF DrawnInOrder, RecorderTyped, Drawn
    <3>2. /\ SubSeq(recOut, 1, Len(recOut)) \in Seq(RecBytes)
          /\ Len(SubSeq(recOut, 1, Len(recOut))) = Len(recOut)
          /\ \A j \in 1 .. Len(recOut) : SubSeq(recOut, 1, Len(recOut))[j] = recOut[j]
      BY <3>1, CutIs, 0 \in Nat, Len(recOut) \in Nat, 0 <= Len(recOut), Len(recOut) <= Len(recOut), 0 + 1 = 1
    <3>3. recDrawn = recOut
      <4> DEFINE d == SubSeq(recOut, 1, Len(recOut))
      <4>1. d \in Seq(RecBytes) /\ Len(d) = Len(recOut) /\ \A j \in 1 .. Len(d) : d[j] = recOut[j]
        BY <3>2
      <4> HIDE DEF d
      <4>2. d = recOut
        BY <3>1, <4>1, SeqEqual
      <4> QED
        BY <3>1, <4>2 DEF d
    <3> QED
      BY <3>3
  <2> QED
    BY <2>2, <2>3, <2>4 DEF ReasonIsTrue
<1> QED
  BY <1>1, IRecorderInit, IRecorderStep, PTL DEF RecorderSpec

=============================================================================
