----------------------------- MODULE FilesProofs -----------------------------
(***************************************************************************)
(* What gotty keeps in files, whatever call fails and wherever the process *)
(* dies: the stores of the server (Store), its log (LogFile) and its own   *)
(* binary (Update).                                                        *)
(***************************************************************************)
EXTENDS Store, LogFile, Update, Induction, TLAPS

-----------------------------------------------------------------------------
(* Store: any set of records and any number of changes.                     *)

Changes == [at : Nat, there : BOOLEAN]
Files   == [form : {"none", "torn", "array", "map"}, recs : [StIds -> Changes]]

StoreTyped ==
  /\ stMem \in [StIds -> Changes]
  /\ stDisk \in Files
  /\ stTmp \in Files
  /\ stPc \in {"down", "idle", "dir", "write", "writing", "rename"}
  /\ stId \in StIds \cup {"load"}
  /\ stAcked \in [StIds -> Nat]
  /\ stNow \in Nat

\* Numbers of changes are given in order, so a later one is a larger one.
NumbersGiven ==
  \A id \in StIds : stMem[id].at <= stNow /\ stDisk.recs[id].at <= stNow

\* Memory is ahead of the file, also while the file is being written.
MemoryAhead ==
  stPc # "down" /\ ~stUnread => \A id \in StIds : stMem[id].at >= stDisk.recs[id].at

\* What was not read is not written; and of the title, only the one item ever changes.
UnreadIsIdle ==
  /\ stUnread \in BOOLEAN /\ stKind \in {"sessions", "title"}
  /\ stUnread => stKind = "title" /\ stPc = "idle"
  /\ \A id \in StIds \ Items(stKind) : stDisk.recs[id].at = 0 /\ stMem[id].at = 0

\* What is about to be renamed is all of what memory holds.
ReadyToRename ==
  stPc = "rename" => stTmp.form = "map" /\ stTmp.recs = stMem

DiskIsWhole ==
  /\ stDisk.form # "torn"
  /\ \A id \in StIds : stDisk.recs[id].at >= stAcked[id]

IStore == StoreTyped /\ NumbersGiven /\ MemoryAhead /\ UnreadIsIdle /\ ReadyToRename /\ DiskIsWhole

-----------------------------------------------------------------------------
\* A server that starts for the first time, with no file or one of an earlier generation,
\* satisfies the invariant (NewFileStore, NewTitleStore).
LEMMA StoreInitInv == StoreInit => IStore
<1> SUFFICES ASSUME StoreInit PROVE IStore
  OBVIOUS
<1> DEFINE Earlier == [form |-> "array", recs |-> [id \in StIds |-> [at |-> 0, there |-> TRUE]]]
<1>0. stDisk = NoFile \/ stDisk = Earlier
  BY DEF StoreInit
<1>1. /\ stDisk.form \in {"none", "array"} /\ stDisk \in Files
      /\ \A id \in StIds : stDisk.recs[id].at = 0
  <2>1. CASE stDisk = NoFile
    BY <2>1 DEF NoFile, NoRecords, Changes, Files
  <2>2. CASE stDisk = Earlier
    BY <2>2 DEF Changes, Files
  <2> QED
    BY <1>0, <2>1, <2>2
<1>2. StoreTyped
  BY <1>1 DEF StoreInit, StoreTyped, NoFile, NoRecords, Changes, Files
<1>3. NumbersGiven /\ MemoryAhead /\ ReadyToRename
  BY <1>1 DEF StoreInit, NumbersGiven, MemoryAhead, ReadyToRename, NoRecords
<1>5. \A id \in StIds : stMem[id].at = 0
  BY DEF StoreInit, NoRecords
<1>6. UnreadIsIdle
  BY <1>1, <1>5 DEF StoreInit, UnreadIsIdle
<1>4. DiskIsWhole
  BY <1>1 DEF StoreInit, DiskIsWhole
<1> QED
  BY <1>2, <1>3, <1>4, <1>6 DEF IStore

\* Every step of Record, Forget, Set, of persist and its failures, of a crash and of a
\* start keeps the types.
LEMMA StoreStepTyped == IStore /\ [StoreNext]_storeVars => StoreTyped'
<1> SUFFICES ASSUME IStore, [StoreNext]_storeVars PROVE StoreTyped'
  OBVIOUS
<1> USE DEF IStore, StoreTyped, Changes, Files
<1>1. CASE StLoads
  <2>1. stDisk.recs \in [StIds -> Changes] /\ NoRecords \in [StIds -> Changes]
    BY DEF NoRecords
  <2>2. stMem' \in [StIds -> Changes] /\ stPc' \in {"dir", "idle"}
    BY <1>1, <2>1 DEF StLoads
  <2> QED
    BY <1>1, <2>2 DEF StLoads
<1>2. ASSUME NEW id \in StIds, NEW there \in BOOLEAN, StChanges(id, there) PROVE StoreTyped'
  BY <1>2 DEF StChanges
<1>3. CASE StDir
  BY <1>3 DEF StDir
<1>4. CASE StTruncates
  BY <1>4 DEF StTruncates, Torn, NoRecords
<1>5. CASE StWrites
  BY <1>5 DEF StWrites
<1>6. CASE StRenames
  BY <1>6 DEF StRenames, NoFile, NoRecords
<1>7. CASE StFails
  <2>1. NoRecords \in [StIds -> Changes]
    BY DEF NoRecords
  <2>2. stMem' \in {NoRecords, stMem} /\ stPc' \in {"down", "idle"}
    BY <1>7 DEF StFails
  <2> QED
    BY <1>7, <2>1, <2>2 DEF StFails
<1>8. CASE StCrashes
  BY <1>8 DEF StCrashes, NoRecords
<1>9. CASE UNCHANGED storeVars
  BY <1>9 DEF storeVars
<1> QED
  BY <1>1, <1>2, <1>3, <1>4, <1>5, <1>6, <1>7, <1>8, <1>9 DEF StoreNext

\* And the rest of the invariant: only the rename touches the file.
LEMMA StoreStepInv == IStore /\ [StoreNext]_storeVars => IStore'
<1> SUFFICES ASSUME IStore, [StoreNext]_storeVars PROVE IStore'
  OBVIOUS
<1>t. StoreTyped'
  BY StoreStepTyped
<1>u. /\ stMem \in [StIds -> Changes] /\ stDisk \in Files /\ stNow \in Nat /\ stUnread \in BOOLEAN
      /\ stAcked \in [StIds -> Nat]
      /\ \A i \in StIds : stMem[i].at \in Nat /\ stDisk.recs[i].at \in Nat
  BY DEF IStore, StoreTyped, UnreadIsIdle, Changes, Files
<1>v. \A i \in StIds : NoRecords[i].at = 0
  BY DEF NoRecords
<1> USE <1>t DEF IStore, NumbersGiven, MemoryAhead, UnreadIsIdle, ReadyToRename, DiskIsWhole
<1>1. CASE StLoads
  <2>1. /\ UNCHANGED <<stKind, stDisk, stTmp, stAcked, stNow>> /\ stPc' \in {"dir", "idle"}
        /\ (stMem' = stDisk.recs /\ stUnread' = FALSE)
           \/ (stKind = "title" /\ stMem' = NoRecords /\ stUnread' = TRUE /\ stPc' = "idle")
    BY <1>1 DEF StLoads
  <2>2. \A i \in StIds : stMem'[i].at = stDisk.recs[i].at \/ stMem'[i].at = 0
    BY <1>v, <2>1
  <2>3. NumbersGiven' /\ DiskIsWhole' /\ ReadyToRename'
    BY <1>u, <2>1, <2>2
  <2>4. MemoryAhead'
    BY <1>u, <2>1
  <2>5. UnreadIsIdle'
    BY <1>u, <2>1, <2>2
  <2> QED
    BY <2>3, <2>4, <2>5
<1>2. ASSUME NEW id \in StIds, NEW there \in BOOLEAN, StChanges(id, there) PROVE IStore'
  <2>1. /\ stMem'[id].at = stNow + 1 /\ \A i \in StIds \ {id} : stMem'[i] = stMem[i]
        /\ stNow' = stNow + 1 /\ stPc = "idle" /\ stPc' = "dir" /\ stUnread' = FALSE
        /\ UNCHANGED <<stKind, stDisk, stAcked>> /\ id \in Items(stKind)
    BY <1>2 DEF StChanges, StoreTyped
  <2>2. NumbersGiven'
    BY <1>u, <2>1
  <2>3. MemoryAhead'
    <3>1. stUnread => \A i \in StIds \ {id} : stDisk.recs[i].at = 0
      BY <2>1 DEF Items
    <3>2. \A i \in StIds \ {id} : stMem'[i].at >= stDisk.recs[i].at
      BY <1>u, <2>1, <3>1
    <3> QED
      BY <1>u, <2>1, <3>2
  <2>4. UnreadIsIdle'
    BY <2>1
  <2> QED
    BY <2>1, <2>2, <2>3, <2>4
<1>3. CASE StDir
  BY <1>3 DEF StDir
<1>4. CASE StTruncates
  BY <1>4 DEF StTruncates
<1>5. CASE StWrites
  BY <1>5 DEF StWrites
<1>6. CASE StRenames
  <2>1. /\ stDisk'.form = "map" /\ stDisk'.recs = stMem /\ stPc = "rename" /\ stPc' = "idle"
        /\ UNCHANGED <<stKind, stMem, stId, stNow, stUnread>>
    BY <1>6 DEF StRenames
  <2>2. \A i \in StIds : stAcked'[i] = stAcked[i] \/ stAcked'[i] = stMem[i].at
    BY <1>6 DEF StRenames, StoreTyped
  <2>3. ~stUnread /\ \A i \in StIds : stMem[i].at >= stDisk.recs[i].at /\ stDisk.recs[i].at >= stAcked[i]
    BY <2>1
  <2>4. \A i \in StIds : stDisk'.recs[i].at >= stAcked'[i]
    BY <1>u, <2>1, <2>2, <2>3
  <2> QED
    BY <1>u, <2>1, <2>4
<1>7. CASE StFails
  BY <1>7, <1>u, <1>v DEF StFails
<1>8. CASE StCrashes
  <2>1. /\ stMem' = NoRecords /\ stPc' = "down" /\ stUnread' = FALSE
        /\ UNCHANGED <<stKind, stDisk, stTmp, stAcked, stNow>>
    BY <1>8 DEF StCrashes
  <2>2. \A i \in StIds : stMem'[i].at = 0
    BY <1>v, <2>1
  <2>3. NumbersGiven' /\ DiskIsWhole' /\ ReadyToRename'
    BY <1>u, <2>1, <2>2
  <2>4. MemoryAhead' /\ UnreadIsIdle'
    BY <1>u, <2>1, <2>2
  <2> QED
    BY <2>3, <2>4
<1>9. CASE UNCHANGED storeVars
  BY <1>9 DEF storeVars
<1> QED
  BY <1>1, <1>2, <1>3, <1>4, <1>5, <1>6, <1>7, <1>8, <1>9 DEF StoreNext

\* Wherever the process dies and whatever call fails, the file parses and holds every
\* change that was reported done or a later one of the same record, and a running server
\* that could read it answers nothing older (FileStore.persist, TitleStore.persist).
THEOREM StoreIsDurable == StoreSpec => []StoreSurvives
<1>1. StoreInit => IStore
  BY StoreInitInv
<1>2. IStore /\ [StoreNext]_storeVars => IStore'
  BY StoreStepInv
<1>3. IStore => StoreSurvives
  BY DEF IStore, StoreSurvives, DiskIsWhole, MemoryAhead
<1> QED
  BY <1>1, <1>2, <1>3, PTL DEF StoreSpec

-----------------------------------------------------------------------------
(* Update: any number of runs, failures and kills, on either platform.      *)

Verified == {"reap", "create", "write", "chmod", "rename", "aside", "install", "back"}

\* What passed the check is the release, and it is all in the temporary file before that
\* may take the name.
CheckedFirst ==
  /\ upListed \in {"none", "new"}
  /\ upPc = "verify" => upGot \in {"new", "bad"}
  /\ upPc \in Verified => upGot = "new"
  /\ upPc \in {"chmod", "rename", "aside", "install", "back"} => upTmp = "new"

\* Only an old binary is replaced, and while it has no name it is the one moved aside.
OldUntilReplaced ==
  /\ upPc = "release" => upTarget \in {"old", "new"}
  /\ upPc \in {"confirm", "download", "verify", "reap", "create", "write", "chmod", "rename", "aside"}
       => upTarget = "old"
  /\ upPc = "aside" => upPlatform = "windows"
  /\ upPc \in {"install", "back"} =>
       upTarget = "none" /\ upPlatform = "windows" /\ upAside = "old"

\* Success is reported by the last steps only.
ReportedLast == upSays = "updated" => upPc \in {"cleanup", "idle"}

IUpdate == CheckedFirst /\ OldUntilReplaced /\ ReportedLast /\ BinaryIsWhole

-----------------------------------------------------------------------------
\* Each step of Run and of AtomicReplace, failures included, keeps the invariant.
LEMMA UpdateStepInv == IUpdate /\ [UpdateNext]_updateVars => IUpdate'
<1> SUFFICES ASSUME IUpdate, [UpdateNext]_updateVars PROVE IUpdate'
  OBVIOUS
<1> USE DEF IUpdate, CheckedFirst, OldUntilReplaced, ReportedLast, BinaryIsWhole, Verified,
            UpGo, UpFiles, Ends
<1>1. CASE UpStarts
  BY <1>1 DEF UpStarts
<1>2. CASE UpCompares
  BY <1>2 DEF UpCompares
<1>3. CASE UpConfirms
  BY <1>3 DEF UpConfirms
<1>4. CASE UpDownloads
  BY <1>4 DEF UpDownloads
<1>5. CASE UpVerifies
  BY <1>5 DEF UpVerifies
<1>6. CASE UpReaps
  BY <1>6 DEF UpReaps
<1>7. CASE UpCreates
  BY <1>7 DEF UpCreates
<1>8. CASE UpWrites
  BY <1>8 DEF UpWrites
<1>9. CASE UpRenames
  BY <1>9 DEF UpRenames
<1>10. CASE UpMovesAside
  BY <1>10 DEF UpMovesAside
<1>11. CASE UpInstalls
  BY <1>11 DEF UpInstalls
<1>12. CASE UpMovesBack
  BY <1>12 DEF UpMovesBack
<1>13. CASE UpCleansUp
  BY <1>13 DEF UpCleansUp
<1>14. CASE UpKilled
  BY <1>14 DEF UpKilled
<1>15. CASE UNCHANGED updateVars
  BY <1>15 DEF updateVars
<1> QED
  BY <1>1, <1>2, <1>3, <1>4, <1>5, <1>6, <1>7, <1>8, <1>9, <1>10, <1>11, <1>12, <1>13, <1>14, <1>15
     DEF UpdateNext

\* Wherever a call fails or the command is killed, a whole and verified binary is left
\* under its name, or on Windows under the name it was moved aside to; and "updated" is
\* reported only when the new one is in place (AtomicReplace, replaceFile).
THEOREM UpdateKeepsBinary == UpdateSpec => []BinaryIsWhole
<1>1. UpdateInit => IUpdate
  BY DEF UpdateInit, IUpdate, CheckedFirst, OldUntilReplaced, ReportedLast, BinaryIsWhole, Verified
<1>2. IUpdate /\ [UpdateNext]_updateVars => IUpdate'
  BY UpdateStepInv
<1>3. IUpdate => BinaryIsWhole
  BY DEF IUpdate
<1> QED
  BY <1>1, <1>2, <1>3, PTL DEF UpdateSpec

-----------------------------------------------------------------------------
(* LogFile: any sizes, any number of backups and lines.                     *)

LgPcs  == {"down", "idle", "remove", "shift", "move", "reopen", "append"}
Lines  == Seq([number : Nat, size : LgSizes \cup {0}])

LogTyped ==
  /\ lgFiles \in [0..LgMaxBackups -> [here : BOOLEAN, lines : Lines]]
  /\ lgPc \in LgPcs /\ lgOpen \in BOOLEAN
  /\ lgNext \in 0 .. LgMaxBackups /\ lgWritten \in Nat
  /\ lgLine \in LgSizes \cup {0}

\* There is an empty place where the next file goes: the oldest backup may still be there
\* when the first one is moved onto it, no other file ever is.
EmptyPlace ==
  /\ lgPc = "shift" => lgNext < LgMaxBackups
  /\ lgPc = "shift" /\ lgNext + 1 < LgMaxBackups => lgFiles[lgNext + 1].lines = <<>>
  /\ lgPc = "move" /\ LgMaxBackups > 1 => lgFiles[1].lines = <<>>
  /\ lgPc = "reopen" => lgFiles[0].lines = <<>>

\* A file that is missing has no lines.
MissingIsEmpty == \A i \in 0 .. LgMaxBackups : ~lgFiles[i].here => lgFiles[i].lines = <<>>

ILog == LogTyped /\ EmptyPlace /\ MissingIsEmpty

LEMMA ILogInit == LogFileInit => ILog
<1> SUFFICES ASSUME LogFileInit PROVE ILog
  OBVIOUS
<1>1. Missing \in [here : BOOLEAN, lines : Lines] /\ Missing.lines = <<>>
  BY DEF Missing, Lines
<1>2. LogTyped
  <2>1. lgFiles \in [0..LgMaxBackups -> [here : BOOLEAN, lines : Lines]]
    BY <1>1 DEF LogFileInit
  <2>2. lgOpen \in BOOLEAN
    BY DEF LogFileInit
  <2>3. lgNext \in 0..LgMaxBackups /\ lgWritten \in Nat
    BY LogFileAssumption DEF LogFileInit, LogFileAssumption
  <2> QED
    BY <2>1, <2>2, <2>3 DEF LogFileInit, LogTyped, LgPcs
<1> QED
  BY <1>1, <1>2 DEF LogFileInit, ILog, EmptyPlace, MissingIsEmpty

\* A step either moves a file onto an empty place or on the oldest, or leaves every line
\* where it is.
LEMMA ILogStep ==
  ASSUME ILog, [LogFileNext]_logFileVars
  PROVE  ILog' /\ (lgFiles' # lgFiles => OldestGoesFirst)
<1> DEFINE File == [here : BOOLEAN, lines : Lines]
<1>0. LogTyped /\ EmptyPlace /\ MissingIsEmpty
  BY DEF ILog
<1>c. LgMaxBackups \in Nat \ {0}
  BY LogFileAssumption DEF LogFileAssumption
<1>m. Missing \in File /\ Missing.lines = <<>> /\ Missing.here = FALSE
  BY DEF Missing, Lines
<1>p. \A lines \in Lines : Present(lines) \in File /\ Present(lines).lines = lines /\ Present(lines).here = TRUE
  BY DEF Present
<1>f. lgFiles \in [0..LgMaxBackups -> File] /\ \A i \in 0..LgMaxBackups : lgFiles[i].lines \in Lines
  BY <1>0 DEF LogTyped
<1> HIDE DEF File
<1>o. ASSUME \A i \in 0 .. LgMaxBackups - 1 : \E j \in 0 .. LgMaxBackups :
               LinesOf(lgFiles[i]) \subseteq LinesOf(lgFiles'[j])
      PROVE  OldestGoesFirst
  BY <1>o DEF OldestGoesFirst
<1>1. CASE LgOpens
  <2>1. lgFiles' = [lgFiles EXCEPT ![0] = Present(lgFiles[0].lines)]
    BY <1>1 DEF LgOpens
  <2>2. 0 \in 0..LgMaxBackups
    BY <1>c
  <2>3. /\ lgFiles' \in [0..LgMaxBackups -> File]
        /\ \A i \in 0..LgMaxBackups : lgFiles'[i].lines = lgFiles[i].lines
        /\ \A i \in 0..LgMaxBackups : lgFiles'[i].here \/ lgFiles'[i] = lgFiles[i]
    BY <1>f, <1>p, <2>1, <2>2
  <2>4. OldestGoesFirst
    BY <1>o, <1>c, <2>3 DEF LinesOf
  <2> QED
    BY <1>0, <1>1, <2>3, <2>4 DEF LgOpens, ILog, LogTyped, LgPcs, EmptyPlace, MissingIsEmpty, File
<1>2. ASSUME NEW size \in LgSizes, LgBegins(size) PROVE ILog' /\ UNCHANGED lgFiles
  <2>1. lgPc' \in {"remove", "append"} /\ lgOpen' \in BOOLEAN /\ lgLine' = size
        /\ UNCHANGED <<lgFiles, lgNext, lgWritten>>
    BY <1>2 DEF LgBegins
  <2> QED
    BY <1>0, <2>1 DEF ILog, LogTyped, LgPcs, EmptyPlace, MissingIsEmpty
<1>3. CASE LgRemoves
  <2>1. /\ lgPc' = "shift" /\ lgNext' = LgMaxBackups - 1
        /\ lgFiles' = [lgFiles EXCEPT ![LgMaxBackups] = Missing] \/ lgFiles' = lgFiles
        /\ UNCHANGED <<lgOpen, lgLine, lgWritten>>
    BY <1>3 DEF LgRemoves
  <2>2. /\ lgFiles' \in [0..LgMaxBackups -> File]
        /\ \A i \in 0..LgMaxBackups - 1 : lgFiles'[i] = lgFiles[i]
        /\ lgFiles'[LgMaxBackups] = Missing \/ lgFiles'[LgMaxBackups] = lgFiles[LgMaxBackups]
    BY <1>c, <1>f, <1>m, <2>1
  <2>3. OldestGoesFirst
    BY <1>o, <1>c, <2>2
  <2>4. MissingIsEmpty'
    BY <1>0, <1>c, <1>m, <2>2 DEF MissingIsEmpty
  <2>5. EmptyPlace' /\ LogTyped'
    BY <1>0, <1>c, <2>1, <2>2 DEF LogTyped, LgPcs, EmptyPlace, File
  <2> QED
    BY <2>3, <2>4, <2>5 DEF ILog
<1>4. CASE LgShifts
  <2>1. lgPc = "shift" /\ UNCHANGED <<lgOpen, lgLine, lgWritten>>
    BY <1>4 DEF LgShifts
  <2>2. CASE lgNext >= 1 /\ lgFiles[lgNext].here
    <3> DEFINE n == lgNext
    <3>1. /\ lgFiles' = [lgFiles EXCEPT ![n + 1] = lgFiles[n], ![n] = Missing]
          /\ lgNext' = n - 1 /\ lgPc' = "shift"
      BY <1>4, <2>2 DEF LgShifts
    <3>2. n \in 0 .. LgMaxBackups /\ n < LgMaxBackups /\ n >= 1 /\ n + 1 \in 0 .. LgMaxBackups
      BY <1>0, <1>c, <2>1, <2>2 DEF LogTyped, EmptyPlace
    <3>3. n + 1 < LgMaxBackups => lgFiles[n + 1].lines = <<>>
      BY <1>0, <2>1 DEF EmptyPlace
    <3> HIDE DEF n
    <3>4. /\ lgFiles' \in [0..LgMaxBackups -> File]
          /\ lgFiles'[n + 1] = lgFiles[n] /\ lgFiles'[n] = Missing
          /\ \A i \in 0..LgMaxBackups : i # n /\ i # n + 1 => lgFiles'[i] = lgFiles[i]
      BY <1>f, <1>m, <3>1, <3>2
    <3>5. ASSUME NEW i \in 0 .. LgMaxBackups - 1
          PROVE  \E j \in 0 .. LgMaxBackups : LinesOf(lgFiles[i]) \subseteq LinesOf(lgFiles'[j])
      <4>1. CASE i = n
        BY <3>2, <3>4, <4>1
      <4>2. CASE i = n + 1
        <5>1. lgFiles[i].lines = <<>>
          BY <1>c, <3>2, <3>3, <4>2
        <5>2. LinesOf(lgFiles[i]) = {}
          BY <5>1 DEF LinesOf, ToSet
        <5> QED
          BY <3>2, <5>2
      <4>3. CASE i # n /\ i # n + 1
        BY <1>c, <3>4, <4>3
      <4> QED
        BY <4>1, <4>2, <4>3
    <3>6. OldestGoesFirst
      BY <1>o, <3>5
    <3>7. MissingIsEmpty'
      BY <1>0, <1>m, <3>2, <3>4 DEF MissingIsEmpty
    <3>8. EmptyPlace' /\ LogTyped'
      <4>1. lgNext' \in 0 .. LgMaxBackups /\ lgNext' + 1 = n
        BY <1>c, <3>1, <3>2
      <4> QED
        BY <1>0, <1>c, <1>m, <2>1, <3>1, <3>2, <3>4, <4>1 DEF LogTyped, LgPcs, EmptyPlace, File
    <3> QED
      BY <3>6, <3>7, <3>8 DEF ILog
  <2>3. CASE lgNext >= 1 /\ ~lgFiles[lgNext].here
    <3>1. lgFiles' = lgFiles /\ lgNext' = lgNext - 1 /\ lgPc' = "shift"
      BY <1>4, <2>3 DEF LgShifts
    <3>2. lgNext \in 0 .. LgMaxBackups /\ lgNext < LgMaxBackups /\ lgFiles[lgNext].lines = <<>>
      BY <1>0, <2>1, <2>3 DEF LogTyped, EmptyPlace, MissingIsEmpty
    <3>3. lgNext' \in 0 .. LgMaxBackups /\ lgNext' + 1 = lgNext
      BY <1>c, <2>3, <3>1, <3>2
    <3> QED
      BY <1>0, <1>c, <2>1, <3>1, <3>2, <3>3 DEF ILog, LogTyped, LgPcs, EmptyPlace, MissingIsEmpty
  <2>4. CASE ~(lgNext >= 1)
    <3>1. lgFiles' = lgFiles /\ lgNext' = lgNext /\ lgPc' = "move"
      BY <1>4, <2>4 DEF LgShifts
    <3>2. lgNext = 0
      BY <1>0, <1>c, <2>4 DEF LogTyped
    <3> QED
      BY <1>0, <1>c, <2>1, <3>1, <3>2 DEF ILog, LogTyped, LgPcs, EmptyPlace, MissingIsEmpty
  <2> QED
    BY <2>2, <2>3, <2>4
<1>5. CASE LgMoves
  <2>1. /\ lgPc = "move" /\ lgPc' = "reopen" /\ UNCHANGED <<lgNext, lgOpen, lgLine, lgWritten>>
        /\ lgFiles' = IF lgFiles[0].here THEN [lgFiles EXCEPT ![1] = lgFiles[0], ![0] = Missing] ELSE lgFiles
    BY <1>5 DEF LgMoves
  <2>2. 0 \in 0..LgMaxBackups /\ 1 \in 0..LgMaxBackups
    BY <1>c
  <2>3. CASE lgFiles[0].here
    <3>1. /\ lgFiles' \in [0..LgMaxBackups -> File]
          /\ lgFiles'[1] = lgFiles[0] /\ lgFiles'[0] = Missing
          /\ \A i \in 0..LgMaxBackups : i # 0 /\ i # 1 => lgFiles'[i] = lgFiles[i]
      BY <1>f, <1>m, <2>1, <2>2, <2>3
    <3>2. ASSUME NEW i \in 0 .. LgMaxBackups - 1
          PROVE  \E j \in 0 .. LgMaxBackups : LinesOf(lgFiles[i]) \subseteq LinesOf(lgFiles'[j])
      <4>1. CASE i = 0
        BY <2>2, <3>1, <4>1
      <4>2. CASE i = 1
        <5>1. lgFiles[i].lines = <<>>
          BY <1>0, <1>c, <2>1, <4>2 DEF EmptyPlace
        <5>2. LinesOf(lgFiles[i]) = {}
          BY <5>1 DEF LinesOf, ToSet
        <5> QED
          BY <2>2, <5>2
      <4>3. CASE i # 0 /\ i # 1
        BY <1>c, <3>1, <4>3
      <4> QED
        BY <4>1, <4>2, <4>3
    <3>3. OldestGoesFirst
      BY <1>o, <3>2
    <3>4. MissingIsEmpty'
      BY <1>0, <1>m, <2>2, <3>1 DEF MissingIsEmpty
    <3>5. EmptyPlace' /\ LogTyped'
      BY <1>0, <1>m, <2>1, <3>1 DEF LogTyped, LgPcs, EmptyPlace, File
    <3> QED
      BY <3>3, <3>4, <3>5 DEF ILog
  <2>4. CASE ~lgFiles[0].here
    <3>1. lgFiles' = lgFiles /\ lgFiles[0].lines = <<>>
      BY <1>0, <2>1, <2>2, <2>4 DEF MissingIsEmpty
    <3> QED
      BY <1>0, <2>1, <3>1 DEF ILog, LogTyped, LgPcs, EmptyPlace, MissingIsEmpty
  <2> QED
    BY <2>3, <2>4
<1>6. CASE LgReopens
  <2>1. /\ lgPc = "reopen" /\ lgPc' = "append" /\ lgOpen' = TRUE /\ UNCHANGED <<lgNext, lgLine, lgWritten>>
        /\ lgFiles' = [lgFiles EXCEPT ![0] = Present(<<>>)]
    BY <1>6 DEF LgReopens
  <2>2. 0 \in 0..LgMaxBackups /\ <<>> \in Lines
    BY <1>c DEF Lines
  <2>3. /\ lgFiles' \in [0..LgMaxBackups -> File]
        /\ \A i \in 0..LgMaxBackups : i # 0 => lgFiles'[i] = lgFiles[i]
        /\ lgFiles'[0].here /\ lgFiles'[0].lines = <<>> /\ lgFiles[0].lines = <<>>
    BY <1>0, <1>f, <1>p, <2>1, <2>2 DEF EmptyPlace
  <2>4. \A i \in 0..LgMaxBackups : lgFiles'[i].lines = lgFiles[i].lines
    BY <2>3
  <2>5. OldestGoesFirst
    BY <1>o, <1>c, <2>4 DEF LinesOf
  <2>6. ILog'
    BY <1>0, <2>1, <2>3 DEF ILog, LogTyped, LgPcs, EmptyPlace, MissingIsEmpty, File
  <2> QED
    BY <2>5, <2>6
<1>7. CASE LgAppends
  <2> DEFINE line == [number |-> lgWritten + 1, size |-> lgLine]
             lines == Append(lgFiles[0].lines, line)
  <2>1. /\ lgPc = "append" /\ lgPc' = "idle" /\ lgWritten' = lgWritten + 1 /\ UNCHANGED <<lgNext, lgOpen, lgLine>>
        /\ lgFiles' = [lgFiles EXCEPT ![0] = Present(lines)]
    BY <1>7 DEF LgAppends
  <2>2. 0 \in 0..LgMaxBackups /\ line \in [number : Nat, size : LgSizes \cup {0}] /\ lgFiles[0].lines \in Lines
    BY <1>0, <1>c, <1>f DEF LogTyped
  <2> HIDE DEF line
  <2>3. lines \in Lines /\ ToSet(lgFiles[0].lines) \subseteq ToSet(lines)
    <3> DEFINE old == lgFiles[0].lines
               E == [number : Nat, size : LgSizes \cup {0}]
    <3>1. old \in Seq(E) /\ line \in E
      BY <2>2 DEF Lines
    <3> HIDE DEF E, old
    <3>2. Append(old, line) \in Seq(E)
      BY <3>1
    <3>3. \A i \in DOMAIN old : i \in DOMAIN Append(old, line) /\ Append(old, line)[i] = old[i]
      BY <3>1
    <3>4. ToSet(old) \subseteq ToSet(Append(old, line))
      BY <3>3 DEF ToSet
    <3> QED
      BY <3>2, <3>4 DEF Lines, old, E
  <2> HIDE DEF lines
  <2>4. /\ lgFiles' \in [0..LgMaxBackups -> File]
        /\ \A i \in 0..LgMaxBackups : i # 0 => lgFiles'[i] = lgFiles[i]
        /\ lgFiles'[0].here /\ lgFiles'[0].lines = lines
    BY <1>f, <1>p, <2>1, <2>2, <2>3
  <2>5. \A i \in 0..LgMaxBackups : LinesOf(lgFiles[i]) \subseteq LinesOf(lgFiles'[i])
    BY <2>3, <2>4 DEF LinesOf
  <2>6. OldestGoesFirst
    BY <1>o, <1>c, <2>5
  <2>7. ILog'
    BY <1>0, <2>1, <2>2, <2>4 DEF ILog, LogTyped, LgPcs, EmptyPlace, MissingIsEmpty, File
  <2> QED
    BY <2>6, <2>7
<1>8. CASE LgFails \/ LgCrashes
  <2>1. lgPc' \in {"idle", "down"} /\ lgOpen' \in BOOLEAN /\ UNCHANGED <<lgFiles, lgNext, lgLine, lgWritten>>
    BY <1>0, <1>8 DEF LgFails, LgCrashes, LogTyped
  <2> QED
    BY <1>0, <2>1 DEF ILog, LogTyped, LgPcs, EmptyPlace, MissingIsEmpty
<1>9. CASE UNCHANGED logFileVars
  BY <1>0, <1>9 DEF logFileVars, ILog, LogTyped, LgPcs, EmptyPlace, MissingIsEmpty
<1> QED
  BY <1>1, <1>2, <1>3, <1>4, <1>5, <1>6, <1>7, <1>8, <1>9 DEF LogFileNext

\* No step of a rotation, done, failed or cut off, loses a line of a file but the oldest, for
\* any number of backups and any lines.
THEOREM OldestIsDropped == LogFileSpec => DropsOldestOnly
<1>1. ILog /\ [LogFileNext]_logFileVars => ILog' /\ [OldestGoesFirst]_logFileVars
  <2>1. lgFiles' = lgFiles => OldestGoesFirst
    BY DEF OldestGoesFirst
  <2> QED
    BY <2>1, ILogStep
<1> QED
  BY <1>1, ILogInit, PTL DEF LogFileSpec, DropsOldestOnly

-----------------------------------------------------------------------------
(* LogFile: the numbers of the lines.                                       *)

\* Files f hold the last of w lines: KeptIsTail of any files, and no line is from nowhere.
AllNumbers(f) == UNION {Numbers(f[i]) : i \in 0 .. LgMaxBackups}

TailOf(f, w) ==
  /\ \A i \in 0 .. LgMaxBackups : \A k, l \in DOMAIN f[i].lines :
       k < l => f[i].lines[k].number < f[i].lines[l].number
  /\ \A i, j \in 0 .. LgMaxBackups : i > j => \A a \in Numbers(f[i]), b \in Numbers(f[j]) : a < b
  /\ \A a \in AllNumbers(f) : a .. w \subseteq AllNumbers(f)
  /\ AllNumbers(f) \subseteq 1 .. w

LogFiles == [0..LgMaxBackups -> [here : BOOLEAN, lines : Lines]]

LEMMA MissingHasNone == Missing \in [here : BOOLEAN, lines : Lines] /\ DOMAIN Missing.lines = {} /\ Numbers(Missing) = {}
<1>1. Missing \in [here : BOOLEAN, lines : Lines] /\ Missing.lines = <<>>
  BY DEF Missing, Lines
<1>2. LinesOf(Missing) = {}
  BY <1>1 DEF LinesOf, ToSet
<1> QED
  BY <1>1, <1>2 DEF Numbers

\* The oldest file may go.
LEMMA OldestMayGo ==
  ASSUME NEW f \in LogFiles, NEW w \in Nat, TailOf(f, w)
  PROVE  TailOf([f EXCEPT ![LgMaxBackups] = Missing], w)
<1> DEFINE g == [f EXCEPT ![LgMaxBackups] = Missing]
           n == LgMaxBackups
<1>0. n \in Nat \ {0}
  BY LogFileAssumption DEF LogFileAssumption
<1>1. g[n] = Missing /\ \A i \in 0 .. n : i # n => g[i] = f[i]
  BY <1>0 DEF LogFiles
<1> HIDE DEF g
<1>2. Numbers(g[n]) = {} /\ \A i \in 0 .. n : i # n => Numbers(g[i]) = Numbers(f[i])
  BY <1>1, MissingHasNone
<1>3. \A i \in 0 .. n : \A k, l \in DOMAIN g[i].lines :
        k < l => g[i].lines[k].number < g[i].lines[l].number
  BY <1>1, MissingHasNone DEF TailOf
<1>4. \A i, j \in 0 .. n : i > j => \A a \in Numbers(g[i]), b \in Numbers(g[j]) : a < b
  BY <1>2 DEF TailOf
<1>5. AllNumbers(g) \subseteq AllNumbers(f) /\ AllNumbers(f) \subseteq 1 .. w
  BY <1>2 DEF AllNumbers, TailOf
<1>6. ASSUME NEW a \in AllNumbers(g), NEW y \in a .. w PROVE y \in AllNumbers(g)
  <2>1. PICK i \in 0 .. n : a \in Numbers(g[i]) /\ i # n /\ a \in Numbers(f[i])
    BY <1>2 DEF AllNumbers
  <2>2. y \in AllNumbers(f) /\ a \in 1 .. w
    BY <1>5, <1>6 DEF TailOf
  <2>3. PICK j \in 0 .. n : y \in Numbers(f[j])
    BY <2>2 DEF AllNumbers
  <2>4. CASE j # n
    BY <1>2, <2>3, <2>4 DEF AllNumbers
  <2>5. CASE j = n
    <3>1. j > i
      BY <1>0, <2>1, <2>5
    <3>2. y < a
      BY <2>1, <2>3, <3>1 DEF TailOf
    <3> QED
      BY <2>2, <3>2
  <2> QED
    BY <2>4, <2>5
<1> QED
  BY <1>3, <1>4, <1>5, <1>6 DEF TailOf, g

\* A file may move one up, onto a place that has no lines.
LEMMA FileMayMove ==
  ASSUME NEW f \in LogFiles, NEW w \in Nat, TailOf(f, w),
         NEW m \in 0 .. LgMaxBackups - 1, Numbers(f[m + 1]) = {}
  PROVE  TailOf([f EXCEPT ![m + 1] = f[m], ![m] = Missing], w)
<1> DEFINE g == [f EXCEPT ![m + 1] = f[m], ![m] = Missing]
           n == LgMaxBackups
<1>0. n \in Nat \ {0} /\ m \in 0 .. n /\ m + 1 \in 0 .. n /\ m \in Nat
  BY LogFileAssumption DEF LogFileAssumption
<1>1. /\ g[m] = Missing /\ g[m + 1] = f[m]
      /\ \A i \in 0 .. n : i # m /\ i # m + 1 => g[i] = f[i]
  BY <1>0 DEF LogFiles
<1> HIDE DEF g
<1>2. /\ Numbers(g[m]) = {} /\ Numbers(g[m + 1]) = Numbers(f[m])
      /\ \A i \in 0 .. n : i # m /\ i # m + 1 => Numbers(g[i]) = Numbers(f[i])
  BY <1>1, MissingHasNone
<1>3. \A i \in 0 .. n : \A k, l \in DOMAIN g[i].lines :
        k < l => g[i].lines[k].number < g[i].lines[l].number
  BY <1>0, <1>1, MissingHasNone DEF TailOf
<1>4. ASSUME NEW i \in 0 .. n, NEW j \in 0 .. n, i > j,
             NEW a \in Numbers(g[i]), NEW b \in Numbers(g[j])
      PROVE  a < b
  <2> DEFINE Was(x) == IF x = m + 1 THEN m ELSE x
  <2>1. i # m /\ j # m
    BY <1>2
  <2>2. a \in Numbers(f[Was(i)]) /\ b \in Numbers(f[Was(j)])
    BY <1>2, <2>1
  <2>3. Was(i) \in 0 .. n /\ Was(j) \in 0 .. n /\ Was(i) > Was(j)
    BY <1>0, <1>4, <2>1
  <2> QED
    BY <2>2, <2>3 DEF TailOf
<1>5. AllNumbers(g) = AllNumbers(f)
  <2>1. ASSUME NEW x \in AllNumbers(g) PROVE x \in AllNumbers(f)
    <3>1. PICK i \in 0 .. n : x \in Numbers(g[i])
      BY DEF AllNumbers
    <3>2. x \in Numbers(f[m]) \/ x \in Numbers(f[i])
      BY <1>2, <3>1
    <3> QED
      BY <1>0, <3>2 DEF AllNumbers
  <2>2. ASSUME NEW x \in AllNumbers(f) PROVE x \in AllNumbers(g)
    <3>1. PICK i \in 0 .. n : x \in Numbers(f[i])
      BY DEF AllNumbers
    <3>2. i # m + 1
      BY <3>1
    <3>3. x \in Numbers(g[m + 1]) \/ x \in Numbers(g[i])
      BY <1>2, <3>1, <3>2
    <3> QED
      BY <1>0, <3>3 DEF AllNumbers
  <2> QED
    BY <2>1, <2>2
<1> QED
  BY <1>3, <1>4, <1>5 DEF TailOf, g

\* The next line goes to the end of the current file.
LEMMA NextLineFits ==
  ASSUME NEW f \in LogFiles, NEW w \in Nat, TailOf(f, w),
         NEW size \in LgSizes \cup {0}
  PROVE  TailOf([f EXCEPT ![0] = Present(Append(f[0].lines, [number |-> w + 1, size |-> size]))], w + 1)
<1> DEFINE line == [number |-> w + 1, size |-> size]
           lines == Append(f[0].lines, line)
           g == [f EXCEPT ![0] = Present(lines)]
           n == LgMaxBackups
           Line == [number : Nat, size : LgSizes \cup {0}]
<1>0. n \in Nat \ {0} /\ 0 \in 0 .. n
  BY LogFileAssumption DEF LogFileAssumption
<1>1. line \in Line /\ line.number = w + 1 /\ f[0].lines \in Seq(Line)
  <2>1. f[0] \in [here : BOOLEAN, lines : Lines]
    BY <1>0 DEF LogFiles
  <2>2. f[0].lines \in Seq(Line)
    BY <2>1 DEF Lines
  <2>3. line \in Line
    OBVIOUS
  <2> QED
    BY <2>2, <2>3
<1> HIDE DEF line, Line
<1>2. /\ Len(f[0].lines) \in Nat
      /\ DOMAIN f[0].lines = 1 .. Len(f[0].lines)
      /\ DOMAIN lines = 1 .. Len(f[0].lines) + 1
      /\ \A k \in 1 .. Len(f[0].lines) : lines[k] = f[0].lines[k]
      /\ lines[Len(f[0].lines) + 1] = line
  BY <1>1
<1> HIDE DEF lines
<1>3. g[0].lines = lines /\ \A i \in 0 .. n : i # 0 => g[i] = f[i]
  BY <1>0 DEF LogFiles, Present
<1> HIDE DEF g
<1> DEFINE e == Len(f[0].lines)
<1>e. e \in Nat /\ DOMAIN f[0].lines = 1 .. e /\ DOMAIN g[0].lines = 1 .. e + 1
  BY <1>2, <1>3
<1>4. Numbers(g[0]) = Numbers(f[0]) \cup {w + 1}
  <2>1. LinesOf(g[0]) = LinesOf(f[0]) \cup {line}
    BY <1>2, <1>3 DEF LinesOf, ToSet
  <2> QED
    BY <1>1, <2>1 DEF Numbers
<1>5. \A i \in 0 .. n : i # 0 => Numbers(g[i]) = Numbers(f[i])
  BY <1>3
<1>6. AllNumbers(g) = AllNumbers(f) \cup {w + 1}
  <2>1. \A i \in 0 .. n : Numbers(f[i]) \subseteq Numbers(g[i]) /\ Numbers(g[i]) \subseteq Numbers(f[i]) \cup {w + 1}
    BY <1>4, <1>5
  <2> QED
    BY <1>0, <1>4, <2>1 DEF AllNumbers
<1>7. \A i \in 0 .. n : Numbers(f[i]) \subseteq 1 .. w
  BY DEF TailOf, AllNumbers
<1>8. ASSUME NEW i \in 0 .. n, NEW k \in DOMAIN g[i].lines, NEW l \in DOMAIN g[i].lines, k < l
      PROVE  g[i].lines[k].number < g[i].lines[l].number
  <2>1. CASE i # 0
    BY <1>3, <1>8, <2>1 DEF TailOf
  <2>2. CASE i = 0 /\ l = e + 1
    <3>1. k \in 1 .. e
      BY <1>8, <1>e, <2>2
    <3>2. g[0].lines[k] = f[0].lines[k] /\ g[0].lines[l] = line
      BY <1>2, <1>3, <2>2, <3>1
    <3>3. f[0].lines[k].number \in Numbers(f[0])
      BY <1>e, <3>1 DEF Numbers, LinesOf, ToSet
    <3>4. f[0].lines[k].number \in 1 .. w
      BY <1>0, <1>7, <3>3
    <3>5. f[0].lines[k].number < w + 1
      BY <3>4
    <3> QED
      BY <1>1, <2>2, <3>2, <3>5
  <2>3. CASE i = 0 /\ l # e + 1
    <3>0. k \in 1 .. e + 1 /\ l \in 1 .. e + 1
      BY <1>8, <1>e, <2>3
    <3>1. k \in 1 .. e /\ l \in 1 .. e
      <4> HIDE DEF e
      <4> QED
        BY <1>8, <1>e, <2>3, <3>0
    <3>2. g[0].lines[k] = f[0].lines[k] /\ g[0].lines[l] = f[0].lines[l]
      BY <1>2, <1>3, <3>1
    <3>3. f[0].lines[k].number < f[0].lines[l].number
      BY <1>0, <1>8, <1>e, <3>1 DEF TailOf
    <3> QED
      BY <2>3, <3>2, <3>3
  <2> QED
    BY <2>1, <2>2, <2>3
<1>9. ASSUME NEW i \in 0 .. n, NEW j \in 0 .. n, i > j,
             NEW a \in Numbers(g[i]), NEW b \in Numbers(g[j])
      PROVE  a < b
  <2>1. i # 0 /\ a \in Numbers(f[i]) /\ a \in 1 .. w
    BY <1>5, <1>7, <1>9
  <2>2. b \in Numbers(f[j]) \/ b = w + 1
    BY <1>4, <1>5
  <2>3. b \in Numbers(f[j]) => a < b
    BY <1>9, <2>1 DEF TailOf
  <2> QED
    BY <2>1, <2>2, <2>3
<1>10. AllNumbers(g) \subseteq 1 .. w + 1
  BY <1>6 DEF TailOf
<1>11. ASSUME NEW a \in AllNumbers(g), NEW y \in a .. w + 1 PROVE y \in AllNumbers(g)
  <2>1. CASE y = w + 1
    BY <1>6, <2>1
  <2>2. CASE y # w + 1
    <3>1. a \in 1 .. w + 1 /\ y \in a .. w /\ a # w + 1
      BY <1>10, <2>2
    <3>2. a \in AllNumbers(f)
      BY <1>6, <3>1
    <3> QED
      BY <1>6, <3>1, <3>2 DEF TailOf
  <2> QED
    BY <2>1, <2>2
<1> QED
  BY <1>8, <1>9, <1>10, <1>11 DEF TailOf, g, lines, line

\* What matters of the files is their lines.
LEMMA SameLines ==
  ASSUME NEW f, NEW g, NEW w, TailOf(f, w), \A i \in 0 .. LgMaxBackups : g[i].lines = f[i].lines
  PROVE  TailOf(g, w)
<1>1. \A i \in 0 .. LgMaxBackups : Numbers(g[i]) = Numbers(f[i])
  BY DEF Numbers, LinesOf
<1>2. AllNumbers(g) = AllNumbers(f)
  BY <1>1 DEF AllNumbers
<1> QED
  BY <1>1, <1>2 DEF TailOf

\* The log holds the last lines written, for any sizes, any number of backups and lines, and
\* wherever rotation fails or the process dies.
THEOREM LogIsTail == LogFileSpec => []KeptIsTail
<1> DEFINE ITail == ILog /\ TailOf(lgFiles, lgWritten)
<1>1. LogFileInit => ITail
  <2> SUFFICES ASSUME LogFileInit PROVE ITail
    OBVIOUS
  <2>1. \A i \in 0 .. LgMaxBackups : lgFiles[i] = Missing
    BY DEF LogFileInit
  <2>2. AllNumbers(lgFiles) = {}
    BY <2>1, MissingHasNone DEF AllNumbers
  <2> QED
    BY <2>1, <2>2, ILogInit, MissingHasNone DEF TailOf
<1>2. ITail /\ [LogFileNext]_logFileVars => ITail'
  <2> SUFFICES ASSUME ITail, [LogFileNext]_logFileVars PROVE TailOf(lgFiles, lgWritten)'
    BY ILogStep
  <2>0. /\ LogTyped /\ EmptyPlace /\ MissingIsEmpty /\ TailOf(lgFiles, lgWritten)
        /\ lgFiles \in LogFiles /\ lgWritten \in Nat /\ LgMaxBackups \in Nat \ {0}
    BY LogFileAssumption DEF ILog, LogTyped, LogFiles, LogFileAssumption
  <2>l. ASSUME UNCHANGED lgWritten, \A i \in 0 .. LgMaxBackups : lgFiles'[i].lines = lgFiles[i].lines
        PROVE  TailOf(lgFiles, lgWritten)'
    <3>1. TailOf(lgFiles', lgWritten)
      BY <2>0, <2>l, SameLines
    <3> QED
      BY <2>l, <3>1
  <2>m. ASSUME UNCHANGED lgWritten, NEW m \in 0 .. LgMaxBackups - 1,
               m + 1 < LgMaxBackups => lgFiles[m + 1].lines = <<>>,
               lgFiles' = [lgFiles EXCEPT ![m + 1] = lgFiles[m], ![m] = Missing]
        PROVE  TailOf(lgFiles, lgWritten)'
    <3>1. CASE m + 1 < LgMaxBackups
      <4>1. Numbers(lgFiles[m + 1]) = {}
        <5>1. LinesOf(lgFiles[m + 1]) = {}
          BY <2>m, <3>1 DEF LinesOf, ToSet
        <5> QED
          BY <5>1 DEF Numbers
      <4>2. TailOf(lgFiles', lgWritten)
        BY <2>0, <2>m, <4>1, FileMayMove
      <4> QED
        BY <2>m, <4>2
    <3>2. CASE ~(m + 1 < LgMaxBackups)
      <4> DEFINE f == [lgFiles EXCEPT ![LgMaxBackups] = Missing]
      <4>1. m + 1 = LgMaxBackups
        BY <2>0, <3>2
      <4>2. f \in LogFiles /\ f[m + 1] = Missing /\ f[m] = lgFiles[m]
        BY <2>0, <4>1, MissingHasNone DEF LogFiles
      <4>3. TailOf(f, lgWritten)
        BY <2>0, OldestMayGo
      <4>4. lgFiles' = [f EXCEPT ![m + 1] = f[m], ![m] = Missing]
        BY <2>0, <2>m, <4>1, <4>2 DEF LogFiles
      <4> HIDE DEF f
      <4>5. TailOf(lgFiles', lgWritten)
        BY <2>0, <4>2, <4>3, <4>4, FileMayMove, MissingHasNone
      <4> QED
        BY <2>m, <4>5
    <3> QED
      BY <3>1, <3>2
  <2>1. CASE LgOpens
    <3>1. \A i \in 0 .. LgMaxBackups : lgFiles'[i].lines = lgFiles[i].lines
      BY <2>0, <2>1 DEF LgOpens, LogFiles, Present
    <3> QED
      BY <2>1, <2>l, <3>1 DEF LgOpens
  <2>2. ASSUME NEW size \in LgSizes, LgBegins(size) PROVE TailOf(lgFiles, lgWritten)'
    BY <2>0, <2>2 DEF LgBegins
  <2>3. CASE LgRemoves
    <3>1. UNCHANGED lgWritten /\ (lgFiles' = [lgFiles EXCEPT ![LgMaxBackups] = Missing] \/ UNCHANGED lgFiles)
      BY <2>3 DEF LgRemoves
    <3>2. TailOf([lgFiles EXCEPT ![LgMaxBackups] = Missing], lgWritten)
      BY <2>0, OldestMayGo
    <3> QED
      BY <2>0, <3>1, <3>2
  <2>4. CASE LgShifts
    <3>1. lgPc = "shift" /\ UNCHANGED lgWritten
      BY <2>4 DEF LgShifts
    <3>2. CASE lgNext >= 1 /\ lgFiles[lgNext].here
      <4>1. lgFiles' = [lgFiles EXCEPT ![lgNext + 1] = lgFiles[lgNext], ![lgNext] = Missing]
        BY <2>4, <3>2 DEF LgShifts
      <4>2. lgNext \in 0 .. LgMaxBackups - 1
        BY <2>0, <3>1 DEF LogTyped, EmptyPlace
      <4>3. lgNext + 1 < LgMaxBackups => lgFiles[lgNext + 1].lines = <<>>
        BY <2>0, <3>1 DEF EmptyPlace
      <4> QED
        BY <2>m, <3>1, <4>1, <4>2, <4>3
    <3>3. CASE ~(lgNext >= 1 /\ lgFiles[lgNext].here)
      BY <2>0, <2>4, <3>3 DEF LgShifts
    <3> QED
      BY <3>2, <3>3
  <2>5. CASE LgMoves
    <3>1. lgPc = "move" /\ UNCHANGED lgWritten
      BY <2>5 DEF LgMoves
    <3>2. CASE lgFiles[0].here
      <4>1. lgFiles' = [lgFiles EXCEPT ![0 + 1] = lgFiles[0], ![0] = Missing]
        BY <2>5, <3>2 DEF LgMoves
      <4>2. 0 \in 0 .. LgMaxBackups - 1 /\ (0 + 1 < LgMaxBackups => lgFiles[0 + 1].lines = <<>>)
        BY <2>0, <3>1 DEF EmptyPlace
      <4> QED
        BY <2>m, <3>1, <4>1, <4>2
    <3>3. CASE ~lgFiles[0].here
      BY <2>0, <2>5, <3>3 DEF LgMoves
    <3> QED
      BY <3>2, <3>3
  <2>6. CASE LgReopens
    <3>1. /\ lgFiles' = [lgFiles EXCEPT ![0] = Present(<<>>)] /\ UNCHANGED lgWritten
          /\ lgFiles[0].lines = <<>>
      BY <2>0, <2>6 DEF LgReopens, EmptyPlace
    <3>2. \A i \in 0 .. LgMaxBackups : lgFiles'[i].lines = lgFiles[i].lines
      BY <2>0, <3>1 DEF LogFiles, Present
    <3> QED
      BY <2>l, <3>1, <3>2
  <2>7. CASE LgAppends
    <3>1. /\ lgFiles' = [lgFiles EXCEPT ![0] = Present(Append(lgFiles[0].lines, [number |-> lgWritten + 1, size |-> lgLine]))]
          /\ lgWritten' = lgWritten + 1
      BY <2>7 DEF LgAppends
    <3>2. TailOf(lgFiles', lgWritten + 1)
      BY <2>0, <3>1, NextLineFits DEF LogTyped
    <3> QED
      BY <3>1, <3>2
  <2>8. CASE LgFails \/ LgCrashes \/ UNCHANGED logFileVars
    BY <2>0, <2>8 DEF LgFails, LgCrashes, logFileVars
  <2> QED
    BY <2>1, <2>2, <2>3, <2>4, <2>5, <2>6, <2>7, <2>8 DEF LogFileNext
<1>3. ITail => KeptIsTail
  BY DEF TailOf, KeptIsTail, KeptNumbers, AllNumbers
<1> QED
  BY <1>1, <1>2, <1>3, PTL DEF LogFileSpec

-----------------------------------------------------------------------------
(* LogFile: the sizes of the files.                                         *)

Positive(lines) == \A k \in DOMAIN lines : lines[k].size \in Nat \ {0}
Fits(lines)     == SizeOf(lines) > LgMaxSize => Len(lines) = 1

\* What SizeOf adds up, line by line.
LEMMA SizeIs ==
  ASSUME NEW lines \in Lines, Positive(lines)
  PROVE  \E f \in [0 .. Len(lines) -> Nat] :
           /\ f[0] = 0 /\ SizeOf(lines) = f[Len(lines)]
           /\ \A i \in 1 .. Len(lines) : f[i] = f[i - 1] + lines[i].size
<1> DEFINE n == Len(lines)
           Sums(f) == [i \in 0 .. n |-> IF i = 0 THEN 0 ELSE f[i - 1] + lines[i].size]
           step == [i \in 1 .. n |-> [x \in Nat |-> x + lines[i].size]]
           f == CHOOSE f : f = Sums(f)
<1>1. SizeOf(lines) = f[n]
  BY DEF SizeOf, Along
<1>2. n \in Nat /\ \A i \in 1 .. n : lines[i].size \in Nat
  BY DEF Lines, Positive
<1>3. \A i \in 1 .. n, x \in Nat : step[i][x] \in Nat /\ step[i][x] = x + lines[i].size
  BY <1>2
<1>4. PICK h : h \in Folds(Nat, 0, step, n)
  <2>1. n \in Nat /\ 0 \in Nat
    BY <1>2
  <2>2. \A i \in 1 .. n, x \in Nat : step[i][x] \in Nat
    BY <1>3
  <2> HIDE DEF step, n
  <2> QED
    BY <2>1, <2>2, Fold
<1>h. h \in [0 .. n -> Nat] /\ h[0] = 0 /\ \A i \in 1 .. n : h[i] = step[i][h[i - 1]]
  <2> HIDE DEF step, n
  <2> QED
    BY <1>4 DEF Folds
<1>5. h = Sums(h)
  <2>1. ASSUME NEW i \in 0 .. n PROVE h[i] = Sums(h)[i]
    <3>1. CASE i = 0
      BY <1>h, <3>1
    <3>2. CASE i # 0
      <4>1. i \in 1 .. n /\ i - 1 \in 0 .. n
        BY <1>2, <3>2
      <4>2. h[i] = step[i][h[i - 1]] /\ h[i - 1] \in Nat
        BY <1>h, <4>1
      <4> HIDE DEF step
      <4> QED
        BY <1>3, <3>2, <4>1, <4>2
    <3> QED
      BY <3>1, <3>2
  <2>2. h = [i \in 0 .. n |-> h[i]]
    BY <1>h
  <2>3. Sums(h) = [i \in 0 .. n |-> Sums(h)[i]]
    OBVIOUS
  <2> HIDE DEF Sums, n
  <2> QED
    BY <2>1, <2>2, <2>3
<1>6. f = Sums(f)
  <2> HIDE DEF Sums
  <2> QED
    BY <1>5
<1>7. DOMAIN f = 0 .. n /\ f[0] = 0 /\ \A i \in 1 .. n : f[i] = f[i - 1] + lines[i].size
  <2> HIDE DEF f, n
  <2>1. DOMAIN f = 0 .. n
    BY <1>6
  <2>2. \A i \in 0 .. n : f[i] = Sums(f)[i]
    BY <1>6
  <2> QED
    BY <1>2, <2>1, <2>2
<1>8. f \in [0 .. n -> Nat]
  <2> HIDE DEF f, n, Sums
  <2>1. f = [i \in 0 .. n |-> f[i]]
    BY <1>6 DEF Sums
  <2>2. n \in Nat /\ f[0] \in Nat
    BY <1>2, <1>7
  <2>3. ASSUME NEW i \in 1 .. n, f[i - 1] \in Nat PROVE f[i] \in Nat
    <3>1. f[i] = f[i - 1] + lines[i].size /\ lines[i].size \in Nat
      BY <1>2, <1>7
    <3> QED
      BY <2>3, <3>1
  <2> QED
    BY <2>1, <2>2, <2>3, StaysIn, Zenon
<1> HIDE DEF f, Sums
<1> QED
  BY <1>1, <1>7, <1>8

LEMMA NoLines == <<>> \in Lines /\ Positive(<<>>) /\ SizeOf(<<>>) = 0 /\ Fits(<<>>)
<1>1. <<>> \in Lines /\ Len(<<>>) = 0 /\ Positive(<<>>)
  BY DEF Lines, Positive
<1>2. SizeOf(<<>>) = 0
  BY <1>1, SizeIs
<1> QED
  BY <1>1, <1>2, LogFileAssumption DEF Fits, LogFileAssumption

\* Only a file without lines has no bytes, and a line adds its own.
LEMMA SizesAdd ==
  ASSUME NEW lines \in Lines, Positive(lines), NEW line \in [number : Nat, size : LgSizes]
  PROVE  /\ SizeOf(lines) \in Nat
         /\ SizeOf(lines) = 0 => lines = <<>>
         /\ Append(lines, line) \in Lines /\ Positive(Append(lines, line))
         /\ SizeOf(Append(lines, line)) = SizeOf(lines) + line.size
<1> DEFINE n == Len(lines)
           more == Append(lines, line)
<1>0. n \in Nat /\ line.size \in Nat \ {0} /\ line \in [number : Nat, size : LgSizes \cup {0}]
  <2>1. n \in Nat
    BY DEF Lines
  <2>2. LgSizes \subseteq Nat \ {0}
    BY LogFileAssumption DEF LogFileAssumption
  <2>3. line.size \in LgSizes /\ line \in [number : Nat, size : LgSizes \cup {0}]
    OBVIOUS
  <2> QED
    BY <2>1, <2>2, <2>3
<1>1. /\ more \in Lines /\ Len(more) = n + 1
      /\ \A i \in 1 .. n : more[i] = lines[i]
      /\ more[n + 1] = line
      /\ DOMAIN more = 1 .. n + 1 /\ DOMAIN lines = 1 .. n
  BY <1>0 DEF Lines
<1>2. \A i \in 1 .. n : lines[i].size \in Nat \ {0}
  BY <1>1 DEF Positive
<1> HIDE DEF more, n
<1>3. Positive(more)
  <2>1. ASSUME NEW k \in 1 .. n + 1 PROVE more[k].size \in Nat \ {0}
    <3>1. CASE k \in 1 .. n
      BY <1>1, <1>2, <3>1
    <3>2. CASE k = n + 1
      BY <1>0, <1>1, <3>2
    <3> QED
      BY <1>0, <3>1, <3>2
  <2> QED
    BY <1>1, <2>1 DEF Positive
<1>4. PICK f \in [0 .. n -> Nat] :
        /\ f[0] = 0 /\ SizeOf(lines) = f[n]
        /\ \A i \in 1 .. n : f[i] = f[i - 1] + lines[i].size
  BY SizeIs DEF n
<1>5. PICK g \in [0 .. n + 1 -> Nat] :
        /\ g[0] = 0 /\ SizeOf(more) = g[n + 1]
        /\ \A i \in 1 .. n + 1 : g[i] = g[i - 1] + more[i].size
  BY <1>1, <1>3, SizeIs
<1>6. g[n] = f[n]
  <2> DEFINE S == {i \in Nat : i <= n => g[i] = f[i]}
  <2>1. 0 \in S
    BY <1>4, <1>5
  <2>2. ASSUME NEW i \in Nat, i \in S PROVE i + 1 \in S
    <3> SUFFICES ASSUME i + 1 <= n PROVE g[i + 1] = f[i + 1]
      OBVIOUS
    <3>1. i <= n /\ i + 1 \in 1 .. n /\ i + 1 \in 1 .. n + 1 /\ (i + 1) - 1 = i
      BY <1>0
    <3>2. f[i + 1] = f[i] + lines[i + 1].size /\ g[i + 1] = g[i] + more[i + 1].size
      BY <1>4, <1>5, <3>1
    <3> QED
      BY <1>1, <2>2, <3>1, <3>2
  <2> HIDE DEF S
  <2>3. n \in S
    BY <1>0, <2>1, <2>2, Climb
  <2> QED
    BY <1>0, <2>3 DEF S
<1>7. SizeOf(more) = SizeOf(lines) + line.size
  <2>1. n + 1 \in 1 .. n + 1 /\ (n + 1) - 1 = n
    BY <1>0
  <2>2. g[n + 1] = g[n] + more[n + 1].size
    BY <1>5, <2>1
  <2> QED
    BY <1>1, <1>4, <1>5, <1>6, <2>2
<1>8. ASSUME f[n] = 0 PROVE n = 0
  <2> SUFFICES ASSUME n # 0 PROVE FALSE
    OBVIOUS
  <2>1. n \in 1 .. n /\ n - 1 \in 0 .. n
    BY <1>0
  <2>2. f[n] = f[n - 1] + lines[n].size /\ f[n - 1] \in Nat /\ lines[n].size \in Nat \ {0}
    BY <1>2, <1>4, <2>1
  <2> QED
    BY <1>8, <2>2
<1>9. n = 0 => lines = <<>>
  BY DEF n, Lines
<1> QED
  BY <1>0, <1>1, <1>3, <1>4, <1>7, <1>8, <1>9 DEF more

\* What the writer counts is what is in the file it has open, and every file has room for its
\* lines, or is one line.
SizesFit == \A i \in 0 .. LgMaxBackups : Positive(lgFiles[i].lines) /\ Fits(lgFiles[i].lines)

SizeKept ==
  /\ lgPc \notin {"down", "idle"} => lgLine \in LgSizes
  /\ lgPc \in {"remove", "shift", "move", "reopen"} => ~lgOpen
  /\ lgPc = "append" \/ (lgPc = "idle" /\ lgOpen) => lgSize = SizeOf(lgFiles[0].lines)
  /\ lgPc = "append" => lgSize = 0 \/ lgSize + lgLine <= LgMaxSize

ISizes == ILog /\ SizesFit /\ SizeKept

LEMMA ISizesInit == LogFileInit => ISizes
<1> SUFFICES ASSUME LogFileInit PROVE ISizes
  OBVIOUS
<1>1. \A i \in 0 .. LgMaxBackups : lgFiles[i].lines = <<>>
  BY DEF LogFileInit, Missing
<1>2. SizesFit
  BY <1>1, NoLines DEF SizesFit
<1>3. SizeKept
  BY DEF LogFileInit, SizeKept
<1> QED
  BY <1>2, <1>3, ILogInit DEF ISizes

LEMMA ISizesStep == ISizes /\ [LogFileNext]_logFileVars => ISizes'
<1> SUFFICES ASSUME ISizes, [LogFileNext]_logFileVars PROVE SizesFit' /\ SizeKept'
  BY ILogStep DEF ISizes
<1> DEFINE All == 0 .. LgMaxBackups
<1>0. /\ LogTyped /\ EmptyPlace /\ SizesFit /\ SizeKept
      /\ lgFiles \in LogFiles /\ lgWritten \in Nat
      /\ LgMaxBackups \in Nat \ {0} /\ LgMaxSize \in Nat \ {0} /\ LgSizes \subseteq Nat \ {0}
      /\ 0 \in All
  BY LogFileAssumption DEF ISizes, ILog, LogTyped, LogFiles, LogFileAssumption
<1>f. ASSUME \A i \in All : lgFiles'[i].lines = <<>> \/ \E j \in All : lgFiles'[i].lines = lgFiles[j].lines
      PROVE  SizesFit'
  BY <1>0, <1>f, NoLines DEF SizesFit
<1>s. ASSUME UNCHANGED lgFiles PROVE SizesFit'
  BY <1>0, <1>s DEF SizesFit
<1>1. CASE LgOpens
  <2>1. \A i \in All : lgFiles'[i].lines = lgFiles[i].lines
    BY <1>0, <1>1 DEF LgOpens, LogFiles, Present
  <2>2. lgPc' = "idle" /\ lgSize' = SizeOf(lgFiles'[0].lines)
    BY <1>0, <1>1, <2>1 DEF LgOpens
  <2> QED
    BY <1>f, <2>1, <2>2 DEF SizeKept
<1>2. ASSUME NEW size \in LgSizes, LgBegins(size) PROVE SizesFit' /\ SizeKept'
  <2>1. lgSize = SizeOf(lgFiles[0].lines) /\ UNCHANGED <<lgFiles, lgSize>> /\ lgLine' = size
    BY <1>0, <1>2 DEF LgBegins, SizeKept
  <2>2. lgSize \in Nat
    <3>1. lgFiles[0].lines \in Lines /\ Positive(lgFiles[0].lines)
      BY <1>0 DEF LogFiles, SizesFit
    <3>2. PICK f \in [0 .. Len(lgFiles[0].lines) -> Nat] : SizeOf(lgFiles[0].lines) = f[Len(lgFiles[0].lines)]
      BY <3>1, SizeIs
    <3>3. Len(lgFiles[0].lines) \in Nat
      BY <3>1 DEF Lines
    <3> QED
      BY <2>1, <3>2, <3>3
  <2>3. \/ lgPc' = "remove" /\ ~lgOpen'
        \/ lgPc' = "append" /\ (lgSize = 0 \/ lgSize + size <= LgMaxSize)
    BY <1>0, <1>2, <2>2 DEF LgBegins
  <2> QED
    BY <1>s, <2>1, <2>3 DEF SizeKept
<1>3. CASE LgRemoves
  <2>1. lgFiles' = [lgFiles EXCEPT ![LgMaxBackups] = Missing] \/ UNCHANGED lgFiles
    BY <1>3 DEF LgRemoves
  <2>2. \A i \in All : lgFiles'[i].lines = <<>> \/ lgFiles'[i] = lgFiles[i]
    BY <1>0, <2>1 DEF LogFiles, Missing
  <2> QED
    BY <1>0, <1>3, <1>f, <2>2 DEF LgRemoves, SizeKept
<1>4. CASE LgShifts
  <2>1. /\ lgPc = "shift" /\ lgPc' \in {"shift", "move"} /\ UNCHANGED <<lgOpen, lgLine>>
        /\ \/ UNCHANGED lgFiles
           \/ lgNext >= 1 /\ lgFiles' = [lgFiles EXCEPT ![lgNext + 1] = lgFiles[lgNext], ![lgNext] = Missing]
    BY <1>4 DEF LgShifts
  <2>2. lgNext \in Nat /\ lgNext + 1 \in All /\ lgNext \in All
    BY <1>0, <2>1 DEF EmptyPlace, LogTyped
  <2>3. ASSUME NEW i \in All
        PROVE  lgFiles'[i].lines = <<>> \/ lgFiles'[i] = lgFiles[i] \/ lgFiles'[i] = lgFiles[lgNext]
    BY <1>0, <2>1, <2>2 DEF LogFiles, Missing
  <2> QED
    BY <1>0, <1>f, <2>1, <2>2, <2>3 DEF SizeKept
<1>5. CASE LgMoves
  <2>1. /\ lgPc = "move" /\ lgPc' = "reopen" /\ UNCHANGED <<lgOpen, lgLine>>
        /\ UNCHANGED lgFiles \/ lgFiles' = [lgFiles EXCEPT ![1] = lgFiles[0], ![0] = Missing]
    BY <1>5 DEF LgMoves
  <2>2. \A i \in All : lgFiles'[i].lines = <<>> \/ lgFiles'[i] = lgFiles[i] \/ lgFiles'[i] = lgFiles[0]
    BY <1>0, <2>1 DEF LogFiles, Missing
  <2> QED
    BY <1>0, <1>f, <2>1, <2>2 DEF SizeKept
<1>6. CASE LgReopens
  <2>1. /\ lgPc = "reopen" /\ lgPc' = "append" /\ lgSize' = 0 /\ UNCHANGED lgLine
        /\ lgFiles' = [lgFiles EXCEPT ![0] = Present(<<>>)]
    BY <1>6 DEF LgReopens
  <2>2. /\ lgFiles'[0].lines = <<>>
        /\ \A i \in All : lgFiles'[i].lines = <<>> \/ lgFiles'[i] = lgFiles[i]
    BY <1>0, <2>1 DEF LogFiles, Present
  <2> QED
    BY <1>0, <1>f, <2>1, <2>2, NoLines DEF SizeKept
<1>7. CASE LgAppends
  <2> DEFINE lines == lgFiles[0].lines
             line == [number |-> lgWritten + 1, size |-> lgLine]
  <2>1. /\ lgPc = "append" /\ lgPc' = "idle" /\ lgSize' = lgSize + lgLine
        /\ lgFiles' = [lgFiles EXCEPT ![0] = Present(Append(lines, line))]
    BY <1>7 DEF LgAppends
  <2>2. /\ lgLine \in LgSizes /\ lgSize = SizeOf(lines)
        /\ lgSize = 0 \/ lgSize + lgLine <= LgMaxSize
    BY <1>0, <2>1 DEF SizeKept
  <2>3. line \in [number : Nat, size : LgSizes] /\ line.size = lgLine
    BY <1>0, <2>2
  <2>4. lines \in Lines /\ Positive(lines)
    BY <1>0 DEF LogFiles, SizesFit
  <2> HIDE DEF lines, line
  <2>5. /\ lgFiles'[0].lines = Append(lines, line)
        /\ \A i \in All : i # 0 => lgFiles'[i] = lgFiles[i]
    BY <1>0, <2>1 DEF LogFiles, Present
  <2>6. /\ SizeOf(lines) \in Nat /\ (SizeOf(lines) = 0 => lines = <<>>)
        /\ Positive(Append(lines, line)) /\ SizeOf(Append(lines, line)) = SizeOf(lines) + line.size
    BY <2>3, <2>4, SizesAdd
  <2>7. Len(Append(lines, line)) = Len(lines) + 1 /\ Len(<<>>) = 0
    BY <2>4 DEF Lines
  <2>8. Fits(Append(lines, line))
    <3>1. CASE lgSize = 0
      <4>1. Len(Append(lines, line)) = 1
        BY <2>2, <2>6, <2>7, <3>1
      <4> QED
        BY <4>1 DEF Fits
    <3>2. CASE lgSize + lgLine <= LgMaxSize
      <4>1. SizeOf(Append(lines, line)) = lgSize + lgLine /\ lgSize \in Nat /\ lgLine \in Nat
        BY <1>0, <2>2, <2>3, <2>6
      <4> QED
        BY <1>0, <3>2, <4>1 DEF Fits
    <3> QED
      BY <2>2, <3>1, <3>2
  <2>9. SizesFit'
    BY <1>0, <2>5, <2>6, <2>8 DEF SizesFit
  <2> QED
    BY <2>1, <2>2, <2>3, <2>5, <2>6, <2>9 DEF SizeKept
<1>8. CASE LgFails
  <2>1. lgPc \in {"shift", "move", "reopen"} /\ lgPc' = "idle" /\ UNCHANGED <<lgFiles, lgOpen>>
    BY <1>8 DEF LgFails
  <2> QED
    BY <1>0, <1>s, <2>1 DEF SizeKept
<1>9. CASE LgCrashes
  <2>1. lgPc' = "down" /\ UNCHANGED lgFiles
    BY <1>9 DEF LgCrashes
  <2> QED
    BY <1>s, <2>1 DEF SizeKept
<1>10. CASE UNCHANGED logFileVars
  BY <1>0, <1>10 DEF logFileVars, SizesFit, SizeKept
<1> QED
  BY <1>1, <1>2, <1>3, <1>4, <1>5, <1>6, <1>7, <1>8, <1>9, <1>10 DEF LogFileNext

\* No file of the log grows past its size, for any sizes of lines and wherever rotation fails or
\* the process dies (rotatingfile.go Write counts what NewRotatingWriter found).
THEOREM LogRotatesInTime == LogFileSpec => []RotatesInTime
<1>1. ISizes => RotatesInTime
  BY DEF ISizes, SizesFit, Fits, RotatesInTime
<1> QED
  BY <1>1, ISizesInit, ISizesStep, PTL DEF LogFileSpec

\* What the log holds is the last of what was written, in files of bounded size.
THEOREM LogKeepsItsLast == LogFileSpec => []LogKeepsLast
<1>1. KeptIsTail /\ RotatesInTime => LogKeepsLast
  BY DEF LogKeepsLast
<1> QED
  BY <1>1, LogIsTail, LogRotatesInTime, PTL

=============================================================================
