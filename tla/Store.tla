------------------------------- MODULE Store -------------------------------
(***************************************************************************)
(* What a server keeps across restarts: the session records (session/      *)
(* store.go, FileStore) and the page title (api/title_store.go).  Both     *)
(* change memory first and then rewrite the whole file through a           *)
(* temporary one, under one mutex; a write or a rename may fail, and the   *)
(* process may die anywhere.  They differ at the start, in what becomes of *)
(* a file that cannot be read or does not parse.                           *)
(***************************************************************************)
EXTENDS Naturals, FiniteSets

CONSTANTS
  StIds,     \* the ids of records; the title is a store with one of them
  StMaxOps   \* bound: changes made in all

VARIABLES
  stKind,    \* which store: "sessions" | "title"
  stMem,     \* items: for each id its last change, numbered, and whether it is there
  stDisk,    \* the file
  stTmp,     \* path + ".tmp"
  stPc,      \* "down" | "idle" | "dir" | "write" | "writing" | "rename"
  stId,      \* the id being changed, "load" for the migration of an old file
  stAcked,   \* for each id the number of its last change that was reported done
  stNow,     \* changes so far
  stUnread   \* the title was not read at the start, and not set since

storeVars == <<stKind, stMem, stDisk, stTmp, stPc, stId, stAcked, stNow, stUnread>>

NoRecords == [id \in StIds |-> [at |-> 0, there |-> FALSE]]
NoFile    == [form |-> "none", recs |-> NoRecords]
Torn      == [form |-> "torn", recs |-> NoRecords]

\* A file of an earlier generation is an array; titles have had one form only.
StoreInit ==
  /\ stKind \in {"sessions", "title"}
  /\ stDisk \in {NoFile} \cup
       (IF stKind = "sessions"
        THEN {[form |-> "array", recs |-> [id \in StIds |-> [at |-> 0, there |-> TRUE]]]} ELSE {})
  /\ stMem = NoRecords /\ stTmp = NoFile /\ stPc = "down" /\ stId = "load"
  /\ stAcked = [id \in StIds |-> 0] /\ stNow = 0 /\ stUnread = FALSE

\* NewFileStore and NewTitleStore.  A session file that cannot be read or does not parse
\* stops the start.  A title file is then taken for none, and stays what it is; an array is
\* migrated at once.
StLoads ==
  /\ stPc = "down" /\ ~(stKind = "sessions" /\ stDisk.form = "torn")
  /\ \/ /\ stMem' = stDisk.recs /\ stUnread' = FALSE
        /\ stPc' = IF stDisk.form = "array" THEN "dir" ELSE "idle"
     \/ stKind = "title" /\ stMem' = NoRecords /\ stUnread' = TRUE /\ stPc' = "idle"
  /\ stId' = "load"
  /\ UNCHANGED <<stKind, stDisk, stTmp, stAcked, stNow>>

\* The title is one item.
Items(kind) == IF kind = "title" THEN {CHOOSE id \in StIds : TRUE} ELSE StIds

\* Record, Forget and Set: memory is changed before the file is.
StChanges(id, there) ==
  /\ stPc = "idle" /\ stNow < StMaxOps /\ id \in Items(stKind)
  /\ stNow' = stNow + 1
  /\ stMem' = [stMem EXCEPT ![id] = [at |-> stNow + 1, there |-> there]]
  /\ stId' = id /\ stPc' = "dir" /\ stUnread' = FALSE
  /\ UNCHANGED <<stKind, stDisk, stTmp, stAcked>>

\* MkdirAll
StDir ==
  /\ stPc = "dir" /\ stPc' = "write"
  /\ UNCHANGED <<stKind, stMem, stDisk, stTmp, stId, stAcked, stNow, stUnread>>

\* Mutant: the file itself is written.
StTruncatesInPlace ==
  /\ stPc = "write" /\ stPc' = "writing"
  /\ stTmp' = Torn /\ stDisk' = Torn
  /\ UNCHANGED <<stKind, stMem, stId, stAcked, stNow, stUnread>>

\* WriteFile truncates first, and has written all when it returns.
StTruncates ==
  /\ stPc = "write" /\ stPc' = "writing"
  /\ stTmp' = Torn
  /\ UNCHANGED <<stKind, stMem, stDisk, stId, stAcked, stNow, stUnread>>

StWrites ==
  /\ stPc = "writing" /\ stPc' = "rename"
  /\ stTmp' = [form |-> "map", recs |-> stMem]
  /\ UNCHANGED <<stKind, stMem, stDisk, stId, stAcked, stNow, stUnread>>

\* The rename; the change is reported done.
StRenames ==
  /\ stPc = "rename" /\ stPc' = "idle"
  /\ stDisk' = stTmp /\ stTmp' = NoFile
  /\ stAcked' = IF stId \in StIds THEN [stAcked EXCEPT ![stId] = stMem[stId].at] ELSE stAcked
  /\ UNCHANGED <<stKind, stMem, stId, stNow, stUnread>>

\* Any step of persist may fail: the error is returned, memory keeps the change.  When it is
\* the migration that fails, the server does not start.
StFails ==
  /\ stPc \in {"dir", "write", "writing", "rename"}
  /\ IF stId = "load" THEN stPc' = "down" /\ stMem' = NoRecords ELSE stPc' = "idle" /\ stMem' = stMem
  /\ UNCHANGED <<stKind, stDisk, stTmp, stId, stAcked, stNow, stUnread>>

StCrashes ==
  /\ stPc # "down" /\ stPc' = "down"
  /\ stMem' = NoRecords /\ stId' = "load" /\ stUnread' = FALSE
  /\ UNCHANGED <<stKind, stDisk, stTmp, stAcked, stNow>>

StoreNext ==
  \/ StLoads \/ StDir \/ StTruncates \/ StWrites \/ StRenames \/ StFails \/ StCrashes
  \/ \E id \in StIds, there \in BOOLEAN : StChanges(id, there)

StoreSpec == StoreInit /\ [][StoreNext]_storeVars

-----------------------------------------------------------------------------
\* What FileStore and TitleStore are for: at every moment, so also when the process dies
\* there, the file is one that parses and has every change that was reported done, or a
\* later one of the same record; and what a running server answers is no older than that,
\* but for a title that could not be read at the start and was not set since
\* (title_store.go:22-24).
StoreSurvives ==
  /\ stDisk.form # "torn"
  /\ \A id \in StIds : stDisk.recs[id].at >= stAcked[id]
  /\ stPc = "idle" /\ ~stUnread => \A id \in StIds : stMem[id].at >= stDisk.recs[id].at

=============================================================================
