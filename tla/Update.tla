------------------------------ MODULE Update ------------------------------
(***************************************************************************)
(* gotty self update (internal/update): the download and its check, and    *)
(* the swap of the binary the command was started from.  On unix a rename  *)
(* replaces it; Windows refuses to replace an image that runs, which is    *)
(* moved aside first.  Calls on the file system may fail, and the process  *)
(* may be killed between two of them; then the command is run again.       *)
(***************************************************************************)
EXTENDS Naturals, FiniteSets

CONSTANTS
  UpPlatforms,  \* of {"unix", "windows"}
  UpMaxRuns     \* bound: times the command is run

VARIABLES
  upPlatform,
  upTarget,   \* the binary: "none" | "part" | "old" | "new" | "bad", as is every file here
  upTmp,      \* .gotty-update-*
  upAside,    \* what was moved aside
  upImage,    \* where the image of the running command is: "target" | "aside" | "none"
  upPc,       \* "idle" | "release" | "confirm" | "download" | "verify" | "reap" | "create" | "write"
              \* | "chmod" | "rename" | "aside" | "install" | "back" | "cleanup"
  upGot,      \* the download
  upListed,   \* the binary whose digest sha256sums.txt lists, "none" when it has no such line
  upSays,     \* the outcome: "none" | "upToDate" | "updated" | "failed"
  upRuns

updateVars == <<upPlatform, upTarget, upTmp, upAside, upImage, upPc, upGot, upListed, upSays, upRuns>>

UpdateInit ==
  /\ upPlatform \in UpPlatforms
  /\ upTarget = "old" /\ upTmp = "none" /\ upAside = "none"
  /\ upImage = "none" /\ upPc = "idle" /\ upGot = "none" /\ upListed = "none"
  /\ upSays = "none" /\ upRuns = 0

UpGo(pc) == upPc' = pc /\ UNCHANGED <<upPlatform, upRuns>>
UpFiles  == UNCHANGED <<upTarget, upTmp, upAside>>
Ends(says) == UpGo("idle") /\ upSays' = says /\ upImage' = "none" /\ UNCHANGED <<upGot, upListed>>

-----------------------------------------------------------------------------
(* Run.                                                                      *)

\* The command is started from the binary it is going to replace.
UpStarts ==
  /\ upPc = "idle" /\ upRuns < UpMaxRuns /\ upTarget # "none"
  /\ upPc' = "release" /\ upRuns' = upRuns + 1 /\ upImage' = "target" /\ upSays' = "none"
  /\ upGot' = "none" /\ upListed' = "none"
  /\ UNCHANGED upPlatform /\ UpFiles

\* The release is asked for and compared: no answer, no newer one (there is none once the
\* new binary runs), one to install, or only to be told of (--check, --dry-run).
UpCompares ==
  /\ upPc = "release"
  /\ \/ upTarget # "new" /\ UpGo("confirm") /\ UNCHANGED <<upSays, upImage, upGot, upListed>>
     \/ Ends("upToDate")
     \/ Ends("failed")
  /\ UpFiles

\* The user is asked, unless --yes; the release must list its checksums.
UpConfirms ==
  /\ upPc = "confirm"
  /\ \/ UpGo("download") /\ UNCHANGED <<upSays, upImage, upGot, upListed>>
     \/ Ends("upToDate") \/ Ends("failed")
  /\ UpFiles

\* The binary and the checksums: each comes or does not, and the binary may come damaged.
UpDownloads ==
  /\ upPc = "download"
  /\ \/ /\ upGot' \in {"new", "bad"} /\ upListed' \in {"new", "none"}
        /\ UpGo("verify") /\ UNCHANGED <<upSays, upImage>>
     \/ Ends("failed")
  /\ UpFiles

\* Mutant: a release without a line for the asset is taken as it is.
UpVerifiesIfListed ==
  /\ upPc = "verify"
  /\ IF upListed \in {upGot, "none"} THEN UpGo("reap") /\ UNCHANGED <<upSays, upImage, upGot, upListed>> ELSE Ends("failed")
  /\ UpFiles

\* Lookup and VerifyChecksum.
UpVerifies ==
  /\ upPc = "verify"
  /\ IF upGot = upListed THEN UpGo("reap") /\ UNCHANGED <<upSays, upImage, upGot, upListed>> ELSE Ends("failed")
  /\ UpFiles

-----------------------------------------------------------------------------
(* AtomicReplace.                                                            *)

\* reapStaleBinaries: a file that runs cannot be removed; on unix there is none.
UpReaps ==
  /\ upPc = "reap" /\ UpGo("create")
  /\ upAside' = IF upPlatform = "windows" /\ upImage # "aside" THEN "none" ELSE upAside
  /\ UNCHANGED <<upTarget, upTmp, upSays>> /\ UNCHANGED <<upImage, upGot, upListed>>

UpCreates ==
  /\ upPc = "create"
  /\ \/ UpGo("write") /\ upTmp' = "part" /\ UNCHANGED <<upSays, upImage, upGot, upListed>>
     \/ Ends("failed") /\ UNCHANGED upTmp
  /\ UNCHANGED <<upTarget, upAside>>

\* Write, Sync and Close; then Stat and Chmod.  A failure leaves through the cleanup.
UpWrites ==
  /\ upPc \in {"write", "chmod"}
  /\ IF upPc = "write"
     THEN \/ upTmp' = upGot /\ UpGo("chmod") /\ upSays' = upSays
          \/ upTmp' = "part" /\ UpGo("cleanup") /\ upSays' = "failed"
     ELSE /\ upTmp' = upTmp
          /\ \/ UpGo("rename") /\ upSays' = upSays
             \/ UpGo("cleanup") /\ upSays' = "failed"
  /\ UNCHANGED <<upTarget, upAside>> /\ UNCHANGED <<upImage, upGot, upListed>>

\* replaceFile, its first rename.  Windows refuses while the target runs and goes on.
UpRenames ==
  /\ upPc = "rename"
  /\ \/ /\ ~(upPlatform = "windows" /\ upImage = "target")
        /\ upTarget' = upTmp /\ upTmp' = "none" /\ UpGo("cleanup") /\ upSays' = "updated"
     \/ /\ UNCHANGED <<upTarget, upTmp>>
        /\ IF upPlatform = "windows" THEN UpGo("aside") /\ upSays' = upSays
                                     ELSE UpGo("cleanup") /\ upSays' = "failed"
  /\ UNCHANGED upAside /\ UNCHANGED <<upImage, upGot, upListed>>

\* Windows: the running image is moved aside.
UpMovesAside ==
  /\ upPc = "aside"
  /\ \/ /\ upAside' = upTarget /\ upTarget' = "none"
        /\ upImage' = "aside" /\ UpGo("install") /\ upSays' = upSays
     \/ UNCHANGED <<upAside, upTarget, upImage>> /\ UpGo("cleanup") /\ upSays' = "failed"
  /\ UNCHANGED <<upTmp, upGot, upListed>>

\* The new binary takes the name, or the old one takes it back.  The image that was moved
\* aside still runs: removing it fails.
UpInstalls ==
  /\ upPc = "install"
  /\ \/ upTarget' = upTmp /\ upTmp' = "none" /\ UpGo("cleanup") /\ upSays' = "updated"
     \/ UNCHANGED <<upTarget, upTmp>> /\ UpGo("back") /\ upSays' = "failed"
  /\ UNCHANGED upAside /\ UNCHANGED <<upImage, upGot, upListed>>

\* The way back; that it may fail as well is ignored.
UpMovesBack ==
  /\ upPc = "back" /\ UpGo("cleanup")
  /\ \/ upTarget' = upAside /\ upAside' = "none" /\ upImage' = "target"
     \/ UNCHANGED <<upTarget, upAside, upImage>>
  /\ UNCHANGED <<upTmp, upSays, upGot, upListed>>

\* The deferred cleanup, and Run reports.
UpCleansUp ==
  /\ upPc = "cleanup" /\ Ends(upSays)
  /\ upTmp' = "none"
  /\ UNCHANGED <<upTarget, upAside>>

UpKilled ==
  /\ upPc # "idle" /\ UpGo("idle") /\ upImage' = "none" /\ upSays' = "none"
  /\ UpFiles /\ UNCHANGED <<upGot, upListed>>

UpdateNext ==
  \/ UpStarts \/ UpCompares \/ UpConfirms \/ UpDownloads \/ UpVerifies
  \/ UpReaps \/ UpCreates \/ UpWrites \/ UpRenames \/ UpMovesAside \/ UpInstalls \/ UpMovesBack
  \/ UpCleansUp \/ UpKilled

UpdateSpec == UpdateInit /\ [][UpdateNext]_updateVars

-----------------------------------------------------------------------------
\* Whatever fails, and wherever the command is killed, a whole and verified binary is left:
\* under its name, or on Windows under the name it was moved aside to; "updated" is reported
\* only with the new one in place.
BinaryIsWhole ==
  /\ \/ upTarget \in {"old", "new"}
     \/ upTarget = "none" /\ upPlatform = "windows" /\ upAside = "old"
  /\ upSays = "updated" => upTarget = "new"

=============================================================================
