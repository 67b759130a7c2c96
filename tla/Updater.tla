------------------------------- MODULE Updater -------------------------------
(***************************************************************************)
(* updater.AutoUpdater and WorkersVersion.Apply: the binary on disk is     *)
(* replaced while it runs.  One updater works on a binary at a time; the   *)
(* process may be killed between any two of its steps, and every file      *)
(* operation may fail.  The systems are those on which the daemon updates  *)
(* itself: on Windows supportAutoUpdate says no, and the batch file by     *)
(* which the command "cloudflared update" replaces the binary there is not *)
(* modelled (it tests no error, has no rollback and always deletes .old).  *)
(***************************************************************************)
EXTENDS Integers

CONSTANT LastVersion    \* releases 1..LastVersion come out (bound)

ASSUME VersionsAssumption == LastVersion \in Nat \ {0}

NoFile == 0
Partial == -1           \* a download that broke off, or of other content

VARIABLES
    target, newFile, oldFile,  \* the binary, and beside it .new and .old
    release,                   \* the version the update service offers
    running,                   \* the version of the process
    updateDisabled,            \* AutoUpdater.configurable
    step                       \* of the updater

fsVars == <<target, newFile, oldFile>>
hostVars == <<release, running, updateDisabled>>
updaterVars == <<fsVars, hostVars, step>>

UpdaterInit ==
    /\ target = 1 /\ newFile \in {NoFile, Partial} /\ oldFile = NoFile
    /\ release = 1 /\ running = 1
    /\ updateDisabled \in BOOLEAN
    /\ step = "check"

(* WorkersService.Check and applyUpdate: an error or nothing new, and the  *)
(* loop waits; Apply begins by removing what an earlier one left.          *)
Check ==
    /\ step = "check"
    /\ \/ step' = "wait" /\ UNCHANGED newFile
       \/ /\ release > running /\ ~updateDisabled
          /\ step' = "download" /\ newFile' = NoFile
    /\ UNCHANGED <<target, oldFile, hostVars>>

(* download: what arrives is the release, a part of it, or nothing.        *)
Download ==
    /\ step = "download"
    /\ \/ newFile' \in {release, Partial} /\ step' = "checksum"
       \/ newFile' \in {NoFile, Partial} /\ step' = "wait"
    /\ UNCHANGED <<target, oldFile, hostVars>>

TrustsDownloadBug == newFile # NoFile

(* isValidChecksum.                                                        *)
ValidChecksum == newFile \notin {NoFile, Partial}

VerifyChecksum ==
    /\ step = "checksum"
    /\ step' = IF ValidChecksum THEN "moveOut" ELSE "wait"
    /\ UNCHANGED <<fsVars, hostVars>>

RemovesFirstBug ==
    /\ step = "moveOut"
    /\ oldFile' = NoFile /\ target' = NoFile /\ step' = "moveIn"
    /\ UNCHANGED <<newFile, hostVars>>

(* "Move the current file out, move the new file in and delete the old     *)
(* file".                                                                  *)
MoveOut ==
    /\ step = "moveOut"
    /\ \/ target # NoFile /\ oldFile' = target /\ target' = NoFile /\ step' = "moveIn"
       \/ step' = "wait" /\ UNCHANGED <<oldFile, target>>
    /\ UNCHANGED <<newFile, hostVars>>
MoveIn ==
    /\ step = "moveIn"
    /\ \/ target' = newFile /\ newFile' = NoFile /\ step' = "removeOld"
       \/ step' = "rollback" /\ UNCHANGED <<target, newFile>>
    /\ UNCHANGED <<oldFile, hostVars>>

(* The error of the rollback itself is not looked at.                      *)
Rollback ==
    /\ step = "rollback" /\ step' = "wait"
    /\ \/ target' = oldFile /\ oldFile' = NoFile
       \/ UNCHANGED <<target, oldFile>>
    /\ UNCHANGED <<newFile, hostVars>>
RemoveOld ==
    /\ step = "removeOld" /\ step' = "restart"
    /\ oldFile' \in {oldFile, NoFile}
    /\ UNCHANGED <<target, newFile, hostVars>>

KeepsRunningBug ==
    /\ step = "restart" /\ step' = "wait"
    /\ UNCHANGED <<fsVars, hostVars>>

(* AutoUpdater.Run after an update: on SysV it starts the next process, or *)
(* fails to; it returns either way, with one status or the other.          *)
RestartProcess ==
    /\ step = "restart" /\ step' = "updated"
    /\ UNCHANGED <<fsVars, hostVars>>

(* The ticker, or a new configuration.                                     *)
TickOrUpdate ==
    /\ step = "wait" /\ step' = "check"
    /\ UNCHANGED <<fsVars, hostVars>>

NewRelease ==
    /\ release < LastVersion /\ release' = release + 1
    /\ UNCHANGED <<fsVars, running, updateDisabled, step>>

UpdaterStep ==
    \/ Check \/ Download \/ VerifyChecksum \/ MoveOut \/ MoveIn \/ Rollback
    \/ RemoveOld \/ RestartProcess \/ TickOrUpdate

Versions == 1..LastVersion

(***************************************************************************)
(* However an update fails or is cut short, a binary that works is left    *)
(* where the next step, or a person, finds it, and what is at the path     *)
(* that is executed has passed its checksum (Linux and macOS).             *)
(***************************************************************************)
SomeGoodBinary ==
    /\ target \in Versions \cup {NoFile}
    /\ target \in Versions \/ oldFile \in Versions
=============================================================================
