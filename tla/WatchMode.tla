------------------------------ MODULE WatchMode ------------------------------
(* commands/watch.rs: a scan, then a watcher whose debounced events start one  *)
(* more scan each, while the developer edits the files they read. The scan is  *)
(* that of ScanPipeline; here only the moment it reads each file matters.      *)
EXTENDS Naturals, Sequences, FiniteSets

CONSTANT MaxEdits   \* bound: the edits of all files together

VARIABLES watchPhase, \* where exec is: first, setup, idle or scanning
          toRead,     \* what the running scan has not read yet
          disk,       \* file -> the version that is on disk
          edits,      \* how often a file was edited
          seen,       \* file -> the version the last scan to read it found
          raised,     \* paths the debouncer holds back
          batches,    \* the channel: sets of paths, oldest first
          noted       \* history: the versions at the last edit that the watcher
                      \* should answer with a scan

watchVars == <<watchPhase, toRead, disk, edits, seen, raised, batches, noted>>

\* What a scan reads: a .rs file, the .sanctify.toml of the path, the one of a
\* directory above it, and the JSON file that --vuln-db names.
WatchedFiles == {"source", "settings", "inherited", "database"}

\* The watcher is on the path alone, and what is above it raises nothing.
UnderPath == WatchedFiles \ {"inherited"}

is_relevant_file(f) == f # "database"

\* load_config ends at the first .sanctify.toml that parses. An even version of
\* the path's is absent or does not.
Parses(version) == version % 2 = 1

WatchInit ==
  /\ watchPhase = "first" /\ toRead = WatchedFiles /\ edits = 0
  /\ disk \in [WatchedFiles -> 1..2]
  /\ \A f \in WatchedFiles \ {"settings"} : disk[f] = 1
  /\ seen = [f \in WatchedFiles |-> 0] /\ noted = [f \in WatchedFiles |-> 0]
  /\ raised = {} /\ batches = <<>>

Watching == watchPhase \in {"idle", "scanning"}

\* An edit before the watcher is there raises nothing, nor does one above the path.
EditFile(f) ==
  /\ edits < MaxEdits /\ edits' = edits + 1
  /\ disk' = [disk EXCEPT ![f] = @ + 1]
  /\ IF Watching /\ f \in UnderPath
     THEN /\ raised' = raised \union {f}
          /\ noted' = IF is_relevant_file(f) THEN disk' ELSE noted
     ELSE UNCHANGED <<raised, noted>>
  /\ UNCHANGED <<watchPhase, toRead, seen, batches>>

\* Some of the paths have been quiet for the debouncer's 500 ms.
Debounced ==
  \E paths \in SUBSET raised \ {{}} :
    /\ batches' = Append(batches, paths) /\ raised' = raised \ paths
    /\ UNCHANGED <<watchPhase, toRead, disk, edits, seen, noted>>

\* load_config goes from the path upwards and no further than it has to.
ScanReads(f) ==
  /\ f \in toRead
  /\ f = "inherited" => "settings" \notin toRead
  /\ toRead' = toRead \ (IF f = "settings" /\ Parses(disk[f]) THEN {f, "inherited"} ELSE {f})
  /\ seen' = [seen EXCEPT ![f] = disk[f]]
  /\ UNCHANGED <<watchPhase, disk, edits, raised, batches, noted>>

InstallWatcher ==
  /\ watchPhase = "first" /\ toRead = {}
  /\ watchPhase' = "idle"
  /\ UNCHANGED <<toRead, disk, edits, seen, raised, batches, noted>>

TakeBatch ==
  /\ watchPhase = "idle" /\ batches # <<>>
  /\ batches' = Tail(batches)
  /\ IF \E f \in Head(batches) : is_relevant_file(f)
     THEN watchPhase' = "scanning" /\ toRead' = WatchedFiles
     ELSE UNCHANGED <<watchPhase, toRead>>
  /\ UNCHANGED <<disk, edits, seen, raised, noted>>

\* Dropping what arrived during the scan, as already scanned.
RescanEndsDrained ==
  /\ watchPhase = "scanning" /\ toRead = {}
  /\ watchPhase' = "idle" /\ batches' = <<>>
  /\ UNCHANGED <<toRead, disk, edits, seen, raised, noted>>

RescanEnds ==
  /\ watchPhase = "scanning" /\ toRead = {}
  /\ watchPhase' = "idle"
  /\ UNCHANGED <<toRead, disk, edits, seen, raised, batches, noted>>

WatchWork == \/ Debounced \/ InstallWatcher \/ TakeBatch \/ RescanEnds
             \/ \E f \in WatchedFiles : ScanReads(f)
WatchNext == WatchWork \/ \E f \in WatchedFiles : EditFile(f)

\* The process and the debouncer's thread keep running; nobody has to edit.
WatchSpec == WatchInit /\ [][WatchNext]_watchVars /\ WF_watchVars(WatchWork)

\* The scans have read everything at least as new as this. An inherited file
\* counts while the settings the scan found do not hide it.
UpToDate(versions) ==
  /\ \A f \in UnderPath : seen[f] >= versions[f]
  /\ Parses(seen["settings"]) \/ seen["inherited"] >= versions["inherited"]

(* Once a source or the path's settings are edited, some scan reads them, and  *)
(* every other input, as new as they were then: whatever was being scanned,    *)
(* held back or queued, and with it the edits that start no scan by            *)
(* themselves, which are those of the first scan's time, of the database, and  *)
(* of the settings a directory above the path has (exec's loop, the channel,   *)
(* is_relevant_file, load_config).                                             *)
WatchedEditsScanned == Watching ~> UpToDate(noted)
=============================================================================
