---------------------------- MODULE ScanPipeline ----------------------------
(***************************************************************************)
(* `sanctifier analyze`: commands/analyze.rs of the CLI.                   *)
(*                                                                         *)
(* A process (an invocation of the command) collects the .rs files of the  *)
(* project, analyses them on the workers of the rayon pool, each file      *)
(* under a time limit, answers from the incremental cache                  *)
(* `.sanctifier_cache.json` where it can, writes the cache back, notifies  *)
(* the webhooks and exits with the code the severity gate chooses.         *)
(* Several processes may run on one project while the developer edits its  *)
(* files; a process may be killed at any moment.                           *)
(*                                                                         *)
(* What an analyser finds in a text is data: Analyse is a parameter.       *)
(***************************************************************************)
EXTENDS Naturals, FiniteSets

CONSTANTS
  Procs,        \* invocations of the command that may run at the same time
  Files,        \* the .rs paths of the project
  Contents,     \* the texts a file may hold
  Digests,      \* SHA-256 values
  Sha256,       \* [Contents -> Digests]
  Settings,     \* .sanctify.toml, --limit, --vuln-db and the WASM files the texts
                \* import, together: what else an analysis reads
  Analyse,      \* [Settings -> [Contents -> SUBSET FindingKinds]]
  Hanging,      \* the texts whose analysis does not end
  Panicking,    \* the texts on which an unguarded pass panics
  Gone,         \* there is no such file
  Unreadable,   \* the file is there and cannot be read
  Workers,      \* threads of the rayon pool
  Urls,         \* number of --webhook-url arguments
  Invocations   \* the command lines in use

Severities == {"critical", "high", "medium", "low"}

(* The variants of SeverityLevel in declaration order, which is the order  *)
(* its derived Ord compares.                                               *)
Rank == [critical |-> 0, high |-> 1, medium |-> 2, low |-> 3]

(* One kind per way a finding can weigh in the gate: the severities        *)
(* `consider` sees because such a finding is in the report.                *)
Weight == [auth_gap        |-> {"critical"},
           arithmetic      |-> {"high"},
           unsafe_pattern  |-> {"high", "medium"},
           size_exceeds    |-> {"critical", "medium"},
           event           |-> {"high", "low"},
           contractimport  |-> {"medium"},
           collision       |-> {},
           custom_match    |-> {},
           vuln_critical   |-> {"critical"},
           vuln_low        |-> {"low"}]

FindingKinds == DOMAIN Weight

Args == [settings : Settings, limited : BOOLEAN, exit_code : BOOLEAN,
         min_severity : Severities, no_cache : BOOLEAN]

ASSUME InvocationsAssumption == Invocations \subseteq Args
ASSUME Sha256Assumption ==
  /\ Sha256 \in [Contents -> Digests]
  /\ \A c, d \in Contents : Sha256[c] = Sha256[d] => c = d
ASSUME AnalyseAssumption ==
  Analyse \in [Settings -> [Contents -> SUBSET FindingKinds]]
ASSUME TextsAssumption ==
  /\ Hanging \subseteq Contents
  /\ Panicking \subseteq Contents
  /\ Hanging \cap Panicking = {}
  /\ Gone \notin Contents
  /\ Unreadable \notin Contents
  /\ Gone # Unreadable
ASSUME PoolAssumption == Workers \in Nat \ {0} /\ Urls \in Nat

-----------------------------------------------------------------------------
(* FileAnalysisResult; `named` says that file_path is set (the default     *)
(* result, of a file that could not be read, has an empty one).            *)
Result == [named : BOOLEAN, findings : SUBSET FindingKinds, timed_out : BOOLEAN]

DefaultResult  == [named |-> FALSE, findings |-> {}, timed_out |-> FALSE]
TimedOutResult == [named |-> TRUE,  findings |-> {}, timed_out |-> TRUE]

analyze_single_file(s, c) ==
  [named |-> TRUE, findings |-> Analyse[s][c], timed_out |-> FALSE]

\* Fault: the digest is not compared.
lookupAnyDigest(es, f, h) == {e \in es : e.file = f}

CacheEntry == [file : Files, hash : Digests, result : Result]

lookup(es, f, h) == {e \in es : e.file = f /\ e.hash = h}

store(es, f, h, r) ==
  {e \in es : e.file # f} \cup {[file |-> f, hash |-> h, result |-> r]}

-----------------------------------------------------------------------------
VARIABLES
  tree,       \* the project's files on disk
  saved,      \* the entries of .sanctifier_cache.json
  torn,       \* the cache file does not parse
  phase,      \* of a process
  args,       \* its AnalyzeArgs, with the settings it loaded
  entries,    \* its AnalysisCache
  step,       \* of a file in a process
  text,       \* the content a worker read from the file
  result,     \* its element of `results`
  clean,      \* nobody else wrote the cache file since this process opened it
  notified,   \* webhooks attempted
  exit        \* the exit code

vars == <<tree, saved, torn, phase, args, entries, step, text, result, clean,
          notified, exit>>

diskVars == <<tree, saved, torn>>
gateVars == <<clean, notified, exit>>

Phases == {"idle", "scanning", "saving", "notifying", "exited", "died"}
Steps  == {"skipped", "queued", "hashed", "analysing", "storing", "finished"}
NoCode == 255

TypeOK ==
  /\ tree \in [Files -> Contents \cup {Gone, Unreadable}]
  /\ saved \subseteq CacheEntry
  /\ torn \in BOOLEAN
  /\ phase \in [Procs -> Phases]
  /\ args \in [Procs -> Args]
  /\ entries \in [Procs -> SUBSET CacheEntry]
  /\ step \in [Procs -> [Files -> Steps]]
  /\ text \in [Procs -> [Files -> Contents \cup {Gone, Unreadable}]]
  /\ result \in [Procs -> [Files -> Result]]
  /\ clean \in [Procs -> BOOLEAN]
  /\ notified \in [Procs -> 0..Urls]
  /\ exit \in [Procs -> {0, 1, NoCode}]

(* A project whose cache file is absent, or left unusable by an earlier    *)
(* process (cut short, or of another version: load ignores both).          *)
Init ==
  /\ tree \in [Files -> Contents \cup {Unreadable}]
  /\ saved = {}
  /\ torn \in BOOLEAN
  /\ phase = [p \in Procs |-> "idle"]
  /\ args \in [Procs -> Invocations]
  /\ entries = [p \in Procs |-> {}]
  /\ step = [p \in Procs |-> [f \in Files |-> "skipped"]]
  /\ text = [p \in Procs |-> [f \in Files |-> Gone]]
  /\ result = [p \in Procs |-> [f \in Files |-> DefaultResult]]
  /\ clean = [p \in Procs |-> FALSE]
  /\ notified = [p \in Procs |-> 0]
  /\ exit = [p \in Procs |-> NoCode]

-----------------------------------------------------------------------------
(* AnalysisCache::load: a file that does not parse counts as empty.        *)
load == IF torn THEN {} ELSE saved

\* Fault: --no-cache only stops the save.
openedAlways(a) == load

opened(a) == IF a.no_cache THEN {} ELSE load

(* run_analysis up to par_iter: load_config, collect_rs_files and          *)
(* AnalysisCache::load.                                                    *)
Start(p, a) ==
  /\ phase[p] \in {"idle", "exited", "died"}
  /\ phase' = [phase EXCEPT ![p] = "scanning"]
  /\ args' = [args EXCEPT ![p] = a]
  /\ entries' = [entries EXCEPT ![p] = opened(a)]
  /\ step' = [step EXCEPT ![p] =
                [f \in Files |-> IF tree[f] = Gone THEN "skipped" ELSE "queued"]]
  /\ text' = [text EXCEPT ![p] = [f \in Files |-> Gone]]
  /\ result' = [result EXCEPT ![p] = [f \in Files |-> DefaultResult]]
  /\ clean' = [clean EXCEPT ![p] = FALSE]
  /\ notified' = [notified EXCEPT ![p] = 0]
  /\ exit' = [exit EXCEPT ![p] = NoCode]
  /\ UNCHANGED diskVars

\* Fault: the digest is taken of the file as it is now.
digestNow(p, f) ==
  Sha256[IF tree[f] \in Contents THEN tree[f] ELSE text[p][f]]

(* sha256_hex of the text the worker read.                                 *)
digest(p, f) == Sha256[text[p][f]]

Busy(p) == {f \in Files : step[p][f] \in {"hashed", "analysing", "storing"}}

(* A worker takes the next file and reads it. A file that cannot be read   *)
(* gives the default result and is never cached.                           *)
ReadFile(p, f) ==
  /\ phase[p] = "scanning"
  /\ step[p][f] = "queued"
  /\ Cardinality(Busy(p)) < Workers
  /\ text' = [text EXCEPT ![p][f] = tree[f]]
  /\ step' = [step EXCEPT ![p][f] =
                IF tree[f] \in Contents THEN "hashed" ELSE "finished"]
  /\ UNCHANGED <<diskVars, phase, args, entries, result, gateVars>>

(* The digest of the text is looked up under the cache's mutex; a process  *)
(* with --no-cache has no entries.                                         *)
CacheHit(p, f) ==
  /\ phase[p] = "scanning"
  /\ step[p][f] = "hashed"
  /\ \E e \in lookup(entries[p], f, digest(p, f)) :
       result' = [result EXCEPT ![p][f] = e.result]
  /\ step' = [step EXCEPT ![p][f] = "finished"]
  /\ UNCHANGED <<diskVars, phase, args, entries, text, gateVars>>

CacheMiss(p, f) ==
  /\ phase[p] = "scanning"
  /\ step[p][f] = "hashed"
  /\ lookup(entries[p], f, digest(p, f)) = {}
  /\ step' = [step EXCEPT ![p][f] = "analysing"]
  /\ UNCHANGED <<diskVars, phase, args, entries, text, result, gateVars>>

(* The analysing thread's answer arrives in time.                          *)
AnalysisReturns(p, f) ==
  /\ phase[p] = "scanning"
  /\ step[p][f] = "analysing"
  /\ text[p][f] \notin Hanging \cup Panicking
  /\ result' = [result EXCEPT ![p][f] =
                  analyze_single_file(args[p].settings, text[p][f])]
  /\ step' = [step EXCEPT ![p][f] = "storing"]
  /\ UNCHANGED <<diskVars, phase, args, entries, text, gateVars>>

\* Fault: the worker joins the thread before it gives up.
joinsThread(p, f) == args[p].limited /\ text[p][f] \notin Hanging

mayGiveUp(p, f) == args[p].limited

(* recv_timeout gives up, at any moment of a limited analysis: the limit   *)
(* has passed, or the thread panicked and dropped its sender. The thread   *)
(* is abandoned; what it sends later has no receiver.                      *)
AnalysisTimesOut(p, f) ==
  /\ phase[p] = "scanning"
  /\ step[p][f] = "analysing"
  /\ mayGiveUp(p, f)
  /\ result' = [result EXCEPT ![p][f] = TimedOutResult]
  /\ step' = [step EXCEPT ![p][f] = "storing"]
  /\ UNCHANGED <<diskVars, phase, args, entries, text, gateVars>>

(* Without a limit the analysis runs on the worker itself: its panic goes  *)
(* through par_iter and ends the process, with nothing saved.              *)
AnalysisPanics(p, f) ==
  /\ phase[p] = "scanning"
  /\ step[p][f] = "analysing"
  /\ ~args[p].limited
  /\ text[p][f] \in Panicking
  /\ phase' = [phase EXCEPT ![p] = "died"]
  /\ UNCHANGED <<diskVars, args, entries, step, text, result, gateVars>>

(* Whatever the result, it is stored under the digest computed before.     *)
StoreResult(p, f) ==
  /\ phase[p] = "scanning"
  /\ step[p][f] = "storing"
  /\ entries' = IF args[p].no_cache THEN entries
                ELSE [entries EXCEPT ![p] =
                        store(@, f, digest(p, f), result[p][f])]
  /\ step' = [step EXCEPT ![p][f] = "finished"]
  /\ UNCHANGED <<diskVars, phase, args, text, result, gateVars>>

Collected(p) == \A f \in Files : step[p][f] \in {"skipped", "finished"}

(* par_iter has joined; without a cache there is nothing to save.          *)
SkipSave(p) ==
  /\ phase[p] = "scanning"
  /\ Collected(p)
  /\ args[p].no_cache
  /\ phase' = [phase EXCEPT ![p] = "notifying"]
  /\ UNCHANGED <<diskVars, args, entries, step, text, result, gateVars>>

(* fs::write opens the file and truncates it ...                           *)
SaveOpen(p) ==
  /\ phase[p] = "scanning"
  /\ Collected(p)
  /\ ~args[p].no_cache
  /\ phase' = [phase EXCEPT ![p] = "saving"]
  /\ saved' = {}
  /\ torn' = TRUE
  /\ clean' = [q \in Procs |-> IF q = p THEN \A r \in Procs : phase[r] # "saving"
                               ELSE IF phase[q] = "saving" THEN FALSE ELSE clean[q]]
  /\ UNCHANGED <<tree, args, entries, step, text, result, notified, exit>>

(* ... and writes it. Over the bytes of another process that opened it too *)
(* the text may keep a tail of theirs, and then does not parse.            *)
SaveWrite(p) ==
  /\ phase[p] = "saving"
  /\ phase' = [phase EXCEPT ![p] = "notifying"]
  /\ \/ /\ saved' = entries[p]
        /\ torn' = FALSE
     \/ /\ ~clean[p]
        /\ saved' = {}
        /\ torn' = TRUE
  /\ UNCHANGED <<tree, args, entries, step, text, result, clean, notified, exit>>

\* Fault: off by one.
oneUrlTooMany(p) == notified[p] <= Urls

urlsLeft(p) == notified[p] < Urls

(* send_scan_completed_webhooks: one after the other, a failed delivery is *)
(* a warning.                                                              *)
Notify(p) ==
  /\ phase[p] = "notifying"
  /\ urlsLeft(p)
  /\ notified' = [notified EXCEPT ![p] = @ + 1]
  /\ UNCHANGED <<diskVars, phase, args, entries, step, text, result, clean, exit>>

-----------------------------------------------------------------------------
timed_out_files(p) == {f \in Files : result[p][f].timed_out}

ReportedKinds(p) == UNION {result[p][f].findings : f \in Files}

\* Fault: timeouts do not weigh.
consideredFindings(p) == UNION {Weight[k] : k \in ReportedKinds(p)}

(* Every severity the report is considered to have.                        *)
Considered(p) ==
  (UNION {Weight[k] : k \in ReportedKinds(p)})
    \cup (IF timed_out_files(p) # {} THEN {"low"} ELSE {})

(* current.max(candidate) over the severities considered.                  *)
Highest(S) == CHOOSE s \in S : \A t \in S : Rank[t] <= Rank[s]

should_exit_with_1(a, S) ==
  /\ a.exit_code
  /\ S # {}
  /\ Rank[Highest(S)] >= Rank[a.min_severity]

(* The report is printed and exec chooses the exit code.                   *)
Exit(p) ==
  /\ phase[p] = "notifying"
  /\ ~urlsLeft(p)
  /\ phase' = [phase EXCEPT ![p] = "exited"]
  /\ exit' = [exit EXCEPT ![p] =
                IF should_exit_with_1(args[p], Considered(p)) THEN 1 ELSE 0]
  /\ UNCHANGED <<diskVars, args, entries, step, text, result, clean, notified>>

(* The process is interrupted; what it had not written is lost.            *)
Kill(p) ==
  /\ phase[p] \in {"scanning", "saving", "notifying"}
  /\ phase' = [phase EXCEPT ![p] = "died"]
  /\ UNCHANGED <<diskVars, args, entries, step, text, result, gateVars>>

(* The developer edits, removes, locks or restores a file at any moment.   *)
Edit(f, c) ==
  /\ tree' = [tree EXCEPT ![f] = c]
  /\ UNCHANGED <<saved, torn, phase, args, entries, step, text, result, gateVars>>

FileStep(p, f) ==
  \/ ReadFile(p, f)
  \/ CacheHit(p, f)
  \/ CacheMiss(p, f)
  \/ AnalysisReturns(p, f)
  \/ AnalysisTimesOut(p, f)
  \/ AnalysisPanics(p, f)
  \/ StoreResult(p, f)

(* The steps a live process takes by itself.                               *)
Advance(p) ==
  \/ \E f \in Files : FileStep(p, f)
  \/ SkipSave(p)
  \/ SaveOpen(p)
  \/ SaveWrite(p)
  \/ Notify(p)
  \/ Exit(p)

Next ==
  \/ \E p \in Procs : \/ \E a \in Invocations : Start(p, a)
                      \/ Advance(p)
                      \/ Kill(p)
  \/ \E f \in Files, c \in Contents \cup {Gone, Unreadable} : Edit(f, c)

Spec == Init /\ [][Next]_vars

FairSpec == Spec /\ \A p \in Procs : WF_vars(Advance(p))

-----------------------------------------------------------------------------
(* What the cache may hold under a digest: an answer to a text with that   *)
(* digest, under settings some process ran with, or the stub of a timeout. *)
Answers(r, c) ==
  r = TimedOutResult \/ \E s \in Settings : r = analyze_single_file(s, c)

SoundEntry(e) ==
  \E c \in Contents : e.hash = Sha256[c] /\ Answers(e.result, c)

(* Every entry, on disk and in every process, answers the text whose       *)
(* digest it is filed under, however the file was edited between the read  *)
(* and the store, and whichever process wrote the cache last, was killed   *)
(* while writing it, or wrote over another's bytes.                        *)
CacheSound ==
  \A e \in saved \cup UNION {entries[p] : p \in Procs} : SoundEntry(e)

(* The report of a process that exits has, for every file a worker read,   *)
(* an answer to exactly the text that was read, cached or not; a file that *)
(* was not read contributes nothing.                                       *)
ReportAnswersTextsRead ==
  \A p \in Procs : phase[p] = "exited" =>
    \A f \in Files :
      IF text[p][f] \in Contents THEN Answers(result[p][f], text[p][f])
                                 ELSE result[p][f] = DefaultResult

(* A --no-cache report depends on the process's own settings and texts     *)
(* alone: what another process or an earlier run left in the cache cannot  *)
(* reach it, and it has a timed-out file only if it ran with a limit.      *)
NoCacheScansAfresh ==
  \A p \in Procs, f \in Files :
    phase[p] = "exited" /\ args[p].no_cache /\ text[p][f] \in Contents =>
      \/ result[p][f] = analyze_single_file(args[p].settings, text[p][f])
      \/ args[p].limited /\ result[p][f] = TimedOutResult

(* The severities `consider` sees because of findings S.                   *)
Weighs(S) == UNION {Weight[k] : k \in S}

(* None of them reaches --min-severity, in the order the gate compares by. *)
BelowThreshold(p, S) == \A s \in S : Rank[s] < Rank[args[p].min_severity]

(* A gate that lets a process through speaks for every text a worker read, *)
(* whatever was edited, answered from the cache or given up meanwhile: the *)
(* findings of that text, under the settings of some run (with --no-cache  *)
(* under the process's own), all weigh less than --min-severity, and so    *)
(* does an analysis that was given up, which counts as "low" and not as a  *)
(* clean file. The threshold is in the order the gate compares by,         *)
(* whichever that is (par_iter's results, `consider`, exec's exit code).   *)
GreenGateClearsTexts ==
  \A p \in Procs, f \in Files :
    /\ phase[p] = "exited"
    /\ args[p].exit_code
    /\ exit[p] = 0
    /\ text[p][f] \in Contents
    => IF result[p][f].timed_out
       THEN BelowThreshold(p, {"low"})
       ELSE \E s \in Settings :
              /\ args[p].no_cache => s = args[p].settings
              /\ BelowThreshold(p, Weighs(Analyse[s][text[p][f]]))

(* A process under a limit ends, however long an analysis would take: each *)
(* file costs at most its limit and each webhook its own.                  *)
LimitedScanEnds ==
  \A p \in Procs :
    (phase[p] = "scanning" /\ args[p].limited) ~> phase[p] \in {"exited", "died"}

-----------------------------------------------------------------------------
(* What the documentation says and the code does not do.                   *)

(* analyze.rs:74 "Return non-zero exit code when findings meet or exceed   *)
(* severity threshold": a finding at least as severe as --min-severity     *)
(* gives a non-zero exit code.                                             *)
ExitCodeMeetsThreshold ==
  \A p \in Procs :
    /\ phase[p] = "exited"
    /\ args[p].exit_code
    /\ \E s \in Considered(p) : Rank[s] <= Rank[args[p].min_severity]
    => exit[p] = 1

(* getting-started.md:222 "Any pattern listed under `[[custom_rules]]` in  *)
(* your `.sanctify.toml` that matches a line in the source is reported     *)
(* here": the custom matches reported are those of the process's settings. *)
CustomRulesReported ==
  \A p \in Procs, f \in Files :
    /\ phase[p] = "exited"
    /\ text[p][f] \in Contents
    /\ ~result[p][f].timed_out
    /\ "custom_match" \in Analyse[args[p].settings][text[p][f]]
    => "custom_match" \in result[p][f].findings
=============================================================================
