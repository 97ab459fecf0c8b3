------------------------------ MODULE Baseline ------------------------------
(* The diff command: the findings of the present source compared with those of *)
(* a baseline file, by fingerprints meant to survive that lines move.          *)
(* The source changes between runs; a run reads it, except the files it cannot *)
(* read or analyse in time, may write the baseline, and tells what is new.     *)
EXTENDS Naturals, FiniteSets, FiniteSetsExt

CONSTANTS File, Function, Kinds, MaxLine, MaxFindings,
          Thresholds,     \* the values of --min-severity, by rank
          VulnSeverity    \* the severity a database entry gives, per name

VARIABLES source,     \* the findings an analysis of the source would give
          baseline,   \* the baseline file: torn when a write of it failed half way
          report,     \* the findings of the last run, until the source changes
          told,       \* those of them it reported as new
          exit,       \* its exit code
          failed      \* whether it ended with an error, before it told anything

diffVars == <<source, baseline, report, told, exit, failed>>

\* fn is the function, or the name, operation or message the report gives.
Finding == [kind : Kinds, file : File, fn : Function, line : 1..MaxLine]
NoFile == [exists |-> FALSE, parses |-> FALSE, findings |-> {}]
TornFile == [exists |-> TRUE, parses |-> FALSE, findings |-> {}]
FileOf(findings) == [exists |-> TRUE, parses |-> TRUE, findings |-> findings]

(* ---- fingerprints ---- *)
Placed == {"arithmetic", "panic", "collision", "unhandled", "upgrade", "event"}
Snippets == {"auth_gap", "unsafe", "vuln"}
Named == {"ledger", "smt", "sep41"}

ASSUME DiffAssumption ==
  /\ Kinds \subseteq Placed \cup Snippets \cup Named \cup {"custom"}
  /\ "line n" \notin Function \* a name holds no blank
  /\ MaxLine \in Nat

(* The location is "file:fn:line", but "file:line n" for an event, whose last  *)
(* part is no number; strip_line_number cuts a number off the end.             *)
Location(f) == IF f.kind = "event" THEN <<f.file, "line n", f.line>>
               ELSE <<f.file, f.fn, f.line>>
\* Fingerprints with their line numbers.
StripNothing(loc) == loc
StripLineNumber(loc) == IF loc[2] = "line n" THEN loc ELSE <<loc[1], loc[2]>>

FingerprintPlaced(f) == <<f.kind, StripLineNumber(Location(f)), f.fn>>
\* The name or snippet starts with the file: analyze_single_file put it there.
FingerprintSnippet(f) == <<f.kind, <<f.file>>, f.fn>>
\* Structs, invariants and token functions are keyed by names alone.
FingerprintNamed(f) == <<f.kind, <<>>, f.fn>>
\* The snippet of a custom match starts with "file:line:".
FingerprintCustom(f) == <<f.kind, <<f.file, f.line>>, f.fn>>

Fingerprint(f) ==
  IF f.kind \in Placed THEN FingerprintPlaced(f)
  ELSE IF f.kind \in Snippets THEN FingerprintSnippet(f)
  ELSE IF f.kind \in Named THEN FingerprintNamed(f) ELSE FingerprintCustom(f)

ExtractFingerprints(findings) == {Fingerprint(f) : f \in findings}
CollectNewFindings(findings, fps) == {f \in findings : Fingerprint(f) \notin fps}

(* ---- the severity gate ---- *)
(* Ranks in declaration order, critical first, which is the order max and >=   *)
(* go by. A custom match is never considered, nor a database entry whose       *)
(* severity has no rank.                                                       *)
SeverityOf(f) ==
  IF f.kind \in {"auth_gap", "smt"} THEN 0
  ELSE IF f.kind \in {"arithmetic", "panic", "unsafe", "upgrade", "unhandled"} THEN 1
  ELSE IF f.kind \in {"collision", "ledger", "sep41"} THEN 2
  ELSE IF f.kind = "event" THEN 3
  ELSE IF f.kind = "vuln" THEN VulnSeverity[f.fn] ELSE 4

Considered(findings) == {SeverityOf(f) : f \in findings} \ {4}
GateCloses(findings, min) ==
  Considered(findings) # {} /\ Max(Considered(findings)) >= min

(* ---- the source between runs, and a run ---- *)
DiffInit ==
  /\ source = {} /\ baseline = NoFile
  /\ report = {} /\ told = {} /\ exit = 0 /\ failed = FALSE

Forget == report' = {} /\ told' = {} /\ exit' = 0 /\ failed' = FALSE

WriteCode(f) ==
  /\ Cardinality(source) < MaxFindings /\ f \notin source
  /\ source' = source \cup {f}
  /\ Forget /\ UNCHANGED baseline

RepairCode(f) ==
  /\ f \in source
  /\ source' = source \ {f}
  /\ Forget /\ UNCHANGED baseline

InsertLine(file) ==
  /\ \A f \in source : f.file = file => f.line < MaxLine
  /\ source' = {IF f.file = file THEN [f EXCEPT !.line = @ + 1] ELSE f : f \in source}
  /\ Forget /\ UNCHANGED baseline

(* build_current_report: a file that cannot be read, or is not done in time,   *)
(* leaves no finding and does not fail the run.                                *)
CurrentReport(unread) == {f \in source : f.file \notin unread}

Fails(code) == report' = {} /\ told' = {} /\ exit' = code /\ failed' = TRUE

\* Before the analysis: no Soroban project, or a database that does not load.
DiffRefused == (\E code \in {1, 2} : Fails(code)) /\ UNCHANGED <<source, baseline>>

\* The update writes in place, so what fails may leave half a file.
BaselineNotWritten ==
  /\ Fails(1)
  /\ baseline' \in {baseline, TornFile} /\ UNCHANGED source

(* A run that gets that far. The baseline is read back even when the run has   *)
(* just written it; one that does not read or parse is an error, a missing one *)
(* exit code 2.                                                                *)
Diff(update, gated, min, unread, readable) ==
  LET current == CurrentReport(unread)
      base == IF update THEN FileOf(current) ELSE baseline
      new == CollectNewFindings(current, ExtractFingerprints(base.findings))
  IN /\ baseline' = base /\ UNCHANGED source
     /\ \/ ~base.exists /\ Fails(2)
        \/ base.exists /\ ~(readable /\ base.parses) /\ Fails(1)
        \/ /\ base.exists /\ readable /\ base.parses
           /\ report' = current /\ told' = new /\ failed' = FALSE
           /\ exit' = IF gated /\ GateCloses(new, min) THEN 1 ELSE 0

DiffNext ==
  \/ \E f \in Finding : WriteCode(f) \/ RepairCode(f)
  \/ \E file \in File : InsertLine(file)
  \/ DiffRefused \/ BaselineNotWritten
  \/ \E update, gated, readable \in BOOLEAN, min \in Thresholds, unread \in SUBSET File :
       Diff(update, gated, min, unread, readable)

DiffSpec == DiffInit /\ [][DiffNext]_diffVars

(* ---- what a baseline promises ---- *)
LikeOf(f, g) == f.kind = g.kind /\ f.fn = g.fn

(* A finding the baseline holds stays silent however its lines move, except an *)
(* event's or a custom match's, whose fingerprints keep the line; what a run   *)
(* leaves out was in the baseline, in the same file or, for the kinds keyed by *)
(* name alone, in any; the gate closes for a finding it ranks and nothing else *)
(* but an error ends with its code; and a baseline that is missing or half     *)
(* written is never taken for an empty one, after which all were new. (diff:   *)
(* exec, extract_fingerprints, collect_new_findings.)                          *)
BaselineSilencesItself ==
  /\ \A f \in told : \A g \in baseline.findings :
       LikeOf(f, g) /\ f.file = g.file => f.kind \in {"event", "custom"} /\ f.line # g.line
  /\ \A f \in report \ told : \E g \in baseline.findings :
       LikeOf(f, g) /\ (f.file = g.file \/ f.kind \in Named)
  /\ exit = 1 /\ ~failed => \E f \in told : f.kind # "custom"
  /\ told # {} => baseline.exists /\ baseline.parses
=============================================================================
