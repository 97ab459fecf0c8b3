---------------------------- MODULE EditorSession ----------------------------
(* vscode-extension/src/extension.ts: each change of a document schedules an   *)
(* analysis after a pause; the analysis may first have to look through the     *)
(* workspace, and sets the diagnostics of the document when it is done. The    *)
(* window has a folder open, without which schedule only clears diagnostics.   *)
EXTENDS Naturals

CONSTANTS Doc,          \* rust documents, by uri
          Never,        \* null, undefined, and "no diagnostics"
          MaxText,      \* bound: the versions of one document
          MaxJobs,      \* bound: the calls of schedule
          MaxSettings,  \* bound: the changes of the configuration
          MaxManifests  \* bound: the edits of Cargo.toml files that matter

ASSUME EditorAssumption ==
  /\ Never \notin Doc /\ Never \notin Nat
  /\ MaxText \in Nat /\ MaxJobs \in Nat /\ MaxSettings \in Nat /\ MaxManifests \in Nat

VARIABLES textOf,     \* uri -> its version, or Never when it is closed
          debouncers, \* the map: uri -> the timer it names, or Never
          jobs,       \* timer -> the document it will analyse and how far it is
          settings,   \* [enable, onlyInSorobanWorkspace], and how often it changed
          workspace,  \* what the Cargo.toml files on disk make it, and the edits
          wsCache,    \* sorobanWorkspaceCache: the verdict of a search, or Never
          found,      \* history: the verdicts a search may have brought since the
                      \* cache was last cleared
          shown,      \* the collection: uri -> the version analysed, or Never
          crossed     \* history: closed or reconfigured while a job was under way

editorVars == <<textOf, debouncers, jobs, settings, workspace, wsCache, found, shown,
                crossed>>

\* Some Cargo.toml names soroban-sdk, or none does.
Verdicts == {"soroban", "other"}
cacheVars == <<workspace, wsCache, found>>

JobIds == 1..MaxJobs
\* stage: timer, lookup (awaiting the workspace search) or done. kept: the text
\* of a document object that was closed, Never while it is the open one. saw:
\* what the manifests were while the search ran.
Job(d) == [doc |-> d, stage |-> "timer", kept |-> Never, saw |-> {}]
NoJob == [doc |-> Never, stage |-> "done", kept |-> Never, saw |-> {}]
Searching == {j \in JobIds : jobs[j].stage = "lookup"}
Pending(d) == {j \in JobIds : jobs[j].doc = d /\ jobs[j].stage # "done"}
Unused == {j \in JobIds : jobs[j].doc = Never}
Fresh(docs) == {f \in [docs -> Unused] : \A d, e \in docs : f[d] = f[e] => d = e}

\* An odd version does not mention soroban_sdk.
looksLikeSorobanSource(version) == version % 2 = 0

EditorInit ==
  /\ textOf = [d \in Doc |-> Never] /\ debouncers = [d \in Doc |-> Never]
  /\ jobs = [j \in JobIds |-> NoJob]
  /\ settings \in [enable : {TRUE}, only : BOOLEAN, changes : {0}]
  /\ workspace \in [is : Verdicts, edits : {0}] /\ wsCache = Never /\ found = {workspace.is}
  /\ shown = [d \in Doc |-> Never] /\ crossed = {}

\* schedule: the timer the map names is cleared and another takes its place.
Rescheduled(docs, fresh) ==
  /\ jobs' = [j \in JobIds |->
       IF \E d \in docs : fresh[d] = j THEN Job(CHOOSE d \in docs : fresh[d] = j)
       ELSE IF \E d \in docs : debouncers[d] = j THEN [jobs[j] EXCEPT !.stage = "done"]
       ELSE jobs[j]]
  /\ debouncers' = [d \in Doc |-> IF d \in docs THEN fresh[d] ELSE debouncers[d]]

Schedule(docs) == Fresh(docs) # {} /\ Rescheduled(docs, CHOOSE f \in Fresh(docs) : TRUE)

OpenDocument(d) ==
  /\ textOf[d] = Never
  /\ textOf' = [textOf EXCEPT ![d] = 1]
  /\ Schedule({d})
  /\ UNCHANGED <<settings, cacheVars, shown, crossed>>

ChangeDocument(d) ==
  /\ textOf[d] # Never /\ textOf[d] < MaxText
  /\ textOf' = [textOf EXCEPT ![d] = @ + 1]
  /\ Schedule({d})
  /\ UNCHANGED <<settings, cacheVars, shown, crossed>>

\* The map's entry goes, the timer stays and holds the closed document.
CloseDocument(d) ==
  /\ textOf[d] # Never
  /\ textOf' = [textOf EXCEPT ![d] = Never]
  /\ shown' = [shown EXCEPT ![d] = Never]
  /\ debouncers' = [debouncers EXCEPT ![d] = Never]
  /\ jobs' = [j \in JobIds |-> IF j \in Pending(d) /\ jobs[j].kept = Never
                               THEN [jobs[j] EXCEPT !.kept = textOf[d]] ELSE jobs[j]]
  /\ crossed' = IF Pending(d) = {} THEN crossed ELSE crossed \union {d}
  /\ UNCHANGED <<settings, cacheVars>>

\* A Cargo.toml is edited. No handler hears of it, so the cache stays; a search
\* under way may have read it before or after.
EditManifest(verdict) ==
  /\ workspace.is # verdict /\ workspace.edits < MaxManifests
  /\ workspace' = [is |-> verdict, edits |-> workspace.edits + 1]
  /\ found' = found \union {verdict}
  /\ jobs' = [j \in JobIds |-> IF j \in Searching
                               THEN [jobs[j] EXCEPT !.saw = @ \union {verdict}] ELSE jobs[j]]
  /\ UNCHANGED <<textOf, debouncers, settings, wsCache, shown, crossed>>

\* onDidChangeConfiguration: every open document is scheduled again. A search
\* under way will still bring what it saw.
Reconfigure(enable, only) ==
  /\ settings.changes < MaxSettings
  /\ settings' = [enable |-> enable, only |-> only, changes |-> settings.changes + 1]
  /\ wsCache' = Never
  /\ found' = {workspace.is} \union UNION {jobs[j].saw : j \in Searching}
  /\ Schedule({d \in Doc : textOf[d] # Never})
  /\ crossed' = crossed \union
       {d \in Doc : \E j \in Pending(d) : jobs[j].stage = "lookup"}
  /\ UNCHANGED <<textOf, workspace, shown>>

\* runAnalysis, at the end of a job and of the text as it is then.
Analysed(j) ==
  LET text == IF jobs[j].kept = Never THEN textOf[jobs[j].doc] ELSE jobs[j].kept IN
  IF settings.enable /\ looksLikeSorobanSource(text) THEN text ELSE Never

Finish(j, diagnostics) ==
  /\ jobs' = [jobs EXCEPT ![j].stage = "done"]
  /\ shown' = [shown EXCEPT ![jobs[j].doc] = diagnostics]

\* Whether runAnalysis is called without a search: it is not asked for, or its
\* verdict is cached.
Cached == ~settings.only \/ wsCache # Never
AtOnce(j) == Finish(j, IF settings.only /\ wsCache = "other" THEN Never ELSE Analysed(j))

\* Taking the text before the search.
TimerFiresReading(j) ==
  /\ jobs[j].stage = "timer"
  /\ debouncers' = [debouncers EXCEPT ![jobs[j].doc] = Never]
  /\ IF Cached THEN AtOnce(j)
     ELSE /\ jobs' = [jobs EXCEPT ![j].stage = "lookup", ![j].saw = {workspace.is},
                                  ![j].kept = IF @ = Never THEN textOf[jobs[j].doc] ELSE @]
          /\ UNCHANGED shown
  /\ UNCHANGED <<textOf, settings, cacheVars, crossed>>

\* A timer's callback up to its first await. It drops the map's entry, which
\* may by now name a later timer.
TimerFires(j) ==
  /\ jobs[j].stage = "timer"
  /\ debouncers' = [debouncers EXCEPT ![jobs[j].doc] = Never]
  /\ IF Cached THEN AtOnce(j)
     ELSE /\ jobs' = [jobs EXCEPT ![j].stage = "lookup", ![j].saw = {workspace.is}]
          /\ UNCHANGED shown
  /\ UNCHANGED <<textOf, settings, cacheVars, crossed>>

\* The search of workspaceLooksLikeSorobanProject answers and fills the cache,
\* over the verdict of another one and over a reconfiguration.
WorkspaceKnown(j) ==
  /\ jobs[j].stage = "lookup"
  /\ \E verdict \in jobs[j].saw :
       /\ wsCache' = verdict
       /\ Finish(j, IF verdict = "soroban" THEN Analysed(j) ELSE Never)
  /\ UNCHANGED <<textOf, debouncers, settings, workspace, found, crossed>>

EditorNext ==
  \/ \E d \in Doc : OpenDocument(d) \/ ChangeDocument(d) \/ CloseDocument(d)
  \/ \E enable, only \in BOOLEAN : Reconfigure(enable, only)
  \/ \E verdict \in Verdicts : EditManifest(verdict)
  \/ \E j \in JobIds : TimerFires(j) \/ WorkspaceKnown(j)

EditorSpec == EditorInit /\ [][EditorNext]_editorVars

\* What a document should show under the configuration of the moment, in a
\* workspace judged so.
Wanted(d, verdict) ==
  IF /\ textOf[d] # Never /\ looksLikeSorobanSource(textOf[d])
     /\ settings.enable /\ (settings.only => verdict = "soroban")
  THEN textOf[d] ELSE Never

(* When nothing is pending every open document shows the findings of its       *)
(* present text, a closed one none, and neither depends on the order in which  *)
(* timers and workspace searches came back. Excepted are a document closed     *)
(* with a job pending, whose timer is not cleared, and one reconfigured during *)
(* its search, whose verdict is of the old settings. The workspace is judged   *)
(* as its manifests were at some moment since the cache was cleared, or since  *)
(* a search began that was under way then: an edit of a Cargo.toml does not    *)
(* clear it (schedule, the close and configuration handlers, runAnalysis,      *)
(* sorobanWorkspaceCache).                                                     *)
DocumentsShowTheirText ==
  \A d \in Doc \ crossed : Pending(d) = {} => \E verdict \in found : shown[d] = Wanted(d, verdict)
=============================================================================
