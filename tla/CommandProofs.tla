---------------------------- MODULE CommandProofs ----------------------------
(* What the commands promise. A scan, for every number of processes, files,    *)
(* texts, settings and workers: the type invariant, the soundness of the       *)
(* cache, and that a report answers the texts that were read. A fix, for every *)
(* source text and every list of patches and of answers: the patcher applies   *)
(* patches that do not overlap as if at once. And the numbers the commands     *)
(* print: gas and complexity of every body, sizes of every ledger entry,       *)
(* latencies of every benchmark, the lines a database's pattern is found on    *)
(* and the invariants the solver refutes.                                      *)
EXTENDS ScanPipeline, AnalyserPromises, FoldLemmas, TLAPS

(* Where a file's step and the process's phase stand in the scan, and what *)
(* is known of its text and result there.                                  *)
FileSound(p, f) ==
  /\ step[p][f] \in {"skipped", "queued"} =>
       text[p][f] = Gone /\ result[p][f] = DefaultResult
  /\ step[p][f] \in {"hashed", "analysing", "storing"} => text[p][f] \in Contents
  /\ step[p][f] = "storing" => Answers(result[p][f], text[p][f])
  /\ step[p][f] = "finished" =>
       IF text[p][f] \in Contents THEN Answers(result[p][f], text[p][f])
                                  ELSE result[p][f] = DefaultResult
  /\ step[p][f] \in {"hashed", "analysing"} => result[p][f] = DefaultResult

WorkSound == \A p \in Procs, f \in Files : FileSound(p, f)

JoinSound ==
  \A p \in Procs : phase[p] \in {"saving", "notifying", "exited"} => Collected(p)

IInv == TypeOK /\ CacheSound /\ WorkSound /\ JoinSound

-----------------------------------------------------------------------------
LEMMA ResultsTyped ==
  /\ DefaultResult \in Result
  /\ TimedOutResult \in Result
  /\ \A s \in Settings, c \in Contents : analyze_single_file(s, c) \in Result
  BY AnalyseAssumption DEF Result, DefaultResult, TimedOutResult, analyze_single_file

LEMMA AnswersTyped ==
  ASSUME NEW c \in Contents, NEW r, Answers(r, c)
  PROVE  r \in Result
  BY ResultsTyped DEF Answers

LEMMA StoreSound ==
  ASSUME NEW es \in SUBSET CacheEntry, NEW f \in Files, NEW c \in Contents, NEW r,
         \A e \in es : SoundEntry(e), Answers(r, c)
  PROVE  /\ store(es, f, Sha256[c], r) \in SUBSET CacheEntry
         /\ \A e \in store(es, f, Sha256[c], r) : SoundEntry(e)
  <1>1. [file |-> f, hash |-> Sha256[c], result |-> r] \in CacheEntry
    BY AnswersTyped, Sha256Assumption DEF CacheEntry
  <1>2. SoundEntry([file |-> f, hash |-> Sha256[c], result |-> r])
    BY DEF SoundEntry
  <1>3. QED
    BY <1>1, <1>2 DEF store

LEMMA LookupSound ==
  ASSUME NEW es \in SUBSET CacheEntry, NEW f \in Files, NEW c \in Contents,
         \A e \in es : SoundEntry(e),
         NEW e \in lookup(es, f, Sha256[c])
  PROVE  Answers(e.result, c)
  <1>1. PICK d \in Contents : e.hash = Sha256[d] /\ Answers(e.result, d)
    BY DEF lookup, SoundEntry
  <1>2. d = c
    BY <1>1, Sha256Assumption DEF lookup
  <1>3. QED
    BY <1>1, <1>2

-----------------------------------------------------------------------------
(* Every step keeps the types.                                             *)
LEMMA TypeStep == TypeOK /\ WorkSound /\ [Next]_vars => TypeOK'
  <1> SUFFICES ASSUME TypeOK, WorkSound, [Next]_vars PROVE TypeOK'
    OBVIOUS
  <1> USE DEF TypeOK, diskVars, gateVars
  <1>1. ASSUME NEW p \in Procs, NEW a \in Invocations, Start(p, a) PROVE TypeOK'
    <2>1. a \in Args
      BY InvocationsAssumption
    <2>2. opened(a) \subseteq CacheEntry
      BY DEF opened, load
    <2>3. QED
      BY <1>1, <2>1, <2>2, ResultsTyped, PoolAssumption DEF Start, Phases, Steps
  <1>2. ASSUME NEW p \in Procs, NEW f \in Files, ReadFile(p, f) PROVE TypeOK'
    BY <1>2 DEF ReadFile, Steps
  <1>3. ASSUME NEW p \in Procs, NEW f \in Files, CacheHit(p, f) PROVE TypeOK'
    <2>1. \A e \in lookup(entries[p], f, digest(p, f)) : e.result \in Result
      BY DEF lookup, CacheEntry
    <2>2. QED
      BY <1>3, <2>1 DEF CacheHit, Steps
  <1>4. ASSUME NEW p \in Procs, NEW f \in Files, CacheMiss(p, f) PROVE TypeOK'
    BY <1>4 DEF CacheMiss, Steps
  <1>5. ASSUME NEW p \in Procs, NEW f \in Files, AnalysisReturns(p, f) PROVE TypeOK'
    <2>1. text[p][f] \in Contents
      BY <1>5 DEF AnalysisReturns, WorkSound, FileSound
    <2>2. analyze_single_file(args[p].settings, text[p][f]) \in Result
      BY <2>1, ResultsTyped DEF Args
    <2>3. QED
      BY <1>5, <2>2 DEF AnalysisReturns, Steps
  <1>6. ASSUME NEW p \in Procs, NEW f \in Files, AnalysisTimesOut(p, f) PROVE TypeOK'
    BY <1>6, ResultsTyped DEF AnalysisTimesOut, Steps
  <1>7. ASSUME NEW p \in Procs, NEW f \in Files, AnalysisPanics(p, f) PROVE TypeOK'
    BY <1>7 DEF AnalysisPanics, Phases
  <1>8. ASSUME NEW p \in Procs, NEW f \in Files, StoreResult(p, f) PROVE TypeOK'
    <2>1. text[p][f] \in Contents
      BY <1>8 DEF StoreResult, WorkSound, FileSound
    <2>2. store(entries[p], f, digest(p, f), result[p][f]) \subseteq CacheEntry
      BY <2>1, Sha256Assumption DEF store, digest, CacheEntry
    <2>3. QED
      BY <1>8, <2>2 DEF StoreResult, Steps
  <1>9. ASSUME NEW p \in Procs, SkipSave(p) PROVE TypeOK'
    BY <1>9 DEF SkipSave, Phases
  <1>10. ASSUME NEW p \in Procs, SaveOpen(p) PROVE TypeOK'
    BY <1>10 DEF SaveOpen, Phases
  <1>11. ASSUME NEW p \in Procs, SaveWrite(p) PROVE TypeOK'
    BY <1>11 DEF SaveWrite, Phases
  <1>12. ASSUME NEW p \in Procs, Notify(p) PROVE TypeOK'
    BY <1>12, PoolAssumption DEF Notify, urlsLeft
  <1>13. ASSUME NEW p \in Procs, Exit(p) PROVE TypeOK'
    BY <1>13 DEF Exit, Phases
  <1>14. ASSUME NEW p \in Procs, Kill(p) PROVE TypeOK'
    BY <1>14 DEF Kill, Phases
  <1>15. ASSUME NEW f \in Files, NEW c \in Contents \cup {Gone, Unreadable},
                Edit(f, c) PROVE TypeOK'
    BY <1>15 DEF Edit
  <1>16. CASE UNCHANGED vars
    BY <1>16 DEF vars
  <1>17. QED
    BY <1>1, <1>2, <1>3, <1>4, <1>5, <1>6, <1>7, <1>8, <1>9, <1>10, <1>11, <1>12,
       <1>13, <1>14, <1>15, <1>16 DEF Next, Advance, FileStep

-----------------------------------------------------------------------------
LEMMA CacheSoundParts ==
  CacheSound <=> /\ \A e \in saved : SoundEntry(e)
                 /\ \A p \in Procs : \A e \in entries[p] : SoundEntry(e)
  BY DEF CacheSound

(* Only StoreResult adds an entry, of a result that answers its text; a    *)
(* load and a save move entries about.                                     *)
LEMMA CacheStep == TypeOK /\ CacheSound /\ WorkSound /\ [Next]_vars => CacheSound'
  <1> SUFFICES ASSUME TypeOK, CacheSound, WorkSound, [Next]_vars PROVE CacheSound'
    OBVIOUS
  <1> DEFINE Saved == \A e \in saved : SoundEntry(e)
             Held == \A p \in Procs : \A e \in entries[p] : SoundEntry(e)
  <1>0. Saved /\ Held
    BY CacheSoundParts
  <1>1. ASSUME NEW p \in Procs, NEW a \in Invocations, Start(p, a) PROVE Saved' /\ Held'
    <2>1. \A e \in opened(a) : SoundEntry(e)
      BY <1>0 DEF opened, load
    <2>2. QED
      BY <1>0, <1>1, <2>1 DEF Start, diskVars, TypeOK, SoundEntry, Answers
  <1>2. ASSUME NEW p \in Procs, NEW f \in Files, StoreResult(p, f) PROVE Saved' /\ Held'
    <2>1. text[p][f] \in Contents /\ Answers(result[p][f], text[p][f])
      BY <1>2 DEF StoreResult, WorkSound, FileSound
    <2>2. entries[p] \in SUBSET CacheEntry
      BY DEF TypeOK
    <2>3. \A e \in store(entries[p], f, digest(p, f), result[p][f]) : SoundEntry(e)
      BY <1>0, <2>1, <2>2, StoreSound DEF digest
    <2>4. Saved'
      BY <1>0, <1>2 DEF StoreResult, diskVars, SoundEntry, Answers
    <2>5. Held'
      BY <1>0, <1>2, <2>3 DEF StoreResult, TypeOK, SoundEntry, Answers
    <2>6. QED
      BY <2>4, <2>5
  <1>3. ASSUME NEW p \in Procs, SaveOpen(p) PROVE Saved' /\ Held'
    BY <1>0, <1>3 DEF SaveOpen, SoundEntry, Answers
  <1>4. ASSUME NEW p \in Procs, SaveWrite(p) PROVE Saved' /\ Held'
    BY <1>0, <1>4 DEF SaveWrite, SoundEntry, Answers
  <1>5. ASSUME UNCHANGED <<saved, entries>> PROVE Saved' /\ Held'
    BY <1>0, <1>5 DEF SoundEntry, Answers
  <1>6. Saved' /\ Held'
    <2>1. CASE \E p \in Procs, f \in Files : FileStep(p, f)
      BY <1>2, <1>5, <2>1 DEF FileStep, ReadFile, CacheHit, CacheMiss, AnalysisReturns,
         AnalysisTimesOut, AnalysisPanics, diskVars
    <2>2. CASE \E p \in Procs : SkipSave(p) \/ Notify(p) \/ Exit(p) \/ Kill(p)
      BY <1>5, <2>2 DEF SkipSave, Notify, Exit, Kill, diskVars
    <2>3. CASE \E f \in Files, c \in Contents \cup {Gone, Unreadable} : Edit(f, c)
      BY <1>5, <2>3 DEF Edit
    <2>4. CASE UNCHANGED vars
      BY <1>5, <2>4 DEF vars
    <2>5. QED
      BY <1>1, <1>3, <1>4, <2>1, <2>2, <2>3, <2>4 DEF Next, Advance
  <1>7. QED
    BY <1>6 DEF CacheSound

(* One file of one process: a step of another file, or of another process, *)
(* leaves it alone.                                                        *)
LEMMA WorkStep == TypeOK /\ CacheSound /\ WorkSound /\ [Next]_vars => WorkSound'
  <1> SUFFICES ASSUME TypeOK, CacheSound, WorkSound, [Next]_vars,
                      NEW q \in Procs, NEW g \in Files
               PROVE FileSound(q, g)'
    BY DEF WorkSound
  <1>0. FileSound(q, g)
    BY DEF WorkSound
  <1> USE DEF TypeOK
  <1>1. ASSUME NEW p \in Procs, NEW a \in Invocations, Start(p, a) PROVE FileSound(q, g)'
    BY <1>0, <1>1 DEF Start, FileSound, Answers
  <1>2. ASSUME NEW p \in Procs, NEW f \in Files, ReadFile(p, f) PROVE FileSound(q, g)'
    BY <1>0, <1>2 DEF ReadFile, FileSound, Answers
  <1>3. ASSUME NEW p \in Procs, NEW f \in Files, CacheHit(p, f) PROVE FileSound(q, g)'
    <2>1. text[p][f] \in Contents
      BY <1>3 DEF CacheHit, WorkSound, FileSound
    <2>2. entries[p] \in SUBSET CacheEntry /\ \A e \in entries[p] : SoundEntry(e)
      BY CacheSoundParts
    <2>3. \A e \in lookup(entries[p], f, digest(p, f)) : Answers(e.result, text[p][f])
      BY <2>1, <2>2, LookupSound DEF digest
    <2>4. QED
      BY <1>0, <1>3, <2>1, <2>3 DEF CacheHit, FileSound, Answers
  <1>4. ASSUME NEW p \in Procs, NEW f \in Files, CacheMiss(p, f) PROVE FileSound(q, g)'
    BY <1>0, <1>4 DEF CacheMiss, FileSound, Answers
  <1>5. ASSUME NEW p \in Procs, NEW f \in Files, AnalysisReturns(p, f) PROVE FileSound(q, g)'
    <2>1. Answers(analyze_single_file(args[p].settings, text[p][f]), text[p][f])
      BY DEF Answers, Args
    <2>2. QED
      BY <1>0, <1>5, <2>1 DEF AnalysisReturns, FileSound, Answers
  <1>6. ASSUME NEW p \in Procs, NEW f \in Files, AnalysisTimesOut(p, f) PROVE FileSound(q, g)'
    BY <1>0, <1>6 DEF AnalysisTimesOut, FileSound, Answers
  <1>7. ASSUME NEW p \in Procs, NEW f \in Files, StoreResult(p, f) PROVE FileSound(q, g)'
    BY <1>0, <1>7 DEF StoreResult, FileSound, Answers
  <1>8. CASE UNCHANGED <<step, text, result>>
    BY <1>0, <1>8 DEF FileSound, Answers
  <1>9. QED
    <2>1. CASE \E p \in Procs, f \in Files : FileStep(p, f)
      BY <1>2, <1>3, <1>4, <1>5, <1>6, <1>7, <1>8, <2>1 DEF FileStep, AnalysisPanics
    <2>2. CASE \E p \in Procs : \/ SkipSave(p) \/ SaveOpen(p) \/ SaveWrite(p)
                                \/ Notify(p) \/ Exit(p) \/ Kill(p)
      BY <1>8, <2>2 DEF SkipSave, SaveOpen, SaveWrite, Notify, Exit, Kill
    <2>3. CASE \E f \in Files, c \in Contents \cup {Gone, Unreadable} : Edit(f, c)
      BY <1>8, <2>3 DEF Edit
    <2>4. CASE UNCHANGED vars
      BY <1>8, <2>4 DEF vars
    <2>5. QED
      BY <1>1, <2>1, <2>2, <2>3, <2>4 DEF Next, Advance

(* A process leaves the parallel part only when every file is done, and no *)
(* file moves afterwards.                                                  *)
LEMMA JoinStep == TypeOK /\ JoinSound /\ [Next]_vars => JoinSound'
  <1> SUFFICES ASSUME TypeOK, JoinSound, [Next]_vars, NEW q \in Procs,
                      phase'[q] \in {"saving", "notifying", "exited"}
               PROVE Collected(q)'
    BY DEF JoinSound
  <1> USE DEF TypeOK, Collected, JoinSound
  <1>1. ASSUME NEW p \in Procs, NEW a \in Invocations, Start(p, a) PROVE Collected(q)'
    BY <1>1 DEF Start
  <1>2. ASSUME NEW p \in Procs, NEW f \in Files, FileStep(p, f) PROVE Collected(q)'
    BY <1>2 DEF FileStep, ReadFile, CacheHit, CacheMiss, AnalysisReturns,
       AnalysisTimesOut, AnalysisPanics, StoreResult
  <1>3. ASSUME NEW p \in Procs, SkipSave(p) \/ SaveOpen(p) \/ SaveWrite(p) \/ Notify(p)
                                \/ Exit(p) \/ Kill(p)
        PROVE Collected(q)'
    BY <1>3 DEF SkipSave, SaveOpen, SaveWrite, Notify, Exit, Kill
  <1>4. ASSUME NEW f \in Files, NEW c \in Contents \cup {Gone, Unreadable}, Edit(f, c)
        PROVE Collected(q)'
    BY <1>4 DEF Edit
  <1>5. CASE UNCHANGED vars
    BY <1>5 DEF vars
  <1>6. QED
    BY <1>1, <1>2, <1>3, <1>4, <1>5 DEF Next, Advance

-----------------------------------------------------------------------------
LEMMA InitIInv == Init => IInv
  <1> SUFFICES ASSUME Init PROVE IInv
    OBVIOUS
  <1>1. TypeOK
    BY ResultsTyped, InvocationsAssumption, PoolAssumption DEF Init, TypeOK, Phases, Steps
  <1>2. CacheSound
    BY DEF Init, CacheSound
  <1>3. WorkSound
    BY DEF Init, WorkSound, FileSound
  <1>4. JoinSound
    BY DEF Init, JoinSound
  <1>5. QED
    BY <1>1, <1>2, <1>3, <1>4 DEF IInv

LEMMA Invariance == Spec => []IInv
  <1>1. IInv /\ [Next]_vars => IInv'
    BY TypeStep, CacheStep, WorkStep, JoinStep DEF IInv
  <1>2. QED
    BY InitIInv, <1>1, PTL DEF Spec

(* The variables of the command hold values of their types.                *)
THEOREM TypeCorrect == Spec => []TypeOK
  BY Invariance, PTL DEF IInv

(* Whatever the interleaving of processes, edits and kills, every cache    *)
(* entry answers a text with the digest it is filed under.                 *)
THEOREM CacheIsSound == Spec => []CacheSound
  BY Invariance, PTL DEF IInv

(* The report of a process that exits answers exactly the texts its        *)
(* workers read.                                                           *)
THEOREM ReportIsSound == Spec => []ReportAnswersTextsRead
  <1>1. IInv => ReportAnswersTextsRead
    BY TextsAssumption
       DEF IInv, TypeOK, WorkSound, FileSound, JoinSound, Collected, ReportAnswersTextsRead
  <1>2. QED
    BY Invariance, <1>1, PTL

-----------------------------------------------------------------------------
(* Without a cache: nothing is held, so nothing can be answered from it.   *)
Afresh(p, f) ==
  \/ result[p][f] = analyze_single_file(args[p].settings, text[p][f])
  \/ args[p].limited /\ result[p][f] = TimedOutResult

FreshSound ==
  \A p \in Procs : args[p].no_cache =>
    /\ entries[p] = {}
    /\ \A f \in Files : step[p][f] \in {"storing", "finished"} /\ text[p][f] \in Contents
                          => Afresh(p, f)

LEMMA FreshStep == IInv /\ FreshSound /\ [Next]_vars => FreshSound'
  <1> SUFFICES ASSUME IInv, FreshSound, [Next]_vars, NEW q \in Procs, args'[q].no_cache
               PROVE /\ entries'[q] = {}
                     /\ \A f \in Files : step'[q][f] \in {"storing", "finished"}
                                         /\ text'[q][f] \in Contents => Afresh(q, f)'
    BY DEF FreshSound
  <1> DEFINE Goal == /\ entries'[q] = {}
                     /\ \A f \in Files : step'[q][f] \in {"storing", "finished"}
                                         /\ text'[q][f] \in Contents => Afresh(q, f)'
  <1>0. TypeOK
    BY DEF IInv
  <1> USE <1>0 DEF TypeOK, FreshSound, Afresh
  <1>1. ASSUME NEW p \in Procs, NEW a \in Invocations, Start(p, a) PROVE Goal
    BY <1>1 DEF Start, opened
  <1>2. ASSUME NEW p \in Procs, NEW f \in Files, ReadFile(p, f) PROVE Goal
    BY <1>2, TextsAssumption DEF ReadFile
  <1>3. ASSUME NEW p \in Procs, NEW f \in Files, CacheHit(p, f) PROVE Goal
    BY <1>3 DEF CacheHit, lookup
  <1>4. ASSUME NEW p \in Procs, NEW f \in Files, CacheMiss(p, f) PROVE Goal
    BY <1>4 DEF CacheMiss
  <1>5. ASSUME NEW p \in Procs, NEW f \in Files, AnalysisReturns(p, f) PROVE Goal
    BY <1>5 DEF AnalysisReturns
  <1>6. ASSUME NEW p \in Procs, NEW f \in Files, AnalysisTimesOut(p, f) PROVE Goal
    BY <1>6 DEF AnalysisTimesOut, mayGiveUp
  <1>7. ASSUME NEW p \in Procs, NEW f \in Files, StoreResult(p, f) PROVE Goal
    BY <1>7 DEF StoreResult
  <1>8. ASSUME UNCHANGED <<args, entries, step, text, result>> PROVE Goal
    BY <1>8
  <1>9. QED
    <2>1. CASE \E p \in Procs, f \in Files : FileStep(p, f)
      BY <1>2, <1>3, <1>4, <1>5, <1>6, <1>7, <1>8, <2>1 DEF FileStep, AnalysisPanics
    <2>2. CASE \E p \in Procs : \/ SkipSave(p) \/ SaveOpen(p) \/ SaveWrite(p)
                                \/ Notify(p) \/ Exit(p) \/ Kill(p)
      BY <1>8, <2>2 DEF SkipSave, SaveOpen, SaveWrite, Notify, Exit, Kill
    <2>3. CASE \E f \in Files, c \in Contents \cup {Gone, Unreadable} : Edit(f, c)
      BY <1>8, <2>3 DEF Edit
    <2>4. CASE UNCHANGED vars
      BY <1>8, <2>4 DEF vars
    <2>5. QED
      BY <1>1, <2>1, <2>2, <2>3, <2>4 DEF Next, Advance

(* A --no-cache report is made of the process's own settings and texts.    *)
THEOREM NoCacheIsFresh == Spec => []NoCacheScansAfresh
  <1>1. Init => FreshSound
    BY DEF Init, FreshSound
  <1>2. IInv /\ FreshSound => NoCacheScansAfresh
    BY TextsAssumption
       DEF IInv, TypeOK, WorkSound, FileSound, JoinSound, Collected, FreshSound, Afresh,
           NoCacheScansAfresh
  <1>3. QED
    BY Invariance, FreshStep, <1>1, <1>2, PTL DEF Spec

-----------------------------------------------------------------------------
(* No severity of a report the gate lets through reaches the threshold,    *)
(* whatever numbers the order gives to the severities.                     *)
LEMMA GateCompares ==
  ASSUME NEW S \in SUBSET Severities, NEW a \in Args, a.exit_code,
         ~should_exit_with_1(a, S), NEW s \in S
  PROVE  Rank[s] < Rank[a.min_severity]
  <1>1. \A t \in Severities : Rank[t] \in 0..3
    BY DEF Severities, Rank
  <1>2. \E m \in S : \A t \in S : Rank[t] <= Rank[m]
    <2> DEFINE Top(n) == {t \in S : Rank[t] >= n}
    <2>1. s \in Top(0)
      BY <1>1 DEF Top
    <2>2. CASE Top(3) # {}
      BY <1>1, <2>2 DEF Top
    <2>3. CASE Top(3) = {} /\ Top(2) # {}
      BY <1>1, <2>3 DEF Top
    <2>4. CASE Top(2) = {} /\ Top(1) # {}
      BY <1>1, <2>4 DEF Top
    <2>5. CASE Top(1) = {}
      BY <1>1, <2>1, <2>5 DEF Top
    <2>6. Top(3) \subseteq Top(2)
      BY <1>1 DEF Top
    <2>7. QED
      BY <2>2, <2>3, <2>4, <2>5, <2>6
  <1>3. Highest(S) \in S /\ Rank[s] <= Rank[Highest(S)]
    BY <1>2 DEF Highest
  <1>4. ~(Rank[Highest(S)] >= Rank[a.min_severity])
    BY <1>3 DEF should_exit_with_1
  <1>5. a.min_severity \in Severities
    BY DEF Args
  <1>6. QED
    BY <1>1, <1>3, <1>4, <1>5

LEMMA WeightTyped == \A k \in FindingKinds : Weight[k] \subseteq Severities
  BY DEF FindingKinds, Weight, Severities

LEMMA ConsideredTyped == ASSUME TypeOK, NEW p \in Procs PROVE Considered(p) \in SUBSET Severities
  <1>1. ReportedKinds(p) \subseteq FindingKinds
    BY DEF ReportedKinds, Result, TypeOK
  <1>2. UNION {Weight[k] : k \in ReportedKinds(p)} \subseteq Severities
    BY <1>1, WeightTyped
  <1>3. "low" \in Severities
    BY DEF Severities
  <1>4. QED
    BY <1>2, <1>3 DEF Considered

(* The invariant of the exit code: it was chosen of the report as it is.   *)
Green(p) == phase[p] = "exited" /\ args[p].exit_code /\ exit[p] = 0
GateSound == \A p \in Procs : Green(p) => BelowThreshold(p, Considered(p))

LEMMA GateStep == TypeOK /\ GateSound /\ [Next]_vars => GateSound'
  <1> SUFFICES ASSUME TypeOK, GateSound, [Next]_vars, NEW q \in Procs, Green(q)'
               PROVE BelowThreshold(q, Considered(q))'
    BY DEF GateSound
  <1> DEFINE Goal == BelowThreshold(q, Considered(q))'
  <1>0. ASSUME UNCHANGED <<args, result>>, phase[q] = "exited", exit'[q] = exit[q] PROVE Goal
    BY <1>0 DEF GateSound, Green, BelowThreshold, Considered, ReportedKinds, timed_out_files
  <1>1. ASSUME NEW p \in Procs, Exit(p) PROVE Goal
    <2>1. CASE p # q
      BY <1>0, <1>1, <2>1 DEF Exit, Green, TypeOK
    <2>2. CASE p = q
      <3>1. UNCHANGED <<args, result>> /\ args[q] \in Args /\ args[q].exit_code
        BY <1>1, <2>2 DEF Exit, Green, TypeOK
      <3>2. ~should_exit_with_1(args[q], Considered(q))
        BY <1>1, <2>2 DEF Exit, Green, TypeOK
      <3>3. Considered(q) \in SUBSET Severities
        BY ConsideredTyped
      <3>4. \A s \in Considered(q) : Rank[s] < Rank[args[q].min_severity]
        BY <3>1, <3>2, <3>3, GateCompares
      <3>5. QED
        BY <3>1, <3>4 DEF BelowThreshold, Considered, ReportedKinds, timed_out_files
    <2>3. QED
      BY <2>1, <2>2
  <1>2. ASSUME NEW p \in Procs, NEW a \in Invocations, Start(p, a) PROVE Goal
    <2>1. CASE p = q
      BY <1>2, <2>1 DEF Start, Green, TypeOK
    <2>2. CASE p # q
      <3>1. /\ phase[q] = "exited" /\ exit[q] = exit'[q] /\ args[q] = args'[q]
            /\ result[q] = result'[q]
        BY <1>2, <2>2 DEF Start, Green, TypeOK
      <3>2. QED
        BY <3>1 DEF GateSound, Green, BelowThreshold, Considered, ReportedKinds, timed_out_files
    <2>3. QED
      BY <2>1, <2>2
  <1>3. ASSUME NEW p \in Procs, NEW f \in Files, FileStep(p, f) PROVE Goal
    <2>1. phase[p] = "scanning" /\ UNCHANGED <<args, exit>>
      BY <1>3 DEF FileStep, ReadFile, CacheHit, CacheMiss, AnalysisReturns,
         AnalysisTimesOut, AnalysisPanics, StoreResult, gateVars
    <2>2. phase'[p] # "exited"
      BY <1>3, <2>1 DEF FileStep, ReadFile, CacheHit, CacheMiss, AnalysisReturns,
         AnalysisTimesOut, AnalysisPanics, StoreResult, TypeOK
    <2>3. p # q /\ phase[q] = phase'[q]
      BY <1>3, <2>2 DEF FileStep, ReadFile, CacheHit, CacheMiss, AnalysisReturns,
         AnalysisTimesOut, AnalysisPanics, StoreResult, Green, TypeOK
    <2>4. result[q] = result'[q]
      BY <1>3, <2>3 DEF FileStep, ReadFile, CacheHit, CacheMiss, AnalysisReturns,
         AnalysisTimesOut, AnalysisPanics, StoreResult, TypeOK
    <2>5. QED
      BY <2>1, <2>3, <2>4
         DEF GateSound, Green, BelowThreshold, Considered, ReportedKinds, timed_out_files
  <1>4. ASSUME NEW p \in Procs, SkipSave(p) \/ SaveOpen(p) \/ SaveWrite(p) \/ Notify(p)
                                \/ Kill(p)
        PROVE Goal
    BY <1>0, <1>4 DEF SkipSave, SaveOpen, SaveWrite, Notify, Kill, gateVars, Green, TypeOK
  <1>5. ASSUME NEW f \in Files, NEW c \in Contents \cup {Gone, Unreadable}, Edit(f, c)
        PROVE Goal
    BY <1>0, <1>5 DEF Edit, gateVars, Green
  <1>6. CASE UNCHANGED vars
    BY <1>0, <1>6 DEF vars, Green
  <1>7. QED
    BY <1>1, <1>2, <1>3, <1>4, <1>5, <1>6 DEF Next, Advance

(* The gate's verdict is on the texts the workers read, for every order    *)
(* the ranks may express.                                                  *)
LEMMA GateOnTexts ==
  TypeOK /\ GateSound /\ ReportAnswersTextsRead /\ NoCacheScansAfresh => GreenGateClearsTexts
  <1> SUFFICES ASSUME TypeOK, GateSound, ReportAnswersTextsRead, NoCacheScansAfresh,
                      NEW p \in Procs, NEW f \in Files, Green(p), text[p][f] \in Contents
               PROVE IF result[p][f].timed_out
                     THEN BelowThreshold(p, {"low"})
                     ELSE \E s \in Settings :
                            /\ args[p].no_cache => s = args[p].settings
                            /\ BelowThreshold(p, Weighs(Analyse[s][text[p][f]]))
    BY DEF GreenGateClearsTexts, Green
  <1>1. BelowThreshold(p, Considered(p))
    BY DEF GateSound
  <1>2. CASE result[p][f].timed_out
    <2>1. "low" \in Considered(p)
      BY <1>2 DEF Considered, timed_out_files
    <2>2. QED
      BY <1>1, <1>2, <2>1 DEF BelowThreshold
  <1>3. CASE ~result[p][f].timed_out
    <2>1. PICK s \in Settings : /\ result[p][f] = analyze_single_file(s, text[p][f])
                                /\ args[p].no_cache => s = args[p].settings
      <3>1. args[p].settings \in Settings
        BY DEF TypeOK, Args
      <3>2. result[p][f] # TimedOutResult
        BY <1>3 DEF TimedOutResult
      <3>3. \E s \in Settings : result[p][f] = analyze_single_file(s, text[p][f])
        BY <3>2 DEF ReportAnswersTextsRead, Answers, Green
      <3>4. args[p].no_cache => result[p][f] = analyze_single_file(args[p].settings, text[p][f])
        BY <3>2 DEF NoCacheScansAfresh, Green
      <3>5. QED
        BY <3>1, <3>3, <3>4
    <2>2. Weighs(Analyse[s][text[p][f]]) \subseteq Considered(p)
      <3>1. Analyse[s][text[p][f]] = result[p][f].findings
        BY <2>1 DEF analyze_single_file
      <3>2. result[p][f].findings \subseteq ReportedKinds(p)
        BY DEF ReportedKinds
      <3>3. QED
        BY <3>1, <3>2 DEF Weighs, Considered
    <2>3. BelowThreshold(p, Weighs(Analyse[s][text[p][f]]))
      BY <1>1, <2>2 DEF BelowThreshold
    <2>4. QED
      BY <1>3, <2>1, <2>3
  <1>4. QED
    BY <1>2, <1>3

(* With --exit-code, a process that exits with 0 has read no text whose    *)
(* findings, and given up no analysis whose "low", reach --min-severity.   *)
THEOREM GreenGateIsClear == Spec => []GreenGateClearsTexts
  <1>1. Init => GateSound
    BY DEF Init, GateSound, Green
  <1>2. QED
    BY TypeCorrect, ReportIsSound, NoCacheIsFresh, GateStep, GateOnTexts, <1>1, PTL DEF Spec

(* ---- patches: lines and offsets ---- *)
\* Lines start at different places, one for every number of a line.
LEMMA StartsFinite ==
  ASSUME NEW S, NEW source \in Seq(S)
  PROVE  LineStarts(source) \in SUBSET (1..(Len(source) + 1)) /\ IsFiniteSet(LineStarts(source))
<1>1. LineStarts(source) \in SUBSET (1..(Len(source) + 1))
  BY DEF LineStarts
<1>2. IsFiniteSet(1..(Len(source) + 1))
  BY FS_Interval
<1> QED
  BY <1>1, <1>2, FS_Subset

LEMMA StartOfLine ==
  ASSUME NEW S, NEW source \in Seq(S), NEW line \in 1..Cardinality(LineStarts(source))
  PROVE  /\ LineStart(source, line) \in LineStarts(source)
         /\ Cardinality({j \in LineStarts(source) : j < LineStart(source, line)}) = line - 1
<1>1. PICK A : A = LineStarts(source) /\ IsFiniteSet(A) /\ A \in SUBSET Int
  BY StartsFinite
<1>2. Cardinality(A) \in Nat
  BY <1>1, FS_CardinalityType
<1>3. line - 1 \in 0..(Cardinality(A) - 1)
  BY <1>1, <1>2
<1>4. Ordered(A, Below(A)) /\ \A i \in A : RankIn(A, Below(A), i) = Cardinality({j \in A : j < i})
  BY <1>1, NumbersOrdered
<1>5. \E i \in A : RankIn(A, Below(A), i) = line - 1
  BY <1>1, <1>3, <1>4, RankReached
<1>6. \E i \in A : Cardinality({j \in A : j < i}) = line - 1
  BY <1>4, <1>5
<1> QED
  BY <1>1, <1>6 DEF LineStart

LEMMA StartUnique ==
  ASSUME NEW S, NEW source \in Seq(S), NEW line \in Nat, NEW i \in LineStarts(source),
         Cardinality({j \in LineStarts(source) : j < i}) = line - 1
  PROVE  LineStart(source, line) = i /\ line \in 1..Cardinality(LineStarts(source))
<1>1. PICK A : A = LineStarts(source) /\ IsFiniteSet(A) /\ A \in SUBSET Int
  BY StartsFinite
<1>2. Ordered(A, Below(A)) /\ \A k \in A : RankIn(A, Below(A), k) = Cardinality({j \in A : j < k})
  BY <1>1, NumbersOrdered
<1>3. ASSUME NEW k \in A, Cardinality({j \in A : j < k}) = line - 1 PROVE k = i
  <2>1. RankIn(A, Below(A), k) = RankIn(A, Below(A), i) /\ RankIn(A, Below(A), i) = line - 1
    BY <1>1, <1>2, <1>3
  <2>2. <<k, i>> \in Below(A) => RankIn(A, Below(A), k) < RankIn(A, Below(A), i)
    BY <1>1, <1>2, RankGrows
  <2>3. <<i, k>> \in Below(A) => RankIn(A, Below(A), i) < RankIn(A, Below(A), k)
    BY <1>1, <1>2, RankGrows
  <2>4. <<k, i>> \notin Below(A) /\ <<i, k>> \notin Below(A)
    BY <2>1, <2>2, <2>3
  <2> QED
    BY <1>1, <1>2, <2>4 DEF Ordered
<1>4. RankIn(A, Below(A), i) \in 0..(Cardinality(A) - 1) /\ Cardinality(A) \in Nat
  BY <1>1, <1>2, RankTyped, FS_CardinalityType
<1>5. line \in 1..Cardinality(A)
  BY <1>1, <1>2, <1>4
<1> QED
  BY <1>1, <1>3, <1>5 DEF LineStart

\* A cut through the first part of two leaves the second part whole.
KeptUpTo(s, e, R, w) == w = SubSeq(s, 1, e) \o R
CutAt(S, s, e, R, w, m) == /\ w \in Seq(S) /\ Len(w) = e + Len(R) /\ \A i \in 1..e : w[i] = s[i]
                           /\ SubSeq(w, 1, m - 1) = SubSeq(s, 1, m - 1)
                           /\ SubSeq(w, m, Len(w)) = SubSeq(s, m, e) \o R

LEMMA CutOfJoin ==
  ASSUME NEW S, NEW s \in Seq(S), NEW R \in Seq(S), NEW e \in 0..Len(s), NEW w, KeptUpTo(s, e, R, w),
         NEW m \in 1..(e + 1)
  PROVE  CutAt(S, s, e, R, w, m)
<1>1. Len(s) \in Nat /\ Len(R) \in Nat /\ e \in Nat /\ m \in Nat /\ e <= Len(s) /\ m <= e + 1 /\ m >= 1
  OBVIOUS
<1>2. PICK h : h = SubSeq(s, 1, e)
  OBVIOUS
<1>3. h \in Seq(S) /\ Len(h) = e /\ \A i \in 1..e : h[i] = s[i]
  <2>1. 1 \in 1..(Len(s) + 1) /\ e \in (1 - 1)..Len(s) /\ e - 1 + 1 = e
    BY <1>1
  <2>2. h \in Seq(S) /\ Len(h) = e - 1 + 1 /\ \A i \in 1..(e - 1 + 1) : h[i] = s[1 + i - 1]
    BY <1>2, <2>1, CutIs
  <2> QED
    BY <1>1, <2>1, <2>2
<1>4. /\ w \in Seq(S) /\ Len(w) = e + Len(R) /\ (\A i \in 1..e : w[i] = h[i])
      /\ \A i \in 1..Len(R) : w[e + i] = R[i]
  <2>1. w = h \o R
    BY <1>2 DEF KeptUpTo
  <2>2. h \in Seq(S) /\ R \in Seq(S)
    BY <1>3
  <2>3. /\ w \in Seq(S) /\ Len(w) = Len(h) + Len(R) /\ (\A i \in 1..Len(h) : w[i] = h[i])
        /\ \A i \in 1..Len(R) : w[Len(h) + i] = R[i]
    BY <2>1, <2>2, JoinIs
  <2>4. Len(h) = e
    BY <1>3
  <2> QED
    BY <2>3, <2>4
<1>5. SubSeq(w, 1, m - 1) = SubSeq(s, 1, m - 1)
  <2>1. PICK x, y : x = SubSeq(w, 1, m - 1) /\ y = SubSeq(s, 1, m - 1)
    OBVIOUS
  <2>2. x \in Seq(S) /\ Len(x) = m - 1 /\ \A i \in 1..(m - 1) : x[i] = w[i]
    <3>1. 1 \in 1..(Len(w) + 1) /\ m - 1 \in (1 - 1)..Len(w) /\ (m - 1) - 1 + 1 = m - 1
      BY <1>1, <1>4
    <3>2. x \in Seq(S) /\ Len(x) = (m - 1) - 1 + 1 /\ \A i \in 1..((m - 1) - 1 + 1) : x[i] = w[1 + i - 1]
      BY <1>4, <2>1, <3>1, CutIs
    <3> QED
      BY <1>1, <3>1, <3>2
  <2>3. y \in Seq(S) /\ Len(y) = m - 1 /\ \A i \in 1..(m - 1) : y[i] = s[i]
    <3>1. 1 \in 1..(Len(s) + 1) /\ m - 1 \in (1 - 1)..Len(s) /\ (m - 1) - 1 + 1 = m - 1
      BY <1>1
    <3>2. y \in Seq(S) /\ Len(y) = (m - 1) - 1 + 1 /\ \A i \in 1..((m - 1) - 1 + 1) : y[i] = s[1 + i - 1]
      BY <2>1, <3>1, CutIs
    <3> QED
      BY <1>1, <3>1, <3>2
  <2>4. \A i \in 1..(m - 1) : x[i] = y[i]
    BY <1>1, <1>3, <1>4, <2>2, <2>3
  <2>5. x = y
    BY <2>2, <2>3, <2>4, SeqEqual
  <2> QED
    BY <2>1, <2>5
<1>6. SubSeq(w, m, Len(w)) = SubSeq(s, m, e) \o R
  <2>1. PICK x, v, y : x = SubSeq(w, m, Len(w)) /\ v = SubSeq(s, m, e) /\ y = v \o R
    OBVIOUS
  <2>2. x \in Seq(S) /\ Len(x) = Len(w) - m + 1 /\ \A i \in 1..(Len(w) - m + 1) : x[i] = w[m + i - 1]
    <3>1. m \in 1..(Len(w) + 1) /\ Len(w) \in (m - 1)..Len(w)
      BY <1>1, <1>4
    <3> QED
      BY <1>4, <2>1, <3>1, CutIs
  <2>3. v \in Seq(S) /\ Len(v) = e - m + 1 /\ \A i \in 1..(e - m + 1) : v[i] = s[m + i - 1]
    <3>1. m \in 1..(Len(s) + 1) /\ e \in (m - 1)..Len(s)
      BY <1>1
    <3> QED
      BY <2>1, <3>1, CutIs
  <2>4. /\ y \in Seq(S) /\ Len(y) = Len(v) + Len(R)
        /\ (\A i \in 1..Len(v) : y[i] = v[i]) /\ \A i \in 1..Len(R) : y[Len(v) + i] = R[i]
    <3>1. v \in Seq(S) /\ y = v \o R
      BY <2>1, <2>3
    <3> QED
      BY <3>1, JoinIs
  <2>5. Len(x) = Len(y) /\ Len(x) = e + Len(R) - m + 1
    BY <1>1, <1>4, <2>2, <2>3, <2>4
  <2>6. ASSUME NEW i \in 1..Len(x) PROVE x[i] = y[i]
    <3>1. i \in Nat /\ i >= 1 /\ i <= e + Len(R) - m + 1
      BY <1>1, <2>5
    <3>2. x[i] = w[m + i - 1]
      BY <2>2
    <3>3. CASE i <= e - m + 1
      <4>1. i \in 1..(e - m + 1) /\ m + i - 1 \in 1..e
        BY <1>1, <3>1, <3>3
      <4>2. y[i] = s[m + i - 1]
        BY <2>3, <2>4, <4>1
      <4>3. w[m + i - 1] = s[m + i - 1]
        BY <1>3, <1>4, <4>1
      <4> QED
        BY <3>2, <4>2, <4>3
    <3>4. CASE i > e - m + 1
      <4>1. PICK k : k = i - (e - m + 1)
        OBVIOUS
      <4>2. k \in 1..Len(R) /\ m + i - 1 = e + k /\ i = Len(v) + k
        <5>1. Len(v) = e - m + 1
          BY <2>3
        <5>2. k \in 1..Len(R) /\ m + i - 1 = e + k /\ i = (e - m + 1) + k
          BY <1>1, <3>1, <3>4, <4>1
        <5> QED
          BY <5>1, <5>2
      <4> QED
        BY <1>4, <2>4, <3>2, <4>2
    <3> QED
      BY <1>1, <3>1, <3>3, <3>4
  <2>7. x = y
    BY <2>2, <2>4, <2>5, <2>6, SeqEqual
  <2> QED
    BY <2>1, <2>7
<1> QED
  BY <1>3, <1>4, <1>5, <1>6, Zenon DEF CutAt

\* A position of a text, and what a later position is.
LEMMA OffsetIs ==
  ASSUME NEW S, NEW source \in Seq(S), NEW line \in Nat, NEW col \in Nat, HasOffset(source, line, col)
  PROVE  \E s \in LineStarts(source) :
           /\ s = LineStart(source, line) /\ s \in 1..(Len(source) + 1)
           /\ line \in 1..Cardinality(LineStarts(source))
           /\ Cardinality({j \in LineStarts(source) : j < s}) = line - 1
           /\ Offset(source, line, col) = s + col /\ s + col \in 1..(Len(source) + 1)
           /\ \A i \in s..(s + col - 1) : source[i] # Newline
<1>1. line \in 1..Cardinality(LineStarts(source)) /\ LineStart(source, line) + col - 1 <= Len(source)
      /\ \A i \in LineStart(source, line)..(LineStart(source, line) + col - 1) : source[i] # Newline
  BY DEF HasOffset
<1>2. PICK s : s = LineStart(source, line)
  OBVIOUS
<1>3. s \in LineStarts(source) /\ Cardinality({j \in LineStarts(source) : j < s}) = line - 1
  BY <1>1, <1>2, StartOfLine
<1>4. s \in 1..(Len(source) + 1) /\ Len(source) \in Nat
  BY <1>3, StartsFinite
<1>5. s + col \in 1..(Len(source) + 1)
  BY <1>1, <1>2, <1>4
<1> QED
  BY <1>1, <1>2, <1>3, <1>4, <1>5 DEF Offset

LEMMA OffsetInText ==
  ASSUME NEW S, NEW source \in Seq(S), NEW line \in Nat, NEW col \in Nat, HasOffset(source, line, col)
  PROVE  Offset(source, line, col) \in 1..(Len(source) + 1)
<1>1. PICK s \in LineStarts(source) : Offset(source, line, col) = s + col /\ s + col \in 1..(Len(source) + 1)
  BY OffsetIs
<1> QED
  BY <1>1

LEMMA OffsetsGrow ==
  ASSUME NEW S, NEW source \in Seq(S), NEW l \in Nat, NEW c \in Nat, NEW m \in Nat, NEW d \in Nat,
         HasOffset(source, l, c), HasOffset(source, m, d), l < m \/ (l = m /\ c < d)
  PROVE  Offset(source, l, c) < Offset(source, m, d)
<1>1. PICK s \in LineStarts(source) :
           /\ s = LineStart(source, l) /\ s \in 1..(Len(source) + 1)
           /\ l \in 1..Cardinality(LineStarts(source))
           /\ Cardinality({j \in LineStarts(source) : j < s}) = l - 1
           /\ Offset(source, l, c) = s + c /\ s + c \in 1..(Len(source) + 1)
           /\ \A i \in s..(s + c - 1) : source[i] # Newline
  BY OffsetIs
<1>2. PICK t \in LineStarts(source) :
           /\ t = LineStart(source, m) /\ t \in 1..(Len(source) + 1)
           /\ m \in 1..Cardinality(LineStarts(source))
           /\ Cardinality({j \in LineStarts(source) : j < t}) = m - 1
           /\ Offset(source, m, d) = t + d /\ t + d \in 1..(Len(source) + 1)
           /\ \A i \in t..(t + d - 1) : source[i] # Newline
  BY OffsetIs
<1>2a. PICK x \in Nat, y \in Nat, p \in Nat, q \in Nat :
          /\ x = s /\ y = t /\ p = Offset(source, l, c) /\ q = Offset(source, m, d)
          /\ p = x + c /\ q = y + d
  <2>1. s \in Nat
    BY <1>1
  <2>2. t \in Nat
    BY <1>2
  <2>3. Offset(source, l, c) = s + c
    BY <1>1
  <2>4. Offset(source, m, d) = t + d
    BY <1>2
  <2> QED
    BY <2>1, <2>2, <2>3, <2>4
<1>3. CASE l = m
  <2>1. x = y
    <3>1. s = LineStart(source, l)
      BY <1>1
    <3>2. t = LineStart(source, m)
      BY <1>2
    <3> QED
      BY <1>2a, <1>3, <3>1, <3>2
  <2>2. c < d
    BY <1>3
  <2>3. p < q
    BY <1>2a, <2>1, <2>2
  <2> QED
    BY <1>2a, <2>3
<1>4. CASE l < m
  <2>1. PICK A, B, C : /\ A = LineStarts(source) /\ B = {j \in A : j < s} /\ C = {j \in A : j < t}
                       /\ IsFiniteSet(A) /\ A \in SUBSET (1..(Len(source) + 1))
    BY StartsFinite
  <2>2. s < t
    <3>1. Cardinality(B) = l - 1 /\ Cardinality(C) = m - 1
      BY <1>1, <1>2, <2>1
    <3>2. ASSUME t <= s PROVE FALSE
      <4>1. C \in SUBSET B /\ IsFiniteSet(B)
        <5>1. B \in SUBSET A
          BY <2>1
        <5>2. C \in SUBSET B
          BY <1>1, <1>2, <2>1, <3>2
        <5> QED
          BY <2>1, <5>1, <5>2, FS_Subset
      <4>2. Cardinality(C) <= Cardinality(B)
        BY <4>1, FS_Subset
      <4> QED
        BY <1>4, <3>1, <4>2
    <3> QED
      BY <1>1, <1>2, <3>2
  <2>3. t - 1 \in 1..Len(source) /\ source[t - 1] = Newline
    <3>1. t # 1
      BY <1>1, <1>2, <2>2
    <3>2. PICK j \in DOMAIN source : source[j] = Newline /\ t = j + 1
      BY <1>2, <3>1 DEF LineStarts
    <3>3. j \in Nat /\ t - 1 = j /\ j \in 1..Len(source)
      BY <3>2
    <3> QED
      BY <3>2, <3>3
  <2>4. ~(t - 1 \in s..(s + c - 1))
    BY <1>1, <2>3
  <2>5. x + c < y
    <3>1. x < y
      BY <1>2a, <2>2
    <3>2. ~(y - 1 \in x..(x + c - 1))
      BY <1>2a, <2>4
    <3>3. x <= y - 1
      BY <3>1
    <3>4. x + c - 1 < y - 1
      BY <3>2, <3>3
    <3> QED
      BY <3>4
  <2>6. p < q
    BY <1>2a, <2>5
  <2> QED
    BY <1>2a, <2>6
<1> QED
  BY <1>3, <1>4

LEMMA StartMeans ==
  ASSUME NEW S, NEW source \in Seq(S), NEW e \in 0..Len(source), NEW i \in 1..(e + 1)
  PROVE  i \in LineStarts(source) <=> i = 1 \/ (i - 1 \in 1..e /\ source[i - 1] = Newline)
<1>1. DOMAIN source = 1..Len(source) /\ Len(source) \in Nat /\ e \in Nat /\ e <= Len(source)
  OBVIOUS
<1>2. ASSUME NEW j \in DOMAIN source, source[j] = Newline, i = j + 1 PROVE i - 1 \in 1..e /\ source[i - 1] = Newline
  <2>1. j \in Nat /\ j >= 1 /\ i - 1 = j
    BY <1>1, <1>2
  <2> QED
    BY <1>1, <1>2, <2>1
<1>3. ASSUME i - 1 \in 1..e, source[i - 1] = Newline
      PROVE  \E j \in {k \in DOMAIN source : source[k] = Newline} : i = j + 1
  <2>1. PICK j : j = i - 1
    OBVIOUS
  <2>2. j \in DOMAIN source /\ source[j] = Newline /\ i = j + 1
    BY <1>1, <1>3, <2>1
  <2> QED
    BY <2>2
<1>4. i \in LineStarts(source) <=> i = 1 \/ \E j \in {k \in DOMAIN source : source[k] = Newline} : i = j + 1
  BY DEF LineStarts
<1> QED
  BY <1>2, <1>3, <1>4

\* Offsets up to the first place changed stay as they were.
LEMMA OffsetsKept ==
  ASSUME NEW S, NEW source \in Seq(S), NEW e \in 0..Len(source), NEW R \in Seq(S),
         NEW w, KeptUpTo(source, e, R, w),
         NEW l \in Nat, NEW c \in Nat, HasOffset(source, l, c), Offset(source, l, c) <= e + 1
  PROVE  HasOffset(w, l, c) /\ Offset(w, l, c) = Offset(source, l, c)
<1>1. PICK s \in LineStarts(source) :
           /\ s = LineStart(source, l) /\ s \in 1..(Len(source) + 1)
           /\ l \in 1..Cardinality(LineStarts(source))
           /\ Cardinality({j \in LineStarts(source) : j < s}) = l - 1
           /\ Offset(source, l, c) = s + c /\ s + c \in 1..(Len(source) + 1)
           /\ \A i \in s..(s + c - 1) : source[i] # Newline
  BY OffsetIs
<1>2. w \in Seq(S) /\ Len(w) \in Nat /\ Len(w) >= e /\ \A i \in 1..e : w[i] = source[i]
  <2>1. 1 \in 1..(e + 1) /\ e \in Nat /\ Len(R) \in Nat
    OBVIOUS
  <2>2. w \in Seq(S) /\ Len(w) = e + Len(R) /\ \A i \in 1..e : w[i] = source[i]
    <3>1. CutAt(S, source, e, R, w, 1)
      BY <2>1, CutOfJoin
    <3> QED
      BY <3>1, Zenon DEF CutAt
  <2> QED
    BY <2>1, <2>2
<1>3. s + c <= e + 1 /\ s <= e + 1
  BY <1>1
<1>4. \A i \in 1..(e + 1) : i \in LineStarts(source) <=> i \in LineStarts(w)
  <2>1. ASSUME NEW i \in 1..(e + 1) PROVE i \in LineStarts(source) <=> i = 1 \/ (i - 1 \in 1..e /\ source[i - 1] = Newline)
    BY StartMeans
  <2>2. ASSUME NEW i \in 1..(e + 1) PROVE i \in LineStarts(w) <=> i = 1 \/ (i - 1 \in 1..e /\ w[i - 1] = Newline)
    <3>1. e \in 0..Len(w)
      BY <1>2
    <3> QED
      BY <1>2, <3>1, StartMeans
  <2> QED
    BY <1>2, <2>1, <2>2
<1>5. s \in LineStarts(w) /\ {j \in LineStarts(w) : j < s} = {j \in LineStarts(source) : j < s}
  <2>1. LineStarts(w) \in SUBSET (1..(Len(w) + 1)) /\ LineStarts(source) \in SUBSET (1..(Len(source) + 1))
    BY <1>2, StartsFinite
  <2>2. \A j : j \in LineStarts(w) /\ j < s <=> j \in LineStarts(source) /\ j < s
    BY <1>1, <1>2, <1>3, <1>4, <2>1
  <2> QED
    BY <1>1, <1>3, <1>4, <2>2
<1>6. LineStart(w, l) = s /\ l \in 1..Cardinality(LineStarts(w))
  <2>1. Cardinality({j \in LineStarts(w) : j < s}) = l - 1
    BY <1>1, <1>5
  <2> QED
    BY <1>2, <1>5, <2>1, StartUnique
<1>7. s + c - 1 <= Len(w) /\ \A i \in s..(s + c - 1) : w[i] # Newline
  <2>1. s + c - 1 <= Len(w)
    BY <1>1, <1>2, <1>3
  <2>2. ASSUME NEW i \in s..(s + c - 1) PROVE w[i] # Newline
    <3>1. i \in 1..e
      BY <1>1, <1>3
    <3> QED
      BY <1>1, <1>2, <3>1
  <2> QED
    BY <2>1, <2>2
<1> QED
  BY <1>1, <1>6, <1>7 DEF HasOffset, Offset

PatchType == [startLine : Nat, startCol : Nat, endLine : Nat, endCol : Nat, text : Seq(STRING)]

LEMMA ValidIs ==
  ASSUME NEW p \in PatchType, Valid(p)
  PROVE  /\ SourceText \in Seq(STRING) /\ Len(SourceText) \in Nat
         /\ From(p) \in 1..(Len(SourceText) + 1) /\ Upto(p) \in 1..(Len(SourceText) + 1)
         /\ From(p) <= Upto(p)
<1>1. SourceText \in Seq(STRING) /\ Len(SourceText) \in Nat
  BY SourceAssumption
<1>2. HasOffset(SourceText, p.startLine, p.startCol) /\ p.startLine \in Nat /\ p.startCol \in Nat
  BY DEF Valid, PatchType
<1>3. HasOffset(SourceText, p.endLine, p.endCol) /\ p.endLine \in Nat /\ p.endCol \in Nat
  BY DEF Valid, PatchType
<1>4. From(p) \in 1..(Len(SourceText) + 1)
  <2>1. Offset(SourceText, p.startLine, p.startCol) \in 1..(Len(SourceText) + 1)
    BY <1>1, <1>2, OffsetInText
  <2> QED
    BY <2>1 DEF From
<1>5. Upto(p) \in 1..(Len(SourceText) + 1)
  <2>1. Offset(SourceText, p.endLine, p.endCol) \in 1..(Len(SourceText) + 1)
    BY <1>1, <1>3, OffsetInText
  <2> QED
    BY <2>1 DEF Upto
<1> QED
  BY <1>1, <1>4, <1>5 DEF Valid

LEMMA AppliedOnce ==
  ASSUME NEW p \in PatchType, Valid(p), NEW e \in 0..Len(SourceText), Upto(p) <= e + 1,
         NEW R \in Seq(STRING), NEW w, KeptUpTo(SourceText, e, R, w)
  PROVE  ApplyOne(w, p) = SubSeq(SourceText, 1, From(p) - 1)
                            \o (p.text \o (SubSeq(SourceText, Upto(p), e) \o R))
<1>1. PICK C, T, n, a, b, t : /\ C = STRING /\ T = SourceText /\ n = Len(T) /\ a = From(p) /\ b = Upto(p)
                              /\ t = p.text /\ T \in Seq(C) /\ n \in Nat /\ t \in Seq(C) /\ R \in Seq(C)
                              /\ a \in 1..(n + 1) /\ b \in 1..(n + 1) /\ a <= b /\ b <= e + 1
  <2>1. p.text \in Seq(STRING)
    BY DEF PatchType
  <2> QED
    BY <2>1, ValidIs
<1>2. e \in 0..Len(T) /\ KeptUpTo(T, e, R, w) /\ a \in 1..(e + 1) /\ b \in 1..(e + 1)
  BY <1>1 DEF KeptUpTo
<1>3. HasOffset(w, p.startLine, p.startCol) /\ Offset(w, p.startLine, p.startCol) = a
  <2>1. HasOffset(T, p.startLine, p.startCol) /\ Offset(T, p.startLine, p.startCol) = a
    BY <1>1 DEF Valid, From
  <2>2. p.startLine \in Nat /\ p.startCol \in Nat
    BY DEF PatchType
  <2>3. Offset(T, p.startLine, p.startCol) <= e + 1
    BY <1>1, <1>2, <2>1
  <2> QED
    <3>1. T \in Seq(C) /\ R \in Seq(C) /\ e \in 0..Len(T) /\ KeptUpTo(T, e, R, w)
      BY <1>1, <1>2
    <3>2. HasOffset(w, p.startLine, p.startCol) /\ Offset(w, p.startLine, p.startCol) = Offset(T, p.startLine, p.startCol)
      BY <2>1, <2>2, <2>3, <3>1, OffsetsKept, Zenon
    <3> QED
      BY <2>1, <3>2
<1>4. HasOffset(w, p.endLine, p.endCol) /\ Offset(w, p.endLine, p.endCol) = b
  <2>1. HasOffset(T, p.endLine, p.endCol) /\ Offset(T, p.endLine, p.endCol) = b
    BY <1>1 DEF Valid, Upto
  <2>2. p.endLine \in Nat /\ p.endCol \in Nat
    BY DEF PatchType
  <2>3. Offset(T, p.endLine, p.endCol) <= e + 1
    BY <1>1, <1>2, <2>1
  <2> QED
    <3>1. T \in Seq(C) /\ R \in Seq(C) /\ e \in 0..Len(T) /\ KeptUpTo(T, e, R, w)
      BY <1>1, <1>2
    <3>2. HasOffset(w, p.endLine, p.endCol) /\ Offset(w, p.endLine, p.endCol) = Offset(T, p.endLine, p.endCol)
      BY <2>1, <2>2, <2>3, <3>1, OffsetsKept, Zenon
    <3> QED
      BY <2>1, <3>2
<1>5. ApplyOne(w, p) = (SubSeq(w, 1, a - 1) \o t) \o SubSeq(w, b, Len(w))
  BY <1>1, <1>3, <1>4 DEF ApplyOne
<1>6. PICK u, v : u = SubSeq(T, 1, a - 1) /\ v = SubSeq(T, b, e)
  OBVIOUS
<1>6a. T \in Seq(C) /\ R \in Seq(C)
  BY <1>1
<1>7. SubSeq(w, 1, a - 1) = u
  <2>1. SubSeq(w, 1, a - 1) = SubSeq(T, 1, a - 1)
    <3>1. CutAt(C, T, e, R, w, a)
      BY <1>2, <1>6a, CutOfJoin
    <3> QED
      BY <3>1, Zenon DEF CutAt
  <2> QED
    BY <1>6, <2>1
<1>8. SubSeq(w, b, Len(w)) = v \o R
  <2>1. SubSeq(w, b, Len(w)) = SubSeq(T, b, e) \o R
    <3>1. CutAt(C, T, e, R, w, b)
      BY <1>2, <1>6a, CutOfJoin
    <3> QED
      BY <3>1, Zenon DEF CutAt
  <2> QED
    BY <1>6, <2>1, Zenon
<1>9. u \in Seq(C)
  <2>1. 1 \in 1..(Len(T) + 1) /\ a - 1 \in (1 - 1)..Len(T)
    BY <1>1
  <2> QED
    BY <1>1, <1>6, <2>1, CutIs
<1>10. v \o R \in Seq(C)
  <2>1. b \in 1..(Len(T) + 1) /\ e \in (b - 1)..Len(T)
    BY <1>1, <1>2
  <2>2. v \in Seq(C)
    BY <1>1, <1>6, <2>1, CutIs
  <2> QED
    BY <1>1, <2>2, ConcatProperties
<1>11. (u \o t) \o (v \o R) = u \o (t \o (v \o R))
  <2>1. t \in Seq(C)
    BY <1>1
  <2>2. PICK x : x = v \o R /\ x \in Seq(C)
    BY <1>10
  <2>3. Associates(u, t, x)
    BY <1>9, <2>1, <2>2, JoinedThrice
  <2> QED
    BY <2>2, <2>3 DEF Associates
<1>12. ApplyOne(w, p) = u \o (t \o (v \o R))
  BY <1>5, <1>7, <1>8, <1>11
<1> QED
  BY <1>1, <1>6, <1>12

(* ---- patches: the text with every piece put in its place ---- *)
\* What the concatenation of n sequences has after each of them.
Prefixed(S, seqs, n, F) == /\ F[0] = <<>>
                           /\ \A i \in 1..n : F[i] = F[i - 1] \o seqs[i]
                           /\ \A i \in 0..n : F[i] \in Seq(S)
FlatUpTo(seqs, n, f) == f = [i \in 1..n |-> IF i = 1 THEN seqs[i] ELSE f[i - 1] \o seqs[i]]

LEMMA FlatRuns ==
  ASSUME NEW seqs PROVE \A n \in Nat : \E f : FlatUpTo(seqs, n, f)
<1> DEFINE G == {n \in Nat : \E f : FlatUpTo(seqs, n, f)}
<1>1. 0 \in G
  <2>1. PICK f : f = [i \in 1..0 |-> seqs[i]]
    OBVIOUS
  <2>2. FlatUpTo(seqs, 0, f)
    BY <2>1 DEF FlatUpTo
  <2> QED
    BY <2>2
<1>2. ASSUME NEW n \in Nat, n \in G PROVE n + 1 \in G
  <2>1. PICK f : FlatUpTo(seqs, n, f)
    BY <1>2
  <2>2. PICK g : g = [i \in 1..(n + 1) |-> IF i <= n THEN f[i]
                        ELSE IF i = 1 THEN seqs[i] ELSE f[i - 1] \o seqs[i]]
    OBVIOUS
  <2>3. ASSUME NEW i \in 1..(n + 1) PROVE g[i] = IF i = 1 THEN seqs[i] ELSE g[i - 1] \o seqs[i]
    <3>1. CASE i <= n
      <4>1. f[i] = IF i = 1 THEN seqs[i] ELSE f[i - 1] \o seqs[i]
        <5>1. i \in 1..n
          BY <3>1
        <5> QED
          BY <2>1, <5>1, Zenon DEF FlatUpTo
      <4>2. g[i] = f[i]
        BY <2>2, <3>1
      <4>3. i # 1 => g[i - 1] = f[i - 1]
        BY <2>2, <3>1
      <4> QED
        BY <4>1, <4>2, <4>3
    <3>2. CASE i > n
      <4>1. i = n + 1 /\ (i # 1 => i - 1 \in 1..(n + 1) /\ i - 1 <= n)
        BY <3>2
      <4>2. i # 1 => g[i - 1] = f[i - 1]
        BY <2>2, <4>1
      <4>3. g[i] = IF i = 1 THEN seqs[i] ELSE f[i - 1] \o seqs[i]
        BY <2>2, <3>2
      <4> QED
        BY <4>2, <4>3
    <3> QED
      BY <3>1, <3>2
  <2>4. FlatUpTo(seqs, n + 1, g)
    <3>1. g = [i \in 1..(n + 1) |-> IF i = 1 THEN seqs[i] ELSE g[i - 1] \o seqs[i]]
      BY <2>2, <2>3, Zenon
    <3> QED
      BY <3>1, Zenon DEF FlatUpTo
  <2> QED
    BY <2>4
<1>3. Nat \subseteq G
  <2> HIDE DEF G
  <2> QED
    BY <1>1, <1>2, NumbersByInduction
<1> QED
  BY <1>3

LEMMA Flattened ==
  ASSUME NEW S, NEW n \in Nat, n # 0, NEW seqs \in [1..n -> Seq(S)]
  PROVE  \E F : Prefixed(S, seqs, n, F) /\ FlattenSeq(seqs) = F[n]
<1>1. seqs \in Seq(Seq(S)) /\ Len(seqs) = n
  OBVIOUS
<1>2. PICK g : FlatUpTo(seqs, n, g)
  BY FlatRuns
<1>3. PICK f : f = CHOOSE h : FlatUpTo(seqs, n, h)
  OBVIOUS
<1>4. FlatUpTo(seqs, n, f)
  BY <1>2, <1>3
<1>5. FlattenSeq(seqs) = f[n]
  BY <1>1, <1>3 DEF FlattenSeq, FlatUpTo
<1>6. PICK F : F = [i \in 0..n |-> IF i = 0 THEN <<>> ELSE f[i]]
  OBVIOUS
<1>7. F[0] = <<>> /\ \A i \in 1..n : F[i] = f[i]
  BY <1>6
<1>8. ASSUME NEW i \in 1..n PROVE F[i] = F[i - 1] \o seqs[i]
  <2>1. seqs[i] \in Seq(S)
    OBVIOUS
  <2>2. f[i] = IF i = 1 THEN seqs[i] ELSE f[i - 1] \o seqs[i]
    BY <1>4, Zenon DEF FlatUpTo
  <2>3. CASE i = 1
    <3>1. F[i - 1] = <<>> /\ F[i] = seqs[i]
      BY <1>7, <2>2, <2>3
    <3>2. <<>> \o seqs[i] = seqs[i]
      BY <2>1, ConcatEmptySeq
    <3> QED
      BY <3>1, <3>2
  <2>4. CASE i # 1
    <3>1. i - 1 \in 1..n
      BY <2>4
    <3> QED
      BY <1>7, <2>2, <2>4, <3>1
  <2> QED
    BY <2>3, <2>4
<1>9. \A i \in 0..n : F[i] \in Seq(S)
  <2> DEFINE G == {i \in Nat : i <= n => F[i] \in Seq(S)}
  <2>1. 0 \in G
    <3>1. F[0] \in Seq(S)
      BY <1>7, EmptySeq
    <3> QED
      BY <3>1
  <2>2. ASSUME NEW i \in Nat, i \in G PROVE i + 1 \in G
    <3>1. SUFFICES ASSUME i + 1 <= n PROVE F[i + 1] \in Seq(S)
      OBVIOUS
    <3>2. F[i] \in Seq(S) /\ i + 1 \in 1..n /\ (i + 1) - 1 = i
      BY <2>2, <3>1
    <3>3. F[i + 1] = F[i] \o seqs[i + 1] /\ seqs[i + 1] \in Seq(S)
      BY <1>8, <3>2
    <3> QED
      BY <3>2, <3>3, ConcatProperties
  <2>3. Nat \subseteq G
    <3> HIDE DEF G
    <3> QED
      BY <2>1, <2>2, NumbersByInduction
  <2> QED
    BY <2>3
<1>10. F[n] = f[n]
  BY <1>7
<1> QED
  BY <1>5, <1>7, <1>8, <1>9, <1>10 DEF Prefixed

\* Sequences that are empty add nothing.
Blank(seqs, l, h) == \A i \in (l + 1)..h : seqs[i] = <<>>
SameAt(F, l, h) == F[h] = F[l]

LEMMA NothingAdded ==
  ASSUME NEW S, NEW n \in Nat, NEW seqs, NEW F, Prefixed(S, seqs, n, F),
         NEW l \in 0..n, NEW h \in l..n, Blank(seqs, l, h)
  PROVE  SameAt(F, l, h)
<1>0. \A i \in (l + 1)..h : seqs[i] = <<>>
  BY DEF Blank
<1> DEFINE G == {i \in Nat : i <= h => (i >= l => F[i] = F[l])}
<1>1. 0 \in G
  OBVIOUS
<1>2. ASSUME NEW i \in Nat, i \in G PROVE i + 1 \in G
  <2>1. SUFFICES ASSUME i + 1 <= h, i + 1 >= l PROVE F[i + 1] = F[l]
    OBVIOUS
  <2>2. CASE i + 1 = l
    BY <2>2
  <2>3. CASE i + 1 # l
    <3>1. i >= l /\ i <= h /\ i + 1 \in (l + 1)..h /\ i + 1 \in 1..n /\ (i + 1) - 1 = i /\ i \in 0..n
      BY <2>1, <2>3
    <3>2. F[i] = F[l]
      BY <1>2, <3>1
    <3>3. F[i + 1] = F[i] \o <<>> /\ F[i] \in Seq(S)
      <4>1. seqs[i + 1] = <<>>
        BY <1>0, <3>1
      <4>2. F[i + 1] = F[(i + 1) - 1] \o seqs[i + 1] /\ F[i] \in Seq(S)
        BY <3>1, Zenon DEF Prefixed
      <4> QED
        BY <3>1, <4>1, <4>2
    <3>4. F[i + 1] = F[i]
      BY <3>3, ConcatEmptySeq
    <3> QED
      BY <3>2, <3>4
  <2> QED
    BY <2>2, <2>3
<1>3. Nat \subseteq G
  <2> HIDE DEF G
  <2> QED
    BY <1>1, <1>2, NumbersByInduction
<1> QED
  BY <1>3 DEF SameAt

\* Positions at which the source's own character stands: the source itself.
Single(T, i) == IF i > Len(T) THEN <<>> ELSE <<T[i]>>
UpperEnd(T, h) == IF h > Len(T) THEN Len(T) ELSE h
Runs(T, F, l, h) == F[h] = F[l] \o SubSeq(T, l + 1, UpperEnd(T, h))

LEMMA SourceRuns ==
  ASSUME NEW S, NEW T \in Seq(S), NEW n, n = Len(T) + 1, NEW seqs, NEW F, Prefixed(S, seqs, n, F),
         NEW l \in 0..Len(T), NEW h \in l..n, \A i \in (l + 1)..h : seqs[i] = Single(T, i)
  PROVE  Runs(T, F, l, h)
<1>0. Len(T) \in Nat /\ n \in Nat /\ l \in Nat /\ h \in Nat
  OBVIOUS
<1> DEFINE G == {i \in Nat : i <= h => (i >= l => Runs(T, F, l, i))}
<1>1. F[l] \in Seq(S)
  <2>1. l \in 0..n
    BY <1>0
  <2> QED
    BY <2>1, Zenon DEF Prefixed
<1>2. Runs(T, F, l, l)
  <2>1. UpperEnd(T, l) = l
    BY <1>0 DEF UpperEnd
  <2>2. SubSeq(T, l + 1, l) = <<>>
    BY <1>0, SubSeqEmpty
  <2>3. F[l] \o <<>> = F[l]
    BY <1>1, ConcatEmptySeq
  <2> QED
    BY <2>1, <2>2, <2>3 DEF Runs
<1>3. 0 \in G
  <2>1. 0 >= l => l = 0
    BY <1>0
  <2> QED
    BY <1>2, <2>1
<1>4. ASSUME NEW i \in Nat, i \in G PROVE i + 1 \in G
  <2>1. SUFFICES ASSUME i + 1 <= h, i + 1 >= l PROVE Runs(T, F, l, i + 1)
    OBVIOUS
  <2>2. CASE i + 1 = l
    BY <1>2, <2>2
  <2>3. CASE i + 1 # l
    <3>1. i >= l /\ i <= h /\ i + 1 \in (l + 1)..h /\ i + 1 \in 1..n /\ (i + 1) - 1 = i /\ i \in 0..n /\ i <= Len(T)
      BY <1>0, <2>1, <2>3
    <3>2. F[i] = F[l] \o SubSeq(T, l + 1, i)
      <4>1. Runs(T, F, l, i) /\ UpperEnd(T, i) = i
        BY <1>0, <1>4, <3>1 DEF UpperEnd
      <4> QED
        BY <4>1 DEF Runs
    <3>3. F[i + 1] = F[i] \o Single(T, i + 1) /\ F[i] \in Seq(S)
      <4>1. seqs[i + 1] = Single(T, i + 1)
        BY <3>1
      <4>2. F[i + 1] = F[(i + 1) - 1] \o seqs[i + 1] /\ F[i] \in Seq(S)
        BY <3>1, Zenon DEF Prefixed
      <4> QED
        BY <3>1, <4>1, <4>2
    <3>4. CASE i + 1 > Len(T)
      <4>1. Single(T, i + 1) = <<>> /\ UpperEnd(T, i + 1) = i
        BY <1>0, <3>1, <3>4 DEF Single, UpperEnd
      <4>2. F[i] \o <<>> = F[i]
        BY <3>3, ConcatEmptySeq
      <4> QED
        BY <3>2, <3>3, <4>1, <4>2 DEF Runs
    <3>5. CASE i + 1 <= Len(T)
      <4>1. Single(T, i + 1) = <<T[i + 1]>> /\ UpperEnd(T, i + 1) = i + 1
        BY <1>0, <3>1, <3>5 DEF Single, UpperEnd
      <4>2. PICK c, d, k : c = <<T[i + 1]>> /\ d = SubSeq(T, l + 1, i) /\ k = l + 1
        OBVIOUS
      <4>3. d \in Seq(S) /\ c \in Seq(S)
        <5>1. l + 1 \in 1..(Len(T) + 1) /\ i \in ((l + 1) - 1)..Len(T) /\ i + 1 \in 1..Len(T)
          BY <1>0, <3>1, <3>5
        <5>2. d \in Seq(S)
          BY <4>2, <5>1, CutIs
        <5>3. T[i + 1] \in S
          BY <5>1, ElementOfSeq
        <5> QED
          BY <4>2, <5>2, <5>3
      <4>4. SubSeq(T, k, i + 1) = SubSeq(T, k, (i + 1) - 1) \o <<T[i + 1]>>
        <5>1. k \in 1..Len(T) /\ i + 1 \in k..Len(T)
          BY <1>0, <3>1, <3>5, <4>2
        <5> QED
          BY <5>1, SubSeqRecursiveSecond
      <4>5. (F[l] \o d) \o c = F[l] \o (d \o c)
        <5>1. PICK x : x = F[l] /\ x \in Seq(S)
          BY <1>1
        <5>2. x \in Seq(S) /\ d \in Seq(S) /\ c \in Seq(S)
          BY <4>3, <5>1
        <5>3. Associates(x, d, c)
          BY <5>2, JoinedThrice
        <5> QED
          BY <5>1, <5>3 DEF Associates
      <4>6. F[i + 1] = (F[l] \o d) \o c
        BY <3>2, <3>3, <4>1, <4>2
      <4>7. SubSeq(T, k, i + 1) = d \o c
        BY <3>1, <4>2, <4>4
      <4> QED
        BY <4>1, <4>2, <4>5, <4>6, <4>7 DEF Runs
    <3> QED
      BY <1>0, <3>4, <3>5
  <2> QED
    BY <2>2, <2>3
<1>5. Nat \subseteq G
  <2> HIDE DEF G
  <2> QED
    BY <1>3, <1>4, NumbersByInduction
<1> QED
  BY <1>0, <1>5

StartingAt(ps, i) == {n \in DOMAIN ps : From(ps[n]) = i}
CoveredIn(ps, i) == \E n \in DOMAIN ps : From(ps[n]) <= i /\ i < Upto(ps[n])
Put(ps, i) == IF StartingAt(ps, i) = {} THEN <<>> ELSE ps[CHOOSE n \in StartingAt(ps, i) : TRUE].text
Left(ps, i) == IF i > Len(SourceText) \/ CoveredIn(ps, i) THEN <<>> ELSE <<SourceText[i]>>
PieceAt(ps, i) == Put(ps, i) \o Left(ps, i)
Pieces(ps) == [i \in 1..(Len(SourceText) + 1) |-> PieceAt(ps, i)]

LEMMA SimultaneousIs == ASSUME NEW ps PROVE Simultaneous(ps) = FlattenSeq(Pieces(ps))
  BY DEF Simultaneous, Pieces, PieceAt, Put, Left, StartingAt, CoveredIn

StandApart(ps) == \A i, j \in DOMAIN ps : i # j => From(ps[i]) # From(ps[j])
                /\ (Upto(ps[i]) <= From(ps[j]) \/ Upto(ps[j]) <= From(ps[i]))
Patchable(ps) == ps \in Seq(PatchType) /\ (\A i \in DOMAIN ps : Valid(ps[i])) /\ StandApart(ps)

Covers(p, i) == From(p) <= i /\ i < Upto(p)
Touches(p, i) == From(p) = i \/ Covers(p, i)
Prefix(p, i) == IF From(p) = i THEN p.text ELSE <<>>
Rest(p, i) == IF Covers(p, i) THEN <<>> ELSE Single(SourceText, i)

LEMMA SingleTyped ==
  ASSUME NEW i \in 1..(Len(SourceText) + 1) PROVE Single(SourceText, i) \in Seq(STRING)
<1>1. SourceText \in Seq(STRING) /\ Len(SourceText) \in Nat
  BY SourceAssumption
<1>2. CASE i > Len(SourceText)
  BY <1>2 DEF Single
<1>3. CASE i <= Len(SourceText)
  <2>1. SourceText[i] \in STRING
    <3>1. i \in 1..Len(SourceText)
      BY <1>1, <1>3
    <3> QED
      BY <1>1, <3>1, ElementOfSeq
  <2>2. <<SourceText[i]>> \in Seq(STRING)
    BY <2>1
  <2> QED
    <3>1. ~(i > Len(SourceText))
      BY <1>1, <1>3
    <3> QED
      BY <2>2, <3>1, Zenon DEF Single
<1> QED
  BY <1>1, <1>2, <1>3

LEMMA PieceTyped ==
  ASSUME NEW ps \in Seq(PatchType), NEW i \in 1..(Len(SourceText) + 1)
  PROVE  PieceAt(ps, i) \in Seq(STRING)
<1>1. Put(ps, i) \in Seq(STRING)
  <2>1. CASE StartingAt(ps, i) = {}
    BY <2>1 DEF Put
  <2>2. CASE StartingAt(ps, i) # {}
    <3>1. PICK n : n = (CHOOSE k \in StartingAt(ps, i) : TRUE) /\ n \in StartingAt(ps, i)
      BY <2>2
    <3>2. ps[n] \in PatchType
      BY <3>1 DEF StartingAt
    <3>3. ps[n].text \in Seq(STRING)
      BY <3>2 DEF PatchType
    <3> QED
      BY <2>2, <3>1, <3>3 DEF Put
  <2> QED
    BY <2>1, <2>2
<1>2. Left(ps, i) \in Seq(STRING)
  <2>1. Left(ps, i) = <<>> \/ Left(ps, i) = Single(SourceText, i)
    BY Zenon DEF Left, Single
  <2> QED
    BY <2>1, SingleTyped, EmptySeq
<1> QED
  BY <1>1, <1>2, ConcatProperties DEF PieceAt

\* The piece at a position is that of the one patch that touches it.
LEMMA PieceOfOne ==
  ASSUME NEW ps, Patchable(ps), NEW i \in 1..(Len(SourceText) + 1), NEW m \in DOMAIN ps,
         \A r \in DOMAIN ps : r # m => ~Touches(ps[r], i)
  PROVE  PieceAt(ps, i) = Prefix(ps[m], i) \o Rest(ps[m], i)
<1>1. Put(ps, i) = Prefix(ps[m], i)
  <2>1. CASE From(ps[m]) = i
    <3>1. StartingAt(ps, i) = {m}
      BY <2>1 DEF StartingAt, Touches
    <3>2. (CHOOSE n \in StartingAt(ps, i) : TRUE) = m
      BY <3>1
    <3> QED
      BY <2>1, <3>1, <3>2 DEF Put, Prefix
  <2>2. CASE From(ps[m]) # i
    <3>1. StartingAt(ps, i) = {}
      BY <2>2 DEF StartingAt, Touches
    <3> QED
      BY <2>2, <3>1 DEF Put, Prefix
  <2> QED
    BY <2>1, <2>2
<1>2. CoveredIn(ps, i) <=> Covers(ps[m], i)
  BY Zenon DEF CoveredIn, Touches, Covers
<1>3. Left(ps, i) = Rest(ps[m], i)
  BY <1>2, Zenon DEF Left, Rest, Single
<1> QED
  BY <1>1, <1>3 DEF PieceAt

LEMMA PieceOfNone ==
  ASSUME NEW ps, NEW i \in 1..(Len(SourceText) + 1), \A r \in DOMAIN ps : ~Touches(ps[r], i)
  PROVE  PieceAt(ps, i) = Single(SourceText, i)
<1>1. Put(ps, i) = <<>>
  <2>1. StartingAt(ps, i) = {}
    BY DEF StartingAt, Touches
  <2> QED
    BY <2>1 DEF Put
<1>2. ~CoveredIn(ps, i)
  BY Zenon DEF CoveredIn, Touches, Covers
<1>3. Left(ps, i) = Single(SourceText, i)
  BY <1>2, Zenon DEF Left, Single
<1>4. <<>> \o Single(SourceText, i) = Single(SourceText, i)
  BY SingleTyped, ConcatEmptySeq
<1> QED
  BY <1>1, <1>3, <1>4 DEF PieceAt

LEMMA PiecesTyped ==
  ASSUME NEW ps, Patchable(ps)
  PROVE  /\ Pieces(ps) \in [1..(Len(SourceText) + 1) -> Seq(STRING)]
         /\ \E F : /\ Prefixed(STRING, Pieces(ps), Len(SourceText) + 1, F)
                   /\ Simultaneous(ps) = F[Len(SourceText) + 1]
<1>1. PICK n : n = Len(SourceText) + 1 /\ n \in Nat /\ n # 0
  BY SourceAssumption
<1>2. ps \in Seq(PatchType)
  BY DEF Patchable
<1>3. \A i \in 1..n : PieceAt(ps, i) \in Seq(STRING)
  BY <1>1, <1>2, PieceTyped
<1>4. PICK seqs : seqs = Pieces(ps) /\ seqs \in [1..n -> Seq(STRING)]
  <2>1. PICK seqs : seqs = [i \in 1..n |-> PieceAt(ps, i)]
    OBVIOUS
  <2>2. seqs \in [1..n -> Seq(STRING)]
    BY <1>3, <2>1
  <2>3. seqs = Pieces(ps)
    BY <1>1, <2>1 DEF Pieces
  <2> QED
    BY <2>2, <2>3
<1>5. PICK F : Prefixed(STRING, seqs, n, F) /\ FlattenSeq(seqs) = F[n]
  BY <1>1, <1>4, Flattened
<1> QED
  BY <1>1, <1>4, <1>5, SimultaneousIs

\* What the patch m puts in the text, from where it starts to g.
PutsIn(p, F, g) ==
  F[g] = F[From(p) - 1] \o (p.text \o SubSeq(SourceText, Upto(p), UpperEnd(SourceText, g)))

LEMMA PutInPlace ==
  ASSUME NEW ps, Patchable(ps), NEW m \in DOMAIN ps, NEW F,
         Prefixed(STRING, Pieces(ps), Len(SourceText) + 1, F),
         NEW g \in 0..(Len(SourceText) + 1), From(ps[m]) <= g,
         Upto(ps[m]) <= UpperEnd(SourceText, g) + 1,
         \A i \in From(ps[m])..g : \A r \in DOMAIN ps : r # m => ~Touches(ps[r], i)
  PROVE  PutsIn(ps[m], F, g)
<1>1. PICK C, T, n, p, a, b, e :
        /\ C = STRING /\ T = SourceText /\ n = Len(T) /\ p = ps[m] /\ a = From(p) /\ b = Upto(p)
        /\ e = UpperEnd(T, g)
  OBVIOUS
<1>2. p \in PatchType /\ Valid(p)
  BY <1>1 DEF Patchable
<1>3. /\ T \in Seq(C) /\ n \in Nat /\ a \in Nat /\ b \in Nat /\ 1 <= a /\ a <= b /\ b <= n + 1 /\ b <= e + 1
      /\ a <= g /\ g \in Nat /\ g <= n + 1
  BY <1>1, <1>2, ValidIs
<1>4. e \in Nat /\ e <= n /\ e <= g /\ (g <= n => e = g) /\ (g > n => e = n)
  BY <1>1, <1>3 DEF UpperEnd
<1>5. PICK t : t = p.text /\ t \in Seq(C)
  BY <1>1, <1>2 DEF PatchType
<1>6. PICK seqs : seqs = Pieces(ps) /\ Prefixed(C, seqs, n + 1, F)
  BY <1>1
<1>7. ASSUME NEW i \in a..g PROVE seqs[i] = Prefix(p, i) \o Rest(p, i)
  <2>1. i \in 1..(Len(SourceText) + 1)
    BY <1>1, <1>3
  <2>2. seqs[i] = PieceAt(ps, i)
    BY <1>6, <2>1 DEF Pieces
  <2>3. \A r \in DOMAIN ps : r # m => ~Touches(ps[r], i)
    BY <1>1
  <2>4. PieceAt(ps, i) = Prefix(ps[m], i) \o Rest(ps[m], i)
    BY <2>1, <2>3, PieceOfOne
  <2> QED
    BY <1>1, <2>2, <2>4
<1>8. \A i \in a..g : Single(T, i) \in Seq(C)
  <2>1. \A i \in a..g : i \in 1..(Len(SourceText) + 1)
    BY <1>1, <1>3
  <2> QED
    BY <1>1, <2>1, SingleTyped
<1>9. \A i \in a..g : i # a => Prefix(p, i) = <<>>
  BY <1>1 DEF Prefix
<1>10. Prefix(p, a) = t
  BY <1>1, <1>5 DEF Prefix
<1>11. \A i \in a..g : /\ i < b => Rest(p, i) = <<>>
                       /\ i >= b => Rest(p, i) = Single(T, i)
  BY <1>1, <1>3 DEF Rest, Covers
<1>12. \A i \in a..g : i # a /\ i < b => seqs[i] = <<>>
  <2>1. <<>> \o <<>> = <<>>
    BY ConcatEmptySeq, EmptySeq
  <2> QED
    BY <1>7, <1>9, <1>11, <2>1
<1>13. \A i \in a..g : i # a /\ i >= b => seqs[i] = Single(T, i)
  <2> SUFFICES ASSUME NEW i \in a..g, i # a, i >= b PROVE seqs[i] = Single(T, i)
    OBVIOUS
  <2>1. seqs[i] = <<>> \o Single(T, i) /\ Single(T, i) \in Seq(C)
    BY <1>7, <1>8, <1>9, <1>11
  <2> QED
    BY <2>1, ConcatEmptySeq
<1>14. PICK f : f = F[a - 1] /\ f \in Seq(C)
  <2>1. a - 1 \in 0..(n + 1)
    BY <1>3
  <2> QED
    BY <1>6, <2>1, Zenon DEF Prefixed
<1>15. F[a] = f \o seqs[a] /\ a \in a..g
  <2>1. a \in 1..(n + 1) /\ a \in a..g
    BY <1>3
  <2> QED
    BY <1>6, <1>14, <2>1, Zenon DEF Prefixed
<1>16. PICK v : v = SubSeq(T, b, e) /\ v \in Seq(C)
  <2>1. b \in 1..(Len(T) + 1) /\ e \in (b - 1)..Len(T)
    BY <1>1, <1>3, <1>4
  <2> QED
    BY <1>3, <2>1, CutIs
<1>17. CASE a < b
  <2>1. seqs[a] = t
    <3>1. seqs[a] = t \o <<>>
      BY <1>7, <1>10, <1>11, <1>15, <1>17
    <3> QED
      BY <1>5, <3>1, ConcatEmptySeq
  <2>2. F[b - 1] = F[a]
    <3>1. a \in 0..(n + 1) /\ b - 1 \in a..(n + 1) /\ n + 1 \in Nat
      BY <1>3, <1>17
    <3>2. \A i \in (a + 1)..(b - 1) : seqs[i] = <<>>
      <4>1. \A i \in (a + 1)..(b - 1) : i \in a..g /\ i # a /\ i < b
        BY <1>3, <1>4
      <4> QED
        BY <1>12, <4>1
    <3>3. Prefixed(C, seqs, n + 1, F)
      BY <1>6
    <3>4. Blank(seqs, a, b - 1)
      BY <3>2 DEF Blank
    <3>5. SameAt(F, a, b - 1)
      BY <3>1, <3>3, <3>4, NothingAdded
    <3> QED
      BY <3>5 DEF SameAt
  <2>3. Runs(T, F, b - 1, g)
    <3>1. b - 1 \in 0..Len(T) /\ g \in (b - 1)..(n + 1) /\ n + 1 = Len(T) + 1
      BY <1>1, <1>3, <1>4, <1>17
    <3>2. \A i \in ((b - 1) + 1)..g : seqs[i] = Single(T, i)
      <4>1. \A i \in ((b - 1) + 1)..g : i \in a..g /\ i # a /\ i >= b
        BY <1>3, <1>17
      <4> QED
        BY <1>13, <4>1
    <3> QED
      BY <1>3, <1>6, <3>1, <3>2, SourceRuns
  <2>4. F[g] = (f \o t) \o v
    <3>1. (b - 1) + 1 = b
      BY <1>3
    <3> QED
      BY <1>1, <1>15, <1>16, <2>1, <2>2, <2>3, <3>1 DEF Runs
  <2>5. F[g] = f \o (t \o v)
    <3>1. (f \o t) \o v = f \o (t \o v)
      <4>1. Associates(f, t, v)
        BY <1>5, <1>14, <1>16, JoinedThrice
      <4> QED
        BY <4>1 DEF Associates
    <3> QED
      BY <2>4, <3>1
  <2> QED
    BY <1>1, <1>5, <1>14, <1>16, <2>5 DEF PutsIn
<1>18. CASE a = b /\ a <= n
  <2>1. seqs[a] = t \o <<T[a]>> /\ <<T[a]>> \in Seq(C)
    <3>1. Single(T, a) = <<T[a]>>
      <4>1. ~(a > Len(T))
        BY <1>1, <1>3, <1>18
      <4> QED
        BY <4>1, Zenon DEF Single
    <3>2. seqs[a] = t \o Single(T, a) /\ Single(T, a) \in Seq(C)
      BY <1>3, <1>7, <1>8, <1>10, <1>11, <1>15, <1>18
    <3> QED
      BY <3>1, <3>2
  <2>2. Runs(T, F, a, g)
    <3>1. a \in 0..Len(T) /\ g \in a..(n + 1) /\ n + 1 = Len(T) + 1
      BY <1>1, <1>3, <1>18
    <3>2. \A i \in (a + 1)..g : seqs[i] = Single(T, i)
      <4>1. \A i \in (a + 1)..g : i \in a..g /\ i # a /\ i >= b
        BY <1>3, <1>18
      <4> QED
        BY <1>13, <4>1
    <3> QED
      BY <1>3, <1>6, <3>1, <3>2, SourceRuns
  <2>3. PICK c, d : c = <<T[a]>> /\ d = SubSeq(T, a + 1, e) /\ c \in Seq(C) /\ d \in Seq(C)
    <3>1. a + 1 \in 1..(Len(T) + 1) /\ e \in ((a + 1) - 1)..Len(T)
      BY <1>1, <1>3, <1>4, <1>18
    <3>2. PICK d : d = SubSeq(T, a + 1, e)
      OBVIOUS
    <3>3. d \in Seq(C)
      BY <1>3, <3>1, <3>2, CutIs
    <3> QED
      BY <2>1, <3>2, <3>3
  <2>4. v = c \o d
    <3>1. a \in 1..Len(T) /\ e \in a..Len(T)
      BY <1>1, <1>3, <1>4, <1>18
    <3>2. SubSeq(T, a, e) = <<T[a]>> \o SubSeq(T, a + 1, e)
      BY <1>3, <3>1, SubSeqRecursiveFirst
    <3> QED
      BY <1>16, <1>18, <2>3, <3>2
  <2>5. F[g] = (f \o (t \o c)) \o d
    BY <1>1, <1>15, <2>1, <2>2, <2>3 DEF Runs
  <2>6. (f \o (t \o c)) \o d = f \o (t \o (c \o d))
    <3>1. t \o c \in Seq(C)
      BY <1>5, <2>3, ConcatProperties
    <3>2. (f \o (t \o c)) \o d = f \o ((t \o c) \o d)
      <4>1. Associates(f, t \o c, d)
        BY <1>14, <2>3, <3>1, JoinedThrice
      <4> QED
        BY <4>1 DEF Associates
    <3>3. (t \o c) \o d = t \o (c \o d)
      <4>1. Associates(t, c, d)
        BY <1>5, <2>3, JoinedThrice
      <4> QED
        BY <4>1 DEF Associates
    <3> QED
      BY <3>2, <3>3
  <2> QED
    BY <1>1, <1>5, <1>14, <1>16, <2>4, <2>5, <2>6 DEF PutsIn
<1>19. CASE a = b /\ a > n
  <2>1. g = a /\ e = n /\ b = e + 1
    BY <1>3, <1>4, <1>19
  <2>2. v = <<>>
    <3>1. e < b /\ b \in Int /\ e \in Int
      BY <1>3, <1>4, <2>1
    <3> QED
      BY <1>16, <3>1, SubSeqEmpty
  <2>3. Single(T, a) = <<>>
    <3>1. a > Len(T)
      BY <1>1, <1>19
    <3> QED
      BY <3>1, Zenon DEF Single
  <2>4. seqs[a] = t \o <<>>
    BY <1>3, <1>7, <1>10, <1>11, <1>15, <1>19, <2>3
  <2> QED
    BY <1>1, <1>5, <1>14, <1>15, <1>16, <2>1, <2>2, <2>4 DEF PutsIn
<1> QED
  BY <1>3, <1>17, <1>18, <1>19

\* What is known between two patches: up to g the source, then what is to be
\* there in the end.
PatchedFrom(F, g, w) ==
  \E R \in Seq(STRING) : /\ KeptUpTo(SourceText, UpperEnd(SourceText, g), R, w)
                         /\ F[Len(SourceText) + 1] = F[g] \o R

LEMMA PatchedAtFirst ==
  ASSUME NEW seqs, NEW F, Prefixed(STRING, seqs, Len(SourceText) + 1, F)
  PROVE  PatchedFrom(F, Len(SourceText) + 1, SourceText)
<1>1. PICK T, n : T = SourceText /\ n = Len(T) /\ T \in Seq(STRING) /\ n \in Nat
  BY SourceAssumption
<1>2. UpperEnd(T, n + 1) = n
  BY <1>1 DEF UpperEnd
<1>3. T = SubSeq(T, 1, n) \o <<>>
  <2>1. SubSeq(T, 1, Len(T)) = T
    BY <1>1, SubSeqFull
  <2>2. T \o <<>> = T
    BY <1>1, ConcatEmptySeq
  <2> QED
    BY <1>1, <2>1, <2>2
<1>4. F[n + 1] = F[n + 1] \o <<>>
  <2>1. n + 1 \in 0..(n + 1)
    BY <1>1
  <2>2. F[n + 1] \in Seq(STRING)
    BY <1>1, <2>1, Zenon DEF Prefixed
  <2> QED
    BY <2>2, ConcatEmptySeq
<1>5. PICK R \in Seq(STRING) : R = <<>>
  BY EmptySeq
<1>6. KeptUpTo(T, UpperEnd(T, n + 1), R, T)
  BY <1>2, <1>3, <1>5 DEF KeptUpTo
<1>7. F[n + 1] = F[n + 1] \o R
  BY <1>4, <1>5
<1> QED
  BY <1>1, <1>6, <1>7 DEF PatchedFrom

LEMMA PatchedNext ==
  ASSUME NEW ps, Patchable(ps), NEW m \in DOMAIN ps, NEW F,
         Prefixed(STRING, Pieces(ps), Len(SourceText) + 1, F),
         NEW g \in 0..(Len(SourceText) + 1), From(ps[m]) <= g,
         Upto(ps[m]) <= UpperEnd(SourceText, g) + 1,
         \A i \in From(ps[m])..g : \A r \in DOMAIN ps : r # m => ~Touches(ps[r], i),
         NEW w, PatchedFrom(F, g, w)
  PROVE  PatchedFrom(F, From(ps[m]) - 1, ApplyOne(w, ps[m]))
<1>1. PICK C, T, n, p, a, b, e :
        /\ C = STRING /\ T = SourceText /\ n = Len(T) /\ p = ps[m] /\ a = From(p) /\ b = Upto(p)
        /\ e = UpperEnd(T, g)
  OBVIOUS
<1>2. p \in PatchType /\ Valid(p)
  BY <1>1 DEF Patchable
<1>3. /\ T \in Seq(C) /\ n \in Nat /\ a \in Nat /\ b \in Nat /\ 1 <= a /\ a <= b /\ b <= n + 1 /\ b <= e + 1
      /\ a <= g /\ g \in Nat /\ g <= n + 1
  BY <1>1, <1>2, ValidIs
<1>4. e \in Nat /\ e <= n /\ e <= g /\ UpperEnd(T, a - 1) = a - 1
  BY <1>1, <1>3 DEF UpperEnd
<1>5. PICK t : t = p.text /\ t \in Seq(C)
  BY <1>1, <1>2 DEF PatchType
<1>6. PICK R : R \in Seq(C) /\ KeptUpTo(T, e, R, w) /\ F[n + 1] = F[g] \o R
  BY <1>1 DEF PatchedFrom
<1>7. PICK v : v = SubSeq(T, b, e) /\ v \in Seq(C)
  <2>1. b \in 1..(Len(T) + 1) /\ e \in (b - 1)..Len(T)
    BY <1>1, <1>3, <1>4
  <2> QED
    BY <1>3, <2>1, CutIs
<1>8. PICK f : f = F[a - 1] /\ f \in Seq(C)
  <2>1. a - 1 \in 0..(n + 1)
    BY <1>3
  <2>2. Prefixed(C, Pieces(ps), n + 1, F)
    BY <1>1
  <2> QED
    BY <2>1, <2>2, Zenon DEF Prefixed
<1>9. F[g] = f \o (t \o v)
  <2>1. PutsIn(p, F, g)
    BY <1>1, PutInPlace
  <2> QED
    BY <1>1, <1>5, <1>7, <1>8, <2>1 DEF PutsIn
<1>10. PICK Q : Q = t \o (v \o R) /\ Q \in Seq(C)
  <2>1. v \o R \in Seq(C)
    BY <1>6, <1>7, ConcatProperties
  <2>2. t \o (v \o R) \in Seq(C)
    BY <1>5, <2>1, ConcatProperties
  <2> QED
    BY <2>2
<1>11. F[n + 1] = f \o Q
  <2>1. t \o v \in Seq(C)
    BY <1>5, <1>7, ConcatProperties
  <2>2. Associates(f, t \o v, R)
    BY <1>6, <1>8, <2>1, JoinedThrice
  <2>3. Associates(t, v, R)
    BY <1>5, <1>6, <1>7, JoinedThrice
  <2> QED
    BY <1>6, <1>9, <1>10, <2>2, <2>3 DEF Associates
<1>12. ApplyOne(w, p) = SubSeq(T, 1, a - 1) \o Q
  <2>1. e \in 0..Len(SourceText) /\ Upto(p) <= e + 1 /\ R \in Seq(STRING) /\ KeptUpTo(SourceText, e, R, w)
    BY <1>1, <1>3, <1>4, <1>6
  <2>2. ApplyOne(w, p) = SubSeq(SourceText, 1, From(p) - 1)
                           \o (p.text \o (SubSeq(SourceText, Upto(p), e) \o R))
    BY <1>2, <2>1, AppliedOnce
  <2> QED
    BY <1>1, <1>5, <1>7, <1>10, <2>2
<1>13. KeptUpTo(T, UpperEnd(T, a - 1), Q, ApplyOne(w, p))
  BY <1>4, <1>12 DEF KeptUpTo
<1> QED
  BY <1>1, <1>8, <1>10, <1>11, <1>13 DEF PatchedFrom

LEMMA PatchedAtLast ==
  ASSUME NEW ps, Patchable(ps), NEW F, Prefixed(STRING, Pieces(ps), Len(SourceText) + 1, F),
         NEW g \in 0..(Len(SourceText) + 1),
         \A i \in 1..g : \A r \in DOMAIN ps : ~Touches(ps[r], i),
         NEW w, PatchedFrom(F, g, w)
  PROVE  w = F[Len(SourceText) + 1]
<1>1. PICK C, T, n, e : /\ C = STRING /\ T = SourceText /\ n = Len(T) /\ e = UpperEnd(T, g)
                        /\ T \in Seq(C) /\ n \in Nat /\ g \in Nat /\ g <= n + 1
  BY SourceAssumption
<1>2. PICK R : R \in Seq(C) /\ KeptUpTo(T, e, R, w) /\ F[n + 1] = F[g] \o R
  BY <1>1 DEF PatchedFrom
<1>3. PICK seqs : seqs = Pieces(ps) /\ Prefixed(C, seqs, n + 1, F)
  BY <1>1
<1>4. ASSUME NEW i \in 1..g PROVE seqs[i] = Single(T, i)
  <2>1. i \in 1..(Len(SourceText) + 1)
    BY <1>1
  <2>2. seqs[i] = PieceAt(ps, i)
    BY <1>3, <2>1 DEF Pieces
  <2>3. PieceAt(ps, i) = Single(SourceText, i)
    BY <2>1, PieceOfNone
  <2> QED
    BY <1>1, <2>2, <2>3
<1>5. Runs(T, F, 0, g)
  <2>1. 0 \in 0..Len(T) /\ g \in 0..(n + 1) /\ n + 1 = Len(T) + 1
    BY <1>1
  <2>2. \A i \in (0 + 1)..g : seqs[i] = Single(T, i)
    BY <1>4
  <2> QED
    BY <1>1, <1>3, <2>1, <2>2, SourceRuns
<1>6. F[g] = SubSeq(T, 1, e)
  <2>1. PICK v : v = SubSeq(T, 1, e) /\ v \in Seq(C)
    <3>1. 1 \in 1..(Len(T) + 1) /\ e \in (1 - 1)..Len(T)
      BY <1>1 DEF UpperEnd
    <3> QED
      BY <1>1, <3>1, CutIs
  <2>2. F[0] = <<>>
    BY <1>3 DEF Prefixed
  <2>3. F[g] = <<>> \o v
    BY <1>1, <1>5, <2>1, <2>2 DEF Runs
  <2> QED
    BY <2>1, <2>3, ConcatEmptySeq
<1> QED
  BY <1>1, <1>2, <1>6 DEF KeptUpTo

\* The order in which patches are applied: the last of the text first.
Sorts(ps, o) ==
  /\ o \in [DOMAIN ps -> DOMAIN ps]
  /\ \A i \in DOMAIN ps : \E k \in DOMAIN ps : o[k] = i
  /\ \A k, l \in DOMAIN ps : k < l => From(ps[o[l]]) < From(ps[o[k]])
  /\ SortedPatches(ps) = [k \in DOMAIN ps |-> ps[o[k]]]

Sooner(ps) == {p \in (DOMAIN ps) \X (DOMAIN ps) : Precedes(ps, p[1], p[2])}

LEMMA PlacesTyped ==
  ASSUME NEW ps \in Seq(PatchType), NEW i \in DOMAIN ps
  PROVE  ps[i] \in PatchType /\ ps[i].startLine \in Nat /\ ps[i].startCol \in Nat
<1>1. ps[i] \in PatchType
  OBVIOUS
<1> QED
  BY <1>1 DEF PatchType

LEMMA SoonerOrders ==
  ASSUME NEW ps \in Seq(PatchType)
  PROVE  Ordered(DOMAIN ps, Sooner(ps))
<1>1. PICK D, R : D = DOMAIN ps /\ R = Sooner(ps)
  OBVIOUS
<1>2. D \in SUBSET Nat
  BY <1>1
<1>3. PICK a, b : a = [i \in D |-> ps[i].startLine] /\ b = [i \in D |-> ps[i].startCol]
  OBVIOUS
<1>4. \A i \in D : a[i] \in Nat /\ b[i] \in Nat
  BY <1>1, <1>3, PlacesTyped
<1>5. \A i, j \in D : Later(ps[i], ps[j]) <=> a[i] > a[j] \/ (a[i] = a[j] /\ b[i] > b[j])
  BY <1>3, Zenon DEF Later
<1>6. \A i, j \in D : <<i, j>> \in R <=> \/ a[i] > a[j] \/ (a[i] = a[j] /\ b[i] > b[j])
                                         \/ ~(a[j] > a[i] \/ (a[j] = a[i] /\ b[j] > b[i])) /\ i < j
  <2>1. \A i, j \in D : <<i, j>> \in R <=> Precedes(ps, i, j)
    BY <1>1 DEF Sooner
  <2> QED
    BY <1>5, <2>1, Zenon DEF Precedes
<1>7. \A i \in D : <<i, i>> \notin R
  BY <1>2, <1>4, <1>6
<1>8. \A i, j \in D : i # j => <<i, j>> \in R \/ <<j, i>> \in R
  BY <1>2, <1>4, <1>6
<1>9. ASSUME NEW i \in D, NEW j \in D, NEW k \in D, <<i, j>> \in R, <<j, k>> \in R PROVE <<i, k>> \in R
  <2>1. PICK x, y, z, u, v, w :
          /\ x = a[i] /\ y = a[j] /\ z = a[k] /\ u = b[i] /\ v = b[j] /\ w = b[k]
          /\ x \in Nat /\ y \in Nat /\ z \in Nat /\ u \in Nat /\ v \in Nat /\ w \in Nat
    BY <1>4
  <2>2. i \in Nat /\ j \in Nat /\ k \in Nat
    BY <1>2
  <2>3. x > y \/ (x = y /\ u > v) \/ (~(y > x \/ (y = x /\ v > u)) /\ i < j)
    BY <1>6, <1>9, <2>1, Zenon
  <2>4. y > z \/ (y = z /\ v > w) \/ (~(z > y \/ (z = y /\ w > v)) /\ j < k)
    BY <1>6, <1>9, <2>1, Zenon
  <2>5. x > z \/ (x = z /\ u > w) \/ (~(z > x \/ (z = x /\ w > u)) /\ i < k)
    <3>1. x \in Int /\ y \in Int /\ z \in Int /\ u \in Int /\ v \in Int /\ w \in Int
      BY <2>1
    <3> QED
      BY <2>2, <2>3, <2>4, <3>1
  <2> QED
    BY <1>6, <2>1, <2>5, Zenon
<1> QED
  BY <1>1, <1>7, <1>8, <1>9 DEF Ordered

\* Of two patches that are apart the one that is applied sooner stands later.
LEMMA SoonerStandsLater ==
  ASSUME NEW ps, Patchable(ps), NEW i \in DOMAIN ps, NEW j \in DOMAIN ps, <<i, j>> \in Sooner(ps)
  PROVE  From(ps[j]) < From(ps[i])
<1>0. ps \in Seq(PatchType) /\ (\A r \in DOMAIN ps : Valid(ps[r])) /\ StandApart(ps)
  BY DEF Patchable
<1>1. PICK l, c, m, d, T : /\ l = ps[j].startLine /\ c = ps[j].startCol /\ m = ps[i].startLine /\ d = ps[i].startCol
                           /\ T = SourceText
  OBVIOUS
<1>2. l \in Nat /\ c \in Nat /\ m \in Nat /\ d \in Nat
  BY <1>0, <1>1, PlacesTyped
<1>3. HasOffset(T, l, c) /\ HasOffset(T, m, d) /\ T \in Seq(STRING)
  BY <1>0, <1>1, SourceAssumption DEF Valid
<1>4. From(ps[j]) = Offset(T, l, c) /\ From(ps[i]) = Offset(T, m, d)
  BY <1>1 DEF From
<1>5. Precedes(ps, i, j) /\ i \in Nat /\ j \in Nat
  BY <1>0 DEF Sooner
<1>6. l < m \/ (l = m /\ c < d) \/ (l = m /\ c = d /\ i < j)
  BY <1>1, <1>2, <1>5 DEF Precedes, Later
<1>7. CASE l < m \/ (l = m /\ c < d)
  BY <1>2, <1>3, <1>4, <1>7, OffsetsGrow
<1>8. CASE l = m /\ c = d /\ i < j
  <2>1. From(ps[j]) = From(ps[i]) /\ i # j
    BY <1>4, <1>5, <1>8
  <2>2. From(ps[j]) # From(ps[i])
    BY <1>0, <2>1 DEF StandApart
  <2> QED
    BY <2>1, <2>2
<1> QED
  BY <1>6, <1>7, <1>8

LEMMA SortedIs ==
  ASSUME NEW ps, Patchable(ps)
  PROVE  \E o : Sorts(ps, o)
<1>0. ps \in Seq(PatchType)
  BY DEF Patchable
<1>1. PICK m, D, R : m = Len(ps) /\ m \in Nat /\ D = DOMAIN ps /\ D = 1..m /\ R = Sooner(ps)
  BY <1>0
<1>2. IsFiniteSet(D) /\ Cardinality(D) = m /\ Ordered(D, R)
  <2>1. IsFiniteSet(1..m) /\ Cardinality(1..m) = m
    <3>1. 1 \in Int /\ m \in Int
      BY <1>1
    <3>2. IsFiniteSet(1..m) /\ Cardinality(1..m) = IF 1 > m THEN 0 ELSE m - 1 + 1
      BY <3>1, FS_Interval
    <3> QED
      BY <1>1, <3>2
  <2> QED
    BY <1>0, <1>1, <2>1, SoonerOrders
<1>3. \A i \in D : RankIn(D, R, i) \in 0..(m - 1)
  BY <1>2, RankTyped
<1>4. ASSUME NEW i \in D, NEW j \in D, RankIn(D, R, i) <= RankIn(D, R, j) PROVE <<j, i>> \notin R
  BY <1>2, <1>3, <1>4, RankGrows
<1>5. \A n \in D : \E i \in D : RankIn(D, R, i) = n - 1
  BY <1>1, <1>2, RankReached
<1>6. PICK o : o = [n \in D |-> CHOOSE i \in D : RankIn(D, R, i) = n - 1]
  OBVIOUS
<1>7. \A n \in D : o[n] \in D /\ RankIn(D, R, o[n]) = n - 1
  BY <1>5, <1>6
<1>8. o \in [D -> D]
  BY <1>6, <1>7
<1>9. ASSUME NEW i \in D PROVE \E k \in D : o[k] = i
  <2>1. PICK k \in D : k - 1 = RankIn(D, R, i)
    <3>1. RankIn(D, R, i) + 1 \in D /\ (RankIn(D, R, i) + 1) - 1 = RankIn(D, R, i)
      BY <1>1, <1>3
    <3> QED
      BY <3>1
  <2>2. RankIn(D, R, o[k]) = RankIn(D, R, i) /\ o[k] \in D
    BY <1>7, <2>1
  <2>3. <<o[k], i>> \notin R /\ <<i, o[k]>> \notin R
    BY <1>3, <1>4, <2>2
  <2> QED
    BY <1>2, <2>2, <2>3 DEF Ordered
<1>10. ASSUME NEW k \in D, NEW l \in D, k < l PROVE From(ps[o[l]]) < From(ps[o[k]])
  <2>1. o[k] \in D /\ o[l] \in D /\ RankIn(D, R, o[k]) = k - 1 /\ RankIn(D, R, o[l]) = l - 1
    BY <1>7
  <2>2. RankIn(D, R, o[k]) <= RankIn(D, R, o[l]) /\ o[k] # o[l]
    BY <1>1, <1>10, <2>1
  <2>3. <<o[l], o[k]>> \notin R
    BY <1>4, <2>1, <2>2
  <2>4. <<o[k], o[l]>> \in R
    BY <1>2, <2>1, <2>2, <2>3 DEF Ordered
  <2> QED
    BY <1>1, <2>1, <2>4, SoonerStandsLater
<1>11. \A i \in D : Cardinality({j \in D : Precedes(ps, j, i)}) = RankIn(D, R, i)
  <2> TAKE i \in D
  <2>1. {j \in D : Precedes(ps, j, i)} = {j \in D : <<j, i>> \in R}
    BY <1>1 DEF Sooner
  <2> QED
    BY <2>1 DEF RankIn
<1>12. \A n \in D : (CHOOSE i \in D : Cardinality({j \in D : Precedes(ps, j, i)}) = n - 1) = o[n]
  BY <1>6, <1>11
<1>13. SortedPatches(ps) = [k \in D |-> ps[o[k]]]
  <2>1. SortedPatches(ps) = [n \in D |-> ps[CHOOSE i \in D : Cardinality({j \in D : Precedes(ps, j, i)}) = n - 1]]
    BY <1>1 DEF SortedPatches
  <2> QED
    BY <1>12, <2>1
<1> QED
  BY <1>1, <1>8, <1>9, <1>10, <1>13 DEF Sorts

(* ---- patches: the text after each of them ---- *)
PatchLoop(source, seq, n, g) ==
  g = [s \in SUBSET (1..n) |-> IF s = {} THEN source
         ELSE LET x == Max(s) IN ApplyOne(g[s \ {x}], seq[x])]

LEMMA PatchLoopRuns ==
  ASSUME NEW source, NEW seq PROVE \A n \in Nat : \E g : PatchLoop(source, seq, n, g)
<1> DEFINE G == {n \in Nat : \E g : PatchLoop(source, seq, n, g)}
<1>1. 0 \in G
  <2>1. SUBSET (1..0) = {{}}
    OBVIOUS
  <2>2. PatchLoop(source, seq, 0, [s \in SUBSET (1..0) |-> source])
    BY <2>1 DEF PatchLoop
  <2> QED
    BY <2>2
<1>2. ASSUME NEW n \in Nat, n \in G PROVE n + 1 \in G
  <2>1. PICK g : PatchLoop(source, seq, n, g)
    BY <1>2
  <2>2. PICK h : h = [s \in SUBSET (1..(n + 1)) |-> IF n + 1 \in s
                        THEN ApplyOne(g[s \ {n + 1}], seq[n + 1]) ELSE g[s]]
    OBVIOUS
  <2>3. ASSUME NEW s \in SUBSET (1..(n + 1))
        PROVE  h[s] = IF s = {} THEN source
                      ELSE LET x == Max(s) IN ApplyOne(h[s \ {x}], seq[x])
    <3>1. CASE n + 1 \in s
      <4>1. /\ s # {} /\ Max(s) = n + 1 /\ s \ {n + 1} \in SUBSET (1..(n + 1))
            /\ n + 1 \notin s \ {n + 1}
        BY <3>1, TopOfInterval
      <4>2. h[s] = ApplyOne(g[s \ {n + 1}], seq[n + 1]) /\ h[s \ {n + 1}] = g[s \ {n + 1}]
        BY <2>2, <3>1, <4>1, Zenon
      <4> QED
        BY <4>1, <4>2, Zenon
    <3>2. CASE n + 1 \notin s
      <4>1. /\ s \in SUBSET (1..n)
            /\ s # {} => s \ {Max(s)} \in SUBSET (1..(n + 1)) /\ n + 1 \notin s \ {Max(s)}
        BY <3>2, TopOfInterval
      <4>2. h[s] = g[s] /\ (s # {} => h[s \ {Max(s)}] = g[s \ {Max(s)}])
        BY <2>2, <3>2, <4>1, Zenon
      <4>3. g[s] = IF s = {} THEN source
                   ELSE LET x == Max(s) IN ApplyOne(g[s \ {x}], seq[x])
        BY <2>1, <4>1, Zenon DEF PatchLoop
      <4> QED
        BY <4>2, <4>3, Zenon
    <3> QED
      BY <3>1, <3>2
  <2>4. PatchLoop(source, seq, n + 1, h)
    BY <2>2, <2>3, Zenon DEF PatchLoop
  <2> QED
    BY <2>4
<1>3. Nat \subseteq G
  <2> HIDE DEF G
  <2> QED
    BY <1>1, <1>2, NumbersByInduction
<1> QED
  BY <1>3

\* The text before the first patch and after each.
PatchTrace(source, ps, n, tr) ==
  /\ tr[0] = source
  /\ \A k \in 1..n : tr[k] = ApplyOne(tr[k - 1], SortedPatches(ps)[k])
  /\ ApplyPatches(source, ps) = tr[n]

LEMMA PatchesTraced ==
  ASSUME NEW source, NEW ps, NEW n \in Nat, DOMAIN SortedPatches(ps) = 1..n
  PROVE  \E tr : PatchTrace(source, ps, n, tr)
<1>1. PICK seq : seq = SortedPatches(ps) /\ DOMAIN seq = 1..n
  OBVIOUS
<1>4. PICK g : PatchLoop(source, seq, n, g)
  BY PatchLoopRuns
<1>5. PICK it : it = CHOOSE f : PatchLoop(source, seq, n, f)
  OBVIOUS
<1>6. PatchLoop(source, seq, n, it)
  BY <1>4, <1>5
<1>7. ApplyPatches(source, ps) = it[1..n]
  <2>1. ApplyPatches(source, ps) = (CHOOSE f : f = [s \in SUBSET DOMAIN seq |-> IF s = {} THEN source
           ELSE LET x == Max(s) IN ApplyOne(f[s \ {x}], seq[x])])[DOMAIN seq]
    BY <1>1 DEF ApplyPatches, FoldLeft, MapThenFoldSet
  <2> QED
    BY <1>1, <1>5, <2>1 DEF PatchLoop
<1>8. PICK tr : tr = [k \in 0..n |-> it[1..k]]
  OBVIOUS
<1>9. tr[0] = source
  <2>1. 1..0 = {} /\ {} \in SUBSET (1..n) /\ 0 \in 0..n
    OBVIOUS
  <2>2. it[{}] = source
    BY <1>6, <2>1, Zenon DEF PatchLoop
  <2> QED
    BY <1>8, <2>1, <2>2
<1>10. ASSUME NEW k \in 1..n PROVE tr[k] = ApplyOne(tr[k - 1], seq[k])
  <2>1. /\ Max(1..k) = k /\ (1..k) \ {k} = 1..(k - 1) /\ 1..k # {} /\ 1..k \in SUBSET (1..n)
    BY PrefixIs
  <2>2. it[1..k] = ApplyOne(it[1..(k - 1)], seq[k])
    BY <1>6, <2>1, Zenon DEF PatchLoop
  <2>3. k \in 0..n /\ k - 1 \in 0..n
    OBVIOUS
  <2> QED
    BY <1>8, <2>2, <2>3
<1>11. tr[n] = it[1..n]
  BY <1>8
<1> QED
  BY <1>1, <1>7, <1>9, <1>10, <1>11 DEF PatchTrace

\* Patches that are apart change the text as if all were made at once.
LEMMA AppliedAtOnce ==
  ASSUME NEW ps, Patchable(ps)
  PROVE  ApplyPatches(SourceText, ps) = Simultaneous(ps)
<1>0. ps \in Seq(PatchType) /\ (\A r \in DOMAIN ps : Valid(ps[r])) /\ StandApart(ps)
  BY DEF Patchable
<1>1. PICK m, n, T : m = Len(ps) /\ m \in Nat /\ DOMAIN ps = 1..m /\ T = SourceText /\ n = Len(T) /\ n \in Nat
  <2>1. SourceText \in Seq(STRING) /\ Len(SourceText) \in Nat
    BY SourceAssumption
  <2>2. Len(ps) \in Nat /\ DOMAIN ps = 1..Len(ps)
    BY <1>0
  <2> QED
    BY <2>1, <2>2
<1>2. PICK o : Sorts(ps, o)
  BY SortedIs
<1>3. PICK F : Prefixed(STRING, Pieces(ps), n + 1, F) /\ Simultaneous(ps) = F[n + 1]
  BY <1>1, PiecesTyped
<1>4. /\ o \in [1..m -> 1..m] /\ (\A i \in 1..m : \E k \in 1..m : o[k] = i)
      /\ SortedPatches(ps) = [k \in 1..m |-> ps[o[k]]]
      /\ \A k, l \in 1..m : k < l => From(ps[o[l]]) < From(ps[o[k]])
  BY <1>1, <1>2 DEF Sorts
<1>5. PICK tr : /\ tr[0] = T
                /\ \A k \in 1..m : tr[k] = ApplyOne(tr[k - 1], ps[o[k]])
                /\ ApplyPatches(T, ps) = tr[m]
  <2>1. DOMAIN SortedPatches(ps) = 1..m /\ \A k \in 1..m : SortedPatches(ps)[k] = ps[o[k]]
    BY <1>4
  <2>2. \E tr : /\ tr[0] = T
                /\ \A k \in 1..m : tr[k] = ApplyOne(tr[k - 1], SortedPatches(ps)[k])
                /\ ApplyPatches(T, ps) = tr[m]
    <3>1. m \in Nat /\ DOMAIN SortedPatches(ps) = 1..m
      BY <1>1, <2>1
    <3>2. \E tr : PatchTrace(T, ps, m, tr)
      BY <3>1, PatchesTraced
    <3> QED
      BY <3>2 DEF PatchTrace
  <2> QED
    BY <2>1, <2>2
<1>6. PICK s, t : s = [k \in 1..m |-> From(ps[o[k]])] /\ t = [k \in 1..m |-> Upto(ps[o[k]])]
  OBVIOUS
<1>7. \A k \in 1..m : /\ s[k] = From(ps[o[k]]) /\ t[k] = Upto(ps[o[k]]) /\ o[k] \in 1..m
                      /\ s[k] \in 1..(n + 1) /\ t[k] \in 1..(n + 1) /\ s[k] <= t[k]
  <2> TAKE k \in 1..m
  <2>1. o[k] \in 1..m
    BY <1>4
  <2>2. ps[o[k]] \in PatchType /\ Valid(ps[o[k]])
    BY <1>0, <1>1, <2>1
  <2>3. /\ From(ps[o[k]]) \in 1..(n + 1) /\ Upto(ps[o[k]]) \in 1..(n + 1)
        /\ From(ps[o[k]]) <= Upto(ps[o[k]])
    BY <1>1, <2>2, ValidIs
  <2> QED
    BY <1>6, <2>1, <2>3
<1>8. \A k, l \in 1..m : k < l => s[l] < s[k]
  BY <1>4, <1>7
<1>9. \A k, l \in 1..m : k < l => t[l] <= s[k]
  <2> SUFFICES ASSUME NEW k \in 1..m, NEW l \in 1..m, k < l PROVE t[l] <= s[k]
    OBVIOUS
  <2>1. s[l] < s[k]
    BY <1>8
  <2>2. o[k] # o[l]
    <3>1. o[k] = o[l] => s[k] = s[l]
      BY <1>7
    <3>2. s[k] \in Nat /\ s[l] \in Nat
      BY <1>7
    <3> QED
      BY <2>1, <3>1, <3>2
  <2>3. Upto(ps[o[k]]) <= From(ps[o[l]]) \/ Upto(ps[o[l]]) <= From(ps[o[k]])
    BY <1>0, <1>1, <1>7, <2>2 DEF StandApart
  <2>4. t[k] <= s[l] \/ t[l] <= s[k]
    BY <1>7, <2>3
  <2>5. /\ s[k] \in Nat /\ s[l] \in Nat /\ t[k] \in Nat /\ t[l] \in Nat /\ s[k] <= t[k]
    BY <1>7
  <2> QED
    BY <2>1, <2>4, <2>5
<1>10. PICK b : b = [k \in 0..m |-> IF k = 0 THEN n + 1 ELSE s[k] - 1]
  OBVIOUS
<1>11. b[0] = n + 1 /\ \A k \in 1..m : b[k] = s[k] - 1
  BY <1>1, <1>10
<1>12. PatchedFrom(F, b[0], tr[0])
  BY <1>1, <1>3, <1>5, <1>11, PatchedAtFirst
<1>13. ASSUME NEW k \in Nat, k + 1 <= m, PatchedFrom(F, b[k], tr[k])
       PROVE  PatchedFrom(F, b[k + 1], tr[k + 1])
  <2>1. k + 1 \in 1..m /\ (k + 1) - 1 = k /\ k \in 0..m
    BY <1>1, <1>13
  <2>2. PICK c : c = b[k] /\ c \in 0..(n + 1) /\ s[k + 1] <= c /\ t[k + 1] <= UpperEnd(T, c) + 1
                 /\ (k = 0 \/ (k \in 1..m /\ c = s[k] - 1))
    <3>1. CASE k = 0
      <4>1. UpperEnd(T, n + 1) = n
        BY <1>1 DEF UpperEnd
      <4>2. b[k] = n + 1 /\ s[k + 1] <= n + 1 /\ t[k + 1] <= n + 1
        BY <1>1, <1>7, <1>11, <2>1, <3>1
      <4> QED
        BY <1>1, <3>1, <4>1, <4>2
    <3>2. CASE k # 0
      <4>1. k \in 1..m /\ k < k + 1
        BY <2>1, <3>2
      <4>2. /\ b[k] = s[k] - 1 /\ s[k] \in 1..(n + 1) /\ s[k + 1] < s[k] /\ t[k + 1] <= s[k]
            /\ s[k + 1] \in Nat /\ t[k + 1] \in Nat
        BY <1>7, <1>8, <1>9, <1>11, <2>1, <4>1
      <4>3. PICK x : x = s[k]
        OBVIOUS
      <4>4. UpperEnd(T, x - 1) = x - 1
        BY <1>1, <4>2, <4>3 DEF UpperEnd
      <4> QED
        BY <1>1, <4>1, <4>2, <4>3, <4>4
    <3> QED
      BY <3>1, <3>2
  <2>3. PICK i : i = o[k + 1] /\ i \in DOMAIN ps /\ From(ps[i]) = s[k + 1] /\ Upto(ps[i]) = t[k + 1]
    BY <1>1, <1>7, <2>1
  <2>4. ASSUME NEW j \in s[k + 1]..c, NEW r \in DOMAIN ps, r # i PROVE ~Touches(ps[r], j)
    <3>1. PICK l \in 1..m : o[l] = r
      BY <1>1, <1>4
    <3>2. l # k + 1
      BY <2>3, <2>4, <3>1
    <3>3. From(ps[r]) = s[l] /\ Upto(ps[r]) = t[l] /\ s[l] \in Nat /\ t[l] \in Nat
      BY <1>7, <3>1
    <3>4. s[k + 1] \in Nat /\ c \in Nat /\ j \in Nat /\ s[k + 1] <= j /\ j <= c
      BY <1>1, <1>7, <2>1, <2>2, <2>4
    <3>5. CASE l > k + 1
      <4>1. s[l] < s[k + 1] /\ t[l] <= s[k + 1]
        BY <1>8, <1>9, <2>1, <3>5
      <4> QED
        BY <3>3, <3>4, <4>1 DEF Touches, Covers
    <3>6. CASE l < k + 1
      <4>1. k \in 1..m /\ c = s[k] - 1 /\ l <= k
        BY <2>1, <2>2, <3>6
      <4>2. l = k \/ l < k
        BY <2>1, <4>1
      <4>3. s[k] \in Nat /\ s[k] <= s[l]
        <5>1. l < k => s[k] < s[l]
          BY <1>8, <4>1
        <5>2. s[k] \in Nat
          BY <1>7, <4>1
        <5> QED
          BY <3>3, <4>2, <5>1, <5>2
      <4>4. s[l] > j
        BY <3>3, <3>4, <4>1, <4>3
      <4> QED
        BY <3>3, <3>4, <4>4 DEF Touches, Covers
    <3> QED
      BY <2>1, <3>2, <3>5, <3>6
  <2>5. PatchedFrom(F, From(ps[i]) - 1, ApplyOne(tr[k], ps[i]))
    <3>1. /\ Prefixed(STRING, Pieces(ps), Len(SourceText) + 1, F) /\ c \in 0..(Len(SourceText) + 1)
          /\ From(ps[i]) <= c /\ Upto(ps[i]) <= UpperEnd(SourceText, c) + 1
          /\ PatchedFrom(F, c, tr[k])
      BY <1>1, <1>3, <1>13, <2>2, <2>3
    <3>2. \A j \in From(ps[i])..c : \A r \in DOMAIN ps : r # i => ~Touches(ps[r], j)
      BY <2>3, <2>4
    <3> QED
      BY <2>3, <3>1, <3>2, PatchedNext
  <2>6. tr[k + 1] = ApplyOne(tr[k], ps[i]) /\ b[k + 1] = From(ps[i]) - 1
    BY <1>5, <1>11, <2>1, <2>3
  <2> QED
    BY <2>5, <2>6
<1>14. PatchedFrom(F, b[m], tr[m])
  <2> DEFINE G == {k \in Nat : k <= m => PatchedFrom(F, b[k], tr[k])}
  <2>1. 0 \in G
    BY <1>12
  <2>2. ASSUME NEW k \in Nat, k \in G PROVE k + 1 \in G
    <3>1. SUFFICES ASSUME k + 1 <= m PROVE PatchedFrom(F, b[k + 1], tr[k + 1])
      OBVIOUS
    <3>2. k <= m
      BY <1>1, <3>1
    <3> QED
      BY <1>13, <2>2, <3>1, <3>2
  <2>3. Nat \subseteq G
    <3> HIDE DEF G
    <3> QED
      BY <2>1, <2>2, NumbersByInduction
  <2> QED
    BY <1>1, <2>3
<1>15. b[m] \in 0..(n + 1) /\ \A i \in 1..b[m] : \A k \in 1..m : i < s[k]
  <2>1. CASE m = 0
    BY <1>1, <1>11, <2>1
  <2>2. CASE m # 0
    <3>1. m \in 1..m
      BY <1>1, <2>2
    <3>2. b[m] = s[m] - 1 /\ s[m] \in 1..(n + 1)
      BY <1>7, <1>11, <3>1
    <3>3. ASSUME NEW k \in 1..m PROVE s[m] <= s[k] /\ s[k] \in Nat
      <4>1. k = m \/ k < m
        BY <1>1
      <4>2. k < m => s[m] < s[k]
        BY <1>8, <3>1
      <4>3. s[k] \in Nat
        BY <1>7
      <4> QED
        BY <3>2, <4>1, <4>2, <4>3
    <3> QED
      BY <1>1, <3>2, <3>3
  <2> QED
    BY <2>1, <2>2
<1>16. ASSUME NEW i \in 1..b[m], NEW r \in DOMAIN ps PROVE ~Touches(ps[r], i)
  <2>1. PICK l \in 1..m : o[l] = r
    BY <1>1, <1>4
  <2>2. From(ps[r]) = s[l] /\ s[l] \in Nat /\ i < s[l] /\ i \in Nat
    BY <1>7, <1>15, <2>1
  <2> QED
    BY <2>2 DEF Touches, Covers
<1>17. tr[m] = F[n + 1]
  <2>1. PICK c : c = b[m] /\ c \in 0..(n + 1)
    BY <1>15
  <2>2. Prefixed(STRING, Pieces(ps), Len(SourceText) + 1, F) /\ c \in 0..(Len(SourceText) + 1)
        /\ PatchedFrom(F, c, tr[m]) /\ \A i \in 1..c : \A r \in DOMAIN ps : ~Touches(ps[r], i)
    BY <1>1, <1>3, <1>14, <1>16, <2>1
  <2>3. tr[m] = F[Len(SourceText) + 1]
    BY <2>2, PatchedAtLast
  <2> QED
    BY <1>1, <2>3
<1> QED
  BY <1>1, <1>3, <1>5, <1>17

LEMMA SomeOfThemPatchable ==
  ASSUME NEW ps, Patchable(ps), NEW k \in Nat, NEW f \in [1..k -> DOMAIN ps],
         \A i, j \in 1..k : i # j => f[i] # f[j], NEW qs, qs = [i \in 1..k |-> ps[f[i]]]
  PROVE  Patchable(qs) /\ DOMAIN qs = 1..k
<1>0. ps \in Seq(PatchType) /\ (\A r \in DOMAIN ps : Valid(ps[r])) /\ StandApart(ps)
  BY DEF Patchable
<1>1. DOMAIN qs = 1..k /\ \A i \in 1..k : f[i] \in DOMAIN ps /\ qs[i] = ps[f[i]]
  OBVIOUS
<1>2. \A i \in 1..k : qs[i] \in PatchType /\ Valid(qs[i])
  BY <1>0, <1>1
<1>3. qs \in Seq(PatchType)
  <2>1. qs \in [1..k -> PatchType]
    BY <1>1, <1>2
  <2> QED
    BY <2>1
<1>4. StandApart(qs)
  BY <1>0, <1>1 DEF StandApart
<1> QED
  BY <1>1, <1>2, <1>3, <1>4 DEF Patchable

\* What is made at once does not depend on the order of the patches.
LEMMA SameInAnyOrder ==
  ASSUME NEW ps, Patchable(ps), NEW qs, Patchable(qs),
         \A i \in DOMAIN qs : \E j \in DOMAIN ps : qs[i] = ps[j],
         \A j \in DOMAIN ps : \E i \in DOMAIN qs : qs[i] = ps[j]
  PROVE  Simultaneous(ps) = Simultaneous(qs)
<1>0. StandApart(ps) /\ StandApart(qs)
  BY DEF Patchable
<1>1. ASSUME NEW i \in 1..(Len(SourceText) + 1) PROVE PieceAt(ps, i) = PieceAt(qs, i)
  <2>1. CoveredIn(ps, i) <=> CoveredIn(qs, i)
    BY Zenon DEF CoveredIn
  <2>2. Left(ps, i) = Left(qs, i)
    BY <2>1, Zenon DEF Left
  <2>3. Put(ps, i) = Put(qs, i)
    <3>1. StartingAt(ps, i) = {} <=> StartingAt(qs, i) = {}
      <4>1. (\E j \in DOMAIN ps : From(ps[j]) = i) <=> (\E j \in DOMAIN qs : From(qs[j]) = i)
        OBVIOUS
      <4> QED
        BY <4>1 DEF StartingAt
    <3>2. CASE StartingAt(ps, i) = {}
      BY <3>1, <3>2 DEF Put
    <3>3. CASE StartingAt(ps, i) # {}
      <4>1. PICK x : x = (CHOOSE n \in StartingAt(ps, i) : TRUE) /\ x \in DOMAIN ps /\ From(ps[x]) = i
        BY <3>3 DEF StartingAt
      <4>2. PICK y : y = (CHOOSE n \in StartingAt(qs, i) : TRUE) /\ y \in DOMAIN qs /\ From(qs[y]) = i
        BY <3>1, <3>3 DEF StartingAt
      <4>3. PICK z \in DOMAIN ps : qs[y] = ps[z]
        BY <4>2
      <4>4. z = x
        BY <1>0, <4>1, <4>2, <4>3 DEF StandApart
      <4>5. Put(ps, i) = ps[x].text /\ Put(qs, i) = qs[y].text
        BY <3>1, <3>3, <4>1, <4>2 DEF Put
      <4> QED
        BY <4>3, <4>4, <4>5
    <3> QED
      BY <3>2, <3>3
  <2> QED
    BY <2>2, <2>3 DEF PieceAt
<1>2. Pieces(ps) = Pieces(qs)
  BY <1>1 DEF Pieces
<1> QED
  BY <1>2, SimultaneousIs

LEMMA ReversedSame ==
  ASSUME NEW ps, Patchable(ps)
  PROVE  ApplyPatches(SourceText, Reverse(ps)) = ApplyPatches(SourceText, ps)
<1>0. ps \in Seq(PatchType)
  BY DEF Patchable
<1>1. PICK k : k = Len(ps) /\ k \in Nat /\ DOMAIN ps = 1..k
  BY <1>0
<1> DEFINE f == [i \in 1..k |-> (k - i) + 1]
<1>2. /\ f \in [1..k -> DOMAIN ps] /\ \A i, j \in 1..k : i # j => f[i] # f[j]
      /\ \A i \in 1..k : f[f[i]] = i
  BY <1>1
<1>3. PICK qs : qs = Reverse(ps) /\ qs = [i \in 1..k |-> ps[f[i]]]
  BY <1>1 DEF Reverse
<1> HIDE DEF f
<1>4. Patchable(qs) /\ DOMAIN qs = 1..k
  <2>1. k \in Nat /\ f \in [1..k -> DOMAIN ps] /\ \A i, j \in 1..k : i # j => f[i] # f[j]
    BY <1>1, <1>2
  <2>2. qs = [i \in 1..k |-> ps[f[i]]]
    BY <1>3
  <2> QED
    BY <2>1, <2>2, SomeOfThemPatchable
<1>5. \A i \in DOMAIN qs : \E j \in DOMAIN ps : qs[i] = ps[j]
  BY <1>1, <1>2, <1>3, <1>4
<1>6. \A j \in DOMAIN ps : \E i \in DOMAIN qs : qs[i] = ps[j]
  <2> TAKE j \in DOMAIN ps
  <2>1. f[j] \in 1..k /\ f[f[j]] = j
    BY <1>1, <1>2
  <2>2. qs[f[j]] = ps[j]
    BY <1>3, <2>1
  <2> QED
    BY <1>4, <2>1, <2>2
<1>7. Simultaneous(ps) = Simultaneous(qs)
  BY <1>4, <1>5, <1>6, SameInAnyOrder
<1> QED
  BY <1>3, <1>4, <1>7, AppliedAtOnce

LEMMA FixedAtOnce ==
  ASSUME NEW ps, Patchable(ps), NEW chosen \in Seq(DOMAIN ps),
         \A i, j \in DOMAIN chosen : i # j => chosen[i] # chosen[j]
  PROVE  FixFile(SourceText, ps, chosen) = Simultaneous([i \in DOMAIN chosen |-> ps[chosen[i]]])
<1>1. PICK k : k \in Nat /\ DOMAIN chosen = 1..k /\ chosen \in [1..k -> DOMAIN ps]
  OBVIOUS
<1>2. PICK qs : qs = [i \in 1..k |-> ps[chosen[i]]]
  OBVIOUS
<1>3. Patchable(qs) /\ DOMAIN qs = 1..k
  BY <1>1, <1>2, SomeOfThemPatchable
<1>4. ApplyPatches(SourceText, qs) = Simultaneous(qs)
  BY <1>3, AppliedAtOnce
<1>5. CASE chosen = <<>>
  <2>1. k = 0
    BY <1>1, <1>5
  <2>2. DOMAIN SortedPatches(qs) = 1..0
    BY <1>3, <2>1 DEF SortedPatches
  <2>3. ApplyPatches(SourceText, qs) = SourceText
    BY <2>2, PatchesTraced DEF PatchTrace
  <2> QED
    BY <1>1, <1>2, <1>4, <1>5, <2>3 DEF FixFile
<1>6. CASE chosen # <<>>
  BY <1>1, <1>2, <1>4, <1>6 DEF FixFile
<1> QED
  BY <1>5, <1>6

(* ---- patches: the answers ---- *)
AskLoop(first, seq, n, g) ==
  g = [s \in SUBSET (1..n) |-> IF s = {} THEN first
         ELSE LET x == Max(s) IN AskStep(g[s \ {x}], seq[x])]

LEMMA AskLoopRuns ==
  ASSUME NEW first, NEW seq PROVE \A n \in Nat : \E g : AskLoop(first, seq, n, g)
<1> DEFINE G == {n \in Nat : \E g : AskLoop(first, seq, n, g)}
<1>1. 0 \in G
  <2>1. SUBSET (1..0) = {{}}
    OBVIOUS
  <2>2. AskLoop(first, seq, 0, [s \in SUBSET (1..0) |-> first])
    BY <2>1 DEF AskLoop
  <2> QED
    BY <2>2
<1>2. ASSUME NEW n \in Nat, n \in G PROVE n + 1 \in G
  <2>1. PICK g : AskLoop(first, seq, n, g)
    BY <1>2
  <2>2. PICK h : h = [s \in SUBSET (1..(n + 1)) |-> IF n + 1 \in s
                        THEN AskStep(g[s \ {n + 1}], seq[n + 1]) ELSE g[s]]
    OBVIOUS
  <2>3. ASSUME NEW s \in SUBSET (1..(n + 1))
        PROVE  h[s] = IF s = {} THEN first
                      ELSE LET x == Max(s) IN AskStep(h[s \ {x}], seq[x])
    <3>1. CASE n + 1 \in s
      <4>1. /\ s # {} /\ Max(s) = n + 1 /\ s \ {n + 1} \in SUBSET (1..(n + 1))
            /\ n + 1 \notin s \ {n + 1}
        BY <3>1, TopOfInterval
      <4>2. h[s] = AskStep(g[s \ {n + 1}], seq[n + 1]) /\ h[s \ {n + 1}] = g[s \ {n + 1}]
        BY <2>2, <3>1, <4>1, Zenon
      <4> QED
        BY <4>1, <4>2, Zenon
    <3>2. CASE n + 1 \notin s
      <4>1. /\ s \in SUBSET (1..n)
            /\ s # {} => s \ {Max(s)} \in SUBSET (1..(n + 1)) /\ n + 1 \notin s \ {Max(s)}
        BY <3>2, TopOfInterval
      <4>2. h[s] = g[s] /\ (s # {} => h[s \ {Max(s)}] = g[s \ {Max(s)}])
        BY <2>2, <3>2, <4>1, Zenon
      <4>3. g[s] = IF s = {} THEN first
                   ELSE LET x == Max(s) IN AskStep(g[s \ {x}], seq[x])
        BY <2>1, <4>1, Zenon DEF AskLoop
      <4> QED
        BY <4>2, <4>3, Zenon
    <3> QED
      BY <3>1, <3>2
  <2>4. AskLoop(first, seq, n + 1, h)
    BY <2>2, <2>3, Zenon DEF AskLoop
  <2> QED
    BY <2>4
<1>3. Nat \subseteq G
  <2> HIDE DEF G
  <2> QED
    BY <1>1, <1>2, NumbersByInduction
<1> QED
  BY <1>3


Unasked(answers) == [chosen |-> <<>>, skipped |-> 0, all |-> FALSE, answers |-> answers]

LEMMA AnswersTraced ==
  ASSUME NEW S, NEW ps \in Seq(S), NEW answers
  PROVE  \E tr : /\ tr[0] = Unasked(answers)
                 /\ \A k \in 1..Len(ps) : tr[k] = AskStep(tr[k - 1], k)
                 /\ Selected(ps, TRUE, FALSE, answers) = tr[Len(ps)]
<1>1. PICK n : n = Len(ps) /\ n \in Nat /\ DOMAIN ps = 1..n
  OBVIOUS
<1>2. PICK first : first = Unasked(answers)
  OBVIOUS
<1>3. PICK seq : seq = [i \in DOMAIN ps |-> i]
  OBVIOUS
<1>12. DOMAIN seq = 1..n /\ \A k \in 1..n : seq[k] = k
  BY <1>1, <1>3
<1>4. PICK g : AskLoop(first, seq, n, g)
  BY <1>1, AskLoopRuns
<1>5. PICK it : it = CHOOSE f : AskLoop(first, seq, n, f)
  OBVIOUS
<1>6. AskLoop(first, seq, n, it)
  BY <1>4, <1>5
<1>7. Selected(ps, TRUE, FALSE, answers) = it[1..n]
  <2>1. [chosen |-> <<>>, skipped |-> 0, all |-> FALSE \/ ~TRUE, answers |-> answers] = first
    <3>1. (FALSE \/ ~TRUE) = FALSE
      OBVIOUS
    <3> QED
      BY <1>2, <3>1 DEF Unasked
  <2>2. Selected(ps, TRUE, FALSE, answers) = FoldLeft(AskStep, first, seq)
    BY <1>3, <2>1, Zenon DEF Selected
  <2>3. FoldLeft(AskStep, first, seq) = (CHOOSE f : f = [s \in SUBSET DOMAIN seq |-> IF s = {} THEN first
           ELSE LET x == Max(s) IN AskStep(f[s \ {x}], seq[x])])[DOMAIN seq]
    BY DEF FoldLeft, MapThenFoldSet
  <2> QED
    BY <1>12, <1>5, <2>2, <2>3 DEF AskLoop
<1>8. PICK tr : tr = [k \in 0..n |-> it[1..k]]
  OBVIOUS
<1>9. tr[0] = first
  <2>1. 1..0 = {} /\ {} \in SUBSET (1..n) /\ 0 \in 0..n
    BY <1>1
  <2>2. it[{}] = first
    BY <1>6, <2>1, Zenon DEF AskLoop
  <2> QED
    BY <1>8, <2>1, <2>2
<1>10. ASSUME NEW k \in 1..n PROVE tr[k] = AskStep(tr[k - 1], k)
  <2>1. /\ Max(1..k) = k /\ (1..k) \ {k} = 1..(k - 1) /\ 1..k # {} /\ 1..k \in SUBSET (1..n)
    BY <1>1, PrefixIs
  <2>2. it[1..k] = AskStep(it[1..(k - 1)], seq[k])
    BY <1>6, <2>1, Zenon DEF AskLoop
  <2>3. k \in 0..n /\ k - 1 \in 0..n /\ seq[k] = k
    BY <1>1, <1>12
  <2> QED
    BY <1>8, <2>2, <2>3
<1>11. tr[n] = it[1..n]
  BY <1>1, <1>8
<1> QED
  BY <1>1, <1>2, <1>7, <1>9, <1>10, <1>11

\* What is known after k answers: which patches were refused, which chosen.
Taken(answers, k) == \E j \in 1..k : answers[j] = "a"
Refused(answers, k) == {i \in 1..k : answers[i] = "n" /\ ~Taken(answers, i - 1)}
Asked(st, answers, k) ==
  /\ DOMAIN st = {"chosen", "skipped", "all", "answers"}
  /\ st.answers = answers /\ st.all \in BOOLEAN
  /\ st.chosen \in Seq(1..k) /\ st.skipped \in Nat
  /\ st.all = TRUE <=> Taken(answers, k)
  /\ \A i, j \in DOMAIN st.chosen : i < j => st.chosen[i] < st.chosen[j]
  /\ Len(st.chosen) + st.skipped = k
  /\ st.skipped = Cardinality(Refused(answers, k))

StateIs(st, ch, sk, al, ans) ==
  /\ DOMAIN st = {"chosen", "skipped", "all", "answers"} /\ al \in BOOLEAN
  /\ st.chosen = ch /\ st.skipped = sk /\ st.all = al /\ st.answers = ans
AnswerCounts(st, ch, sk, al, ans, n) ==
  /\ st.answers = ans /\ st.all \in BOOLEAN
  /\ DOMAIN st = {"chosen", "skipped", "all", "answers"}
  /\ st.all = TRUE <=> al = TRUE \/ ans[n] = "a"
  /\ al = FALSE /\ ans[n] = "n" => st.chosen = ch /\ st.skipped = sk + 1
  /\ ~(al = FALSE /\ ans[n] = "n") => st.chosen = Append(ch, n) /\ st.skipped = sk

LEMMA AskStepIs ==
  ASSUME NEW ans, NEW ch, NEW sk, NEW al, NEW n, NEW st, StateIs(st, ch, sk, al, ans)
  PROVE  AnswerCounts(AskStep(st, n), ch, sk, al, ans, n)
<1>0. /\ DOMAIN st = {"chosen", "skipped", "all", "answers"} /\ al \in BOOLEAN
      /\ st.chosen = ch /\ st.skipped = sk /\ st.all = al /\ st.answers = ans
  BY DEF StateIs
<1>1. CASE al = FALSE /\ ans[n] = "n"
  BY <1>0, <1>1 DEF AskStep, AnswerCounts
<1>2. CASE al = FALSE /\ ans[n] # "n"
  BY <1>0, <1>2 DEF AskStep, AnswerCounts
<1>3. CASE al = TRUE
  <2>1. AskStep(st, n) = [st EXCEPT !.chosen = Append(@, n), !.all = @ \/ "y" = "a"]
    BY <1>0, <1>3 DEF AskStep
  <2>2. AskStep(st, n).all = (al \/ "y" = "a") /\ (al \/ "y" = "a") = TRUE
    BY <1>0, <1>3, <2>1
  <2> QED
    BY <1>0, <1>3, <2>1, <2>2 DEF AnswerCounts
<1> QED
  BY <1>0, <1>1, <1>2, <1>3

LEMMA RefusedNext ==
  ASSUME NEW ans, NEW k \in Nat
  PROVE  /\ IsFiniteSet(Refused(ans, k)) /\ k + 1 \notin Refused(ans, k)
         /\ Refused(ans, k + 1) = IF ans[k + 1] = "n" /\ ~Taken(ans, k)
                                  THEN Refused(ans, k) \cup {k + 1} ELSE Refused(ans, k)
         /\ Taken(ans, k + 1) <=> Taken(ans, k) \/ ans[k + 1] = "a"
<1>1. 1..(k + 1) = (1..k) \cup {k + 1} /\ k + 1 \notin 1..k /\ (k + 1) - 1 = k
  OBVIOUS
<1>2. IsFiniteSet(Refused(ans, k)) /\ Refused(ans, k) \in SUBSET (1..k)
  <2>1. Refused(ans, k) \in SUBSET (1..k)
    BY DEF Refused
  <2>2. IsFiniteSet(1..k)
    BY FS_Interval
  <2> QED
    BY <2>1, <2>2, FS_Subset
<1>3. Taken(ans, k + 1) <=> Taken(ans, k) \/ ans[k + 1] = "a"
  BY <1>1 DEF Taken
<1>4. \A i : i \in Refused(ans, k + 1)
               <=> i \in Refused(ans, k) \/ (i = k + 1 /\ ans[k + 1] = "n" /\ ~Taken(ans, k))
  BY <1>1, Zenon DEF Refused
<1>5. CASE ans[k + 1] = "n" /\ ~Taken(ans, k)
  BY <1>1, <1>2, <1>3, <1>4, <1>5
<1>6. CASE ~(ans[k + 1] = "n" /\ ~Taken(ans, k))
  BY <1>1, <1>2, <1>3, <1>4, <1>6
<1> QED
  BY <1>5, <1>6

LEMMA AskedNext ==
  ASSUME NEW ans, NEW k \in Nat, NEW st, Asked(st, ans, k)
  PROVE  Asked(AskStep(st, k + 1), ans, k + 1)
<1>1. PICK ch, sk, al : ch = st.chosen /\ sk = st.skipped /\ al = st.all
  OBVIOUS
<1>2. /\ DOMAIN st = {"chosen", "skipped", "all", "answers"} /\ st.answers = ans /\ al \in BOOLEAN
      /\ ch \in Seq(1..k) /\ sk \in Nat /\ (al = TRUE <=> Taken(ans, k))
      /\ (\A i, j \in DOMAIN ch : i < j => ch[i] < ch[j])
      /\ Len(ch) + sk = k /\ sk = Cardinality(Refused(ans, k))
  BY <1>1 DEF Asked
<1>3. PICK nx : nx = AskStep(st, k + 1)
  OBVIOUS
<1>4. /\ nx.answers = ans /\ nx.all \in BOOLEAN
      /\ DOMAIN nx = {"chosen", "skipped", "all", "answers"}
      /\ nx.all = TRUE <=> al = TRUE \/ ans[k + 1] = "a"
      /\ al = FALSE /\ ans[k + 1] = "n" => nx.chosen = ch /\ nx.skipped = sk + 1
      /\ ~(al = FALSE /\ ans[k + 1] = "n") => nx.chosen = Append(ch, k + 1) /\ nx.skipped = sk
  <2>1. StateIs(st, ch, sk, al, ans)
    BY <1>1, <1>2 DEF StateIs
  <2>2. AnswerCounts(nx, ch, sk, al, ans, k + 1)
    BY <1>3, <2>1, AskStepIs
  <2> QED
    BY <2>2 DEF AnswerCounts
<1>5. nx.all = TRUE <=> Taken(ans, k + 1)
  BY <1>2, <1>4, RefusedNext
<1>6. CASE al = FALSE /\ ans[k + 1] = "n"
  <2>1. nx.chosen = ch /\ nx.skipped = sk + 1
    BY <1>4, <1>6
  <2>2. ch \in Seq(1..(k + 1))
    <3>1. \A i \in DOMAIN ch : ch[i] \in 1..(k + 1)
      BY <1>2
    <3> QED
      BY <1>2, <3>1
  <2>3. Cardinality(Refused(ans, k + 1)) = sk + 1
    <3>1. ~Taken(ans, k)
      BY <1>2, <1>6
    <3>2. IsFiniteSet(Refused(ans, k)) /\ k + 1 \notin Refused(ans, k) /\ Refused(ans, k + 1) = Refused(ans, k) \cup {k + 1}
      BY <1>6, <3>1, RefusedNext
    <3> QED
      BY <1>2, <3>2, FS_AddElement
  <2>4. Len(ch) + (sk + 1) = k + 1
    <3>1. Len(ch) \in Nat /\ sk \in Nat /\ Len(ch) + sk = k
      BY <1>2
    <3> QED
      BY <3>1
  <2> QED
    BY <1>2, <1>3, <1>4, <1>5, <2>1, <2>2, <2>3, <2>4 DEF Asked
<1>7. CASE ~(al = FALSE /\ ans[k + 1] = "n")
  <2>1. nx.chosen = Append(ch, k + 1) /\ nx.skipped = sk
    BY <1>4, <1>7
  <2>2. /\ Append(ch, k + 1) \in Seq(1..(k + 1)) /\ Len(Append(ch, k + 1)) = Len(ch) + 1
        /\ \A i \in 1..Len(ch) : Append(ch, k + 1)[i] = ch[i]
        /\ Append(ch, k + 1)[Len(ch) + 1] = k + 1
    <3>1. \A i \in DOMAIN ch : ch[i] \in 1..(k + 1)
      BY <1>2
    <3>2. ch \in Seq(1..(k + 1)) /\ k + 1 \in 1..(k + 1)
      BY <1>2, <3>1
    <3> QED
      BY <3>2, AppendProperties
  <2>3. \A i, j \in DOMAIN Append(ch, k + 1) : i < j => Append(ch, k + 1)[i] < Append(ch, k + 1)[j]
    <3>0. Len(ch) \in Nat /\ DOMAIN ch = 1..Len(ch)
      BY <1>2
    <3>1. PICK l, xs : l = Len(ch) /\ l \in Nat /\ xs = Append(ch, k + 1) /\ DOMAIN ch = 1..l
      BY <3>0
    <3>2. DOMAIN xs = 1..(l + 1) /\ (\A i \in 1..l : xs[i] = ch[i]) /\ xs[l + 1] = k + 1
      BY <2>2, <3>1
    <3>3. \A i \in 1..l : ch[i] \in 1..k
      <4>1. ch \in Seq(1..k)
        BY <1>2
      <4>2. \A i \in DOMAIN ch : ch[i] \in 1..k
        BY <4>1
      <4> QED
        BY <3>1, <4>2
    <3>4. ASSUME NEW i \in 1..(l + 1), NEW j \in 1..(l + 1), i < j PROVE xs[i] < xs[j]
      <4>1. i \in 1..l /\ (j \in 1..l \/ j = l + 1)
        BY <3>1, <3>4
      <4>2. CASE j = l + 1
        BY <3>2, <3>3, <4>1, <4>2
      <4>3. CASE j \in 1..l
        BY <1>2, <3>1, <3>2, <3>4, <4>1, <4>3
      <4> QED
        BY <4>1, <4>2, <4>3
    <3> QED
      BY <3>1, <3>2, <3>4
  <2>4. Cardinality(Refused(ans, k + 1)) = sk
    <3>1. ~(ans[k + 1] = "n" /\ ~Taken(ans, k))
      BY <1>2, <1>7
    <3>2. Refused(ans, k + 1) = Refused(ans, k)
      BY <3>1, RefusedNext
    <3> QED
      BY <1>2, <3>2
  <2>5. (Len(ch) + 1) + sk = k + 1
    BY <1>2
  <2> QED
    BY <1>2, <1>3, <1>4, <1>5, <2>1, <2>2, <2>3, <2>4, <2>5 DEF Asked
<1> QED
  BY <1>6, <1>7

LEMMA AllAsked ==
  ASSUME NEW S, NEW ps \in Seq(S), NEW ans
  PROVE  Asked(Selected(ps, TRUE, FALSE, ans), ans, Len(ps))
<1>1. PICK n : n = Len(ps) /\ n \in Nat
  OBVIOUS
<1>2. PICK tr : /\ tr[0] = Unasked(ans)
                /\ \A k \in 1..n : tr[k] = AskStep(tr[k - 1], k)
                /\ Selected(ps, TRUE, FALSE, ans) = tr[n]
  <2>1. \E tr : /\ tr[0] = Unasked(ans)
                /\ \A k \in 1..Len(ps) : tr[k] = AskStep(tr[k - 1], k)
                /\ Selected(ps, TRUE, FALSE, ans) = tr[Len(ps)]
    BY AnswersTraced
  <2> QED
    BY <1>1, <2>1
<1> DEFINE G == {k \in Nat : k <= n => Asked(tr[k], ans, k)}
<1>3. 0 \in G
  <2>1. PICK st : st = Unasked(ans)
    OBVIOUS
  <2>2. /\ DOMAIN st = {"chosen", "skipped", "all", "answers"} /\ st.answers = ans /\ st.all = FALSE
        /\ st.chosen = <<>> /\ st.skipped = 0
    BY <2>1 DEF Unasked
  <2>3. ~Taken(ans, 0) /\ Refused(ans, 0) = {} /\ Cardinality({}) = 0
    BY FS_EmptySet DEF Taken, Refused
  <2>4. PICK ch : ch = st.chosen /\ ch \in Seq(1..0) /\ Len(ch) = 0 /\ DOMAIN ch = {}
    <3>1. <<>> \in Seq(1..0) /\ Len(<<>>) = 0 /\ DOMAIN <<>> = {}
      OBVIOUS
    <3>2. st.chosen = <<>>
      BY <2>2
    <3> QED
      BY <3>1, <3>2
  <2>5. st.all \in BOOLEAN /\ (st.all = TRUE <=> Taken(ans, 0))
    BY <2>2, <2>3
  <2>6. st.skipped \in Nat /\ Len(ch) + st.skipped = 0 /\ st.skipped = Cardinality(Refused(ans, 0))
    <3>1. Cardinality(Refused(ans, 0)) = 0
      BY <2>3
    <3>2. st.skipped = 0
      BY <2>2
    <3>3. Len(ch) = 0
      BY <2>4
    <3>4. 0 + 0 = 0 /\ 0 \in Nat
      OBVIOUS
    <3> QED
      BY <3>1, <3>2, <3>3, <3>4
  <2>7. \A i, j \in DOMAIN ch : i < j => ch[i] < ch[j]
    BY <2>4
  <2>8. Asked(st, ans, 0)
    BY <2>2, <2>4, <2>5, <2>6, <2>7, Zenon DEF Asked
  <2> QED
    BY <1>2, <2>1, <2>8
<1>4. ASSUME NEW k \in Nat, k \in G PROVE k + 1 \in G
  <2>1. SUFFICES ASSUME k + 1 <= n PROVE Asked(tr[k + 1], ans, k + 1)
    OBVIOUS
  <2>2. k <= n /\ k + 1 \in 1..n /\ (k + 1) - 1 = k
    BY <1>1, <2>1
  <2>3. Asked(tr[k], ans, k) /\ tr[k + 1] = AskStep(tr[k], k + 1)
    BY <1>2, <1>4, <2>2
  <2> QED
    BY <2>3, AskedNext
<1>5. Nat \subseteq G
  <2> HIDE DEF G
  <2> QED
    BY <1>3, <1>4, NumbersByInduction
<1>6. Asked(tr[n], ans, n)
  <2>1. n \in Nat /\ n <= n
    BY <1>1
  <2> QED
    BY <1>5, <2>1
<1> HIDE DEF G
<1> QED
  BY <1>1, <1>2, <1>6

\* What the subject of a state is when patches are looked at.
PatchesTyped == part = "patches" => subject.patches \in Seq(PatchType)

(* Patches that stand in the source, in order and apart, change it as if all   *)
(* were made at once, whatever the source, the patches and the answers are     *)
(* (Patcher::apply_patches, fix.rs): of the answers each chooses a patch or     *)
(* skips it.                                                                   *)
THEOREM PatchesIndependentAnywhere ==
  ASSUME PatchesTyped
  PROVE  PatchesAreIndependent
<1>0. SUFFICES ASSUME part = "patches" PROVE PatchesAreIndependent
  BY DEF PatchesAreIndependent
<1>1. PICK ps, ans, asked : /\ ps = subject.patches /\ ans = subject.answers
                            /\ asked = Selected(ps, TRUE, FALSE, ans)
  OBVIOUS
<1>2. ps \in Seq(PatchType)
  BY <1>0, <1>1 DEF PatchesTyped
<1>3. PICK n : n = Len(ps) /\ n \in Nat /\ DOMAIN ps = 1..n
  BY <1>2
<1>4. Asked(asked, ans, n)
  BY <1>1, <1>2, <1>3, AllAsked
<1>5. Len(asked.chosen) + asked.skipped = Len(ps)
  BY <1>3, <1>4 DEF Asked
<1>6. asked.skipped = Cardinality({i \in DOMAIN ps : ans[i] = "n" /\ \A j \in 1..(i - 1) : ans[j] # "a"})
  <2>1. Refused(ans, n) = {i \in DOMAIN ps : ans[i] = "n" /\ \A j \in 1..(i - 1) : ans[j] # "a"}
    BY <1>3 DEF Refused, Taken
  <2> QED
    BY <1>4, <2>1 DEF Asked
<1>7. ASSUME \A i \in DOMAIN ps : Valid(ps[i]), StandApart(ps)
      PROVE  /\ ApplyPatches(SourceText, ps) = Simultaneous(ps)
             /\ ApplyPatches(SourceText, Reverse(ps)) = ApplyPatches(SourceText, ps)
             /\ FixFile(SourceText, ps, asked.chosen)
                  = Simultaneous([i \in DOMAIN asked.chosen |-> ps[asked.chosen[i]]])
  <2>1. Patchable(ps)
    BY <1>2, <1>7 DEF Patchable
  <2>2. PICK ch : ch = asked.chosen /\ ch \in Seq(1..n) /\ \A i, j \in DOMAIN ch : i < j => ch[i] < ch[j]
    BY <1>4 DEF Asked
  <2>3. \A i, j \in DOMAIN ch : i # j => ch[i] # ch[j]
    <3>1. \A i \in DOMAIN ch : i \in Nat /\ ch[i] \in Nat
      BY <1>3, <2>2
    <3> QED
      BY <2>2, <3>1
  <2>4. ch \in Seq(DOMAIN ps)
    BY <1>3, <2>2
  <2>5. FixFile(SourceText, ps, ch) = Simultaneous([i \in DOMAIN ch |-> ps[ch[i]]])
    BY <2>1, <2>3, <2>4, FixedAtOnce
  <2> QED
    BY <2>1, <2>2, <2>5, AppliedAtOnce, ReversedSame
<1>8. StandApart(ps) <=> \A i, j \in DOMAIN ps : i # j => From(ps[i]) # From(ps[j])
                      /\ (Upto(ps[i]) <= From(ps[j]) \/ Upto(ps[j]) <= From(ps[i]))
  BY DEF StandApart
<1> QED
  BY <1>1, <1>5, <1>6, <1>7, <1>8, Zenon DEF PatchesAreIndependent

(* ---- invariants and latencies ---- *)
AnnotatedFn == [impl : BOOLEAN, invariant : SUBSET ({"none"} \cup InvariantMarks)]

LEMMA SolverRefutes ==
  ASSUME NEW spec \in AnnotatedFn, NEW givesUp \in BOOLEAN
  PROVE  check_invariant_spec(spec, givesUp) # "none" <=> spec.invariant \cap InvariantMarks # {}
<1>1. OverflowCheck(spec) \/ UnderflowCheck(spec) <=> spec.invariant \cap InvariantMarks # {}
  BY DEF OverflowCheck, UnderflowCheck, InvariantMarks
<1>2. Violations(spec) # {}
  <2>1. MaxU64 \in 0..MaxU64 /\ 0 \in 0..MaxU64 /\ 1 \in 0..MaxU64 /\ MaxU64 + MaxU64 > MaxU64
    BY WidthAssumption
  <2>2. CASE OverflowCheck(spec)
    <3>1. <<MaxU64, MaxU64>> \in Violations(spec)
      BY <2>1, <2>2 DEF Violations
    <3> QED
      BY <3>1
  <2>3. CASE ~OverflowCheck(spec)
    <3>1. <<0, 1>> \in Violations(spec)
      BY <2>1, <2>3 DEF Violations
    <3> QED
      BY <3>1
  <2> QED
    BY <2>2, <2>3
<1>3. Sat(Violations(spec)) = "sat"
  BY <1>2 DEF Sat
<1> QED
  BY <1>1, <1>3 DEF check_invariant_spec

LEMMA InvariantsReported ==
  ASSUME NEW fns \in Seq(AnnotatedFn), NEW givesUp \in BOOLEAN
  PROVE  verify_invariants(fns, givesUp)
           = {i \in DOMAIN fns : fns[i].impl /\ fns[i].invariant \cap InvariantMarks # {}}
<1>1. ASSUME NEW i \in DOMAIN fns
      PROVE  i \in verify_invariants(fns, givesUp)
               <=> fns[i].impl /\ fns[i].invariant \cap InvariantMarks # {}
  <2>1. fns[i] \in AnnotatedFn
    OBVIOUS
  <2>2. check_invariant_spec(fns[i], givesUp) # "none" <=> fns[i].invariant \cap InvariantMarks # {}
    BY <2>1, SolverRefutes
  <2>3. fns[i].invariant = {"none"} => fns[i].invariant \cap InvariantMarks = {}
    BY DEF InvariantMarks
  <2>4. i \in verify_invariants(fns, givesUp)
          <=> /\ fns[i].impl /\ fns[i].invariant # {"none"}
              /\ check_invariant_spec(fns[i], givesUp) # "none"
    BY DEF verify_invariants, parse_invariants
  <2> QED
    BY <2>2, <2>3, <2>4
<1>2. verify_invariants(fns, givesUp) \subseteq DOMAIN fns
  BY DEF verify_invariants, parse_invariants
<1> QED
  BY <1>1, <1>2

\* The order of the samples, equal ones by their place.
SampleBefore(s) == {p \in (DOMAIN s) \X (DOMAIN s) :
                      s[p[1]] < s[p[2]] \/ (s[p[1]] = s[p[2]] /\ p[1] < p[2])}

LEMMA SamplesOrdered ==
  ASSUME NEW s \in Seq(Nat)
  PROVE  /\ Ordered(DOMAIN s, SampleBefore(s)) /\ IsFiniteSet(DOMAIN s)
         /\ Cardinality(DOMAIN s) = Len(s)
<1>1. PICK n \in Nat : n = Len(s) /\ DOMAIN s = 1..n
  OBVIOUS
<1>2. \A i, j \in DOMAIN s : <<i, j>> \in SampleBefore(s) <=> s[i] < s[j] \/ (s[i] = s[j] /\ i < j)
  BY DEF SampleBefore
<1>3. \A i \in DOMAIN s : s[i] \in Nat /\ i \in Nat
  OBVIOUS
<1>4. Ordered(DOMAIN s, SampleBefore(s))
  <2>1. \A i \in DOMAIN s : <<i, i>> \notin SampleBefore(s)
    BY <1>2, <1>3
  <2>2. \A i, j \in DOMAIN s : i # j => <<i, j>> \in SampleBefore(s) \/ <<j, i>> \in SampleBefore(s)
    <3> SUFFICES ASSUME NEW i \in DOMAIN s, NEW j \in DOMAIN s, i # j
                 PROVE  <<i, j>> \in SampleBefore(s) \/ <<j, i>> \in SampleBefore(s)
      OBVIOUS
    <3>1. PICK a \in Nat, b \in Nat, x \in Nat, y \in Nat : a = i /\ b = j /\ x = s[i] /\ y = s[j]
      BY <1>3
    <3>2. \/ x < y \/ (x = y /\ a < b) \/ y < x \/ (y = x /\ b < a)
      BY <3>1
    <3> QED
      BY <1>2, <3>1, <3>2, Zenon
  <2>3. \A i, j, k \in DOMAIN s : <<i, j>> \in SampleBefore(s) /\ <<j, k>> \in SampleBefore(s)
                                     => <<i, k>> \in SampleBefore(s)
    <3> SUFFICES ASSUME NEW i \in DOMAIN s, NEW j \in DOMAIN s, NEW k \in DOMAIN s,
                        <<i, j>> \in SampleBefore(s), <<j, k>> \in SampleBefore(s)
                 PROVE  <<i, k>> \in SampleBefore(s)
      OBVIOUS
    <3>1. PICK a \in Nat, b \in Nat, c \in Nat, x \in Nat, y \in Nat, z \in Nat :
            a = i /\ b = j /\ c = k /\ x = s[i] /\ y = s[j] /\ z = s[k]
      BY <1>3
    <3>2. (x < y \/ (x = y /\ a < b)) /\ (y < z \/ (y = z /\ b < c))
      BY <1>2, <3>1
    <3>3. x < z \/ (x = z /\ a < c)
      BY <3>2
    <3> QED
      BY <1>2, <3>1, <3>3, Zenon
  <2> QED
    BY <2>1, <2>2, <2>3, Zenon DEF Ordered
<1>5. IsFiniteSet(1..n) /\ Cardinality(1..n) = n
  BY FS_Interval
<1> QED
  BY <1>1, <1>4, <1>5

LEMMA SamplesSorted ==
  ASSUME NEW s \in Seq(Nat), NEW k \in DOMAIN s
  PROVE  \E i \in DOMAIN s : /\ SortedSamples(s)[k] = s[i]
                             /\ RankIn(DOMAIN s, SampleBefore(s), i) = k - 1
<1>1. PICK D, R : D = DOMAIN s /\ R = SampleBefore(s)
  OBVIOUS
<1>2. Ordered(D, R) /\ IsFiniteSet(D) /\ Cardinality(D) = Len(s)
  BY <1>1, SamplesOrdered
<1>3. k - 1 \in 0..(Cardinality(D) - 1)
  BY <1>2
<1>4. \E i \in D : RankIn(D, R, i) = k - 1
  BY <1>2, <1>3, RankReached
<1>5. ASSUME NEW i \in D
      PROVE  RankIn(D, R, i) = Cardinality({j \in DOMAIN s : s[j] < s[i] \/ (s[j] = s[i] /\ j < i)})
  <2>1. {j \in D : <<j, i>> \in R} = {j \in DOMAIN s : s[j] < s[i] \/ (s[j] = s[i] /\ j < i)}
    BY <1>1 DEF SampleBefore
  <2> QED
    BY <2>1 DEF RankIn
<1>6. PICK c : c = CHOOSE i \in DOMAIN s :
                     Cardinality({j \in DOMAIN s : s[j] < s[i] \/ (s[j] = s[i] /\ j < i)}) = k - 1
  OBVIOUS
<1>7. c \in D /\ RankIn(D, R, c) = k - 1
  BY <1>1, <1>4, <1>5, <1>6
<1>8. SortedSamples(s)[k] = s[c]
  BY <1>6, Zenon DEF SortedSamples
<1> QED
  BY <1>1, <1>7, <1>8

\* At least k samples are no greater than the one at place k, and the first
\* and the last are the least and the greatest.
LEMMA RanksOfSamples ==
  ASSUME NEW s \in Seq(Nat), NEW k \in DOMAIN s
  PROVE  /\ SortedSamples(s)[k] \in ToSet(s)
         /\ Cardinality({i \in DOMAIN s : s[i] <= SortedSamples(s)[k]}) >= k
         /\ k = 1 => \A i \in DOMAIN s : SortedSamples(s)[k] <= s[i]
         /\ k = Len(s) => \A i \in DOMAIN s : s[i] <= SortedSamples(s)[k]
<1>1. PICK D, R : D = DOMAIN s /\ R = SampleBefore(s)
  OBVIOUS
<1>2. Ordered(D, R) /\ IsFiniteSet(D) /\ Cardinality(D) = Len(s) /\ Len(s) \in Nat
      /\ k \in 1..Len(s)
  BY <1>1, SamplesOrdered
<1>3. PICK c \in D : SortedSamples(s)[k] = s[c] /\ RankIn(D, R, c) = k - 1
  BY <1>1, SamplesSorted
<1>4. \A i, j \in D : <<i, j>> \in R <=> s[i] < s[j] \/ (s[i] = s[j] /\ i < j)
  BY <1>1 DEF SampleBefore
<1>5. \A i \in D : s[i] \in Nat /\ i \in Nat
  BY <1>1
<1>6. PICK A, B : A = {j \in D : <<j, c>> \in R} /\ B = {i \in D : s[i] <= s[c]}
  OBVIOUS
<1>7. c \notin A /\ A \cup {c} \subseteq B /\ A \subseteq D /\ B \subseteq D
  <2>1. <<c, c>> \notin R
    BY <1>2 DEF Ordered
  <2>2. A \subseteq B
    BY <1>4, <1>5, <1>6
  <2>3. s[c] <= s[c]
    BY <1>5
  <2> QED
    BY <1>6, <2>1, <2>2, <2>3
<1>8. IsFiniteSet(A) /\ IsFiniteSet(B) /\ Cardinality(A) = k - 1
  BY <1>2, <1>3, <1>6, <1>7, FS_Subset DEF RankIn
<1>9. IsFiniteSet(A \cup {c}) /\ Cardinality(A \cup {c}) = k
  <2>1. IsFiniteSet(A \cup {c}) /\ Cardinality(A \cup {c}) = Cardinality(A) + 1
    BY <1>7, <1>8, FS_AddElement
  <2> QED
    BY <1>2, <1>8, <2>1
<1>10. Cardinality(B) >= k
  <2>1. Cardinality(A \cup {c}) <= Cardinality(B) /\ Cardinality(B) \in Nat
    BY <1>7, <1>8, FS_Subset, FS_CardinalityType
  <2> QED
    BY <1>2, <1>9, <2>1
<1>11. k = 1 => \A i \in D : s[c] <= s[i]
  <2> SUFFICES ASSUME k = 1, NEW i \in D PROVE s[c] <= s[i]
    OBVIOUS
  <2>1. A = {}
    BY <1>8, FS_EmptySet
  <2>2. <<i, c>> \notin R
    BY <1>6, <2>1
  <2> QED
    BY <1>4, <1>5, <2>2
<1>12. k = Len(s) => \A i \in D : s[i] <= s[c]
  <2> SUFFICES ASSUME k = Len(s) PROVE B = D
    BY <1>6
  <2>1. Cardinality(B) = Cardinality(D)
    <3>1. Cardinality(B) <= Cardinality(D) /\ Cardinality(B) \in Nat
      BY <1>2, <1>7, FS_Subset, FS_CardinalityType
    <3> QED
      BY <1>2, <1>10, <3>1
  <2> QED
    BY <1>2, <1>7, <2>1, FS_Subset
<1>13. s[c] \in ToSet(s)
  BY <1>1 DEF ToSet
<1> QED
  BY <1>1, <1>3, <1>6, <1>10, <1>11, <1>12, <1>13

LEMMA SumBetween ==
  ASSUME NEW n \in Nat, NEW b, NEW lo \in Nat, NEW hi \in Nat,
         \A i \in 1..n : b[i] \in Nat /\ lo <= b[i] /\ b[i] <= hi
  PROVE  /\ SumFunctionOnSet(b, 1..n) \in Nat
         /\ n * lo <= SumFunctionOnSet(b, 1..n) /\ SumFunctionOnSet(b, 1..n) <= n * hi
<1> DEFINE P(k) == /\ SumFunctionOnSet(b, 1..k) \in Nat
                   /\ k * lo <= SumFunctionOnSet(b, 1..k) /\ SumFunctionOnSet(b, 1..k) <= k * hi
           G == {k \in Nat : k <= n => P(k)}
<1>1. 0 \in G
  <2>1. 1..0 = {} /\ 0 * lo = 0 /\ 0 * hi = 0
    OBVIOUS
  <2>2. SumFunctionOnSet(b, {}) = 0
    BY SumOfNothing
  <2> QED
    BY <2>1, <2>2
<1>2. ASSUME NEW k \in Nat, k \in G PROVE k + 1 \in G
  <2> SUFFICES ASSUME k + 1 <= n PROVE P(k + 1)
    OBVIOUS
  <2>1. P(k) /\ k + 1 \in 1..n
    BY <1>2
  <2>2. SumFunctionOnSet(b, 1..(k + 1)) = b[k + 1] + SumFunctionOnSet(b, 1..k)
    <3>1. IsFiniteSet(1..(k + 1))
      BY FS_Interval
    <3>2. \A i \in 1..(k + 1) : b[i] \in Int
      BY <2>1
    <3>3. k + 1 \in 1..(k + 1) /\ (1..(k + 1)) \ {k + 1} = 1..k
      OBVIOUS
    <3> QED
      BY <3>1, <3>2, <3>3, SumRemoves
  <2>3. PICK v, t : v = b[k + 1] /\ t = SumFunctionOnSet(b, 1..k)
    OBVIOUS
  <2>4. v \in Nat /\ t \in Nat /\ lo <= v /\ v <= hi /\ k * lo <= t /\ t <= k * hi
    BY <2>1, <2>3
  <2>5. (k + 1) * lo = k * lo + lo /\ (k + 1) * hi = k * hi + hi /\ k * lo \in Nat /\ k * hi \in Nat
    OBVIOUS
  <2>6. v + t \in Nat /\ (k + 1) * lo <= v + t /\ v + t <= (k + 1) * hi
    BY <2>4, <2>5
  <2> QED
    BY <2>2, <2>3, <2>6
<1>3. Nat \subseteq G
  <2> HIDE DEF G
  <2> QED
    BY <1>1, <1>2, NumbersByInduction
<1> QED
  BY <1>3

LEMMA MeanBetween ==
  ASSUME NEW n \in Nat, n > 0, NEW t \in Nat, NEW lo \in Nat, NEW hi \in Nat,
         n * lo <= t, t <= n * hi
  PROVE  lo <= t \div n /\ t \div n <= hi
<1>1. PICK q \in Nat : q = t \div n /\ n * q <= t /\ t < n * q + n
  OBVIOUS
<1>2. lo <= q
  <2> SUFFICES ASSUME q + 1 <= lo PROVE FALSE
    BY <1>1
  <2>1. n * (q + 1) <= n * lo
    OBVIOUS
  <2>2. n * (q + 1) = n * q + n
    OBVIOUS
  <2> QED
    BY <1>1, <2>1, <2>2
<1>3. q <= hi
  <2> SUFFICES ASSUME hi + 1 <= q PROVE FALSE
    BY <1>1
  <2>1. n * (hi + 1) <= n * q
    OBVIOUS
  <2>2. n * (hi + 1) = n * hi + n
    OBVIOUS
  <2> QED
    BY <1>1, <2>1, <2>2
<1> QED
  BY <1>1, <1>2, <1>3

LEMMA LatencyIs ==
  ASSUME NEW s \in Seq(Nat), s # <<>>, NEW l, l = Latency(s)
  PROVE  /\ l.min <= l.avg /\ l.avg <= l.max /\ l.p95 \in ToSet(s)
         /\ Cardinality({i \in DOMAIN s : s[i] <= l.p95}) >= P95Index(Len(s))
<1>1. PICK n \in Nat : n = Len(s) /\ n > 0 /\ DOMAIN s = 1..n
  OBVIOUS
<1>2. PICK z : z = SortedSamples(s)
  OBVIOUS
<1>3. DOMAIN z = 1..n /\ z \in Seq(Nat) /\ Len(z) = n
  <2>1. DOMAIN z = 1..n /\ z = [k \in 1..n |-> z[k]]
    BY <1>1, <1>2 DEF SortedSamples
  <2>2. ASSUME NEW k \in 1..n PROVE z[k] \in Nat
    <3>1. z[k] \in ToSet(s)
      BY <1>1, <1>2, RanksOfSamples
    <3> QED
      BY <3>1 DEF ToSet
  <2>3. z \in [1..n -> Nat]
    BY <2>1, <2>2
  <2> QED
    BY <2>3
<1>4. Head(z) = z[1] /\ Last(z) = z[n]
  BY <1>1, <1>3 DEF Last
<1>5. 1 \in DOMAIN s /\ n \in DOMAIN s
  BY <1>1
<1>6. \A i \in 1..n : z[1] <= s[i] /\ s[i] <= z[n]
  BY <1>1, <1>2, <1>5, RanksOfSamples
<1>7. z[1] \in Nat /\ z[n] \in Nat
  BY <1>1, <1>3
<1>8. PICK t : t = SumFunctionOnSet(s, 1..n)
  OBVIOUS
<1>9. t \in Nat /\ n * z[1] <= t /\ t <= n * z[n]
  <2>1. \A i \in 1..n : s[i] \in Nat
    BY <1>1
  <2> QED
    BY <1>6, <1>7, <1>8, <2>1, SumBetween
<1>10. z[1] <= t \div n /\ t \div n <= z[n]
  BY <1>1, <1>7, <1>9, MeanBetween
<1>11. P95Index(n) \in 1..n
  BY <1>1 DEF P95Index
<1>12. /\ z[P95Index(n)] \in ToSet(s)
       /\ Cardinality({i \in DOMAIN s : s[i] <= z[P95Index(n)]}) >= P95Index(n)
  BY <1>1, <1>2, <1>11, RanksOfSamples
<1>13. l.min = z[1] /\ l.max = z[n] /\ l.p95 = z[P95Index(n)] /\ l.avg = t \div n
  <2>1. SumFunction(s) = t
    BY <1>1, <1>8 DEF SumFunction
  <2> QED
    BY <1>1, <1>2, <1>3, <1>4, <2>1 DEF Latency
<1> QED
  BY <1>1, <1>10, <1>12, <1>13

(* ---- folds over a type's heads and a body's tokens, one at a time ---- *)
NothingSized == <<>>
SizeLoop(seq, n, g) ==
  g = [s \in SUBSET (1..n) |-> IF s = {} THEN NothingSized
         ELSE LET x == Max(s) IN SizeStep(g[s \ {x}], seq[x])]

LEMMA SizeLoopRuns ==
  ASSUME NEW seq PROVE \A n \in Nat : \E g : SizeLoop(seq, n, g)
<1> DEFINE G == {n \in Nat : \E g : SizeLoop(seq, n, g)}
<1>1. 0 \in G
  <2>1. SUBSET (1..0) = {{}}
    OBVIOUS
  <2>2. SizeLoop(seq, 0, [s \in SUBSET (1..0) |-> NothingSized])
    BY <2>1 DEF SizeLoop
  <2> QED
    BY <2>2
<1>2. ASSUME NEW n \in Nat, n \in G PROVE n + 1 \in G
  <2>1. PICK g : SizeLoop(seq, n, g)
    BY <1>2
  <2>2. PICK h : h = [s \in SUBSET (1..(n + 1)) |-> IF n + 1 \in s
                        THEN SizeStep(g[s \ {n + 1}], seq[n + 1]) ELSE g[s]]
    OBVIOUS
  <2>3. ASSUME NEW s \in SUBSET (1..(n + 1))
        PROVE  h[s] = IF s = {} THEN NothingSized
                      ELSE LET x == Max(s) IN SizeStep(h[s \ {x}], seq[x])
    <3>1. CASE n + 1 \in s
      <4>1. /\ s # {} /\ Max(s) = n + 1 /\ s \ {n + 1} \in SUBSET (1..(n + 1))
            /\ n + 1 \notin s \ {n + 1}
        BY <3>1, TopOfInterval
      <4>2. h[s] = SizeStep(g[s \ {n + 1}], seq[n + 1]) /\ h[s \ {n + 1}] = g[s \ {n + 1}]
        BY <2>2, <3>1, <4>1, Zenon
      <4> QED
        BY <4>1, <4>2, Zenon
    <3>2. CASE n + 1 \notin s
      <4>1. /\ s \in SUBSET (1..n)
            /\ s # {} => s \ {Max(s)} \in SUBSET (1..(n + 1)) /\ n + 1 \notin s \ {Max(s)}
        BY <3>2, TopOfInterval
      <4>2. h[s] = g[s] /\ (s # {} => h[s \ {Max(s)}] = g[s \ {Max(s)}])
        BY <2>2, <3>2, <4>1, Zenon
      <4>3. g[s] = IF s = {} THEN NothingSized
                   ELSE LET x == Max(s) IN SizeStep(g[s \ {x}], seq[x])
        BY <2>1, <4>1, Zenon DEF SizeLoop
      <4> QED
        BY <4>2, <4>3, Zenon
    <3> QED
      BY <3>1, <3>2
  <2>4. SizeLoop(seq, n + 1, h)
    BY <2>2, <2>3, Zenon DEF SizeLoop
  <2> QED
    BY <2>4
<1>3. Nat \subseteq G
  <2> HIDE DEF G
  <2> QED
    BY <1>1, <1>2, NumbersByInduction
<1> QED
  BY <1>3

SizeTrace(seq, n, tr) ==
  /\ tr[0] = NothingSized
  /\ \A k \in 1..n : tr[k] = SizeStep(tr[k - 1], seq[k])

LEMMA SizeTraced ==
  ASSUME NEW seq, NEW n \in Nat, DOMAIN seq = 1..n
  PROVE  \E tr : SizeTrace(seq, n, tr) /\ EstimateTypeSize(seq) = tr[n][1]
<1>1. PICK g : SizeLoop(seq, n, g)
  BY SizeLoopRuns
<1>2. PICK it : it = CHOOSE f : SizeLoop(seq, n, f)
  OBVIOUS
<1>3. SizeLoop(seq, n, it)
  BY <1>1, <1>2
<1>4. EstimateTypeSize(seq) = it[1..n][1]
  <2>1. EstimateTypeSize(seq)
        = (CHOOSE f : f = [s \in SUBSET DOMAIN seq |-> IF s = {} THEN NothingSized
           ELSE LET x == Max(s) IN SizeStep(f[s \ {x}], seq[x])])[DOMAIN seq][1]
    BY DEF EstimateTypeSize, FoldLeft, MapThenFoldSet, NothingSized
  <2> QED
    BY <1>2, <2>1 DEF SizeLoop
<1>5. PICK tr : tr = [k \in 0..n |-> it[1..k]]
  OBVIOUS
<1>6. tr[0] = NothingSized
  <2>1. 1..0 = {} /\ {} \in SUBSET (1..n) /\ 0 \in 0..n
    OBVIOUS
  <2>2. it[{}] = NothingSized
    BY <1>3, <2>1, Zenon DEF SizeLoop
  <2> QED
    BY <1>5, <2>1, <2>2
<1>7. ASSUME NEW k \in 1..n PROVE tr[k] = SizeStep(tr[k - 1], seq[k])
  <2>1. /\ Max(1..k) = k /\ (1..k) \ {k} = 1..(k - 1) /\ 1..k # {} /\ 1..k \in SUBSET (1..n)
    BY PrefixIs
  <2>2. it[1..k] = SizeStep(it[1..(k - 1)], seq[k])
    BY <1>3, <2>1, Zenon DEF SizeLoop
  <2>3. k \in 0..n /\ k - 1 \in 0..n
    OBVIOUS
  <2> QED
    BY <1>5, <2>2, <2>3
<1>8. tr[n] = it[1..n]
  BY <1>5
<1> QED
  BY <1>4, <1>6, <1>7, <1>8 DEF SizeTrace

OneLevel == <<NewEstimate>>
GasLoop(seq, n, g) ==
  g = [s \in SUBSET (1..n) |-> IF s = {} THEN OneLevel
         ELSE LET x == Max(s) IN GasStep(g[s \ {x}], seq[x])]

LEMMA GasLoopRuns ==
  ASSUME NEW seq PROVE \A n \in Nat : \E g : GasLoop(seq, n, g)
<1> DEFINE G == {n \in Nat : \E g : GasLoop(seq, n, g)}
<1>1. 0 \in G
  <2>1. SUBSET (1..0) = {{}}
    OBVIOUS
  <2>2. GasLoop(seq, 0, [s \in SUBSET (1..0) |-> OneLevel])
    BY <2>1 DEF GasLoop
  <2> QED
    BY <2>2
<1>2. ASSUME NEW n \in Nat, n \in G PROVE n + 1 \in G
  <2>1. PICK g : GasLoop(seq, n, g)
    BY <1>2
  <2>2. PICK h : h = [s \in SUBSET (1..(n + 1)) |-> IF n + 1 \in s
                        THEN GasStep(g[s \ {n + 1}], seq[n + 1]) ELSE g[s]]
    OBVIOUS
  <2>3. ASSUME NEW s \in SUBSET (1..(n + 1))
        PROVE  h[s] = IF s = {} THEN OneLevel
                      ELSE LET x == Max(s) IN GasStep(h[s \ {x}], seq[x])
    <3>1. CASE n + 1 \in s
      <4>1. /\ s # {} /\ Max(s) = n + 1 /\ s \ {n + 1} \in SUBSET (1..(n + 1))
            /\ n + 1 \notin s \ {n + 1}
        BY <3>1, TopOfInterval
      <4>2. h[s] = GasStep(g[s \ {n + 1}], seq[n + 1]) /\ h[s \ {n + 1}] = g[s \ {n + 1}]
        BY <2>2, <3>1, <4>1, Zenon
      <4> QED
        BY <4>1, <4>2, Zenon
    <3>2. CASE n + 1 \notin s
      <4>1. /\ s \in SUBSET (1..n)
            /\ s # {} => s \ {Max(s)} \in SUBSET (1..(n + 1)) /\ n + 1 \notin s \ {Max(s)}
        BY <3>2, TopOfInterval
      <4>2. h[s] = g[s] /\ (s # {} => h[s \ {Max(s)}] = g[s \ {Max(s)}])
        BY <2>2, <3>2, <4>1, Zenon
      <4>3. g[s] = IF s = {} THEN OneLevel
                   ELSE LET x == Max(s) IN GasStep(g[s \ {x}], seq[x])
        BY <2>1, <4>1, Zenon DEF GasLoop
      <4> QED
        BY <4>2, <4>3, Zenon
    <3> QED
      BY <3>1, <3>2
  <2>4. GasLoop(seq, n + 1, h)
    BY <2>2, <2>3, Zenon DEF GasLoop
  <2> QED
    BY <2>4
<1>3. Nat \subseteq G
  <2> HIDE DEF G
  <2> QED
    BY <1>1, <1>2, NumbersByInduction
<1> QED
  BY <1>3

GasTrace(seq, n, tr) ==
  /\ tr[0] = OneLevel
  /\ \A k \in 1..n : tr[k] = GasStep(tr[k - 1], seq[k])

LEMMA GasTraced ==
  ASSUME NEW seq, NEW n \in Nat, DOMAIN seq = 1..n
  PROVE  \E tr : GasTrace(seq, n, tr) /\ EstimateGas(seq) = tr[n][1]
<1>1. PICK g : GasLoop(seq, n, g)
  BY GasLoopRuns
<1>2. PICK it : it = CHOOSE f : GasLoop(seq, n, f)
  OBVIOUS
<1>3. GasLoop(seq, n, it)
  BY <1>1, <1>2
<1>4. EstimateGas(seq) = it[1..n][1]
  <2>1. EstimateGas(seq) = (CHOOSE f : f = [s \in SUBSET DOMAIN seq |-> IF s = {} THEN OneLevel
           ELSE LET x == Max(s) IN GasStep(f[s \ {x}], seq[x])])[DOMAIN seq][1]
    BY DEF EstimateGas, FoldLeft, MapThenFoldSet, OneLevel
  <2> QED
    BY <1>2, <2>1 DEF GasLoop
<1>5. PICK tr : tr = [k \in 0..n |-> it[1..k]]
  OBVIOUS
<1>6. tr[0] = OneLevel
  <2>1. 1..0 = {} /\ {} \in SUBSET (1..n) /\ 0 \in 0..n
    OBVIOUS
  <2>2. it[{}] = OneLevel
    BY <1>3, <2>1, Zenon DEF GasLoop
  <2> QED
    BY <1>5, <2>1, <2>2
<1>7. ASSUME NEW k \in 1..n PROVE tr[k] = GasStep(tr[k - 1], seq[k])
  <2>1. /\ Max(1..k) = k /\ (1..k) \ {k} = 1..(k - 1) /\ 1..k # {} /\ 1..k \in SUBSET (1..n)
    BY PrefixIs
  <2>2. it[1..k] = GasStep(it[1..(k - 1)], seq[k])
    BY <1>3, <2>1, Zenon DEF GasLoop
  <2>3. k \in 0..n /\ k - 1 \in 0..n
    OBVIOUS
  <2> QED
    BY <1>5, <2>2, <2>3
<1>8. tr[n] = it[1..n]
  BY <1>5
<1> QED
  BY <1>4, <1>6, <1>7, <1>8 DEF GasTrace

NothingCounted == [cyclomatic |-> 1, depth |-> 0, max |-> 0]
NestingLoop(seq, n, g) ==
  g = [s \in SUBSET (1..n) |-> IF s = {} THEN NothingCounted
         ELSE LET x == Max(s) IN ComplexityStep(g[s \ {x}], seq[x])]

LEMMA NestingLoopRuns ==
  ASSUME NEW seq PROVE \A n \in Nat : \E g : NestingLoop(seq, n, g)
<1> DEFINE G == {n \in Nat : \E g : NestingLoop(seq, n, g)}
<1>1. 0 \in G
  <2>1. SUBSET (1..0) = {{}}
    OBVIOUS
  <2>2. NestingLoop(seq, 0, [s \in SUBSET (1..0) |-> NothingCounted])
    BY <2>1 DEF NestingLoop
  <2> QED
    BY <2>2
<1>2. ASSUME NEW n \in Nat, n \in G PROVE n + 1 \in G
  <2>1. PICK g : NestingLoop(seq, n, g)
    BY <1>2
  <2>2. PICK h : h = [s \in SUBSET (1..(n + 1)) |-> IF n + 1 \in s
                        THEN ComplexityStep(g[s \ {n + 1}], seq[n + 1]) ELSE g[s]]
    OBVIOUS
  <2>3. ASSUME NEW s \in SUBSET (1..(n + 1))
        PROVE  h[s] = IF s = {} THEN NothingCounted
                      ELSE LET x == Max(s) IN ComplexityStep(h[s \ {x}], seq[x])
    <3>1. CASE n + 1 \in s
      <4>1. /\ s # {} /\ Max(s) = n + 1 /\ s \ {n + 1} \in SUBSET (1..(n + 1))
            /\ n + 1 \notin s \ {n + 1}
        BY <3>1, TopOfInterval
      <4>2. h[s] = ComplexityStep(g[s \ {n + 1}], seq[n + 1]) /\ h[s \ {n + 1}] = g[s \ {n + 1}]
        BY <2>2, <3>1, <4>1, Zenon
      <4> QED
        BY <4>1, <4>2, Zenon
    <3>2. CASE n + 1 \notin s
      <4>1. /\ s \in SUBSET (1..n)
            /\ s # {} => s \ {Max(s)} \in SUBSET (1..(n + 1)) /\ n + 1 \notin s \ {Max(s)}
        BY <3>2, TopOfInterval
      <4>2. h[s] = g[s] /\ (s # {} => h[s \ {Max(s)}] = g[s \ {Max(s)}])
        BY <2>2, <3>2, <4>1, Zenon
      <4>3. g[s] = IF s = {} THEN NothingCounted
                   ELSE LET x == Max(s) IN ComplexityStep(g[s \ {x}], seq[x])
        BY <2>1, <4>1, Zenon DEF NestingLoop
      <4> QED
        BY <4>2, <4>3, Zenon
    <3> QED
      BY <3>1, <3>2
  <2>4. NestingLoop(seq, n + 1, h)
    BY <2>2, <2>3, Zenon DEF NestingLoop
  <2> QED
    BY <2>4
<1>3. Nat \subseteq G
  <2> HIDE DEF G
  <2> QED
    BY <1>1, <1>2, NumbersByInduction
<1> QED
  BY <1>3

NestingTrace(seq, n, tr) ==
  /\ tr[0] = NothingCounted
  /\ \A k \in 1..n : tr[k] = ComplexityStep(tr[k - 1], seq[k])

LEMMA NestingTraced ==
  ASSUME NEW seq, NEW n \in Nat, DOMAIN seq = 1..n
  PROVE  \E tr : NestingTrace(seq, n, tr) /\ Complexity(seq) = tr[n]
<1>1. PICK g : NestingLoop(seq, n, g)
  BY NestingLoopRuns
<1>2. PICK it : it = CHOOSE f : NestingLoop(seq, n, f)
  OBVIOUS
<1>3. NestingLoop(seq, n, it)
  BY <1>1, <1>2
<1>4. Complexity(seq) = it[1..n]
  <2>1. Complexity(seq) = (CHOOSE f : f = [s \in SUBSET DOMAIN seq |-> IF s = {} THEN NothingCounted
           ELSE LET x == Max(s) IN ComplexityStep(f[s \ {x}], seq[x])])[DOMAIN seq]
    BY DEF Complexity, FoldLeft, MapThenFoldSet, NothingCounted
  <2> QED
    BY <1>2, <2>1 DEF NestingLoop
<1>5. PICK tr : tr = [k \in 0..n |-> it[1..k]]
  OBVIOUS
<1>6. tr[0] = NothingCounted
  <2>1. 1..0 = {} /\ {} \in SUBSET (1..n) /\ 0 \in 0..n
    OBVIOUS
  <2>2. it[{}] = NothingCounted
    BY <1>3, <2>1, Zenon DEF NestingLoop
  <2> QED
    BY <1>5, <2>1, <2>2
<1>7. ASSUME NEW k \in 1..n PROVE tr[k] = ComplexityStep(tr[k - 1], seq[k])
  <2>1. /\ Max(1..k) = k /\ (1..k) \ {k} = 1..(k - 1) /\ 1..k # {} /\ 1..k \in SUBSET (1..n)
    BY PrefixIs
  <2>2. it[1..k] = ComplexityStep(it[1..(k - 1)], seq[k])
    BY <1>3, <2>1, Zenon DEF NestingLoop
  <2>3. k \in 0..n /\ k - 1 \in 0..n
    OBVIOUS
  <2> QED
    BY <1>5, <2>2, <2>3
<1>8. tr[n] = it[1..n]
  BY <1>5
<1> QED
  BY <1>4, <1>6, <1>7, <1>8 DEF NestingTrace

(* ---- sizes of ledger entries ---- *)
\* A head with as many arguments as it has; an array has its element.
HeadNames == STRING \cup {"Vec", "Option", "Map", "array", "u32"}
HeadType == {t \in [head : HeadNames, args : Nat, n : Nat] : t.head = "array" => t.args = 1}
\* A type leaves one size on the stack, and no head lacks an argument: h is
\* how many sizes are on the stack after each head.
Heights(ty, n, h) == /\ h[0] = 0 /\ h[n] = 1
                     /\ \A k \in 1..n : ty[k].args <= h[k - 1] /\ h[k] = h[k - 1] - ty[k].args + 1
LedgerType == {ty \in Seq(HeadType) : \E h \in [0..Len(ty) -> Nat] : Heights(ty, Len(ty), h)}

LEMMA SumIsNat ==
  ASSUME NEW D, IsFiniteSet(D), NEW b, \A x \in D : b[x] \in Nat
  PROVE  SumFunctionOnSet(b, D) \in Nat
<1>1. PICK z : z = [x \in D |-> 0]
  OBVIOUS
<1>2. SumFunctionOnSet(z, D) = 0
  BY <1>1, SumOfZeros
<1>3. SumFunctionOnSet(z, D) <= SumFunctionOnSet(b, D)
  <2>1. \A x \in D : z[x] \in Int /\ z[x] <= b[x] /\ b[x] \in Int /\ 0 <= b[x]
    BY <1>1
  <2> QED
    BY <2>1, SumGrows
<1>4. SumFunctionOnSet(b, D) \in Int
  BY SumIsInt
<1> QED
  BY <1>2, <1>3, <1>4

LEMMA SumOfSizes ==
  ASSUME NEW s \in Seq(Nat)
  PROVE  SumFunction(s) \in Nat /\ (Len(s) = 2 => SumFunction(s) = s[1] + s[2])
<1>1. PICK n \in Nat : n = Len(s) /\ DOMAIN s = 1..n
  OBVIOUS
<1>2. IsFiniteSet(1..n) /\ \A i \in 1..n : s[i] \in Nat
  <2>1. IsFiniteSet(1..n)
    BY FS_Interval
  <2>2. \A i \in 1..n : s[i] \in Nat
    BY <1>1
  <2> QED
    BY <2>1, <2>2
<1>3. SumFunction(s) = SumFunctionOnSet(s, 1..n)
  BY <1>1 DEF SumFunction
<1>4. SumFunctionOnSet(s, 1..n) \in Nat
  BY <1>2, SumIsNat
<1>5. ASSUME n = 2 PROVE SumFunctionOnSet(s, 1..n) = s[1] + s[2]
  <2>1. 1..n = {1, 2} /\ {1, 2} \ {2} = {1} /\ {1} \ {1} = {} /\ 2 \in {1, 2} /\ 1 \in {1}
    BY <1>5
  <2>2. IsFiniteSet({1, 2}) /\ IsFiniteSet({1}) /\ s[1] \in Nat /\ s[2] \in Nat
    BY <1>2, <1>5, <2>1, FS_Singleton
  <2>3. SumFunctionOnSet(s, {1, 2}) = s[2] + SumFunctionOnSet(s, {1})
    <3>1. \A x \in {1, 2} : s[x] \in Int
      BY <2>2
    <3> QED
      BY <2>1, <2>2, <3>1, SumRemoves
  <2>4. SumFunctionOnSet(s, {1}) = s[1] + SumFunctionOnSet(s, {})
    <3>1. \A x \in {1} : s[x] \in Int
      BY <2>2
    <3> QED
      BY <2>1, <2>2, <3>1, SumRemoves
  <2>5. SumFunctionOnSet(s, {}) = 0
    BY SumOfNothing
  <2>6. SumFunctionOnSet(s, {1}) = s[1]
    BY <2>2, <2>4, <2>5
  <2>7. SumFunctionOnSet(s, {1, 2}) = s[1] + s[2]
    BY <2>2, <2>3, <2>6
  <2> QED
    BY <2>1, <2>7
<1> QED
  BY <1>1, <1>3, <1>4, <1>5

LEMMA FixedSizes == \A n \in DOMAIN FixedSize : FixedSize[n] \in Nat
BY DEF FixedSize

LEMMA SizeTyped ==
  ASSUME NEW t \in HeadType, NEW xs \in Seq(Nat), Len(xs) = t.args
  PROVE  SizeOf(t, xs) \in Nat
<1>1. SumFunction(xs) \in Nat
  BY SumOfSizes
<1>2. xs # <<>> => xs[1] \in Nat
  OBVIOUS
<1>3. t.head = "array" => xs # <<>> /\ t.n \in Nat
  BY DEF HeadType
<1>4. t.head = "array" => (t.n * xs[1]) % Usize \in Nat
  <2> SUFFICES ASSUME t.head = "array" PROVE (t.n * xs[1]) % Usize \in Nat
    OBVIOUS
  <2>1. t.n * xs[1] \in Nat /\ Usize \in Nat /\ Usize > 0
    BY <1>2, <1>3, UsizeAssumption
  <2> QED
    BY <2>1
<1>5. t.head \in DOMAIN FixedSize => FixedSize[t.head] \in Nat
  BY FixedSizes
<1> QED
  BY <1>1, <1>2, <1>4, <1>5 DEF SizeOf

\* One head: the sizes of its arguments give way to its own, whatever lies
\* below them.
LEMMA SizeStepIs ==
  ASSUME NEW s \in Seq(Nat), NEW t \in HeadType, t.args <= Len(s)
  PROVE  /\ SizeStep(s, t) \in Seq(Nat) /\ Len(SizeStep(s, t)) = Len(s) - t.args + 1
         /\ SizeStep(s, t) = Append(SubSeq(s, 1, Len(s) - t.args),
                                    SizeOf(t, SubSeq(s, Len(s) - t.args + 1, Len(s))))
<1>1. PICK d, a : d = Len(s) /\ a = t.args /\ d \in Nat /\ a \in Nat /\ a <= d
  BY DEF HeadType
<1>2. PICK u, v : u = SubSeq(s, 1, d - a) /\ v = SubSeq(s, d - a + 1, d)
  OBVIOUS
<1>3. u \in Seq(Nat) /\ Len(u) = d - a
  <2>1. 1 \in 1..(Len(s) + 1) /\ d - a \in (1 - 1)..Len(s) /\ (d - a) - 1 + 1 = d - a
    BY <1>1
  <2> QED
    BY <1>2, <2>1, CutIs
<1>4. v \in Seq(Nat) /\ Len(v) = a
  <2>1. d - a + 1 \in 1..(Len(s) + 1) /\ d \in ((d - a + 1) - 1)..Len(s) /\ d - (d - a + 1) + 1 = a
    BY <1>1
  <2> QED
    BY <1>2, <2>1, CutIs
<1>5. SizeOf(t, v) \in Nat
  BY <1>1, <1>4, SizeTyped
<1>6. SizeStep(s, t) = Append(u, SizeOf(t, v))
  BY <1>1, <1>2 DEF SizeStep
<1> QED
  BY <1>1, <1>2, <1>3, <1>5, <1>6

LEMMA PutIs ==
  ASSUME NEW S, NEW s \in Seq(S), NEW x \in S, NEW u, u = Append(s, x)
  PROVE  /\ u \in Seq(S) /\ Len(u) = Len(s) + 1 /\ u[Len(s) + 1] = x
         /\ \A i \in 1..Len(s) : u[i] = s[i]
<1>1. Len(s) \in Nat
  OBVIOUS
<1> QED
  BY <1>1, AppendProperties

LEMMA SizeStepAbove ==
  ASSUME NEW s \in Seq(Nat), NEW t \in HeadType, t.args <= Len(s), NEW b \in Nat
  PROVE  SizeStep(<<b>> \o s, t) = <<b>> \o SizeStep(s, t)
<1>1. PICK d, a : d = Len(s) /\ a = t.args /\ d \in Nat /\ a \in Nat /\ a <= d
  BY DEF HeadType
<1>2. PICK w : w = <<b>> \o s
  OBVIOUS
<1>3. /\ w \in Seq(Nat) /\ Len(w) = d + 1 /\ w[1] = b
      /\ \A i \in 1..d : w[i + 1] = s[i]
  <2>1. <<b>> \in Seq(Nat) /\ Len(<<b>>) = 1 /\ <<b>>[1] = b
    OBVIOUS
  <2>2. /\ w \in Seq(Nat) /\ Len(w) = Len(<<b>>) + Len(s)
        /\ \A i \in 1..Len(<<b>>) : w[i] = <<b>>[i]
        /\ \A i \in 1..Len(s) : w[Len(<<b>>) + i] = s[i]
    BY <1>2, <2>1, JoinIs
  <2> QED
    BY <1>1, <2>1, <2>2
<1>4. PICK u, v : u = SubSeq(s, 1, d - a) /\ v = SubSeq(s, d - a + 1, d)
  OBVIOUS
<1>5. u \in Seq(Nat) /\ Len(u) = d - a /\ \A i \in 1..(d - a) : u[i] = s[i]
  <2>1. 1 \in 1..(Len(s) + 1) /\ d - a \in (1 - 1)..Len(s)
    BY <1>1
  <2>2. /\ u \in Seq(Nat) /\ Len(u) = (d - a) - 1 + 1
        /\ \A i \in 1..((d - a) - 1 + 1) : u[i] = s[1 + i - 1]
    BY <1>4, <2>1, CutIs
  <2> QED
    BY <1>1, <2>2
<1>6. v \in Seq(Nat) /\ Len(v) = a /\ \A i \in 1..a : v[i] = s[d - a + i]
  <2>1. PICK m \in Nat : m = d - a + 1
    BY <1>1
  <2>2. m \in 1..(Len(s) + 1) /\ d \in (m - 1)..Len(s)
    BY <1>1, <2>1
  <2>3. v = SubSeq(s, m, d)
    BY <1>4, <2>1
  <2>4. v \in Seq(Nat) /\ Len(v) = d - m + 1 /\ \A i \in 1..(d - m + 1) : v[i] = s[m + i - 1]
    BY <2>2, <2>3, CutIs
  <2>5. d - m + 1 = a
    BY <1>1, <2>1
  <2>6. \A i \in 1..a : m + i - 1 = d - a + i
    BY <1>1, <2>1
  <2> QED
    BY <2>4, <2>5, <2>6
<1>7. PICK x, y : x = SubSeq(w, 1, d + 1 - a) /\ y = SubSeq(w, d + 1 - a + 1, d + 1)
  OBVIOUS
<1>8. x \in Seq(Nat) /\ Len(x) = d + 1 - a /\ \A i \in 1..(d + 1 - a) : x[i] = w[i]
  <2>1. PICK n : n = d + 1 - a /\ n \in Nat /\ n \in (1 - 1)..Len(w) /\ 1 \in 1..(Len(w) + 1)
    BY <1>1, <1>3
  <2>2. x \in Seq(Nat) /\ Len(x) = n - 1 + 1 /\ \A i \in 1..(n - 1 + 1) : x[i] = w[1 + i - 1]
    BY <1>3, <1>7, <2>1, CutIs
  <2>3. n - 1 + 1 = n /\ \A i \in 1..n : 1 + i - 1 = i
    BY <2>1
  <2> QED
    BY <2>1, <2>2, <2>3
<1>9. y \in Seq(Nat) /\ Len(y) = a /\ \A i \in 1..a : y[i] = w[d + 1 - a + i]
  <2>1. PICK m \in Nat : m = d + 1 - a + 1
    BY <1>1
  <2>2. PICK n \in Nat : n = d + 1
    BY <1>1
  <2>3. m \in 1..(Len(w) + 1) /\ n \in (m - 1)..Len(w)
    BY <1>1, <1>3, <2>1, <2>2
  <2>4. y = SubSeq(w, m, n)
    BY <1>7, <2>1, <2>2
  <2>5. y \in Seq(Nat) /\ Len(y) = n - m + 1 /\ \A i \in 1..(n - m + 1) : y[i] = w[m + i - 1]
    BY <1>3, <2>3, <2>4, CutIs
  <2>6. n - m + 1 = a
    BY <1>1, <2>1, <2>2
  <2>7. \A i \in 1..a : m + i - 1 = d + 1 - a + i
    BY <1>1, <2>1
  <2> QED
    BY <2>5, <2>6, <2>7
<1>10. y = v
  <2>1. \A i \in 1..a : y[i] = v[i]
    <3> SUFFICES ASSUME NEW i \in 1..a PROVE y[i] = v[i]
      OBVIOUS
    <3>1. d - a + i \in 1..d /\ (d - a + i) + 1 = d + 1 - a + i
      BY <1>1
    <3> QED
      BY <1>3, <1>6, <1>9, <3>1
  <2> QED
    BY <1>6, <1>9, <2>1, SeqEqual
<1>11. PICK z \in Nat : z = SizeOf(t, v)
  BY <1>1, <1>6, SizeTyped
<1>12. PICK p, q, r : p = Append(x, z) /\ q = Append(u, z) /\ r = <<b>> \o q
  OBVIOUS
<1>13. /\ p \in Seq(Nat) /\ Len(p) = d - a + 2 /\ p[d - a + 2] = z
       /\ \A i \in 1..(d - a + 1) : p[i] = w[i]
  <2>1. /\ p \in Seq(Nat) /\ Len(p) = Len(x) + 1 /\ p[Len(x) + 1] = z
        /\ \A i \in 1..Len(x) : p[i] = x[i]
    BY <1>8, <1>12, PutIs
  <2>2. Len(x) = d - a + 1 /\ Len(x) + 1 = d - a + 2 /\ d + 1 - a = d - a + 1
    BY <1>1, <1>8
  <2>3. \A i \in 1..(d - a + 1) : p[i] = x[i] /\ x[i] = w[i]
    BY <1>8, <2>1, <2>2
  <2> QED
    BY <2>1, <2>2, <2>3
<1>14. /\ q \in Seq(Nat) /\ Len(q) = d - a + 1 /\ q[d - a + 1] = z
       /\ \A i \in 1..(d - a) : q[i] = s[i]
  <2>1. /\ q \in Seq(Nat) /\ Len(q) = Len(u) + 1 /\ q[Len(u) + 1] = z
        /\ \A i \in 1..Len(u) : q[i] = u[i]
    BY <1>5, <1>12, PutIs
  <2>2. \A i \in 1..(d - a) : q[i] = u[i] /\ u[i] = s[i]
    BY <1>5, <2>1
  <2> QED
    BY <1>5, <2>1, <2>2
<1>15. /\ r \in Seq(Nat) /\ Len(r) = d - a + 2 /\ r[1] = b
       /\ \A i \in 1..(d - a + 1) : r[1 + i] = q[i]
  <2>1. <<b>> \in Seq(Nat) /\ Len(<<b>>) = 1 /\ <<b>>[1] = b
    OBVIOUS
  <2>2. /\ r \in Seq(Nat) /\ Len(r) = Len(<<b>>) + Len(q)
        /\ \A i \in 1..Len(<<b>>) : r[i] = <<b>>[i]
        /\ \A i \in 1..Len(q) : r[Len(<<b>>) + i] = q[i]
    BY <1>12, <1>14, <2>1, JoinIs
  <2>3. 1 + Len(q) = d - a + 2 /\ Len(q) = d - a + 1 /\ 1 \in 1..Len(<<b>>)
    BY <1>1, <1>14, <2>1
  <2> QED
    BY <2>1, <2>2, <2>3
<1>16. p = r
  <2>1. ASSUME NEW i \in 1..(d - a + 2) PROVE p[i] = r[i]
    <3>1. CASE i = 1
      <4>1. 1 \in 1..(d - a + 1)
        BY <1>1
      <4> QED
        BY <1>3, <1>13, <1>15, <3>1, <4>1
    <3>2. CASE i # 1 /\ i # d - a + 2
      <4>0. PICK j \in Nat : j = i - 1
        BY <1>1, <3>2
      <4>a. PICK n \in Nat : n = d - a /\ n <= d
        BY <1>1
      <4>b. i \in 1..(n + 2) /\ i # n + 2
        BY <3>2, <4>a
      <4>c. j \in 1..n /\ 1 + j = i /\ j + 1 = i /\ i \in 1..(n + 1)
        BY <3>2, <4>0, <4>b
      <4>d. d \in Nat
        BY <1>1
      <4>e. j \in 1..n /\ j \in 1..(n + 1) /\ j \in 1..d
        BY <4>a, <4>c, <4>d
      <4>1. /\ j \in 1..(d - a) /\ j \in 1..(d - a + 1) /\ j \in 1..d
            /\ 1 + j = i /\ j + 1 = i /\ i \in 1..(d - a + 1)
        BY <4>a, <4>c, <4>e
      <4>2. p[i] = w[i] /\ w[i] = s[j]
        BY <1>3, <1>13, <4>1
      <4>3. r[i] = q[j] /\ q[j] = s[j]
        BY <1>14, <1>15, <4>1
      <4> QED
        BY <4>2, <4>3
    <3>3. CASE i = d - a + 2
      <4>1. d - a + 1 \in 1..(d - a + 1) /\ 1 + (d - a + 1) = i
        BY <1>1, <3>3
      <4> QED
        BY <1>13, <1>14, <1>15, <3>3, <4>1
    <3> QED
      BY <3>1, <3>2, <3>3
  <2> QED
    BY <1>1, <1>13, <1>15, <2>1, SeqEqual
<1>17. SizeStep(s, t) = q
  BY <1>1, <1>4, <1>11, <1>12, SizeStepIs
<1>18. SizeStep(w, t) = p
  <2>1. Len(w) - t.args = d + 1 - a
    BY <1>1, <1>3
  <2>2. SizeStep(w, t) = Append(SubSeq(w, 1, d + 1 - a), SizeOf(t, SubSeq(w, d + 1 - a + 1, d + 1)))
    BY <1>3, <2>1 DEF SizeStep
  <2> QED
    BY <1>7, <1>10, <1>11, <1>12, <2>2
<1> QED
  BY <1>2, <1>12, <1>16, <1>17, <1>18

LEMMA ShortStacks ==
  ASSUME NEW b \in Nat, NEW x \in Nat
  PROVE  /\ <<b>> \in Seq(Nat) /\ <<b, x>> \in Seq(Nat) /\ Len(<<b>>) = 1 /\ Len(<<b, x>>) = 2
         /\ Append(<<>>, x) = <<x>> /\ <<b>> \o <<>> = <<b>> /\ <<b>> \o <<x>> = <<b, x>>
         /\ SubSeq(<<b>>, 1, 0) = <<>> /\ SubSeq(<<b>>, 1, 1) = <<b>>
         /\ SubSeq(<<b, x>>, 1, 0) = <<>> /\ SubSeq(<<b, x>>, 1, 2) = <<b, x>>
<1>1. <<b>> \in Seq(Nat) /\ <<x>> \in Seq(Nat) /\ <<b, x>> \in Seq(Nat) /\ <<>> \in Seq(Nat)
  OBVIOUS
<1>2. Len(<<b>>) = 1 /\ Len(<<x>>) = 1 /\ Len(<<b, x>>) = 2 /\ Len(<<>>) = 0
  OBVIOUS
<1>3. Append(<<>>, x) = <<x>>
  <2>1. Append(<<>>, x) \in Seq(Nat) /\ Len(Append(<<>>, x)) = 1 /\ Append(<<>>, x)[1] = x
    BY <1>1, <1>2
  <2>2. \A i \in 1..1 : Append(<<>>, x)[i] = <<x>>[i]
    BY <2>1
  <2> QED
    BY <1>1, <1>2, <2>1, <2>2, SeqEqual
<1>4. <<b>> \o <<>> = <<b>>
  BY <1>1, ConcatEmptySeq
<1>5. <<b>> \o <<x>> = <<b, x>>
  <2>1. PICK u : u = <<b>> \o <<x>>
    OBVIOUS
  <2>2. /\ u \in Seq(Nat) /\ Len(u) = Len(<<b>>) + Len(<<x>>)
        /\ \A i \in 1..Len(<<b>>) : u[i] = <<b>>[i]
        /\ \A i \in 1..Len(<<x>>) : u[Len(<<b>>) + i] = <<x>>[i]
    BY <1>1, <2>1, JoinIs
  <2>3. Len(u) = 2 /\ u[1] = b /\ u[2] = x
    <3>1. 1 \in 1..Len(<<b>>) /\ 1 \in 1..Len(<<x>>) /\ Len(<<b>>) + 1 = 2
      BY <1>2
    <3>2. u[1] = <<b>>[1] /\ u[2] = <<x>>[1]
      BY <2>2, <3>1
    <3> QED
      BY <1>2, <2>2, <3>2
  <2>4. \A i \in 1..2 : u[i] = <<b, x>>[i]
    BY <2>3
  <2> QED
    BY <1>1, <1>2, <2>1, <2>2, <2>3, <2>4, SeqEqual
<1>6. SubSeq(<<b>>, 1, 0) = <<>> /\ SubSeq(<<b, x>>, 1, 0) = <<>>
  BY SubSeqEmpty
<1>7. SubSeq(<<b>>, 1, 1) = <<b>> /\ SubSeq(<<b, x>>, 1, 2) = <<b, x>>
  <2>1. SubSeq(<<b>>, 1, Len(<<b>>)) = <<b>> /\ SubSeq(<<b, x>>, 1, Len(<<b, x>>)) = <<b, x>>
    BY <1>1, SubSeqFull
  <2> QED
    BY <1>2, <2>1
<1> QED
  BY <1>1, <1>2, <1>3, <1>4, <1>5, <1>6, <1>7

SizesTyped(ty, n, tr) ==
  \A k \in 0..n : /\ tr[k] \in Seq(Nat)
                  /\ k > 0 => ty[k] \in HeadType /\ ty[k].args <= Len(tr[k - 1])

LEMMA TypeSized ==
  ASSUME NEW ty \in LedgerType, NEW n, n = Len(ty)
  PROVE  /\ n \in Nat /\ DOMAIN ty = 1..n /\ EstimateTypeSize(ty) \in Nat
         /\ \E tr : SizeTrace(ty, n, tr) /\ SizesTyped(ty, n, tr)
              /\ tr[n] = <<EstimateTypeSize(ty)>>
<1>1. n \in Nat /\ DOMAIN ty = 1..n /\ \A k \in 1..n : ty[k] \in HeadType
  BY DEF LedgerType
<1>2. PICK h \in [0..n -> Nat] : Heights(ty, n, h)
  BY DEF LedgerType
<1>3. PICK tr : SizeTrace(ty, n, tr) /\ EstimateTypeSize(ty) = tr[n][1]
  BY <1>1, SizeTraced
<1> DEFINE P(k) == /\ tr[k] \in Seq(Nat) /\ Len(tr[k]) = h[k]
                   /\ k > 0 => ty[k] \in HeadType /\ ty[k].args <= Len(tr[k - 1])
           G == {k \in Nat : k <= n => P(k)}
<1>4. 0 \in G
  <2>1. tr[0] = <<>> /\ h[0] = 0
    BY <1>2, <1>3 DEF SizeTrace, Heights, NothingSized
  <2>2. <<>> \in Seq(Nat) /\ Len(<<>>) = 0
    BY EmptySeq
  <2>3. ~(0 > 0)
    OBVIOUS
  <2>4. P(0)
    BY <2>1, <2>2, <2>3
  <2> QED
    BY <2>4
<1>5. ASSUME NEW k \in Nat, k \in G PROVE k + 1 \in G
  <2> SUFFICES ASSUME k + 1 <= n PROVE P(k + 1)
    OBVIOUS
  <2>1. k \in 0..n /\ k + 1 \in 1..n /\ (k + 1) - 1 = k /\ h[k] \in Nat
    BY <1>1, <1>2
  <2>2. P(k)
    BY <1>5, <2>1
  <2>3. ty[k + 1].args <= h[k] /\ h[k + 1] = h[k] - ty[k + 1].args + 1
    BY <1>2, <2>1 DEF Heights
  <2>4. tr[k + 1] = SizeStep(tr[k], ty[k + 1])
    BY <1>3, <2>1 DEF SizeTrace
  <2>5. ty[k + 1] \in HeadType
    BY <1>1, <2>1
  <2>6. /\ SizeStep(tr[k], ty[k + 1]) \in Seq(Nat)
        /\ Len(SizeStep(tr[k], ty[k + 1])) = h[k] - ty[k + 1].args + 1
    BY <2>2, <2>3, <2>5, SizeStepIs
  <2> QED
    BY <2>1, <2>2, <2>3, <2>4, <2>5, <2>6
<1>6. Nat \subseteq G
  <2> HIDE DEF G
  <2> QED
    BY <1>4, <1>5, NumbersByInduction
<1>7. \A k \in 0..n : P(k)
  BY <1>1, <1>6
<1>8. SizesTyped(ty, n, tr)
  BY <1>7 DEF SizesTyped
<1>9. tr[n] \in Seq(Nat) /\ Len(tr[n]) = 1
  <2>1. n \in 0..n /\ h[n] = 1
    BY <1>1, <1>2 DEF Heights
  <2> QED
    BY <1>7, <2>1
<1>10. tr[n] = <<tr[n][1]>> /\ tr[n][1] \in Nat
  BY <1>9
<1> QED
  BY <1>1, <1>3, <1>8, <1>10

\* A head with one argument, after a type.
LEMMA WrappedSize ==
  ASSUME NEW ty \in LedgerType, NEW t \in HeadType, t.args = 1
  PROVE  EstimateTypeSize(Append(ty, t)) = SizeOf(t, <<EstimateTypeSize(ty)>>)
<1>1. PICK n, x : n = Len(ty) /\ x = EstimateTypeSize(ty)
  OBVIOUS
<1>2. n \in Nat /\ DOMAIN ty = 1..n /\ x \in Nat /\ ty \in Seq(HeadType)
  BY <1>1, TypeSized DEF LedgerType
<1>3. PICK tr : SizeTrace(ty, n, tr) /\ tr[n] = <<x>>
  BY <1>1, TypeSized
<1>4. PICK l : l = Append(ty, t)
  OBVIOUS
<1>5. l \in Seq(HeadType) /\ DOMAIN l = 1..(n + 1) /\ l[n + 1] = t /\ \A k \in 1..n : l[k] = ty[k]
  BY <1>1, <1>2, <1>4
<1>6. PICK tu : SizeTrace(l, n + 1, tu) /\ EstimateTypeSize(l) = tu[n + 1][1]
  <2>1. n + 1 \in Nat
    BY <1>2
  <2> QED
    BY <1>5, <2>1, SizeTraced
<1> DEFINE G == {k \in Nat : k <= n => tu[k] = tr[k]}
<1>7. 0 \in G
  BY <1>3, <1>6 DEF SizeTrace
<1>8. ASSUME NEW k \in Nat, k \in G PROVE k + 1 \in G
  <2> SUFFICES ASSUME k + 1 <= n PROVE tu[k + 1] = tr[k + 1]
    OBVIOUS
  <2>1. k + 1 \in 1..n /\ k + 1 \in 1..(n + 1) /\ (k + 1) - 1 = k /\ tu[k] = tr[k]
    BY <1>2, <1>8
  <2>2. tu[k + 1] = SizeStep(tu[k], l[k + 1]) /\ tr[k + 1] = SizeStep(tr[k], ty[k + 1])
    BY <1>3, <1>6, <2>1 DEF SizeTrace
  <2> QED
    BY <1>5, <2>1, <2>2
<1>9. Nat \subseteq G
  <2> HIDE DEF G
  <2> QED
    BY <1>7, <1>8, NumbersByInduction
<1>10. tu[n] = <<x>>
  BY <1>2, <1>3, <1>9
<1>11. tu[n + 1] = SizeStep(<<x>>, t)
  <2>1. n + 1 \in 1..(n + 1) /\ (n + 1) - 1 = n
    BY <1>2
  <2> QED
    BY <1>5, <1>6, <1>10, <2>1 DEF SizeTrace
<1>12. SizeStep(<<x>>, t) = <<SizeOf(t, <<x>>)>>
  <2>1. /\ SubSeq(<<x>>, 1, 0) = <<>> /\ SubSeq(<<x>>, 1, 1) = <<x>> /\ Len(<<x>>) = 1
        /\ <<x>> \in Seq(Nat)
    BY <1>2, ShortStacks
  <2>2. SizeStep(<<x>>, t) = Append(SubSeq(<<x>>, 1, 0), SizeOf(t, SubSeq(<<x>>, 1, 1)))
    BY <2>1 DEF SizeStep
  <2>3. SizeOf(t, <<x>>) \in Nat
    BY <2>1, SizeTyped
  <2> QED
    BY <2>1, <2>2, <2>3, ShortStacks
<1> QED
  BY <1>1, <1>4, <1>6, <1>11, <1>12

\* The key of a map before the type of its values.
LEMMA MappedSize ==
  ASSUME NEW ty \in LedgerType, NEW key \in HeadType, key.args = 0,
         NEW t \in HeadType, t.args = 2, NEW b, b = SizeOf(key, <<>>)
  PROVE  EstimateTypeSize(Append(<<key>> \o ty, t)) = SizeOf(t, <<b, EstimateTypeSize(ty)>>)
<1>1. PICK n, x : n = Len(ty) /\ x = EstimateTypeSize(ty)
  OBVIOUS
<1>2. n \in Nat /\ DOMAIN ty = 1..n /\ x \in Nat /\ ty \in Seq(HeadType)
  BY <1>1, TypeSized DEF LedgerType
<1>3. PICK tr : SizeTrace(ty, n, tr) /\ SizesTyped(ty, n, tr) /\ tr[n] = <<x>>
  BY <1>1, TypeSized
<1>4. PICK m, l : m = <<key>> \o ty /\ l = Append(m, t)
  OBVIOUS
<1>5. m \in Seq(HeadType) /\ Len(m) = n + 1 /\ m[1] = key /\ \A k \in 1..n : m[k + 1] = ty[k]
  <2>1. <<key>> \in Seq(HeadType) /\ Len(<<key>>) = 1 /\ <<key>>[1] = key
    OBVIOUS
  <2>2. /\ m \in Seq(HeadType) /\ Len(m) = Len(<<key>>) + Len(ty)
        /\ \A i \in 1..Len(<<key>>) : m[i] = <<key>>[i]
        /\ \A i \in 1..Len(ty) : m[Len(<<key>>) + i] = ty[i]
    BY <1>2, <1>4, <2>1, JoinIs
  <2> QED
    BY <1>1, <1>2, <2>1, <2>2
<1>6. /\ l \in Seq(HeadType) /\ DOMAIN l = 1..(n + 2) /\ l[n + 2] = t /\ l[1] = key
      /\ \A k \in 1..n : l[k + 1] = ty[k]
  BY <1>2, <1>4, <1>5
<1>7. PICK tu : SizeTrace(l, n + 2, tu) /\ EstimateTypeSize(l) = tu[n + 2][1]
  <2>1. n + 2 \in Nat
    BY <1>2
  <2> QED
    BY <1>6, <2>1, SizeTraced
<1>8. b \in Nat
  <2>1. <<>> \in Seq(Nat) /\ Len(<<>>) = 0
    BY EmptySeq
  <2> QED
    BY <2>1, SizeTyped
<1>9. tu[1] = <<b>>
  <2>1. 1 \in 1..(n + 2) /\ 1 - 1 = 0
    BY <1>2
  <2>2. tu[1] = SizeStep(<<>>, key)
    BY <1>6, <1>7, <2>1 DEF SizeTrace, NothingSized
  <2>3. SizeStep(<<>>, key) = Append(SubSeq(<<>>, 1, 0), SizeOf(key, SubSeq(<<>>, 1, 0)))
    BY DEF SizeStep
  <2>4. SubSeq(<<>>, 1, 0) = <<>>
    BY SubSeqEmpty
  <2> QED
    BY <1>8, <2>2, <2>3, <2>4, ShortStacks
<1> DEFINE G == {k \in Nat : k <= n => tu[k + 1] = <<b>> \o tr[k]}
<1>10. 0 \in G
  <2>1. tr[0] = <<>>
    BY <1>3 DEF SizeTrace, NothingSized
  <2>2. <<b>> \o <<>> = <<b>>
    BY <1>8, ShortStacks
  <2>3. tu[0 + 1] = <<b>> \o tr[0]
    BY <1>9, <2>1, <2>2
  <2> QED
    BY <2>3
<1>11. ASSUME NEW k \in Nat, k \in G PROVE k + 1 \in G
  <2> SUFFICES ASSUME k + 1 <= n PROVE tu[(k + 1) + 1] = <<b>> \o tr[k + 1]
    OBVIOUS
  <2>1. PICK j \in Nat : j = k + 1
    OBVIOUS
  <2>2. j \in 1..n /\ j + 1 \in 1..(n + 2) /\ (j + 1) - 1 = j /\ j - 1 = k /\ j \in 0..n /\ j > 0
    BY <1>2, <2>1
  <2>3. k \in 0..n /\ tu[j] = <<b>> \o tr[k]
    BY <1>2, <1>11, <2>1, <2>2
  <2>4. tu[j + 1] = SizeStep(tu[j], l[j + 1]) /\ tr[j] = SizeStep(tr[k], ty[j])
    BY <1>3, <1>7, <2>2 DEF SizeTrace
  <2>5. l[j + 1] = ty[j]
    BY <1>6, <2>2
  <2>6. tr[k] \in Seq(Nat) /\ ty[j] \in HeadType /\ ty[j].args <= Len(tr[k])
    BY <1>3, <2>2, <2>3 DEF SizesTyped
  <2>7. SizeStep(<<b>> \o tr[k], ty[j]) = <<b>> \o SizeStep(tr[k], ty[j])
    BY <1>8, <2>6, SizeStepAbove
  <2> QED
    BY <2>1, <2>3, <2>4, <2>5, <2>7
<1>12. Nat \subseteq G
  <2> HIDE DEF G
  <2> QED
    BY <1>10, <1>11, NumbersByInduction
<1>13. tu[n + 1] = <<b, x>>
  <2>1. tu[n + 1] = <<b>> \o tr[n]
    BY <1>2, <1>12
  <2>2. <<b>> \o <<x>> = <<b, x>>
    BY <1>2, <1>8, ShortStacks
  <2> QED
    BY <1>3, <2>1, <2>2
<1>14. tu[n + 2] = SizeStep(<<b, x>>, t)
  <2>1. n + 2 \in 1..(n + 2) /\ (n + 2) - 1 = n + 1
    BY <1>2
  <2>2. tu[n + 2] = SizeStep(tu[(n + 2) - 1], l[n + 2])
    BY <1>7, <2>1 DEF SizeTrace
  <2> QED
    BY <1>6, <1>13, <2>1, <2>2
<1>15. SizeStep(<<b, x>>, t) = <<SizeOf(t, <<b, x>>)>>
  <2>1. /\ SubSeq(<<b, x>>, 1, 0) = <<>> /\ SubSeq(<<b, x>>, 1, 2) = <<b, x>> /\ Len(<<b, x>>) = 2
        /\ <<b, x>> \in Seq(Nat)
    BY <1>2, <1>8, ShortStacks
  <2>2. SizeStep(<<b, x>>, t) = Append(SubSeq(<<b, x>>, 1, 0), SizeOf(t, SubSeq(<<b, x>>, 1, 2)))
    BY <2>1 DEF SizeStep
  <2>3. SizeOf(t, <<b, x>>) \in Nat
    BY <2>1, SizeTyped
  <2> QED
    BY <2>1, <2>2, <2>3, ShortStacks
<1> QED
  BY <1>1, <1>4, <1>7, <1>14, <1>15

EntryItem == {it \in [enum : BOOLEAN, variants : Seq(Seq(LedgerType))] :
                it.variants # <<>> /\ Last(it.variants) # <<>>}

LEMMA HeadsSized ==
  ASSUME NEW x \in Nat
  PROVE  /\ SizeOf(TypeHead("Vec", 1, 0), <<x>>) = 8 + x
         /\ SizeOf(TypeHead("Option", 1, 0), <<x>>) = 1 + x
         /\ SizeOf(TypeHead("array", 1, 50), <<x>>) = (50 * x) % Usize
         /\ SizeOf(TypeHead("u32", 0, 0), <<>>) = 4
         /\ SizeOf(TypeHead("Map", 2, 0), <<4, x>>) = 16 + 2 * (4 + x)
<1>1. DOMAIN FixedSize = {"u32", "u64", "u128", "Address", "Bytes"} /\ FixedSize["u32"] = 4
  BY DEF FixedSize
<1>2. <<x>> # <<>> /\ <<x>>[1] = x
  OBVIOUS
<1>3. SumFunction(<<4, x>>) = 4 + x
  <2>1. <<4, x>> \in Seq(Nat) /\ Len(<<4, x>>) = 2 /\ <<4, x>>[1] = 4 /\ <<4, x>>[2] = x
    OBVIOUS
  <2> QED
    BY <2>1, SumOfSizes
<1>4. SizeOf(TypeHead("Vec", 1, 0), <<x>>) = 8 + x
  BY <1>1, <1>2 DEF SizeOf, TypeHead
<1>5. SizeOf(TypeHead("Option", 1, 0), <<x>>) = 1 + x
  BY <1>1, <1>2 DEF SizeOf, TypeHead
<1>6. SizeOf(TypeHead("array", 1, 50), <<x>>) = (50 * x) % Usize
  BY <1>1, <1>2 DEF SizeOf, TypeHead
<1>7. SizeOf(TypeHead("u32", 0, 0), <<>>) = 4
  BY <1>1 DEF SizeOf, TypeHead
<1>8. SizeOf(TypeHead("Map", 2, 0), <<4, x>>) = 16 + 2 * (4 + x)
  <2>1. 4 + x # 0
    OBVIOUS
  <2> QED
    BY <1>1, <1>3, <2>1 DEF SizeOf, TypeHead
<1> QED
  BY <1>4, <1>5, <1>6, <1>7, <1>8

LEMMA HeadsTyped ==
  /\ TypeHead("Vec", 1, 0) \in HeadType /\ TypeHead("Option", 1, 0) \in HeadType
  /\ TypeHead("array", 1, 50) \in HeadType /\ TypeHead("u32", 0, 0) \in HeadType
  /\ TypeHead("Map", 2, 0) \in HeadType
  /\ TypeHead("Vec", 1, 0).args = 1 /\ TypeHead("Option", 1, 0).args = 1
  /\ TypeHead("array", 1, 50).args = 1 /\ TypeHead("array", 1, 50).n = 50
  /\ TypeHead("u32", 0, 0).args = 0 /\ TypeHead("Map", 2, 0).args = 2
<1>1. \A head \in HeadNames, a \in Nat, n \in Nat :
        /\ TypeHead(head, a, n).args = a /\ TypeHead(head, a, n).n = n
        /\ (head = "array" => a = 1) => TypeHead(head, a, n) \in HeadType
  BY DEF HeadType, TypeHead
<1>2. 0 \in Nat /\ 1 \in Nat /\ 2 \in Nat /\ 50 \in Nat
  OBVIOUS
<1>3. "Vec" \in HeadNames /\ "Option" \in HeadNames /\ "u32" \in HeadNames /\ "Map" \in HeadNames
      /\ "array" \in HeadNames
  BY DEF HeadNames
<1>4. "Vec" # "array" /\ "Option" # "array" /\ "u32" # "array" /\ "Map" # "array"
  OBVIOUS
<1>5. TypeHead("Vec", 1, 0) \in HeadType /\ TypeHead("Vec", 1, 0).args = 1
  BY <1>1, <1>2, <1>3, <1>4
<1>6. TypeHead("Option", 1, 0) \in HeadType /\ TypeHead("Option", 1, 0).args = 1
  BY <1>1, <1>2, <1>3, <1>4
<1>7. TypeHead("array", 1, 50) \in HeadType /\ TypeHead("array", 1, 50).args = 1
      /\ TypeHead("array", 1, 50).n = 50
  BY <1>1, <1>2, <1>3
<1>8. TypeHead("u32", 0, 0) \in HeadType /\ TypeHead("u32", 0, 0).args = 0
  BY <1>1, <1>2, <1>3, <1>4
<1>9. TypeHead("Map", 2, 0) \in HeadType /\ TypeHead("Map", 2, 0).args = 2
  BY <1>1, <1>2, <1>3, <1>4
<1> QED
  BY <1>5, <1>6, <1>7, <1>8, <1>9

LEMMA WrapsGrow ==
  ASSUME NEW ty \in LedgerType, NEW t \in Wraps(ty), Last(t).n * EstimateTypeSize(ty) < Usize
  PROVE  EstimateTypeSize(t) >= EstimateTypeSize(ty)
<1>1. PICK x \in Nat : x = EstimateTypeSize(ty)
  BY TypeSized
<1>2. CASE t = Append(ty, TypeHead("Vec", 1, 0))
  <2>1. EstimateTypeSize(t) = 8 + x
    BY <1>1, <1>2, WrappedSize, HeadsSized, HeadsTyped
  <2> QED
    BY <1>1, <2>1
<1>3. CASE t = Append(ty, TypeHead("Option", 1, 0))
  <2>1. EstimateTypeSize(t) = 1 + x
    BY <1>1, <1>3, WrappedSize, HeadsSized, HeadsTyped
  <2> QED
    BY <1>1, <2>1
<1>4. CASE t = Append(ty, TypeHead("array", 1, 50))
  <2>1. EstimateTypeSize(t) = (50 * x) % Usize
    BY <1>1, <1>4, WrappedSize, HeadsSized, HeadsTyped
  <2>2. Last(t) = TypeHead("array", 1, 50)
    <3>1. ty \in Seq(HeadType)
      BY DEF LedgerType
    <3>2. PICK n \in Nat : n = Len(ty)
      BY <3>1
    <3>3. Len(t) = n + 1 /\ t[n + 1] = TypeHead("array", 1, 50)
      BY <1>4, <3>1, <3>2, HeadsTyped
    <3> QED
      BY <3>3 DEF Last
  <2>3. 50 * x < Usize /\ Usize \in Nat /\ 50 * x \in Nat
    BY <1>1, <2>2, HeadsTyped, UsizeAssumption
  <2>4. (50 * x) % Usize = 50 * x
    <3>1. PICK y \in Nat : y = 50 * x
      BY <1>1
    <3>2. y % Usize = y
      BY <2>3, <3>1
    <3> QED
      BY <3>1, <3>2
  <2> QED
    BY <1>1, <2>1, <2>4
<1>5. CASE t = Append(<<TypeHead("u32", 0, 0)>> \o ty, TypeHead("Map", 2, 0))
  <2>1. EstimateTypeSize(t) = SizeOf(TypeHead("Map", 2, 0), <<4, EstimateTypeSize(ty)>>)
    <3>1. 4 = SizeOf(TypeHead("u32", 0, 0), <<>>)
      BY <1>1, HeadsSized
    <3> QED
      BY <1>5, <3>1, MappedSize, HeadsTyped
  <2>2. EstimateTypeSize(t) = 16 + 2 * (4 + x)
    BY <1>1, <2>1, HeadsSized
  <2> QED
    BY <1>1, <2>2
<1> QED
  BY <1>2, <1>3, <1>4, <1>5 DEF Wraps

LEMMA FieldsSized == ASSUME NEW fields \in Seq(LedgerType) PROVE FieldsSize(fields) \in Nat
<1>1. PICK n \in Nat : n = Len(fields) /\ DOMAIN fields = 1..n
  BY LenProperties
<1>2. PICK b : b = [i \in DOMAIN fields |-> EstimateTypeSize(fields[i])]
  OBVIOUS
<1>3. \A i \in 1..n : b[i] \in Nat
  <2> TAKE i \in 1..n
  <2>1. fields[i] \in LedgerType /\ b[i] = EstimateTypeSize(fields[i])
    BY <1>1, <1>2
  <2> QED
    BY <2>1, TypeSized
<1>4. SumFunctionOnSet(b, 1..n) \in Nat
  <2>1. IsFiniteSet(1..n)
    BY <1>1, FS_Interval
  <2> QED
    BY <1>3, <2>1, SumIsNat
<1>5. FieldsSize(fields) = SumFunctionOnSet(b, 1..n)
  <2>1. DOMAIN b = 1..n
    BY <1>1, <1>2
  <2> QED
    BY <1>2, <2>1 DEF FieldsSize, SumFunction
<1> QED
  BY <1>4, <1>5

LEMMA EntrySized ==
  ASSUME NEW item \in EntryItem
  PROVE  /\ EstimateSize(item) \in Nat
         /\ \E i \in DOMAIN item.variants :
              EstimateSize(item) = FieldsSize(item.variants[i]) + (IF item.enum THEN 4 ELSE 0)
<1>1. PICK v, n : v = item.variants /\ v \in Seq(Seq(LedgerType)) /\ n = Len(v) /\ n \in Nat
      /\ n > 0 /\ DOMAIN v = 1..n
  <2>1. item.variants \in Seq(Seq(LedgerType)) /\ item.variants # <<>>
    BY DEF EntryItem
  <2>2. Len(item.variants) \in Nat /\ Len(item.variants) > 0
        /\ DOMAIN item.variants = 1..Len(item.variants)
    BY <2>1
  <2> QED
    BY <2>1, <2>2
<1>2. \A i \in 1..n : FieldsSize(v[i]) \in Nat
  <2> TAKE i \in 1..n
  <2>1. v[i] \in Seq(LedgerType)
    BY <1>1
  <2> QED
    BY <2>1, FieldsSized
<1>3. item.enum \in BOOLEAN
  BY DEF EntryItem
<1>4. CASE ~item.enum
  <2>1. EstimateSize(item) = FieldsSize(v[1]) /\ 1 \in 1..n
    BY <1>1, <1>4 DEF EstimateSize
  <2> QED
    BY <1>1, <1>2, <1>4, <2>1
<1>5. CASE item.enum
  <2>1. PICK f : f = [i \in 1..n |-> FieldsSize(v[i])]
    OBVIOUS
  <2>2. PICK S : S = {0} \cup {FieldsSize(v[i]) : i \in DOMAIN v}
    OBVIOUS
  <2>3. S \subseteq Nat /\ IsFiniteSet(S) /\ S # {} /\ S \subseteq Int
    <3>1. f \in [1..n -> Nat]
      BY <1>2, <2>1
    <3>2. IsFiniteSet(1..n)
      BY <1>1, FS_Interval
    <3>3. IsFiniteSet(Range(f))
      BY <3>1, <3>2, RangeIsFinite
    <3>4. Range(f) = {FieldsSize(v[i]) : i \in DOMAIN v}
      BY <1>1, <2>1 DEF Range
    <3>5. IsFiniteSet({0})
      BY FS_Singleton
    <3>6. IsFiniteSet({0} \cup Range(f))
      BY <3>3, <3>5, FS_Union
    <3> QED
      BY <1>1, <1>2, <2>2, <3>4, <3>6
  <2>4. PICK m \in S : \A y \in S : m >= y
    BY <2>3, LargestExists
  <2>5. Max(S) \in S /\ \A y \in S : Max(S) >= y
    BY <2>4, Zenon DEF Max
  <2>6. EstimateSize(item) = 4 + Max(S)
    BY <1>1, <1>5, <2>2 DEF EstimateSize
  <2>7. \E i \in 1..n : Max(S) = FieldsSize(v[i])
    <3>1. CASE Max(S) = 0
      <4>1. 1 \in 1..n /\ FieldsSize(v[1]) \in S
        BY <1>1, <2>2
      <4>2. FieldsSize(v[1]) = 0
        BY <1>2, <2>5, <3>1, <4>1
      <4> QED
        BY <3>1, <4>1, <4>2
    <3>2. CASE Max(S) # 0
      BY <1>1, <2>2, <2>5, <3>2
    <3> QED
      BY <3>1, <3>2
  <2>8. EstimateSize(item) \in Nat
    BY <1>2, <2>6, <2>7
  <2>9. \E i \in 1..n : EstimateSize(item) = FieldsSize(v[i]) + 4
    BY <1>2, <2>6, <2>7
  <2> QED
    BY <1>1, <1>5, <2>8, <2>9
<1> QED
  BY <1>3, <1>4, <1>5

LEMMA LimitTyped == DefaultLimit \in Nat /\ Growth \subseteq Nat
BY SMT DEF DefaultLimit, Growth

LEMMA LevelsGrow ==
  ASSUME NEW n \in Nat, NEW extra \in Nat
  PROVE  LevelRank(ClassifySize(n + extra, DefaultLimit, 80, FALSE, 90)) >= LevelRank(ClassifySize(n, DefaultLimit, 80, FALSE, 90))
BY LimitTyped, SMT DEF LevelRank, ClassifySize

LEMMA WrappedEntries ==
  ASSUME NEW item \in EntryItem
  PROVE  \A t \in Wraps(Head(Last(item.variants))) :
           Last(t).n * EstimateTypeSize(Head(Last(item.variants))) < Usize
             => EstimateTypeSize(t) >= EstimateTypeSize(Head(Last(item.variants)))
<1>1. PICK vs : vs = item.variants
  OBVIOUS
<1>2. vs \in Seq(Seq(LedgerType)) /\ vs # <<>> /\ Last(vs) # <<>>
  BY <1>1 DEF EntryItem
<1>3. Last(vs) \in Seq(LedgerType)
  <2>1. Len(vs) \in 1..Len(vs)
    BY <1>2
  <2>2. vs[Len(vs)] \in Seq(LedgerType)
    BY <1>2, <2>1, ElementOfSeq
  <2> QED
    BY <2>2 DEF Last
<1>4. Head(Last(vs)) \in LedgerType
  BY <1>2, <1>3, HeadTailProperties
<1> QED
  BY <1>1, <1>4, WrapsGrow

SizeDefaults == [limit |-> DefaultLimit, approaching |-> 80, strict |-> FALSE]
StrictDefaults == [SizeDefaults EXCEPT !.strict = TRUE]

\* 50 or 90 percent of the limit matter to the strict alone.
LEMMA LaxLevels == \A n :
  ClassifySize(n, DefaultLimit, 80, FALSE, 90) = ClassifySize(n, DefaultLimit, 80, FALSE, 50)
BY DEF ClassifySize

LEMMA DefaultsAgree ==
  ASSUME NEW items
  PROVE  AnalyzeLedgerSize(items, SizeDefaults) = LedgerSizeRule(items, FALSE)
<1>1. SizeDefaults.limit = DefaultLimit /\ SizeDefaults.approaching = 80
      /\ SizeDefaults.strict = FALSE
  BY DEF SizeDefaults
<1>2. \A v \in (DOMAIN items) \X {"exceeds", "approaching"} :
        ClassifySize(EstimateSize(items[v[1]]), DefaultLimit, 80, FALSE, 90)
            = ClassifySize(EstimateSize(items[v[1]]), DefaultLimit, 80, FALSE, 50)
  BY LaxLevels
<1>3. AnalyzeLedgerSize(items, SizeDefaults)
        = {v \in (DOMAIN items) \X {"exceeds", "approaching"} :
             v[2] = ClassifySize(EstimateSize(items[v[1]]), DefaultLimit, 80, FALSE, 90)}
  BY <1>1 DEF AnalyzeLedgerSize
<1>4. LedgerSizeRule(items, FALSE)
        = {v \in (DOMAIN items) \X {"exceeds", "approaching"} :
             v[2] = ClassifySize(EstimateSize(items[v[1]]), DefaultLimit, 80, FALSE, 50)}
  BY DEF LedgerSizeRule
<1> QED
  BY <1>2, <1>3, <1>4

LEMMA StrictFlags ==
  ASSUME NEW item \in EntryItem, NEW l, l = <<item>>,
         NEW v \in AnalyzeLedgerSize(l, StrictDefaults), v[2] = "exceeds"
  PROVE  v \in LedgerSizeRule(l, TRUE)
<1>1. \A n \in Nat : ClassifySize(n, DefaultLimit, 80, TRUE, 90) = "exceeds"
      => ClassifySize(n, DefaultLimit, 80, TRUE, 50) = "exceeds"
  BY LimitTyped, SMT DEF ClassifySize
<1>2. DOMAIN l = {1} /\ l[1] = item
  OBVIOUS
<1>3. StrictDefaults.limit = DefaultLimit /\ StrictDefaults.approaching = 80
      /\ StrictDefaults.strict = TRUE
  BY DEF StrictDefaults, SizeDefaults
<1>4. /\ v \in (DOMAIN l) \X {"exceeds", "approaching"}
      /\ v[2] = ClassifySize(EstimateSize(l[v[1]]), DefaultLimit, 80, TRUE, 90)
  BY <1>3 DEF AnalyzeLedgerSize
<1>5. v[1] = 1 /\ l[v[1]] = item
  BY <1>2, <1>4
<1>6. PICK n \in Nat : n = EstimateSize(l[v[1]])
  BY <1>5, EntrySized
<1>7. ClassifySize(n, DefaultLimit, 80, TRUE, 50) = "exceeds"
  <2>1. ClassifySize(n, DefaultLimit, 80, TRUE, 90) = "exceeds"
    BY <1>4, <1>6
  <2> QED
    BY <1>1, <2>1
<1> QED
  BY <1>4, <1>6, <1>7 DEF LedgerSizeRule

EntryLevels(n, extra) == LET level(k) == ClassifySize(k, DefaultLimit, 80, FALSE, 90) IN
                         LevelRank(level(n + extra)) >= LevelRank(level(n))

LEMMA EntriesFlagged ==
  ASSUME NEW item \in EntryItem
  PROVE  LET first == Head(Last(item.variants))
             cfg == [limit |-> DefaultLimit, approaching |-> 80, strict |-> FALSE] IN
         /\ \A t \in Wraps(first) :
              Last(t).n * EstimateTypeSize(first) < Usize
                  => EstimateTypeSize(t) >= EstimateTypeSize(first)
         /\ AnalyzeLedgerSize(<<item>>, cfg) = LedgerSizeRule(<<item>>, FALSE)
         /\ \A v \in AnalyzeLedgerSize(<<item>>, [cfg EXCEPT !.strict = TRUE]) :
              v[2] = "exceeds" => v \in LedgerSizeRule(<<item>>, TRUE)
         /\ \A extra \in Growth :
              LET level(n) == ClassifySize(n, DefaultLimit, 80, FALSE, 90) IN
              LevelRank(level(EstimateSize(item) + extra)) >= LevelRank(level(EstimateSize(item)))
         /\ \E i \in DOMAIN item.variants :
              EstimateSize(item) = FieldsSize(item.variants[i]) + (IF item.enum THEN 4 ELSE 0)
<1>1. AnalyzeLedgerSize(<<item>>, SizeDefaults) = LedgerSizeRule(<<item>>, FALSE)
  BY DefaultsAgree
<1>2. \A v \in AnalyzeLedgerSize(<<item>>, StrictDefaults) :
        v[2] = "exceeds" => v \in LedgerSizeRule(<<item>>, TRUE)
  BY StrictFlags
<1>5. \A extra \in Growth : EntryLevels(EstimateSize(item), extra)
  <2> TAKE extra \in Growth
  <2>1. PICK n \in Nat : n = EstimateSize(item)
    BY EntrySized
  <2>2. extra \in Nat
    BY LimitTyped
  <2>3. EntryLevels(n, extra)
    BY <2>2, LevelsGrow DEF EntryLevels
  <2> QED
    BY <2>1, <2>3
<1>6. \E i \in DOMAIN item.variants :
        EstimateSize(item) = FieldsSize(item.variants[i]) + (IF item.enum THEN 4 ELSE 0)
  BY EntrySized
<1> QED
  BY <1>1, <1>2, <1>5, <1>6, WrappedEntries, Zenon DEF EntryLevels, SizeDefaults, StrictDefaults

(* ---- gas: the weight of a statement by the loops around it ---- *)
LEMMA SumLast ==
  ASSUME NEW n \in Nat, NEW b, \A x \in 1..(n + 1) : b[x] \in Int
  PROVE  /\ SumFunctionOnSet(b, 1..n) \in Int
         /\ SumFunctionOnSet(b, 1..(n + 1)) = SumFunctionOnSet(b, 1..n) + b[n + 1]
<1>1. PICK D : D = 1..(n + 1)
  OBVIOUS
<1>2. IsFiniteSet(D) /\ IsFiniteSet(1..n) /\ n + 1 \in D /\ D \ {n + 1} = 1..n
  <2>1. IsFiniteSet(1..n) /\ IsFiniteSet(1..(n + 1))
    BY FS_Interval
  <2>2. n + 1 \in 1..(n + 1) /\ (1..(n + 1)) \ {n + 1} = 1..n
    OBVIOUS
  <2> QED
    BY <1>1, <2>1, <2>2
<1>3. SumFunctionOnSet(b, D) = b[n + 1] + SumFunctionOnSet(b, D \ {n + 1})
  BY <1>1, <1>2, SumRemoves
<1>4. SumFunctionOnSet(b, 1..n) \in Int
  <2>1. \A x \in 1..n : b[x] \in Int
    OBVIOUS
  <2> QED
    BY <1>2, <2>1, SumIsInt
<1>5. b[n + 1] \in Int
  OBVIOUS
<1>6. SumFunctionOnSet(b, 1..(n + 1)) = b[n + 1] + SumFunctionOnSet(b, 1..n)
  BY <1>1, <1>2, <1>3
<1> QED
  BY <1>4, <1>5, <1>6

LEMMA SumAgreesUpTo ==
  ASSUME NEW n \in Nat, NEW b, \A x \in 1..n : b[x] \in Int, NEW c, \A x \in 1..n : c[x] = b[x]
  PROVE  SumFunctionOnSet(c, 1..n) = SumFunctionOnSet(b, 1..n)
<1>1. IsFiniteSet(1..n)
  BY FS_Interval
<1> QED
  BY <1>1, SumAgrees

LEMMA PowersExist ==
  ASSUME NEW n \in Nat
  PROVE  \E f \in [0..n -> Nat] : \A m \in 0..n : f[m] = IF m = 0 THEN 1 ELSE 10 * f[m - 1]
<1> DEFINE E(f, k) == f \in [0..k -> Nat]
      /\ \A m \in 0..k : f[m] = IF m = 0 THEN 1 ELSE 10 * f[m - 1]
           G == {k \in Nat : \E f : E(f, k)}
<1>1. 0 \in G
  <2>1. PICK f : f = [m \in 0..0 |-> 1]
    OBVIOUS
  <2>2. E(f, 0)
    BY <2>1
  <2> QED
    BY <2>2
<1>2. ASSUME NEW k \in Nat, k \in G PROVE k + 1 \in G
  <2>1. PICK f : E(f, k)
    BY <1>2
  <2>2. PICK v \in Nat : v = 10 * f[k]
    <3>1. f[k] \in Nat
      BY <2>1
    <3> QED
      BY <3>1
  <2>3. PICK g : g = [m \in 0..(k + 1) |-> IF m = k + 1 THEN v ELSE f[m]]
    OBVIOUS
  <2>4. g \in [0..(k + 1) -> Nat]
    BY <2>1, <2>2, <2>3
  <2>5. ASSUME NEW m \in 0..(k + 1) PROVE g[m] = IF m = 0 THEN 1 ELSE 10 * g[m - 1]
    <3>1. CASE m = k + 1
      <4>1. m # 0 /\ m - 1 = k /\ k \in 0..(k + 1) /\ k # k + 1
        BY <3>1
      <4> QED
        BY <2>2, <2>3, <3>1, <4>1
    <3>2. CASE m # k + 1
      <4>1. m \in 0..k /\ (m # 0 => m - 1 \in 0..(k + 1) /\ m - 1 # k + 1)
        BY <3>2
      <4> QED
        BY <2>1, <2>3, <3>2, <4>1
    <3> QED
      BY <3>1, <3>2
  <2>6. E(g, k + 1)
    BY <2>4, <2>5
  <2> HIDE DEF E
  <2> QED
    BY <2>6
<1>3. Nat \subseteq G
  <2> HIDE DEF G
  <2> QED
    BY <1>1, <1>2, NumbersByInduction
<1> QED
  BY <1>3

\* Levels of loops, each with a weighted value: u[k] is added in step k, to a
\* new level, to the innermost, or none while the innermost joins the one around.
Opened(d, v, u, k) == /\ d[k] = d[k - 1] + 1 /\ v[k][d[k]] = u[k]
                      /\ \A l \in 1..d[k - 1] : v[k][l] = v[k - 1][l]
Closed(d, v, u, k) == /\ d[k] = d[k - 1] - 1 /\ u[k] = 0
                      /\ v[k][d[k]] = v[k - 1][d[k]] + v[k - 1][d[k - 1]]
                      /\ \A l \in 1..(d[k] - 1) : v[k][l] = v[k - 1][l]
Stayed(d, v, u, k) == /\ d[k] = d[k - 1] /\ v[k][d[k]] = v[k - 1][d[k]] + u[k]
                      /\ \A l \in 1..(d[k] - 1) : v[k][l] = v[k - 1][l]

LEMMA LevelsWeigh ==
  ASSUME NEW n \in Nat, NEW d, \A k \in 0..n : d[k] \in Nat \ {0},
         NEW v, \A k \in 0..n : \A l \in 1..d[k] : v[k][l] \in Int,
         NEW u, \A k \in 1..n : u[k] \in Int,
         \A k \in 1..n : Opened(d, v, u, k) \/ Closed(d, v, u, k) \/ Stayed(d, v, u, k)
  PROVE  SumFunctionOnSet(v[n], 1..d[n])
         = SumFunctionOnSet(v[0], 1..d[0]) + SumFunctionOnSet(u, 1..n)
<1> DEFINE P(k) == SumFunctionOnSet(v[k], 1..d[k])
      = SumFunctionOnSet(v[0], 1..d[0]) + SumFunctionOnSet(u, 1..k)
           G == {k \in Nat : k <= n => P(k)}
<1>1. \A k \in 0..n : SumFunctionOnSet(v[k], 1..d[k]) \in Int
  <2> TAKE k \in 0..n
  <2>1. IsFiniteSet(1..d[k])
    BY FS_Interval
  <2> QED
    BY <2>1, SumIsInt
<1>2. 0 \in G
  <2>1. 1..0 = {} /\ 0 \in 0..n
    OBVIOUS
  <2>2. SumFunctionOnSet(u, 1..0) = 0
    BY <2>1, SumOfNothing
  <2> QED
    BY <1>1, <2>1, <2>2
<1>3. ASSUME NEW k \in Nat, k \in G PROVE k + 1 \in G
  <2> SUFFICES ASSUME k + 1 <= n PROVE P(k + 1)
    OBVIOUS
  <2>1. PICK h \in 1..n : h = k + 1
    OBVIOUS
  <2>2. k \in 0..n /\ h \in 0..n /\ h - 1 = k
    BY <2>1
  <2>3. PICK c \in Nat : c = d[k]
    BY <2>2
  <2>4. PICK e \in Nat : e = d[h]
    BY <2>2
  <2>5. c # 0 /\ e # 0 /\ (\A l \in 1..c : v[k][l] \in Int) /\ (\A l \in 1..e : v[h][l] \in Int)
    BY <2>2, <2>3, <2>4
  <2>6. PICK w \in Int : w = u[h]
    OBVIOUS
  <2>7. SumFunctionOnSet(v[h], 1..e) = SumFunctionOnSet(v[k], 1..c) + w
    <3>1. CASE Opened(d, v, u, h)
      <4>1. e = c + 1 /\ v[h][e] = w /\ \A l \in 1..c : v[h][l] = v[k][l]
        BY <2>2, <2>3, <2>4, <2>6, <3>1 DEF Opened
      <4>2. SumFunctionOnSet(v[h], 1..c) = SumFunctionOnSet(v[k], 1..c)
        BY <2>5, <4>1, SumAgreesUpTo
      <4>3. SumFunctionOnSet(v[h], 1..(c + 1)) = SumFunctionOnSet(v[h], 1..c) + v[h][c + 1]
        <5>1. \A l \in 1..(c + 1) : v[h][l] \in Int
          BY <2>5, <4>1
        <5> QED
          BY <5>1, SumLast
      <4> QED
        BY <4>1, <4>2, <4>3
    <3>2. CASE Closed(d, v, u, h)
      <4>1. /\ e = c - 1 /\ w = 0 /\ v[h][e] = v[k][e] + v[k][c]
            /\ \A l \in 1..(e - 1) : v[h][l] = v[k][l]
        BY <2>2, <2>3, <2>4, <2>6, <3>2 DEF Closed
      <4>2. PICK a \in Nat : a = e - 1
        BY <2>5
      <4>3. e = a + 1 /\ c = e + 1 /\ c = (a + 1) + 1
        BY <4>1, <4>2
      <4>4. SumFunctionOnSet(v[h], 1..a) = SumFunctionOnSet(v[k], 1..a)
        <5>1. \A l \in 1..a : v[k][l] \in Int /\ v[h][l] = v[k][l]
          BY <2>5, <4>1, <4>2, <4>3
        <5> QED
          BY <5>1, SumAgreesUpTo
      <4>5. SumFunctionOnSet(v[h], 1..e) = SumFunctionOnSet(v[h], 1..a) + v[h][e]
        BY <2>5, <4>3, SumLast
      <4>6. SumFunctionOnSet(v[k], 1..c) = SumFunctionOnSet(v[k], 1..e) + v[k][c]
        BY <2>5, <4>3, SumLast
      <4>7. SumFunctionOnSet(v[k], 1..e) = SumFunctionOnSet(v[k], 1..a) + v[k][e]
            /\ SumFunctionOnSet(v[k], 1..a) \in Int
        <5>1. \A l \in 1..(a + 1) : v[k][l] \in Int
          BY <2>5, <4>3
        <5> QED
          BY <4>3, <5>1, SumLast
      <4>8. PICK x \in Int, y \in Int, z \in Int : x = SumFunctionOnSet(v[k], 1..a)
            /\ y = v[k][e] /\ z = v[k][c]
        <5>1. e \in 1..c /\ c \in 1..c
          BY <4>3
        <5> QED
          BY <2>5, <4>7, <5>1
      <4>9. SumFunctionOnSet(v[h], 1..e) = x + (y + z)
        BY <4>1, <4>4, <4>5, <4>8
      <4>10. SumFunctionOnSet(v[k], 1..c) = (x + y) + z
        BY <4>6, <4>7, <4>8
      <4> QED
        BY <4>1, <4>9, <4>10
    <3>3. CASE Stayed(d, v, u, h)
      <4>1. /\ e = c /\ v[h][e] = v[k][e] + w
            /\ \A l \in 1..(e - 1) : v[h][l] = v[k][l]
        BY <2>2, <2>3, <2>4, <2>6, <3>3 DEF Stayed
      <4>2. PICK a \in Nat : a = e - 1
        BY <2>5
      <4>3. e = a + 1 /\ c = a + 1
        BY <4>1, <4>2
      <4>4. SumFunctionOnSet(v[h], 1..a) = SumFunctionOnSet(v[k], 1..a)
        <5>1. \A l \in 1..a : v[k][l] \in Int /\ v[h][l] = v[k][l]
          BY <2>5, <4>1, <4>2, <4>3
        <5> QED
          BY <5>1, SumAgreesUpTo
      <4>5. SumFunctionOnSet(v[h], 1..e) = SumFunctionOnSet(v[h], 1..a) + v[h][e]
        BY <2>5, <4>3, SumLast
      <4>6. SumFunctionOnSet(v[k], 1..c) = SumFunctionOnSet(v[k], 1..a) + v[k][c]
            /\ SumFunctionOnSet(v[k], 1..a) \in Int
        BY <2>5, <4>3, SumLast
      <4>7. PICK x \in Int, y \in Int : x = SumFunctionOnSet(v[k], 1..a) /\ y = v[k][c]
        <5>1. c \in 1..c
          BY <4>3
        <5> QED
          BY <2>5, <4>6, <5>1
      <4>8. SumFunctionOnSet(v[h], 1..e) = x + (y + w)
        BY <4>1, <4>4, <4>5, <4>7
      <4>9. SumFunctionOnSet(v[k], 1..c) = x + y
        BY <4>6, <4>7
      <4> QED
        BY <4>1, <4>8, <4>9
    <3> QED
      BY <3>1, <3>2, <3>3
  <2>8. SumFunctionOnSet(u, 1..(k + 1)) = SumFunctionOnSet(u, 1..k) + w
        /\ SumFunctionOnSet(u, 1..k) \in Int
    <3>1. \A x \in 1..(k + 1) : u[x] \in Int
      BY <2>1
    <3> QED
      BY <2>1, <2>6, <3>1, SumLast
  <2>9. PICK x \in Int, y \in Int, z \in Int :
          /\ x = SumFunctionOnSet(v[k], 1..c) /\ y = SumFunctionOnSet(v[0], 1..d[0])
          /\ z = SumFunctionOnSet(u, 1..k)
    <3>0. 0 \in 0..n
      OBVIOUS
    <3>1. SumFunctionOnSet(v[k], 1..c) \in Int /\ SumFunctionOnSet(v[0], 1..d[0]) \in Int
      BY <1>1, <2>2, <2>3, <3>0
    <3> QED
      BY <2>8, <3>1
  <2>10. x = y + z
    BY <1>3, <2>2, <2>3, <2>9
  <2>11. SumFunctionOnSet(v[k + 1], 1..d[k + 1]) = x + w
    BY <2>1, <2>4, <2>7, <2>9
  <2>12. SumFunctionOnSet(u, 1..(k + 1)) = z + w
    BY <2>8, <2>9
  <2>13. x + w = y + (z + w)
    BY <2>10
  <2> QED
    BY <2>9, <2>11, <2>12, <2>13
<1>4. Nat \subseteq G
  <2> HIDE DEF G
  <2> QED
    BY <1>2, <1>3, NumbersByInduction
<1> QED
  BY <1>4

\* A loop is entered, left, or something in it is met: a[k] loops are open
\* after step k, and q[k] has a number for the outside and for each of them.
Enters(a, q, own, base, k) ==
  /\ a[k] = a[k - 1] + 1 /\ own[k] = base /\ q[k][a[k] + 1] = base
  /\ \A l \in 1..a[k] : q[k][l] = q[k - 1][l]
Leaves(a, q, own, k) ==
  /\ a[k] = a[k - 1] - 1 /\ own[k] = 0
  /\ q[k][a[k] + 1] = q[k - 1][a[k] + 1] + 10 * q[k - 1][a[k - 1] + 1]
  /\ \A l \in 1..a[k] : q[k][l] = q[k - 1][l]
Adds(a, q, own, k) ==
  /\ a[k] = a[k - 1] /\ q[k][a[k] + 1] = q[k - 1][a[k] + 1] + own[k]
  /\ \A l \in 1..a[k] : q[k][l] = q[k - 1][l]

LEMMA Distributes == \A x, y, z \in Int : x * (y + z) = x * y + x * z
  /\ x * (y + 10 * z) = x * y + (10 * x) * z
OBVIOUS

OpenLoops(n, a) == a[0] = 0 /\ a[n] = 0 /\ \A k \in 0..n : a[k] \in Nat /\ a[k] <= n
Weights(n, a, q, own, base) ==
  /\ \A k \in 0..n : \A l \in 1..(a[k] + 1) : q[k][l] \in Nat
  /\ base \in Nat /\ q[0][1] = base /\ \A k \in 1..n : own[k] \in Nat
  /\ \A k \in 1..n : Enters(a, q, own, base, k) \/ Leaves(a, q, own, k) \/ Adds(a, q, own, k)
Powers(n, tens) ==
  tens \in [0..n -> Nat] /\ \A m \in 0..n : tens[m] = IF m = 0 THEN 1 ELSE 10 * tens[m - 1]

LEMMA NestedWeigh ==
  ASSUME NEW n \in Nat, NEW a, OpenLoops(n, a), NEW q, NEW own,
         NEW base, Weights(n, a, q, own, base),
         NEW tens, Powers(n, tens), NEW u, u = [i \in 1..n |-> own[i] * tens[a[i]]]
  PROVE  q[n][1] = base + SumFunctionOnSet(u, 1..n)
<1>1. PICK d : d = [k \in 0..n |-> a[k] + 1]
  OBVIOUS
<1>2. PICK v : v = [k \in 0..n |-> [l \in 1..(a[k] + 1) |-> tens[l - 1] * q[k][l]]]
  OBVIOUS
<1>3. \A k \in 0..n : d[k] \in Nat \ {0} /\ d[k] = a[k] + 1 /\ a[k] \in Nat /\ a[k] <= n
  BY <1>1 DEF OpenLoops
<1>4. ASSUME NEW k \in 0..n, NEW l \in 1..d[k]
      PROVE  v[k][l] = tens[l - 1] * q[k][l] /\ tens[l - 1] \in Nat /\ q[k][l] \in Nat
             /\ v[k][l] \in Int
  <2>1. PICK c \in Nat : c = a[k] /\ d[k] = c + 1 /\ c <= n
    BY <1>3
  <2>2. l \in 1..(c + 1)
    BY <2>1
  <2>3. l - 1 \in 0..n
    BY <2>1, <2>2
  <2>4. v[k][l] = tens[l - 1] * q[k][l]
    BY <1>2, <2>1, <2>2
  <2>5. q[k][l] \in Nat
    BY <2>1, <2>2 DEF Weights
  <2>6. tens[l - 1] \in Nat
    BY <2>3 DEF Powers
  <2>7. \A x, y \in Nat : x * y \in Int
    OBVIOUS
  <2> QED
    BY <2>4, <2>5, <2>6, <2>7
<1>5. ASSUME NEW k \in 0..n, NEW c \in Nat, c = a[k], NEW l \in 1..(c + 1)
      PROVE  v[k][l] = tens[l - 1] * q[k][l] /\ q[k][l] \in Nat
  BY <1>3, <1>4, <1>5
<1>6. ASSUME NEW k \in 1..n
      PROVE  /\ u[k] = tens[a[k]] * own[k] /\ u[k] \in Int
             /\ Opened(d, v, u, k) \/ Closed(d, v, u, k) \/ Stayed(d, v, u, k)
  <2>1. k \in 0..n /\ k - 1 \in 0..n
    OBVIOUS
  <2>2. PICK b \in Nat, c \in Nat : b = a[k - 1] /\ c = a[k] /\ b <= n /\ c <= n
    BY <1>3, <2>1
  <2>3. d[k - 1] = b + 1 /\ d[k] = c + 1
    BY <1>3, <2>1, <2>2
  <2>4. PICK t \in Nat, o \in Nat : t = tens[c] /\ o = own[k]
    <3>1. c \in 0..n
      BY <2>2
    <3>2. tens[c] \in Nat /\ own[k] \in Nat
      BY <3>1 DEF Powers, Weights
    <3> QED
      BY <3>2
  <2>5. u[k] = t * o /\ t * o \in Int /\ own[k] * tens[a[k]] = tens[a[k]] * own[k]
    <3>1. u[k] = o * t
      BY <2>2, <2>4
    <3>2. o * t = t * o /\ o * t \in Int
      OBVIOUS
    <3> QED
      BY <2>2, <2>4, <3>1, <3>2
  <2>6. \A l \in 1..(b + 1) : v[k - 1][l] = tens[l - 1] * q[k - 1][l]
    BY <1>5, <2>1, <2>2
  <2>7. \A l \in 1..(c + 1) : v[k][l] = tens[l - 1] * q[k][l]
    BY <1>5, <2>1, <2>2
  <2>8. (c + 1) - 1 = c /\ c + 1 \in 1..(c + 1) /\ (b + 1) - 1 = b /\ b + 1 \in 1..(b + 1)
    OBVIOUS
  <2>9. v[k][c + 1] = t * q[k][c + 1]
    BY <2>4, <2>7, <2>8
  <2>10. q[k][c + 1] \in Nat /\ q[k - 1][b + 1] \in Nat
    BY <1>5, <2>1, <2>2, <2>8
  <2>11. CASE Enters(a, q, own, base, k)
    <3>1. c = b + 1 /\ o = base /\ q[k][c + 1] = base /\ \A l \in 1..c : q[k][l] = q[k - 1][l]
      BY <2>2, <2>4, <2>11 DEF Enters
    <3>2. v[k][c + 1] = u[k]
      BY <2>5, <2>9, <3>1
    <3>3. \A l \in 1..(b + 1) : v[k][l] = v[k - 1][l]
      BY <2>6, <2>7, <3>1
    <3>4. Opened(d, v, u, k)
      BY <2>3, <3>1, <3>2, <3>3 DEF Opened
    <3> QED
      BY <2>2, <2>4, <2>5, <3>4
  <2>12. CASE Leaves(a, q, own, k)
    <3>1. c = b - 1 /\ o = 0 /\ q[k][c + 1] = q[k - 1][c + 1] + 10 * q[k - 1][b + 1]
          /\ \A l \in 1..c : q[k][l] = q[k - 1][l]
      BY <2>2, <2>4, <2>12 DEF Leaves
    <3>2. c + 1 = b /\ b \in 1..(b + 1) /\ b - 1 = c /\ b # 0
      BY <3>1
    <3>3. tens[b] = 10 * t
      <4>1. b \in 0..n
        BY <2>2
      <4> QED
        BY <2>4, <3>2, <4>1 DEF Powers
    <3>4. PICK x \in Nat, y \in Nat : x = q[k - 1][c + 1] /\ y = q[k - 1][b + 1]
      <4>1. c + 1 \in 1..(b + 1)
        BY <3>2
      <4>2. q[k - 1][c + 1] \in Nat
        BY <1>5, <2>1, <2>2, <4>1
      <4> QED
        BY <2>10, <4>2
    <3>5. v[k - 1][c + 1] = t * x
      <4>1. c + 1 \in 1..(b + 1)
        BY <3>2
      <4> QED
        BY <2>4, <2>6, <2>8, <3>4, <4>1
    <3>6. v[k - 1][b + 1] = (10 * t) * y
      BY <2>6, <2>8, <3>3, <3>4
    <3>7. v[k][c + 1] = t * (x + 10 * y)
      BY <2>9, <3>1, <3>4
    <3>8. v[k][c + 1] = v[k - 1][c + 1] + v[k - 1][b + 1]
      BY <3>5, <3>6, <3>7, Distributes
    <3>9. \A l \in 1..c : v[k][l] = v[k - 1][l]
      BY <2>6, <2>7, <3>1
    <3>10. u[k] = 0
      <4>1. t * 0 = 0
        OBVIOUS
      <4> QED
        BY <2>5, <3>1, <4>1
    <3>11. d[k] = d[k - 1] - 1 /\ d[k] - 1 = c
      BY <2>3, <3>1
    <3>12. Closed(d, v, u, k)
      BY <2>3, <3>8, <3>9, <3>10, <3>11 DEF Closed
    <3> QED
      BY <2>2, <2>4, <2>5, <3>12
  <2>13. CASE Adds(a, q, own, k)
    <3>1. c = b /\ q[k][c + 1] = q[k - 1][c + 1] + o /\ \A l \in 1..c : q[k][l] = q[k - 1][l]
      BY <2>2, <2>4, <2>13 DEF Adds
    <3>2. PICK x \in Nat : x = q[k - 1][c + 1]
      BY <2>10, <3>1
    <3>3. v[k - 1][c + 1] = t * x
      BY <2>4, <2>6, <2>8, <3>1, <3>2
    <3>4. v[k][c + 1] = t * (x + o)
      BY <2>9, <3>1, <3>2
    <3>5. v[k][c + 1] = v[k - 1][c + 1] + u[k]
      BY <2>5, <3>3, <3>4, Distributes
    <3>6. \A l \in 1..c : v[k][l] = v[k - 1][l]
      BY <2>6, <2>7, <3>1
    <3>7. d[k] = d[k - 1] /\ d[k] - 1 = c
      BY <2>3, <3>1
    <3>8. Stayed(d, v, u, k)
      BY <2>3, <3>5, <3>6, <3>7 DEF Stayed
    <3> QED
      BY <2>2, <2>4, <2>5, <3>8
  <2>14. Enters(a, q, own, base, k) \/ Leaves(a, q, own, k) \/ Adds(a, q, own, k)
    BY DEF Weights
  <2> QED
    BY <2>11, <2>12, <2>13, <2>14
<1>7. SumFunctionOnSet(v[n], 1..d[n]) = SumFunctionOnSet(v[0], 1..d[0]) + SumFunctionOnSet(u, 1..n)
  <2>1. /\ \A k \in 0..n : d[k] \in Nat \ {0}
        /\ \A k \in 0..n : \A l \in 1..d[k] : v[k][l] \in Int
        /\ \A k \in 1..n : u[k] \in Int
        /\ \A k \in 1..n : Opened(d, v, u, k) \/ Closed(d, v, u, k) \/ Stayed(d, v, u, k)
    BY <1>3, <1>4, <1>6
  <2> QED
    BY <2>1, LevelsWeigh
<1>8. ASSUME NEW k \in {0, n} PROVE SumFunctionOnSet(v[k], 1..d[k]) = q[k][1]
  <2>1. k \in 0..n /\ a[k] = 0 /\ d[k] = 1 /\ d[k] = 0 + 1 /\ 1 \in 1..(0 + 1) /\ 0 \in 0..n
        /\ 1 - 1 = 0
    <3>1. k \in 0..n /\ a[k] = 0
      BY DEF OpenLoops
    <3> QED
      BY <1>3, <3>1
  <2>2. v[k][1] = tens[0] * q[k][1] /\ q[k][1] \in Nat /\ tens[0] = 1
    <3>1. tens[0] = 1
      BY <2>1 DEF Powers
    <3>2. v[k][1] = tens[1 - 1] * q[k][1] /\ q[k][1] \in Nat
      BY <1>4, <2>1
    <3> QED
      BY <2>1, <3>1, <3>2
  <2>3. v[k][1] = q[k][1]
    BY <2>2
  <2>4. SumFunctionOnSet(v[k], 1..(0 + 1)) = SumFunctionOnSet(v[k], 1..0) + v[k][0 + 1]
    <3>1. \A x \in 1..(0 + 1) : v[k][x] \in Int
      <4>1. \A x \in 1..(0 + 1) : x = 1
        OBVIOUS
      <4>2. v[k][1] \in Int
        BY <2>2, <2>3
      <4> QED
        BY <4>1, <4>2
    <3>2. 0 \in Nat
      OBVIOUS
    <3> QED
      BY <3>1, <3>2, SumLast
  <2>5. SumFunctionOnSet(v[k], 1..0) = 0
    <3>1. 1..0 = {}
      OBVIOUS
    <3> QED
      BY <3>1, SumOfNothing
  <2> QED
    BY <2>1, <2>2, <2>3, <2>4, <2>5
<1>9. q[0][1] = base
  BY DEF Weights
<1> QED
  BY <1>7, <1>8, <1>9

(* ---- bodies of functions ---- *)
Estimate == [instructions : Nat, memory : Nat]

\* What a visitor meets: the arms of a match are counted, x of any other token
\* is the name of a type or nothing.
BodyToken == {t \in [k : STRING, x : Nat \cup STRING] : t.k = "match" => t.x \in Nat}

\* Every loop that is entered is left, and syntax that opens closes.
WellNested(body) ==
  LET n == Len(body) IN
  /\ \A i \in 0..n : TokensUpTo(body, {"end"}, i) <= TokensUpTo(body, {"do"}, i)
  /\ TokensUpTo(body, {"end"}, n) = TokensUpTo(body, {"do"}, n)
  /\ TokensUpTo(body, Loops \cup Branches, n) = TokensUpTo(body, {"close", "end"}, n)
NestedBody == {b \in Seq(BodyToken) : WellNested(b)}

LEMMA TokensCounted ==
  ASSUME NEW body, NEW K, NEW k \in Nat
  PROVE  /\ TokensUpTo(body, K, 0) = 0 /\ TokensUpTo(body, K, k) \in Nat
              /\ TokensUpTo(body, K, k) <= k
         /\ body[k + 1].k \in K => TokensUpTo(body, K, k + 1) = TokensUpTo(body, K, k) + 1
         /\ body[k + 1].k \notin K => TokensUpTo(body, K, k + 1) = TokensUpTo(body, K, k)
<1>1. PICK A : A = {j \in 1..k : body[j].k \in K}
  OBVIOUS
<1>2. PICK B : B = {j \in 1..(k + 1) : body[j].k \in K}
  OBVIOUS
<1>3. A \in SUBSET (1..k) /\ k + 1 \notin A
  BY <1>1
<1>4. IsFiniteSet(1..k) /\ Cardinality(1..k) = k
  <2>1. IsFiniteSet(1..k) /\ Cardinality(1..k) = IF 1 > k THEN 0 ELSE k - 1 + 1
    BY FS_Interval
  <2> QED
    BY <2>1
<1>5. IsFiniteSet(A) /\ Cardinality(A) <= k
  BY <1>3, <1>4, FS_Subset
<1>6. Cardinality(A) \in Nat
  BY <1>5, FS_CardinalityType
<1>7. body[k + 1].k \in K => Cardinality(B) = Cardinality(A) + 1
  <2> SUFFICES ASSUME body[k + 1].k \in K PROVE Cardinality(B) = Cardinality(A) + 1
    OBVIOUS
  <2>1. B = A \cup {k + 1}
    BY <1>1, <1>2
  <2> QED
    BY <1>3, <1>5, <2>1, FS_AddElement
<1>8. body[k + 1].k \notin K => B = A
  BY <1>1, <1>2
<1>9. TokensUpTo(body, K, 0) = 0
  <2>1. {j \in 1..0 : body[j].k \in K} = {}
    OBVIOUS
  <2> QED
    BY <2>1, FS_EmptySet DEF TokensUpTo
<1>10. TokensUpTo(body, K, k) = Cardinality(A) /\ TokensUpTo(body, K, k + 1) = Cardinality(B)
  BY <1>1, <1>2 DEF TokensUpTo
<1> QED
  BY <1>5, <1>6, <1>7, <1>8, <1>9, <1>10

LEMMA BodyIs ==
  ASSUME NEW body \in NestedBody
  PROVE  /\ Len(body) \in Nat /\ DOMAIN body = 1..Len(body) /\ WellNested(body)
         /\ \A k \in 1..Len(body) : body[k].k = "match" => body[k].x \in Nat
<1>1. body \in Seq(BodyToken) /\ WellNested(body)
  BY DEF NestedBody
<1>2. Len(body) \in Nat /\ DOMAIN body = 1..Len(body)
  BY <1>1, LenProperties
<1>3. \A k \in 1..Len(body) : body[k] \in BodyToken
  BY <1>1, <1>2
<1> QED
  BY <1>1, <1>2, <1>3 DEF BodyToken

Counted(body, n, a) ==
  \A k \in 1..n : a[k] = IF body[k].k = "do" THEN a[k - 1] + 1
                         ELSE IF body[k].k = "end" THEN a[k - 1] - 1 ELSE a[k - 1]

LEMMA LoopsOpen ==
  ASSUME NEW body \in NestedBody, NEW n, n = Len(body),
         NEW a, a = [k \in 0..n |-> LoopsAround(body, k)]
  PROVE  /\ OpenLoops(n, a)
         /\ Counted(body, n, a)
<1>1. n \in Nat /\ WellNested(body)
  BY BodyIs
<1>2. \A k \in 0..n : a[k] = TokensUpTo(body, {"do"}, k) - TokensUpTo(body, {"end"}, k)
  BY DEF LoopsAround
<1>3. \A k \in 0..n : TokensUpTo(body, {"end"}, k) <= TokensUpTo(body, {"do"}, k)
  BY <1>1 DEF WellNested
<1>4. ASSUME NEW k \in 0..n PROVE a[k] \in Nat /\ a[k] <= n
  <2>1. PICK x \in Nat, y \in Nat : x = TokensUpTo(body, {"do"}, k)
        /\ y = TokensUpTo(body, {"end"}, k) /\ x <= k
    <3>1. k \in Nat
      BY <1>1
    <3> QED
      BY <3>1, TokensCounted
  <2>2. y <= x /\ a[k] = x - y
    BY <1>2, <1>3, <2>1
  <2> QED
    BY <1>1, <2>1, <2>2
<1>5. a[0] = 0
  <2>1. TokensUpTo(body, {"do"}, 0) = 0 /\ TokensUpTo(body, {"end"}, 0) = 0
    BY TokensCounted
  <2> QED
    BY <1>1, <1>2, <2>1
<1>6. a[n] = 0
  <2>1. n \in 0..n /\ TokensUpTo(body, {"end"}, n) = TokensUpTo(body, {"do"}, n)
    BY <1>1 DEF WellNested
  <2>2. TokensUpTo(body, {"do"}, n) \in Nat
    BY <1>1, TokensCounted
  <2> QED
    BY <1>2, <2>1, <2>2
<1>7. ASSUME NEW k \in 1..n
      PROVE  a[k] = IF body[k].k = "do" THEN a[k - 1] + 1
                    ELSE IF body[k].k = "end" THEN a[k - 1] - 1 ELSE a[k - 1]
  <2>1. PICK j \in Nat : j = k - 1
    BY <1>1
  <2>2. j + 1 = k /\ j \in 0..n /\ k \in 0..n
    BY <1>1, <2>1
  <2>3. PICK x \in Nat, y \in Nat : x = TokensUpTo(body, {"do"}, j)
        /\ y = TokensUpTo(body, {"end"}, j)
    BY TokensCounted
  <2>4. /\ body[k].k \in {"do"} => TokensUpTo(body, {"do"}, k) = x + 1
        /\ body[k].k \notin {"do"} => TokensUpTo(body, {"do"}, k) = x
    BY <2>2, <2>3, TokensCounted
  <2>5. /\ body[k].k \in {"end"} => TokensUpTo(body, {"end"}, k) = y + 1
        /\ body[k].k \notin {"end"} => TokensUpTo(body, {"end"}, k) = y
    BY <2>2, <2>3, TokensCounted
  <2>6. a[j] = x - y /\ a[k] = TokensUpTo(body, {"do"}, k) - TokensUpTo(body, {"end"}, k)
    BY <1>2, <2>2, <2>3
  <2>7. CASE body[k].k = "do"
    <3>1. a[k] = (x + 1) - y
      BY <2>4, <2>5, <2>6, <2>7
    <3> QED
      BY <2>1, <2>6, <2>7, <3>1
  <2>8. CASE body[k].k = "end"
    <3>1. a[k] = x - (y + 1)
      BY <2>4, <2>5, <2>6, <2>8
    <3> QED
      BY <2>1, <2>6, <2>8, <3>1
  <2>9. CASE body[k].k # "do" /\ body[k].k # "end"
    <3>1. a[k] = x - y
      BY <2>4, <2>5, <2>6, <2>9
    <3> QED
      BY <2>1, <2>6, <2>9, <3>1
  <2> QED
    BY <2>7, <2>8, <2>9
<1> QED
  BY <1>4, <1>5, <1>6, <1>7 DEF OpenLoops, Counted

LEMMA TokenWeights ==
  ASSUME NEW t
  PROVE  /\ Instructions(t) \in Nat /\ MemoryBytes(t) \in Nat
         /\ t.k \in {"do", "end"} => Instructions(t) = 0 /\ MemoryBytes(t) = 0
<1>1. \A h : GasTypeSize(h) \in Nat
  BY FixedSizes DEF GasTypeSize
<1> QED
  BY <1>1 DEF Instructions, MemoryBytes, StorageMethods, Loops

LEMMA LoopEntered ==
  ASSUME NEW s \in Seq(Estimate), NEW d \in Nat, d = Len(s), NEW t, t.k = "do",
         NEW r, r = GasStep(s, t)
  PROVE  /\ r \in Seq(Estimate) /\ Len(r) = d + 1 /\ r[d + 1] = NewEstimate
         /\ \A l \in 1..d : r[l] = s[l]
<1>1. NewEstimate \in Estimate
  BY DEF NewEstimate, Estimate
<1>2. r = Append(s, NewEstimate)
  BY DEF GasStep
<1> QED
  BY <1>1, <1>2

\* The estimate of the loop that was left, ten times over, is the outer one's.
LeftFor(s, d, r) ==
  /\ r \in Seq(Estimate) /\ Len(r) = d - 1
  /\ r[d - 1].instructions = s[d - 1].instructions + 10 * s[d].instructions
  /\ r[d - 1].memory = s[d - 1].memory + 10 * s[d].memory
  /\ \A l \in 1..(d - 2) : r[l] = s[l]
InLoop(s, d) == d \in Nat /\ d = Len(s) /\ d >= 2

LEMMA LoopLeft ==
  ASSUME NEW s \in Seq(Estimate), NEW d, InLoop(s, d), NEW t, t.k = "end", NEW r, r = GasStep(s, t)
  PROVE  LeftFor(s, d, r)
<1> USE DEF InLoop
<1>1. PICK e \in Nat : e = d - 1 /\ e \in 1..d /\ e # 0
  OBVIOUS
<1>2. PICK f : f = SubSeq(s, 1, e)
  OBVIOUS
<1>3. f \in Seq(Estimate) /\ Len(f) = e /\ \A l \in 1..e : f[l] = s[l]
  <2>1. 1 \in 1..(Len(s) + 1) /\ e \in (1 - 1)..Len(s) /\ e - 1 + 1 = e
    BY <1>1
  <2>2. f \in Seq(Estimate) /\ Len(f) = e - 1 + 1 /\ \A l \in 1..(e - 1 + 1) : f[l] = s[1 + l - 1]
    BY <1>2, <2>1, CutIs
  <2>3. \A l \in 1..e : 1 + l - 1 = l
    OBVIOUS
  <2> QED
    BY <2>1, <2>2, <2>3
<1>4. s[e] \in Estimate /\ s[d] \in Estimate /\ f[e] = s[e]
  <2>1. e \in 1..e /\ d \in 1..d /\ d # 0
    BY <1>1
  <2> QED
    BY <1>1, <1>3, <2>1
<1>5. PICK v : v = [instructions |-> s[e].instructions + 10 * s[d].instructions,
                    memory |-> s[e].memory + 10 * s[d].memory]
  OBVIOUS
<1>6. v \in Estimate
  <2>1. PICK w \in Nat, x \in Nat, y \in Nat, z \in Nat :
          w = s[e].instructions /\ x = s[d].instructions /\ y = s[e].memory /\ z = s[d].memory
    BY <1>4 DEF Estimate
  <2>2. w + 10 * x \in Nat /\ y + 10 * z \in Nat
    OBVIOUS
  <2>3. v = [instructions |-> w + 10 * x, memory |-> y + 10 * z]
    BY <1>5, <2>1
  <2> QED
    BY <2>2, <2>3 DEF Estimate
<1>7. r = [f EXCEPT ![e] = v]
  <2>1. Front(s) = f
    BY <1>1, <1>2 DEF Front
  <2>2. r = [f EXCEPT ![e] = [instructions |-> f[e].instructions + 10 * s[d].instructions,
                              memory |-> f[e].memory + 10 * s[d].memory]]
    BY <1>1, <2>1 DEF GasStep
  <2> QED
    BY <1>4, <1>5, <2>2
<1>8. r \in Seq(Estimate) /\ Len(r) = e /\ r[e] = v /\ \A l \in 1..(e - 1) : r[l] = f[l]
  BY <1>1, <1>3, <1>6, <1>7
<1> QED
  BY <1>1, <1>3, <1>5, <1>8 DEF LeftFor

LEMMA TokenMet ==
  ASSUME NEW s \in Seq(Estimate), NEW d \in Nat \ {0}, d = Len(s), NEW t, t.k # "do", t.k # "end",
         NEW r, r = GasStep(s, t)
  PROVE  /\ r \in Seq(Estimate) /\ Len(r) = d
         /\ r[d].instructions = s[d].instructions + Instructions(t)
         /\ r[d].memory = s[d].memory + MemoryBytes(t)
         /\ \A l \in 1..(d - 1) : r[l] = s[l]
<1>1. d \in 1..d /\ s[d] \in Estimate
  OBVIOUS
<1>2. PICK v :
      v = [instructions |-> s[d].instructions + Instructions(t), memory |-> s[d].memory + MemoryBytes(t)]
  OBVIOUS
<1>3. v \in Estimate
  BY <1>1, <1>2, TokenWeights DEF Estimate
<1>4. r = [s EXCEPT ![d] = v]
  BY <1>2 DEF GasStep, AddEstimate
<1>5. r \in Seq(Estimate) /\ Len(r) = d /\ r[d] = v /\ \A l \in 1..(d - 1) : r[l] = s[l]
  BY <1>1, <1>3, <1>4
<1> QED
  BY <1>2, <1>5

\* One estimate per open loop and one for the outside.
OneEach(a, tr, k) == tr[k] \in Seq(Estimate) /\ Len(tr[k]) = a[k] + 1
GasShape(n, a, tr) == \A k \in 0..n : OneEach(a, tr, k)

\* Where a token stands, by its kind.
LoopStep(body, a, tr, k) ==
  /\ body[k].k = "do" => /\ a[k] = a[k - 1] + 1 /\ tr[k][a[k] + 1] = NewEstimate
                         /\ \A l \in 1..a[k] : tr[k][l] = tr[k - 1][l]
  /\ body[k].k = "end" =>
       /\ a[k] = a[k - 1] - 1
       /\ tr[k][a[k] + 1].instructions
            = tr[k - 1][a[k] + 1].instructions + 10 * tr[k - 1][a[k - 1] + 1].instructions
       /\ tr[k][a[k] + 1].memory = tr[k - 1][a[k] + 1].memory + 10 * tr[k - 1][a[k - 1] + 1].memory
       /\ \A l \in 1..a[k] : tr[k][l] = tr[k - 1][l]
  /\ body[k].k \notin {"do", "end"} =>
       /\ a[k] = a[k - 1]
       /\ tr[k][a[k] + 1].instructions = tr[k - 1][a[k] + 1].instructions + Instructions(body[k])
       /\ tr[k][a[k] + 1].memory = tr[k - 1][a[k] + 1].memory + MemoryBytes(body[k])
       /\ \A l \in 1..a[k] : tr[k][l] = tr[k - 1][l]

LEMMA LoopSteps ==
  ASSUME NEW body, NEW n \in Nat, NEW a, OpenLoops(n, a), NEW tr, GasTrace(body, n, tr),
         Counted(body, n, a),
         NEW j \in Nat, NEW k \in 1..n, k = j + 1, OneEach(a, tr, j)
  PROVE  OneEach(a, tr, k) /\ LoopStep(body, a, tr, k)
<1> USE DEF OneEach
<1>1. j \in 0..n /\ k \in 0..n /\ k - 1 = j
  OBVIOUS
<1>2. PICK b \in Nat, c \in Nat : b = a[j] /\ c = a[k]
  BY <1>1 DEF OpenLoops
<1>3. PICK d \in Nat : d = b + 1
  OBVIOUS
<1>4. d \in Nat \ {0} /\ d = Len(tr[j]) /\ tr[k] = GasStep(tr[j], body[k])
  BY <1>1, <1>2, <1>3 DEF GasTrace
<1>5. c = IF body[k].k = "do" THEN b + 1 ELSE IF body[k].k = "end" THEN b - 1 ELSE b
  BY <1>1, <1>2 DEF Counted
<1>6. CASE body[k].k = "do"
  <2>1. /\ tr[k] \in Seq(Estimate) /\ Len(tr[k]) = d + 1 /\ tr[k][d + 1] = NewEstimate
        /\ \A l \in 1..d : tr[k][l] = tr[j][l]
    <3>0. PICK s \in Seq(Estimate) : s = tr[j]
      OBVIOUS
    <3>1. PICK r, t : s = tr[j] /\ r = tr[k] /\ t = body[k]
      BY <3>0
    <3>2. d = Len(s) /\ t.k = "do" /\ r = GasStep(s, t) /\ d \in Nat
      BY <1>4, <1>6, <3>1
    <3>3. /\ r \in Seq(Estimate) /\ Len(r) = d + 1 /\ r[d + 1] = NewEstimate
          /\ \A l \in 1..d : r[l] = s[l]
      BY <3>2, LoopEntered
    <3> QED
      BY <3>1, <3>3
  <2>2. c = b + 1 /\ d + 1 = c + 1 /\ d = c
    BY <1>3, <1>5, <1>6
  <2> QED
    BY <1>1, <1>2, <1>6, <2>1, <2>2 DEF LoopStep
<1>7. CASE body[k].k = "end"
  <2>1. c = b - 1
    BY <1>5, <1>7
  <2>2. d >= 2 /\ d - 1 = c + 1 /\ d - 2 = c /\ d = b + 1
    BY <1>3, <2>1
  <2>3. /\ tr[k] \in Seq(Estimate) /\ Len(tr[k]) = d - 1
        /\ tr[k][d - 1].instructions = tr[j][d - 1].instructions + 10 * tr[j][d].instructions
        /\ tr[k][d - 1].memory = tr[j][d - 1].memory + 10 * tr[j][d].memory
        /\ \A l \in 1..(d - 2) : tr[k][l] = tr[j][l]
    <3>0. PICK s \in Seq(Estimate) : s = tr[j]
      OBVIOUS
    <3>1. PICK r, t : s = tr[j] /\ r = tr[k] /\ t = body[k]
      BY <3>0
    <3>2. d = Len(s) /\ t.k = "end" /\ r = GasStep(s, t) /\ InLoop(s, d)
      BY <1>4, <1>7, <2>2, <3>1 DEF InLoop
    <3>3. LeftFor(s, d, r)
      BY <3>2, LoopLeft
    <3> QED
      BY <3>1, <3>3 DEF LeftFor
  <2> QED
    BY <1>1, <1>2, <1>7, <2>1, <2>2, <2>3 DEF LoopStep
<1>8. CASE body[k].k \notin {"do", "end"}
  <2>1. c = b /\ d = c + 1 /\ d - 1 = c
    BY <1>3, <1>5, <1>8
  <2>2. /\ tr[k] \in Seq(Estimate) /\ Len(tr[k]) = d
        /\ tr[k][d].instructions = tr[j][d].instructions + Instructions(body[k])
        /\ tr[k][d].memory = tr[j][d].memory + MemoryBytes(body[k])
        /\ \A l \in 1..(d - 1) : tr[k][l] = tr[j][l]
    BY <1>4, <1>8, TokenMet
  <2> QED
    BY <1>1, <1>2, <1>8, <2>1, <2>2 DEF LoopStep
<1> QED
  BY <1>6, <1>7, <1>8

LEMMA GasShaped ==
  ASSUME NEW body \in NestedBody, NEW n, n = Len(body),
         NEW a, a = [k \in 0..n |-> LoopsAround(body, k)],
         NEW tr, GasTrace(body, n, tr)
  PROVE  OpenLoops(n, a) /\ GasShape(n, a, tr) /\ \A k \in 1..n : LoopStep(body, a, tr, k)
<1>1. n \in Nat
  BY BodyIs
<1>2. OpenLoops(n, a) /\ Counted(body, n, a)
  BY LoopsOpen
<1> DEFINE G == {k \in Nat : k <= n => OneEach(a, tr, k) /\ (k > 0 => LoopStep(body, a, tr, k))}
<1>3. 0 \in G
  <2>1. a[0] = 0
    BY <1>2 DEF OpenLoops
  <2>2. NewEstimate \in Estimate
    BY DEF NewEstimate, Estimate
  <2>3. tr[0] = <<NewEstimate>>
    BY DEF GasTrace, OneLevel
  <2>4. OneEach(a, tr, 0)
    BY <2>1, <2>2, <2>3 DEF OneEach
  <2>5. ~(0 > 0)
    OBVIOUS
  <2> QED
    BY <2>4, <2>5
<1>4. ASSUME NEW j \in Nat, j \in G PROVE j + 1 \in G
  <2> SUFFICES ASSUME j + 1 <= n PROVE OneEach(a, tr, j + 1) /\ LoopStep(body, a, tr, j + 1)
    OBVIOUS
  <2>1. PICK k \in 1..n : k = j + 1
    BY <1>1
  <2>2. OneEach(a, tr, j)
    BY <1>1, <1>4
  <2>3. OneEach(a, tr, k) /\ LoopStep(body, a, tr, k)
    <3> HIDE DEF G
    <3> QED
      BY <1>1, <1>2, <2>1, <2>2, LoopSteps
  <2> QED
    BY <2>1, <2>3
<1>5. Nat \subseteq G
  <2> HIDE DEF G
  <2> QED
    BY <1>3, <1>4, NumbersByInduction
<1>6. \A k \in 0..n : OneEach(a, tr, k)
  BY <1>1, <1>5
<1>7. \A k \in 1..n : LoopStep(body, a, tr, k)
  BY <1>1, <1>5
<1> QED
  BY <1>2, <1>6, <1>7 DEF GasShape

LEMMA PowersAre ==
  ASSUME NEW n \in Nat
  PROVE  Powers(n, PowersOfTen(n))
<1>1. PICK f \in [0..n -> Nat] : \A m \in 0..n : f[m] = IF m = 0 THEN 1 ELSE 10 * f[m - 1]
  BY PowersExist
<1>2. f = [m \in 0..n |-> IF m = 0 THEN 1 ELSE 10 * f[m - 1]]
  BY <1>1
<1>3. PICK t : t = CHOOSE g : g = [m \in 0..n |-> IF m = 0 THEN 1 ELSE 10 * g[m - 1]]
  OBVIOUS
<1>4. t = [m \in 0..n |-> IF m = 0 THEN 1 ELSE 10 * t[m - 1]]
  BY <1>2, <1>3
<1>5. t = PowersOfTen(n)
  BY <1>3 DEF PowersOfTen
<1>6. \A m \in 0..n : t[m] = IF m = 0 THEN 1 ELSE 10 * t[m - 1]
  BY <1>4
<1> DEFINE G == {m \in Nat : m <= n => t[m] \in Nat}
<1>7. 0 \in G
  BY <1>6
<1>8. ASSUME NEW m \in Nat, m \in G PROVE m + 1 \in G
  <2> SUFFICES ASSUME m + 1 <= n PROVE t[m + 1] \in Nat
    OBVIOUS
  <2>1. PICK k \in 0..n : k = m + 1 /\ k # 0 /\ k - 1 = m
    OBVIOUS
  <2>2. t[k] = 10 * t[m] /\ t[m] \in Nat
    BY <1>6, <1>8, <2>1
  <2> QED
    BY <2>1, <2>2
<1>9. Nat \subseteq G
  <2> HIDE DEF G
  <2> QED
    BY <1>7, <1>8, NumbersByInduction
<1>10. t \in [0..n -> Nat]
  <2>1. \A m \in 0..n : t[m] \in Nat
    BY <1>9
  <2>2. PICK h : h = [m \in 0..n |-> IF m = 0 THEN 1 ELSE 10 * t[m - 1]]
    OBVIOUS
  <2>3. t = h /\ \A m \in 0..n : h[m] \in Nat
    BY <1>4, <2>1, <2>2
  <2>4. h \in [0..n -> Nat]
    BY <2>2, <2>3
  <2> QED
    BY <2>3, <2>4
<1> QED
  BY <1>5, <1>6, <1>10 DEF Powers

\* One number of an estimate, whichever it is, along the body.
NumberStep(body, a, tr, p, k) ==
  /\ body[k].k = "do" => a[k] = a[k - 1] + 1 /\ p[tr[k][a[k] + 1]] = p[NewEstimate]
  /\ body[k].k = "end" => /\ a[k] = a[k - 1] - 1 /\ p[OwnEstimate(body[k])] = 0
                          /\ p[tr[k][a[k] + 1]]
                               = p[tr[k - 1][a[k] + 1]] + 10 * p[tr[k - 1][a[k - 1] + 1]]
  /\ body[k].k \notin {"do", "end"} =>
       a[k] = a[k - 1] /\ p[tr[k][a[k] + 1]] = p[tr[k - 1][a[k] + 1]] + p[OwnEstimate(body[k])]
  /\ \A l \in 1..a[k] : tr[k][l] = tr[k - 1][l]

LEMMA OwnIs ==
  ASSUME NEW t
  PROVE  OwnEstimate(t) \in Estimate /\ (t.k = "do" => OwnEstimate(t) = NewEstimate)
<1>1. NewEstimate \in Estimate
  BY DEF NewEstimate, Estimate
<1>2. [instructions |-> Instructions(t), memory |-> MemoryBytes(t)] \in Estimate
  BY TokenWeights DEF Estimate
<1> QED
  BY <1>1, <1>2 DEF OwnEstimate

NumberRuns(body, n, a, tr, p) ==
  /\ n \in Nat /\ OpenLoops(n, a) /\ GasShape(n, a, tr) /\ tr[0] = OneLevel
  /\ p \in [Estimate -> Nat] /\ \A k \in 1..n : NumberStep(body, a, tr, p, k)
Weighted(body, n, a, p) == [i \in 1..n |-> p[OwnEstimate(body[i])] * PowersOfTen(n)[a[i]]]

LEMMA NumberWeighed ==
  ASSUME NEW body, NEW n, NEW a, NEW tr, NEW p, NumberRuns(body, n, a, tr, p)
  PROVE  p[tr[n][1]] = p[NewEstimate] + SumFunctionOnSet(Weighted(body, n, a, p), 1..n)
<1> USE DEF NumberRuns
<1>1. PICK q : q = [k \in 0..n |-> [l \in 1..(a[k] + 1) |-> p[tr[k][l]]]]
  OBVIOUS
<1>2. PICK own : own = [k \in 1..n |-> p[OwnEstimate(body[k])]]
  OBVIOUS
<1>3. PICK base \in Nat : base = p[NewEstimate]
  BY DEF NewEstimate, Estimate
<1>4. ASSUME NEW k \in 0..n, NEW c \in Nat, c = a[k]
      PROVE  \A l \in 1..(c + 1) : q[k][l] = p[tr[k][l]] /\ q[k][l] \in Nat
  <2>1. tr[k] \in Seq(Estimate) /\ Len(tr[k]) = c + 1
    BY <1>4 DEF GasShape, OneEach
  <2>2. \A l \in 1..(c + 1) : tr[k][l] \in Estimate
    BY <2>1
  <2>3. \A l \in 1..(c + 1) : q[k][l] = p[tr[k][l]]
    BY <1>1, <1>4
  <2> QED
    BY <2>2, <2>3
<1>5. \A k \in 0..n : \A l \in 1..(a[k] + 1) : q[k][l] \in Nat
  BY <1>4 DEF OpenLoops
<1>6. q[0][1] = base
  <2>1. 0 \in 0..n /\ a[0] = 0 /\ 0 \in Nat /\ 1 \in 1..(0 + 1)
    BY DEF OpenLoops
  <2>2. q[0][1] = p[tr[0][1]]
    BY <1>4, <2>1
  <2> QED
    BY <1>3, <2>2 DEF OneLevel
<1>7. \A k \in 1..n : own[k] \in Nat /\ own[k] = p[OwnEstimate(body[k])]
  BY <1>2, OwnIs
<1>8. ASSUME NEW k \in 1..n
      PROVE  Enters(a, q, own, base, k) \/ Leaves(a, q, own, k) \/ Adds(a, q, own, k)
  <2>1. k \in 0..n /\ k - 1 \in 0..n
    OBVIOUS
  <2>2. PICK b \in Nat, c \in Nat : b = a[k - 1] /\ c = a[k]
    BY <2>1 DEF OpenLoops
  <2>3. \A l \in 1..(c + 1) : q[k][l] = p[tr[k][l]]
    BY <1>4, <2>1, <2>2
  <2>4. \A l \in 1..(b + 1) : q[k - 1][l] = p[tr[k - 1][l]]
    BY <1>4, <2>1, <2>2
  <2>5. c + 1 \in 1..(c + 1) /\ b + 1 \in 1..(b + 1)
    OBVIOUS
  <2>6. q[k][c + 1] = p[tr[k][c + 1]] /\ q[k - 1][b + 1] = p[tr[k - 1][b + 1]]
    BY <2>3, <2>4, <2>5
  <2>7. c <= b + 1 => \A l \in 1..c : q[k][l] = q[k - 1][l]
    <3>1. \A l \in 1..c : tr[k][l] = tr[k - 1][l]
      BY <2>2 DEF NumberStep
    <3> SUFFICES ASSUME c <= b + 1, NEW l \in 1..c PROVE q[k][l] = q[k - 1][l]
      OBVIOUS
    <3>2. l \in 1..(c + 1) /\ l \in 1..(b + 1)
      OBVIOUS
    <3>3. tr[k][l] = tr[k - 1][l]
      BY <3>1
    <3>4. q[k][l] = p[tr[k][l]]
      BY <2>3, <3>2
    <3>5. q[k - 1][l] = p[tr[k - 1][l]]
      BY <2>4, <3>2
    <3> QED
      BY <3>3, <3>4, <3>5
  <2>8. NumberStep(body, a, tr, p, k)
    OBVIOUS
  <2>9. CASE body[k].k = "do"
    <3>1. c = b + 1 /\ p[tr[k][c + 1]] = p[NewEstimate]
      BY <2>2, <2>8, <2>9 DEF NumberStep
    <3>2. own[k] = base
      BY <1>3, <1>7, <2>9, OwnIs
    <3>3. Enters(a, q, own, base, k)
      BY <1>3, <2>2, <2>6, <2>7, <3>1, <3>2 DEF Enters
    <3> QED
      BY <3>3
  <2>10. CASE body[k].k = "end"
    <3>1. c = b - 1 /\ p[OwnEstimate(body[k])] = 0
          /\ p[tr[k][c + 1]] = p[tr[k - 1][c + 1]] + 10 * p[tr[k - 1][b + 1]]
      BY <2>2, <2>8, <2>10 DEF NumberStep
    <3>2. q[k - 1][c + 1] = p[tr[k - 1][c + 1]]
      <4>1. c + 1 \in 1..(b + 1)
        BY <3>1
      <4> QED
        BY <2>4, <4>1
    <3>3. own[k] = 0
      BY <1>7, <3>1
    <3>4. q[k][c + 1] = q[k - 1][c + 1] + 10 * q[k - 1][b + 1]
      BY <2>6, <3>1, <3>2
    <3>5. \A l \in 1..c : q[k][l] = q[k - 1][l]
      <4>1. c <= b + 1
        BY <3>1
      <4> QED
        BY <2>7, <4>1
    <3>6. Leaves(a, q, own, k)
      BY <2>2, <3>1, <3>3, <3>4, <3>5 DEF Leaves
    <3> QED
      BY <3>6
  <2>11. CASE body[k].k \notin {"do", "end"}
    <3>1. c = b /\ p[tr[k][c + 1]] = p[tr[k - 1][c + 1]] + own[k]
      BY <1>7, <2>2, <2>8, <2>11 DEF NumberStep
    <3>2. q[k][c + 1] = q[k - 1][c + 1] + own[k]
      BY <2>6, <3>1
    <3>3. \A l \in 1..c : q[k][l] = q[k - 1][l]
      BY <2>7, <3>1
    <3>4. Adds(a, q, own, k)
      BY <2>2, <3>1, <3>2, <3>3 DEF Adds
    <3> QED
      BY <3>4
  <2> QED
    BY <2>9, <2>10, <2>11
<1>9. Weights(n, a, q, own, base)
  <2>1. \A k \in 1..n : own[k] \in Nat
    BY <1>7
  <2> QED
    BY <1>3, <1>5, <1>6, <1>8, <2>1 DEF Weights
<1>10. PICK tens : tens = PowersOfTen(n)
  OBVIOUS
<1>11. Powers(n, tens)
  BY <1>10, PowersAre
<1> DEFINE u == Weighted(body, n, a, p)
<1>12. u = [i \in 1..n |-> own[i] * tens[a[i]]]
  BY <1>2, <1>10 DEF Weighted
<1>13. q[n][1] = base + SumFunctionOnSet(u, 1..n)
  <2> HIDE DEF u
  <2> QED
    BY <1>9, <1>11, <1>12, NestedWeigh
<1>14. q[n][1] = p[tr[n][1]]
  <2>1. n \in 0..n /\ a[n] = 0 /\ 0 \in Nat /\ 1 \in 1..(0 + 1)
    BY DEF OpenLoops
  <2> QED
    BY <1>4, <2>1
<1> QED
  BY <1>3, <1>13, <1>14

LEMMA StepsByNumber ==
  ASSUME NEW body, NEW a, NEW tr, NEW k, LoopStep(body, a, tr, k),
         NEW j, j = k - 1, NEW c \in Nat, NEW b \in Nat, c = a[k], b = a[j],
         tr[k] \in Seq(Estimate), Len(tr[k]) = c + 1, tr[j] \in Seq(Estimate), Len(tr[j]) = b + 1,
         NEW p \in [Estimate -> Nat],
         (\A e \in Estimate : p[e] = e.instructions) \/ (\A e \in Estimate : p[e] = e.memory)
  PROVE  NumberStep(body, a, tr, p, k)
<1>1. PICK t : t = body[k]
  OBVIOUS
<1>2. PICK x, y, z, o, e : /\ x = tr[k][c + 1] /\ y = tr[j][c + 1] /\ z = tr[j][b + 1]
                           /\ o = OwnEstimate(t) /\ e = NewEstimate
  OBVIOUS
<1>3. x \in Estimate /\ z \in Estimate /\ o \in Estimate /\ e \in Estimate
  <2>1. c + 1 \in 1..(c + 1) /\ b + 1 \in 1..(b + 1)
    OBVIOUS
  <2>2. e \in Estimate
    BY <1>2 DEF NewEstimate, Estimate
  <2>3. o \in Estimate
    BY <1>2, OwnIs
  <2>4. x \in Estimate
    BY <1>2, <2>1
  <2>5. z \in Estimate
    BY <1>2, <2>1
  <2> QED
    BY <2>2, <2>3, <2>4, <2>5
<1>4. c <= b => y \in Estimate
  <2> SUFFICES ASSUME c <= b PROVE y \in Estimate
    OBVIOUS
  <2>1. c + 1 \in 1..(b + 1)
    OBVIOUS
  <2> QED
    BY <1>2, <2>1
<1>6. CASE t.k = "do"
  <2>1. c = b + 1 /\ x = e /\ \A l \in 1..c : tr[k][l] = tr[j][l]
    BY <1>1, <1>2, <1>6 DEF LoopStep
  <2> QED
    BY <1>1, <1>2, <1>6, <2>1 DEF NumberStep
<1>7. CASE t.k = "end"
  <2>1. /\ c = b - 1 /\ x.instructions = y.instructions + 10 * z.instructions
        /\ x.memory = y.memory + 10 * z.memory /\ \A l \in 1..c : tr[k][l] = tr[j][l]
    BY <1>1, <1>2, <1>7 DEF LoopStep
  <2>2. p[x] = p[y] + 10 * p[z]
    <3>1. y \in Estimate
      BY <1>4, <2>1
    <3>2. CASE \A w \in Estimate : p[w] = w.instructions
      <4>1. p[x] = x.instructions /\ p[y] = y.instructions /\ p[z] = z.instructions
        BY <1>3, <3>1, <3>2
      <4> QED
        BY <2>1, <4>1
    <3>3. CASE \A w \in Estimate : p[w] = w.memory
      <4>1. p[x] = x.memory /\ p[y] = y.memory /\ p[z] = z.memory
        BY <1>3, <3>1, <3>3
      <4> QED
        BY <2>1, <4>1
    <3> QED
      BY <3>2, <3>3
  <2>3. p[o] = 0
    <3>1. Instructions(t) = 0 /\ MemoryBytes(t) = 0
      BY <1>7, TokenWeights
    <3>2. o = [instructions |-> 0, memory |-> 0]
      BY <1>2, <1>7, <3>1 DEF OwnEstimate
    <3> QED
      BY <1>3, <3>2
  <2> QED
    BY <1>1, <1>2, <1>7, <2>1, <2>2, <2>3 DEF NumberStep
<1>8. CASE t.k \notin {"do", "end"}
  <2>1. /\ c = b /\ x.instructions = y.instructions + Instructions(t)
        /\ x.memory = y.memory + MemoryBytes(t) /\ \A l \in 1..c : tr[k][l] = tr[j][l]
    BY <1>1, <1>2, <1>8 DEF LoopStep
  <2>2. o.instructions = Instructions(t) /\ o.memory = MemoryBytes(t)
    BY <1>2, <1>8 DEF OwnEstimate
  <2>3. p[x] = p[y] + p[o]
    BY <1>3, <1>4, <2>1, <2>2
  <2> QED
    BY <1>1, <1>2, <1>8, <2>1, <2>3 DEF NumberStep
<1> QED
  BY <1>6, <1>7, <1>8

LEMMA BodyWeighed ==
  ASSUME NEW body \in NestedBody, NEW n, n = Len(body), NEW p \in [Estimate -> Nat],
         (\A e \in Estimate : p[e] = e.instructions) \/ (\A e \in Estimate : p[e] = e.memory),
         NEW u, u = [i \in 1..n |-> p[OwnEstimate(body[i])] * PowersOfTen(n)[LoopsAround(body, i)]]
  PROVE  /\ EstimateGas(body) \in Estimate
         /\ p[EstimateGas(body)] = p[NewEstimate] + SumFunctionOnSet(u, 1..n)
<1>1. n \in Nat /\ DOMAIN body = 1..n
  BY BodyIs
<1>2. PICK a : a = [k \in 0..n |-> LoopsAround(body, k)]
  OBVIOUS
<1>3. PICK tr : GasTrace(body, n, tr) /\ EstimateGas(body) = tr[n][1]
  BY <1>1, GasTraced
<1>4. OpenLoops(n, a) /\ GasShape(n, a, tr) /\ \A k \in 1..n : LoopStep(body, a, tr, k)
  BY <1>2, <1>3, GasShaped
<1>5. tr[0] = OneLevel
  BY <1>3 DEF GasTrace
<1>6. ASSUME NEW k \in 1..n PROVE NumberStep(body, a, tr, p, k)
  <2>1. PICK j \in 0..n : j = k - 1
    BY <1>1
  <2>2. PICK b \in Nat, c \in Nat : c = a[k] /\ b = a[j]
    BY <1>4, <2>1 DEF OpenLoops
  <2>3. OneEach(a, tr, k) /\ OneEach(a, tr, j)
    BY <1>1, <1>4, <2>1 DEF GasShape
  <2>4. /\ tr[k] \in Seq(Estimate) /\ Len(tr[k]) = c + 1
        /\ tr[j] \in Seq(Estimate) /\ Len(tr[j]) = b + 1
    BY <2>2, <2>3 DEF OneEach
  <2>5. LoopStep(body, a, tr, k)
    BY <1>4
  <2> QED
    BY <2>1, <2>2, <2>4, <2>5, StepsByNumber
<1>7. u = Weighted(body, n, a, p)
  <2>1. \A i \in 1..n : a[i] = LoopsAround(body, i)
    BY <1>1, <1>2
  <2> QED
    BY <2>1 DEF Weighted
<1>8. p[tr[n][1]] = p[NewEstimate] + SumFunctionOnSet(u, 1..n)
  <2>1. OpenLoops(n, a) /\ GasShape(n, a, tr)
    BY <1>4
  <2>2. \A k \in 1..n : NumberStep(body, a, tr, p, k)
    BY <1>6
  <2>3. NumberRuns(body, n, a, tr, p)
    BY <1>1, <1>5, <2>1, <2>2 DEF NumberRuns
  <2> QED
    BY <1>7, <2>3, NumberWeighed
<1>9. tr[n][1] \in Estimate
  <2>1. n \in 0..n /\ a[n] = 0
    BY <1>1, <1>4 DEF OpenLoops
  <2>2. tr[n] \in Seq(Estimate) /\ Len(tr[n]) = 0 + 1
    BY <1>4, <2>1 DEF GasShape, OneEach
  <2> QED
    BY <2>2
<1> QED
  BY <1>3, <1>8, <1>9

LEMMA GasWeighed ==
  ASSUME NEW body \in NestedBody, NEW tens, tens = PowersOfTen(Len(body))
  PROVE  /\ EstimateGas(body).instructions
              = 50 + SumFunction([i \in DOMAIN body |-> OwnEstimate(body[i]).instructions * tens[LoopsAround(body, i)]])
         /\ EstimateGas(body).memory
              = 32 + SumFunction([i \in DOMAIN body |-> OwnEstimate(body[i]).memory * tens[LoopsAround(body, i)]])
<1>1. PICK n \in Nat : n = Len(body) /\ DOMAIN body = 1..n
  BY BodyIs
<1>2. NewEstimate \in Estimate /\ NewEstimate.instructions = 50 /\ NewEstimate.memory = 32
  BY DEF NewEstimate, Estimate
<1>3. EstimateGas(body).instructions
        = 50 + SumFunction([i \in DOMAIN body |-> OwnEstimate(body[i]).instructions * tens[LoopsAround(body, i)]])
  <2>1. PICK p : p = [e \in Estimate |-> e.instructions]
    OBVIOUS
  <2>2. p \in [Estimate -> Nat] /\ \A e \in Estimate : p[e] = e.instructions
    BY <2>1 DEF Estimate
  <2>3. PICK u : u = [i \in 1..n |-> p[OwnEstimate(body[i])] * PowersOfTen(n)[LoopsAround(body, i)]]
    OBVIOUS
  <2>4. EstimateGas(body) \in Estimate
        /\ p[EstimateGas(body)] = p[NewEstimate] + SumFunctionOnSet(u, 1..n)
    BY <1>1, <2>2, <2>3, BodyWeighed
  <2>5. \A i \in 1..n : p[OwnEstimate(body[i])] = OwnEstimate(body[i]).instructions
    BY <2>2, OwnIs
  <2>6. u = [i \in DOMAIN body |-> OwnEstimate(body[i]).instructions * tens[LoopsAround(body, i)]]
    BY <1>1, <2>3, <2>5
  <2>7. SumFunction(u) = SumFunctionOnSet(u, 1..n)
    BY <2>3 DEF SumFunction
  <2>8. p[EstimateGas(body)] = EstimateGas(body).instructions /\ p[NewEstimate] = 50
    BY <1>2, <2>2, <2>4
  <2> QED
    BY <2>4, <2>6, <2>7, <2>8
<1>4. EstimateGas(body).memory
        = 32 + SumFunction([i \in DOMAIN body |-> OwnEstimate(body[i]).memory * tens[LoopsAround(body, i)]])
  <2>1. PICK p : p = [e \in Estimate |-> e.memory]
    OBVIOUS
  <2>2. p \in [Estimate -> Nat] /\ \A e \in Estimate : p[e] = e.memory
    BY <2>1 DEF Estimate
  <2>3. PICK u : u = [i \in 1..n |-> p[OwnEstimate(body[i])] * PowersOfTen(n)[LoopsAround(body, i)]]
    OBVIOUS
  <2>4. EstimateGas(body) \in Estimate
        /\ p[EstimateGas(body)] = p[NewEstimate] + SumFunctionOnSet(u, 1..n)
    BY <1>1, <2>2, <2>3, BodyWeighed
  <2>5. \A i \in 1..n : p[OwnEstimate(body[i])] = OwnEstimate(body[i]).memory
    BY <2>2, OwnIs
  <2>6. u = [i \in DOMAIN body |-> OwnEstimate(body[i]).memory * tens[LoopsAround(body, i)]]
    BY <1>1, <2>3, <2>5
  <2>7. SumFunction(u) = SumFunctionOnSet(u, 1..n)
    BY <2>3 DEF SumFunction
  <2>8. p[EstimateGas(body)] = EstimateGas(body).memory /\ p[NewEstimate] = 32
    BY <1>2, <2>2, <2>4
  <2> QED
    BY <2>4, <2>6, <2>7, <2>8
<1> QED
  BY <1>3, <1>4

(* ---- complexity ---- *)
LEMMA DecisionsCounted ==
  ASSUME NEW body \in NestedBody, NEW i \in 1..Len(body)
  PROVE  Decisions(body[i]) \in Nat
<1>1. PICK t : t = body[i]
  OBVIOUS
<1>2. t.k = "match" => t.x \in Nat
  BY <1>1, BodyIs
<1>3. Decisions(t) \in Nat
  BY <1>2 DEF Decisions
<1> QED
  BY <1>1, <1>3

Opener(t) == t.k \in Loops \cup Branches
Closer(t) == t.k \in {"close", "end"}

LEMMA SyntaxNests ==
  ASSUME NEW body, NEW k \in Nat
  PROVE  /\ SyntaxOpen(body, 0) = 0 /\ SyntaxOpen(body, k) \in Int
         /\ SyntaxOpen(body, k + 1) = IF Opener(body[k + 1]) THEN SyntaxOpen(body, k) + 1
                                      ELSE IF Closer(body[k + 1]) THEN SyntaxOpen(body, k) - 1
                                      ELSE SyntaxOpen(body, k)
<1>1. PICK O, C, t : O = Loops \cup Branches /\ C = {"close", "end"} /\ t = body[k + 1]
  OBVIOUS
<1>2. PICK x \in Nat, y \in Nat : x = TokensUpTo(body, O, k) /\ y = TokensUpTo(body, C, k)
  BY TokensCounted
<1>3. SyntaxOpen(body, k) = x - y
  BY <1>1, <1>2 DEF SyntaxOpen
<1>4. SyntaxOpen(body, 0) = 0
  <2>1. TokensUpTo(body, O, 0) = 0 /\ TokensUpTo(body, C, 0) = 0
    BY TokensCounted
  <2> QED
    BY <1>1, <2>1 DEF SyntaxOpen
<1>5. PICK v, w : v = TokensUpTo(body, O, k + 1) /\ w = TokensUpTo(body, C, k + 1)
  OBVIOUS
<1>6. /\ t.k \in O => v = x + 1
      /\ t.k \notin O => v = x
  BY <1>1, <1>2, <1>5, TokensCounted
<1>7. /\ t.k \in C => w = y + 1
      /\ t.k \notin C => w = y
  BY <1>1, <1>2, <1>5, TokensCounted
<1>8. SyntaxOpen(body, k + 1) = v - w
  BY <1>1, <1>5 DEF SyntaxOpen
<1>9. t.k \in O => t.k \notin C
  BY <1>1 DEF Loops, Branches
<1>10. SyntaxOpen(body, k + 1) = IF t.k \in O THEN (x - y) + 1
                                 ELSE IF t.k \in C THEN (x - y) - 1 ELSE x - y
  BY <1>6, <1>7, <1>8, <1>9
<1> QED
  BY <1>1, <1>3, <1>4, <1>10 DEF Opener, Closer

\* What ComplexityVisitor has after the first k tokens.
NestingIs(body, dec, st, k) ==
  /\ st.cyclomatic = 1 + SumFunctionOnSet(dec, 1..k)
  /\ st.depth = SyntaxOpen(body, k)
  /\ st.max \in {0} \cup {SyntaxOpen(body, i) : i \in 1..k}
  /\ st.max >= 0 /\ \A i \in 1..k : st.max >= SyntaxOpen(body, i)

LEMMA TokenNests ==
  ASSUME NEW body, NEW k \in Nat, NEW dec, \A i \in 1..(k + 1) : dec[i] \in Nat,
         dec[k + 1] = Decisions(body[k + 1]), NEW st, NestingIs(body, dec, st, k),
         NEW after, after = ComplexityStep(st, body[k + 1])
  PROVE  NestingIs(body, dec, after, k + 1)
<1> DEFINE t == body[k + 1]
           e == k + 1
<1>1. t = body[k + 1] /\ e = k + 1 /\ e \in Nat
  OBVIOUS
<1> HIDE DEF t, e
<1>2. PICK depth : depth = IF Opener(t) THEN st.depth + 1
                           ELSE IF Closer(t) THEN st.depth - 1 ELSE st.depth
  OBVIOUS
<1>3. /\ after.cyclomatic = st.cyclomatic + Decisions(t) /\ after.depth = depth
      /\ after.max = IF depth > st.max THEN depth ELSE st.max
  BY <1>1, <1>2 DEF ComplexityStep, Opener, Closer
<1>4. depth = SyntaxOpen(body, e) /\ depth \in Int
  <2>1. depth = SyntaxOpen(body, e)
    BY <1>1, <1>2, SyntaxNests DEF NestingIs
  <2> QED
    BY <1>1, <2>1, SyntaxNests
<1>5. after.cyclomatic = 1 + SumFunctionOnSet(dec, 1..e)
  <2>1. \A i \in 1..(k + 1) : dec[i] \in Int
    OBVIOUS
  <2>2. PICK s \in Int : s = SumFunctionOnSet(dec, 1..k)
        /\ SumFunctionOnSet(dec, 1..(k + 1)) = s + dec[k + 1]
    BY <2>1, SumLast
  <2>3. PICK d \in Nat : d = dec[k + 1] /\ d = Decisions(t)
    BY <1>1
  <2>4. st.cyclomatic = 1 + s
    BY <2>2 DEF NestingIs
  <2> QED
    BY <1>1, <1>3, <2>2, <2>3, <2>4
<1>6. \A i \in 1..e : SyntaxOpen(body, i) \in Int /\ (i \in 1..k \/ i = e)
  BY <1>1, SyntaxNests
<1>7. PICK m \in Int : m = st.max
  <2>1. \A i \in 1..k : SyntaxOpen(body, i) \in Int
    BY SyntaxNests
  <2> QED
    BY <2>1 DEF NestingIs
<1>8. m \in {0} \cup {SyntaxOpen(body, i) : i \in 1..k} /\ m >= 0
      /\ \A i \in 1..k : m >= SyntaxOpen(body, i)
  BY <1>7 DEF NestingIs
<1>9. PICK q \in Int : q = after.max /\ q = IF depth > m THEN depth ELSE m
  BY <1>3, <1>4, <1>7
<1>10. q >= m /\ q >= depth
  BY <1>4, <1>9
<1>11. q \in {0} \cup {SyntaxOpen(body, i) : i \in 1..e}
  <2>1. e \in 1..e /\ 1..k \subseteq 1..e
    BY <1>1
  <2>2. q = depth \/ q = m
    BY <1>9
  <2> QED
    BY <1>4, <1>8, <2>1, <2>2
<1>12. q >= 0
  BY <1>8, <1>10
<1>13. \A i \in 1..e : q >= SyntaxOpen(body, i)
  <2> TAKE i \in 1..e
  <2>1. CASE i = e
    BY <1>4, <1>10, <2>1
  <2>2. CASE i \in 1..k
    <3>1. PICK x \in Int : x = SyntaxOpen(body, i)
      BY <1>6
    <3>2. m >= x
      BY <1>8, <2>2, <3>1
    <3> QED
      BY <1>10, <3>1, <3>2
  <2> QED
    BY <1>6, <2>1, <2>2
<1> QED
  BY <1>1, <1>3, <1>4, <1>5, <1>9, <1>11, <1>12, <1>13 DEF NestingIs

LEMMA NestingRuns ==
  ASSUME NEW body \in NestedBody, NEW n, n = Len(body),
         NEW dec, dec = [i \in 1..n |-> Decisions(body[i])]
  PROVE  NestingIs(body, dec, Complexity(body), n)
<1>1. n \in Nat /\ DOMAIN body = 1..n
  BY BodyIs
<1>2. PICK tr : NestingTrace(body, n, tr) /\ Complexity(body) = tr[n]
  BY <1>1, NestingTraced
<1> DEFINE G == {k \in Nat : k <= n => NestingIs(body, dec, tr[k], k)}
<1>3. 0 \in G
  <2>1. tr[0].cyclomatic = 1 /\ tr[0].depth = 0 /\ tr[0].max = 0
    BY <1>2 DEF NestingTrace, NothingCounted
  <2>2. SumFunctionOnSet(dec, 1..0) = 0
    <3>1. 1..0 = {}
      OBVIOUS
    <3> QED
      BY <3>1, SumOfNothing
  <2>3. SyntaxOpen(body, 0) = 0
    BY SyntaxNests
  <2>4. NestingIs(body, dec, tr[0], 0)
    BY <2>1, <2>2, <2>3 DEF NestingIs
  <2> QED
    BY <2>4
<1>4. ASSUME NEW k \in Nat, k \in G PROVE k + 1 \in G
  <2> SUFFICES ASSUME k + 1 <= n PROVE NestingIs(body, dec, tr[k + 1], k + 1)
    OBVIOUS
  <2>1. NestingIs(body, dec, tr[k], k)
    BY <1>1, <1>4
  <2>2. k + 1 \in 1..n /\ (k + 1) - 1 = k
    BY <1>1
  <2>3. \A i \in 1..(k + 1) : dec[i] \in Nat
    <3>1. \A i \in 1..(k + 1) : i \in 1..n
      BY <1>1
    <3> QED
      BY <3>1, DecisionsCounted
  <2>4. dec[k + 1] = Decisions(body[k + 1])
    BY <2>2
  <2>5. tr[k + 1] = ComplexityStep(tr[k], body[k + 1])
    BY <1>2, <2>2 DEF NestingTrace
  <2> HIDE DEF G
  <2> QED
    BY <2>1, <2>3, <2>4, <2>5, TokenNests
<1>5. Nat \subseteq G
  <2> HIDE DEF G
  <2> QED
    BY <1>3, <1>4, NumbersByInduction
<1>6. n \in G /\ n <= n
  BY <1>1, <1>5
<1> QED
  BY <1>2, <1>6

LEMMA ComplexityIs ==
  ASSUME NEW body \in NestedBody
  PROVE  /\ Complexity(body).cyclomatic
              = 1 + SumFunction([i \in DOMAIN body |-> Decisions(body[i])])
         /\ Complexity(body).max = Max({0} \cup {SyntaxOpen(body, i) : i \in DOMAIN body})
<1>1. PICK n \in Nat : n = Len(body) /\ DOMAIN body = 1..n /\ WellNested(body)
  BY BodyIs
<1>2. PICK dec : dec = [i \in 1..n |-> Decisions(body[i])]
  OBVIOUS
<1>3. PICK st : st = Complexity(body) /\ NestingIs(body, dec, st, n)
  BY <1>1, <1>2, NestingRuns
<1>4. SumFunction([i \in DOMAIN body |-> Decisions(body[i])]) = SumFunctionOnSet(dec, 1..n)
  BY <1>1, <1>2 DEF SumFunction
<1>6. PICK s : s = {0} \cup {SyntaxOpen(body, i) : i \in DOMAIN body}
  OBVIOUS
<1>7. s \subseteq Int
  <2>1. \A i \in 1..n : SyntaxOpen(body, i) \in Int
    BY SyntaxNests
  <2> QED
    BY <1>1, <1>6, <2>1
<1>8. st.max \in s /\ \A y \in s : st.max >= y
  BY <1>1, <1>3, <1>6 DEF NestingIs
<1>9. Max(s) = st.max
  <2>1. PICK m : m = Max(s)
    OBVIOUS
  <2>2. m \in s /\ \A y \in s : m >= y
    BY <1>8, <2>1 DEF Max
  <2>3. m \in Int /\ st.max \in Int /\ m >= st.max /\ st.max >= m
    BY <1>7, <1>8, <2>2
  <2> QED
    BY <2>1, <2>3
<1> QED
  BY <1>3, <1>4, <1>6, <1>9 DEF NestingIs

(* ---- the matches of a vulnerability's pattern ---- *)
MatchesAt(tx, lit) == {i \in DOMAIN tx : i + Len(lit) - 1 <= Len(tx)
                                         /\ SubSeq(tx, i, i + Len(lit) - 1) = lit}
NotBefore(at, from) == {i \in at : i >= from}
FindFrom(at, len, find, from) ==
  IF NotBefore(at, from) = {} THEN {}
  ELSE {Min(NotBefore(at, from))} \union find[Min(NotBefore(at, from)) + len]
Finds(at, n, len, find) == find = [from \in 1..(n + 1) |-> FindFrom(at, len, find, from)]

LEMMA FindIterIs ==
  ASSUME NEW tx, NEW lit
  PROVE  FindIter(tx, lit) = (CHOOSE find : Finds(MatchesAt(tx, lit), Len(tx), Len(lit), find))[1]
BY DEF FindIter, Finds, FindFrom, NotBefore, MatchesAt

LEMMA NextMatch ==
  ASSUME NEW n \in Nat, NEW len \in Nat \ {0}, NEW at, at \subseteq 1..(n + 1 - len),
         NEW from \in 1..(n + 1), NotBefore(at, from) # {}
  PROVE  LET next == Min(NotBefore(at, from)) IN
         /\ next \in at /\ next >= from /\ next + len \in (from + 1)..(n + 1)
         /\ \A i \in at : i >= from => next <= i
<1>1. PICK S : S = NotBefore(at, from)
  OBVIOUS
<1>2. S \in SUBSET Nat /\ S # {} /\ \A i : i \in S <=> i \in at /\ i >= from
  <2>1. \A i : i \in S <=> i \in at /\ i >= from
    BY <1>1 DEF NotBefore
  <2>2. at \subseteq Nat
    OBVIOUS
  <2>3. S \subseteq Nat
    BY <2>1, <2>2
  <2> QED
    BY <1>1, <2>1, <2>3
<1>3. Min(S) \in S /\ \A k \in S : Min(S) <= k
  BY <1>2, LeastIndex
<1>4. PICK m : m = Min(S) /\ m \in at /\ m >= from /\ \A i \in at : i >= from => m <= i
  BY <1>2, <1>3
<1>5. m + len \in (from + 1)..(n + 1)
  BY <1>4
<1> QED
  BY <1>1, <1>4, <1>5

\* Built from the end of the text backwards.
FindsBack(at, n, len, find, k) ==
  /\ find \in [(n + 1 - k)..(n + 1) -> SUBSET at]
  /\ \A from \in (n + 1 - k)..(n + 1) : find[from] = FindFrom(at, len, find, from)

LEMMA FindsExists ==
  ASSUME NEW n \in Nat, NEW len \in Nat \ {0}, NEW at, at \subseteq 1..(n + 1 - len)
  PROVE  \E find : Finds(at, n, len, find)
<1> DEFINE G == {k \in Nat : k <= n => \E find : FindsBack(at, n, len, find, k)}
<1>1. 0 \in G
  <2>1. PICK find : find = [from \in (n + 1 - 0)..(n + 1) |-> {}]
    OBVIOUS
  <2>2. ASSUME NEW from \in (n + 1 - 0)..(n + 1) PROVE find[from] = FindFrom(at, len, find, from)
    <3>0. \A i \in at : ~(i >= from)
      OBVIOUS
    <3>1. NotBefore(at, from) = {}
      BY <3>0 DEF NotBefore
    <3> QED
      BY <2>1, <3>1 DEF FindFrom
  <2>3. find \in [(n + 1 - 0)..(n + 1) -> SUBSET at]
    BY <2>1
  <2> QED
    BY <2>2, <2>3 DEF FindsBack
<1>2. ASSUME NEW k \in Nat, k \in G PROVE k + 1 \in G
  <2> SUFFICES ASSUME k + 1 <= n PROVE \E find : FindsBack(at, n, len, find, k + 1)
    OBVIOUS
  <2>1. PICK f : FindsBack(at, n, len, f, k)
    BY <1>2
  <2>2. PICK a \in 1..n : a = n - k
    OBVIOUS
  <2>3. n + 1 - k = a + 1 /\ n + 1 - (k + 1) = a /\ a..(n + 1) = {a} \cup ((a + 1)..(n + 1))
        /\ a \notin (a + 1)..(n + 1)
    BY <2>2
  <2>4. f \in [(a + 1)..(n + 1) -> SUBSET at]
        /\ \A from \in (a + 1)..(n + 1) : f[from] = FindFrom(at, len, f, from)
    BY <2>1, <2>3 DEF FindsBack
  <2>5. PICK b : b = FindFrom(at, len, f, a)
    OBVIOUS
  <2>6. b \in SUBSET at
    <3>1. CASE NotBefore(at, a) = {}
      BY <2>5, <3>1 DEF FindFrom
    <3>2. CASE NotBefore(at, a) # {}
      <4>1. PICK m : m = Min(NotBefore(at, a)) /\ m \in at /\ m + len \in (a + 1)..(n + 1)
        <5>1. a \in 1..(n + 1)
          OBVIOUS
        <5> QED
          BY <3>2, <5>1, NextMatch
      <4>2. f[m + len] \in SUBSET at
        BY <2>4, <4>1
      <4> QED
        BY <2>5, <3>2, <4>1, <4>2 DEF FindFrom
    <3> QED
      BY <3>1, <3>2
  <2>7. PICK g : g = [from \in a..(n + 1) |-> IF from = a THEN b ELSE f[from]]
    OBVIOUS
  <2>8. g \in [a..(n + 1) -> SUBSET at] /\ g[a] = b
        /\ \A from \in (a + 1)..(n + 1) : g[from] = f[from]
    BY <2>3, <2>4, <2>6, <2>7
  <2>9. ASSUME NEW from \in a..(n + 1) PROVE FindFrom(at, len, g, from) = FindFrom(at, len, f, from)
    <3>1. CASE NotBefore(at, from) = {}
      BY <3>1 DEF FindFrom
    <3>2. CASE NotBefore(at, from) # {}
      <4>1. PICK m : m = Min(NotBefore(at, from)) /\ m + len \in (from + 1)..(n + 1)
        <5>1. from \in 1..(n + 1)
          OBVIOUS
        <5> QED
          BY <3>2, <5>1, NextMatch
      <4>2. m + len \in (a + 1)..(n + 1)
        BY <4>1
      <4>3. g[m + len] = f[m + len]
        BY <2>8, <4>2
      <4> QED
        BY <3>2, <4>1, <4>3 DEF FindFrom
    <3> QED
      BY <3>1, <3>2
  <2>10. \A from \in a..(n + 1) : g[from] = FindFrom(at, len, g, from)
    <3> TAKE from \in a..(n + 1)
    <3>1. from = a \/ from \in (a + 1)..(n + 1)
      BY <2>3
    <3>2. g[from] = FindFrom(at, len, f, from)
      BY <2>4, <2>5, <2>8, <3>1
    <3> QED
      BY <2>9, <3>2
  <2>11. FindsBack(at, n, len, g, k + 1)
    BY <2>3, <2>8, <2>10 DEF FindsBack
  <2> QED
    BY <2>11
<1>3. Nat \subseteq G
  <2> HIDE DEF G
  <2> QED
    BY <1>1, <1>2, NumbersByInduction
<1>4. PICK f : FindsBack(at, n, len, f, n)
  BY <1>3
<1>5. n + 1 - n = 1
  OBVIOUS
<1>6. f \in [1..(n + 1) -> SUBSET at]
      /\ \A from \in 1..(n + 1) : f[from] = FindFrom(at, len, f, from)
  BY <1>4, <1>5 DEF FindsBack
<1>7. f = [from \in 1..(n + 1) |-> FindFrom(at, len, f, from)]
  BY <1>6
<1> QED
  BY <1>7 DEF Finds

\* What is found are matches, and each match begins within one that is found.
LEMMA FindsCover ==
  ASSUME NEW n \in Nat, NEW len \in Nat \ {0}, NEW at, at \subseteq 1..(n + 1 - len),
         NEW find, Finds(at, n, len, find)
  PROVE  find[1] \subseteq at /\ \A i \in at : \E m \in find[1] : m <= i /\ i < m + len
<1> DEFINE Covered(from) == /\ find[from] \subseteq at
                            /\ \A i \in at : i >= from => \E m \in find[from] : m <= i
                                 /\ i < m + len
           G == {k \in Nat : \A from \in 1..(n + 1) : from + k >= n + 1 => Covered(from)}
<1>1. \A from \in 1..(n + 1) : find[from] = FindFrom(at, len, find, from)
  BY DEF Finds
<1>2. ASSUME NEW from \in 1..(n + 1), \A j \in (from + 1)..(n + 1) : Covered(j) PROVE Covered(from)
  <2>1. CASE NotBefore(at, from) = {}
    <3>1. find[from] = {}
      BY <1>1, <2>1 DEF FindFrom
    <3>2. \A i \in at : ~(i >= from)
      BY <2>1 DEF NotBefore
    <3> QED
      BY <3>1, <3>2
  <2>2. CASE NotBefore(at, from) # {}
    <3>0. PICK m : m = Min(NotBefore(at, from))
      OBVIOUS
    <3>1. /\ m = Min(NotBefore(at, from)) /\ m \in at /\ m >= from
               /\ m + len \in (from + 1)..(n + 1)
          /\ \A i \in at : i >= from => m <= i
      BY <2>2, <3>0, NextMatch
    <3>2. PICK j \in (from + 1)..(n + 1) : j = m + len
      BY <3>1
    <3>3. find[from] = {m} \cup find[j]
      BY <1>1, <2>2, <3>1, <3>2 DEF FindFrom
    <3>4. Covered(j)
      BY <1>2
    <3>5. ASSUME NEW i \in at, i >= from PROVE \E x \in find[from] : x <= i /\ i < x + len
      <4>1. m <= i /\ i \in Int /\ m \in Int
        BY <3>1, <3>5
      <4>2. CASE i < m + len
        BY <3>3, <4>1, <4>2
      <4>3. CASE ~(i < m + len)
        <5>1. i >= j
          BY <3>2, <4>1, <4>3
        <5> QED
          BY <3>3, <3>4, <5>1
      <4> QED
        BY <4>2, <4>3
    <3>6. find[from] \subseteq at
      BY <3>1, <3>3, <3>4
    <3> QED
      BY <3>5, <3>6
  <2> QED
    BY <2>1, <2>2
<1> HIDE DEF Covered
<1>3. 0 \in G
  <2> SUFFICES ASSUME NEW from \in 1..(n + 1), from + 0 >= n + 1 PROVE Covered(from)
    OBVIOUS
  <2>1. (from + 1)..(n + 1) = {}
    OBVIOUS
  <2> QED
    BY <1>2, <2>1
<1>4. ASSUME NEW k \in Nat, k \in G PROVE k + 1 \in G
  <2> SUFFICES ASSUME NEW from \in 1..(n + 1), from + (k + 1) >= n + 1 PROVE Covered(from)
    OBVIOUS
  <2>1. \A j \in (from + 1)..(n + 1) : j \in 1..(n + 1) /\ j + k >= n + 1
    OBVIOUS
  <2>2. \A j \in (from + 1)..(n + 1) : Covered(j)
    BY <1>4, <2>1
  <2> QED
    BY <1>2, <2>2
<1>5. Nat \subseteq G
  <2> HIDE DEF G
  <2> QED
    BY <1>3, <1>4, NumbersByInduction
<1>6. Covered(1)
  <2>1. n \in G /\ 1 \in 1..(n + 1) /\ 1 + n >= n + 1
    BY <1>5
  <2> QED
    BY <2>1
<1> QED
  BY <1>6 DEF Covered

LEMMA MatchIs ==
  ASSUME NEW S, NEW tx \in Seq(S), NEW lit \in Seq(S), lit # <<>>, LineBreak \notin ToSet(lit)
  PROVE  /\ Len(tx) \in Nat /\ Len(lit) \in Nat \ {0}
         /\ MatchesAt(tx, lit) \subseteq 1..(Len(tx) + 1 - Len(lit))
         /\ \A i \in MatchesAt(tx, lit), j \in Nat : i <= j /\ j < i + Len(lit) => tx[j] # LineBreak
<1>1. PICK n \in Nat : n = Len(tx) /\ DOMAIN tx = 1..n
  BY LenProperties
<1>2. PICK len \in Nat : len = Len(lit) /\ DOMAIN lit = 1..len
  BY LenProperties
<1>3. len # 0
  BY <1>2, EmptySeq
<1>4. ASSUME NEW i \in MatchesAt(tx, lit)
      PROVE  i \in 1..n /\ i \in 1..(n + 1 - len) /\ SubSeq(tx, i, i + len - 1) = lit
  <2>1. i \in 1..n /\ i + len - 1 <= n /\ SubSeq(tx, i, i + len - 1) = lit
    BY <1>1, <1>2 DEF MatchesAt
  <2> QED
    BY <2>1
<1>5. ASSUME NEW i \in MatchesAt(tx, lit), NEW j \in Nat, i <= j, j < i + len
      PROVE  tx[j] # LineBreak
  <2>1. PICK e \in Nat : e = i + len - 1
    BY <1>3, <1>4
  <2>2. i \in 1..(Len(tx) + 1) /\ e \in (i - 1)..Len(tx) /\ e - i + 1 = len
        /\ lit = SubSeq(tx, i, e)
    BY <1>1, <1>4, <2>1
  <2>3. \A k \in 1..len : lit[k] = tx[i + k - 1]
    BY <2>2, CutIs
  <2>4. PICK k \in 1..len : k = j - i + 1 /\ i + k - 1 = j
    BY <1>4, <1>5
  <2>5. tx[j] = lit[k]
    BY <2>3, <2>4
  <2> QED
    BY <1>2, <2>5 DEF ToSet
<1> QED
  BY <1>1, <1>2, <1>3, <1>4, <1>5

BreaksBefore(tx, i) == {j \in 1..(i - 1) : tx[j] = LineBreak}

\* A match holds no line break, so the line is the same all along it.
LEMMA LineWithin ==
  ASSUME NEW tx, NEW m \in Nat \ {0}, NEW i \in Nat, m <= i, \A j \in Nat : m <= j /\ j < i
         => tx[j] # LineBreak
  PROVE  LineOf(tx, i) = LineOf(tx, m)
<1>1. BreaksBefore(tx, i) = BreaksBefore(tx, m)
  <2>1. ASSUME NEW j \in 1..(i - 1), tx[j] = LineBreak PROVE j \in 1..(m - 1)
    <3>1. ~(m <= j)
      BY <2>1
    <3> QED
      BY <3>1
  <2>2. 1..(m - 1) \subseteq 1..(i - 1)
    OBVIOUS
  <2> QED
    BY <2>1, <2>2 DEF BreaksBefore
<1>2. LineOf(tx, i) = 1 + Cardinality(BreaksBefore(tx, i))
      /\ LineOf(tx, m) = 1 + Cardinality(BreaksBefore(tx, m))
  BY DEF LineOf, BreaksBefore
<1> QED
  BY <1>1, <1>2

LEMMA LineInText ==
  ASSUME NEW tx, NEW n \in Nat, NEW i \in 1..n
  PROVE  LineOf(tx, i) \in 1..(n + 1)
<1>1. PICK k \in Nat : k = i - 1
  OBVIOUS
<1>2. IsFiniteSet(1..k) /\ Cardinality(1..k) = k
  <2>1. IsFiniteSet(1..k) /\ Cardinality(1..k) = IF 1 > k THEN 0 ELSE k - 1 + 1
    BY <1>1, FS_Interval
  <2> QED
    BY <2>1
<1>3. PICK B : B = BreaksBefore(tx, i)
  OBVIOUS
<1>4. B \in SUBSET (1..k)
  BY <1>1, <1>3 DEF BreaksBefore
<1>5. IsFiniteSet(B) /\ Cardinality(B) <= k
  BY <1>2, <1>4, FS_Subset
<1>6. Cardinality(B) \in Nat
  BY <1>5, FS_CardinalityType
<1>7. LineOf(tx, i) = 1 + Cardinality(B)
  BY <1>3 DEF LineOf, BreaksBefore
<1> QED
  BY <1>1, <1>5, <1>6, <1>7

BreaksAfter(tx, e) == {j \in e..Len(tx) : tx[j] = LineBreak}
SnippetStart(tx, i) ==
  IF BreaksBefore(tx, i) = {} THEN 1
  ELSE 1 + (CHOOSE j \in BreaksBefore(tx, i) : \A k \in BreaksBefore(tx, i) : k <= j)
SnippetStop(tx, e) ==
  IF BreaksAfter(tx, e) = {} THEN Len(tx)
  ELSE (CHOOSE j \in BreaksAfter(tx, e) : \A k \in BreaksAfter(tx, e) : j <= k) - 1

LEMMA SnippetIs ==
  ASSUME NEW tx, NEW i, NEW e
  PROVE  SnippetOf(tx, i, e) = SubSeq(tx, SnippetStart(tx, i), SnippetStop(tx, e))
BY DEF SnippetOf, SnippetStart, SnippetStop, BreaksBefore, BreaksAfter

LEMMA SnippetStarts ==
  ASSUME NEW tx, NEW i \in Nat \ {0}
  PROVE  SnippetStart(tx, i) \in 1..i /\ \A j \in SnippetStart(tx, i)..(i - 1) : tx[j] # LineBreak
<1>1. PICK B : B = BreaksBefore(tx, i)
  OBVIOUS
<1>2. \A j : j \in B <=> j \in 1..(i - 1) /\ tx[j] = LineBreak
  BY <1>1 DEF BreaksBefore
<1>3. CASE B = {}
  <2>1. SnippetStart(tx, i) = 1
    BY <1>1, <1>3 DEF SnippetStart
  <2> QED
    BY <1>2, <1>3, <2>1
<1>4. CASE B # {}
  <2>1. IsFiniteSet(1..(i - 1)) /\ 1..(i - 1) \subseteq Int
    BY FS_Interval
  <2>2. B \in SUBSET (1..(i - 1))
    BY <1>2
  <2>3. \E j \in B : \A k \in B : j >= k
    BY <1>4, <2>1, <2>2, LargestExists
  <2>4. \E j \in B : \A k \in B : k <= j
    BY <2>2, <2>3
  <2>5. PICK m : m = CHOOSE j \in B : \A k \in B : k <= j
    OBVIOUS
  <2>6. m \in B /\ \A k \in B : k <= m
    BY <2>4, <2>5, Zenon
  <2>7. SnippetStart(tx, i) = 1 + m
    BY <1>1, <1>4, <2>5 DEF SnippetStart
  <2>8. m \in 1..(i - 1)
    BY <2>2, <2>6
  <2>9. ASSUME NEW j \in (1 + m)..(i - 1) PROVE tx[j] # LineBreak
    <3>1. j \in 1..(i - 1) /\ ~(j <= m)
      BY <2>8
    <3> QED
      BY <1>2, <2>6, <3>1
  <2> QED
    BY <2>7, <2>8, <2>9
<1> QED
  BY <1>3, <1>4

LEMMA SnippetStops ==
  ASSUME NEW tx, NEW n \in Nat, n = Len(tx), NEW e \in 1..(n + 1)
  PROVE  SnippetStop(tx, e) \in (e - 1)..n /\ \A j \in e..SnippetStop(tx, e) : tx[j] # LineBreak
<1>1. PICK B : B = BreaksAfter(tx, e)
  OBVIOUS
<1>2. \A j : j \in B <=> j \in e..n /\ tx[j] = LineBreak
  BY <1>1 DEF BreaksAfter
<1>3. CASE B = {}
  <2>1. SnippetStop(tx, e) = n
    BY <1>1, <1>3 DEF SnippetStop
  <2> QED
    BY <1>2, <1>3, <2>1
<1>4. CASE B # {}
  <2>1. B \in SUBSET Nat
    BY <1>2
  <2>2. \E j \in B : \A k \in B : j <= k
    BY <1>4, <2>1, LeastExists
  <2>3. PICK m : m = CHOOSE j \in B : \A k \in B : j <= k
    OBVIOUS
  <2>4. m \in B /\ \A k \in B : m <= k
    BY <2>2, <2>3, Zenon
  <2>5. SnippetStop(tx, e) = m - 1
    BY <1>1, <1>4, <2>3 DEF SnippetStop
  <2>6. m \in e..n
    BY <1>2, <2>4
  <2>7. ASSUME NEW j \in e..(m - 1) PROVE tx[j] # LineBreak
    <3>1. j \in e..n /\ ~(m <= j)
      BY <2>6
    <3> QED
      BY <1>2, <2>4, <3>1
  <2> QED
    BY <2>5, <2>6, <2>7
<1> QED
  BY <1>3, <1>4

LEMMA SnippetHolds ==
  ASSUME NEW S, NEW tx \in Seq(S), NEW n \in Nat, n = Len(tx), NEW i \in 1..n,
         NEW len \in Nat \ {0},
         i + len - 1 <= n, \A j \in Nat : i <= j /\ j < i + len => tx[j] # LineBreak
  PROVE  /\ LineBreak \notin ToSet(SnippetOf(tx, i, i + len))
         /\ Len(SnippetOf(tx, i, i + len)) >= len
<1>1. PICK e : e = i + len
  OBVIOUS
<1>2. PICK a : a = SnippetStart(tx, i)
  OBVIOUS
<1>3. a \in 1..i /\ \A j \in a..(i - 1) : tx[j] # LineBreak
  BY <1>2, SnippetStarts
<1>4. PICK b : b = SnippetStop(tx, e)
  OBVIOUS
<1>5. e \in 1..(n + 1)
  BY <1>1
<1>6. b \in (e - 1)..n /\ \A j \in e..b : tx[j] # LineBreak
  BY <1>4, <1>5, SnippetStops
<1>7. ASSUME NEW j \in a..b PROVE tx[j] # LineBreak
  <2>1. j \in Nat /\ (j \in a..(i - 1) \/ (i <= j /\ j < i + len) \/ j \in e..b)
    BY <1>1, <1>3, <1>5, <1>6
  <2> QED
    BY <1>3, <1>6, <2>1
<1>8. PICK u : u = SubSeq(tx, a, b)
  OBVIOUS
<1>9. u \in Seq(S) /\ Len(u) = b - a + 1 /\ \A k \in 1..(b - a + 1) : u[k] = tx[a + k - 1]
  <2>1. a \in 1..(Len(tx) + 1) /\ b \in (a - 1)..Len(tx)
    BY <1>1, <1>3, <1>6
  <2> QED
    BY <1>8, <2>1, CutIs
<1>10. LineBreak \notin ToSet(u)
  <2> SUFFICES ASSUME NEW k \in DOMAIN u, u[k] = LineBreak PROVE FALSE
    BY DEF ToSet
  <2>1. k \in 1..(b - a + 1)
    BY <1>9
  <2>2. a + k - 1 \in a..b
    BY <1>3, <1>6, <2>1
  <2> QED
    BY <1>7, <1>9, <2>1, <2>2
<1>11. b - a + 1 >= len
  BY <1>1, <1>3, <1>6
<1>12. SnippetOf(tx, i, i + len) = u
  BY <1>1, <1>2, <1>4, <1>8, SnippetIs
<1> QED
  BY <1>9, <1>10, <1>11, <1>12

LEMMA PatternsFound ==
  ASSUME NEW S, NEW tx \in Seq(S), NEW lit \in Seq(S), lit # <<>>, LineBreak \notin ToSet(lit)
  PROVE  LET line(n) == {i \in DOMAIN tx : LineOf(tx, i) = n}
             holds(n) == \E i \in line(n) : /\ i + Len(lit) - 1 <= Len(tx)
                                            /\ SubSeq(tx, i, i + Len(lit) - 1) = lit
         IN /\ {m.line : m \in ScanVulns(tx, lit)} = {n \in 1..(Len(tx) + 1) : holds(n)}
            /\ \A m \in ScanVulns(tx, lit) :
                 LineBreak \notin ToSet(m.snippet) /\ Len(m.snippet) >= Len(lit)
<1> DEFINE line(n) == {i \in DOMAIN tx : LineOf(tx, i) = n}
           holds(n) == \E i \in line(n) : /\ i + Len(lit) - 1 <= Len(tx)
                                          /\ SubSeq(tx, i, i + Len(lit) - 1) = lit
<1>1. PICK n \in Nat : n = Len(tx) /\ DOMAIN tx = 1..n
  BY LenProperties
<1>2. PICK len : len = Len(lit)
  OBVIOUS
<1>3. PICK at : at = MatchesAt(tx, lit)
  OBVIOUS
<1>4. /\ len \in Nat \ {0} /\ at \subseteq 1..(n + 1 - len)
      /\ \A i \in at, j \in Nat : i <= j /\ j < i + len => tx[j] # LineBreak
  BY <1>1, <1>2, <1>3, MatchIs
<1>5. PICK find : Finds(at, n, len, find) /\ FindIter(tx, lit) = find[1]
  <2>1. \E find : Finds(at, n, len, find)
    BY <1>4, FindsExists
  <2>2. FindIter(tx, lit) = (CHOOSE find : Finds(at, n, len, find))[1]
    BY <1>1, <1>2, <1>3, FindIterIs
  <2> QED
    BY <2>1, <2>2
<1>6. PICK found : found = FindIter(tx, lit)
  OBVIOUS
<1>7. found \subseteq at /\ \A i \in at : \E m \in found : m <= i /\ i < m + len
  <2>1. find[1] \subseteq at /\ \A i \in at : \E m \in find[1] : m <= i /\ i < m + len
    BY <1>4, <1>5, FindsCover
  <2> QED
    BY <1>5, <1>6, <2>1
<1>8. \A k : holds(k) <=> \E i \in at : LineOf(tx, i) = k
  BY <1>2, <1>3 DEF MatchesAt
<1>9. \A i \in at : \E m \in found : LineOf(tx, i) = LineOf(tx, m)
  <2> TAKE i \in at
  <2>1. PICK m \in found : m <= i /\ i < m + len
    BY <1>7
  <2>2. m \in Nat \ {0} /\ i \in Nat
    BY <1>4, <1>7
  <2>3. \A j \in Nat : m <= j /\ j < i => tx[j] # LineBreak
    <3>1. \A j \in Nat : j < i => j < m + len
      BY <1>4, <2>1, <2>2
    <3> QED
      BY <1>4, <1>7, <3>1
  <2> QED
    BY <2>1, <2>2, <2>3, LineWithin
<1>10. \A i \in at : LineOf(tx, i) \in 1..(n + 1)
  <2> TAKE i \in at
  <2>1. i \in 1..n
    BY <1>4
  <2> QED
    BY <2>1, LineInText
<1>11. {LineOf(tx, i) : i \in found} = {k \in 1..(n + 1) : holds(k)}
  <2> HIDE DEF holds
  <2> QED
    BY <1>7, <1>8, <1>9, <1>10
<1>12. {m.line : m \in ScanVulns(tx, lit)} = {LineOf(tx, i) : i \in found}
  <2>1. ScanVulns(tx, lit)
        = {[line |-> LineOf(tx, i), snippet |-> SnippetOf(tx, i, i + len)] : i \in found}
    BY <1>2, <1>6 DEF ScanVulns
  <2>2. ASSUME NEW m \in ScanVulns(tx, lit) PROVE \E i \in found : m.line = LineOf(tx, i)
    BY <2>1
  <2>3. ASSUME NEW i \in found PROVE \E m \in ScanVulns(tx, lit) : m.line = LineOf(tx, i)
    <3>1. PICK m : m = [line |-> LineOf(tx, i), snippet |-> SnippetOf(tx, i, i + len)]
      OBVIOUS
    <3>2. m \in ScanVulns(tx, lit) /\ m.line = LineOf(tx, i)
      BY <2>1, <3>1
    <3> QED
      BY <3>2
  <2> HIDE DEF holds
  <2> QED
    BY <2>2, <2>3
<1>13. ASSUME NEW m \in ScanVulns(tx, lit)
       PROVE  LineBreak \notin ToSet(m.snippet) /\ Len(m.snippet) >= len
  <2>1. PICK i \in found : m = [line |-> LineOf(tx, i), snippet |-> SnippetOf(tx, i, i + len)]
    BY <1>2, <1>6 DEF ScanVulns
  <2>2. m.snippet = SnippetOf(tx, i, i + len)
    BY <2>1
  <2>3. i \in at /\ i \in 1..n /\ i + len - 1 <= n
    BY <1>4, <1>7
  <2>4. \A j \in Nat : i <= j /\ j < i + len => tx[j] # LineBreak
    BY <1>4, <2>3
  <2> QED
    BY <1>1, <1>4, <2>2, <2>3, <2>4, SnippetHolds
<1> QED
  BY <1>1, <1>2, <1>11, <1>12, <1>13

(* ---- every measure ---- *)
\* The subjects of the five parts: annotated functions, samples, a text with a
\* pattern, a well-nested body, an item with a field.
MeasuresTyped ==
  /\ part = "invariants" => subject \in Seq(AnnotatedFn)
  /\ part = "latency" => subject \in Seq(Nat)
  /\ part = "pattern" => \E S : subject.text \in Seq(S) /\ subject.pattern \in Seq(S)
  /\ part = "measures" => subject \in NestedBody
  /\ part = "entry" => subject \in EntryItem

(* Whatever is measured: the solver's answer about an annotated function is its *)
(* annotations', latencies are within their samples, a text has its literal on  *)
(* the lines reported and no other, a statement's gas is weighed by the loops   *)
(* around it, nesting is what is open at most, and an entry's level grows with  *)
(* its size.                                                                    *)
THEOREM MeasuresAnywhere ==
  ASSUME MeasuresTyped PROVE MeasuresAreStructural
<1>1. ASSUME part = "invariants"
      PROVE  /\ verify_invariants(subject, FALSE)
                  = {i \in DOMAIN subject : subject[i].impl /\ subject[i].invariant \cap InvariantMarks # {}}
             /\ verify_invariants(subject, TRUE) = verify_invariants(subject, FALSE)
  <2>1. PICK fns \in Seq(AnnotatedFn) : fns = subject
    BY <1>1 DEF MeasuresTyped
  <2>2. \A givesUp \in BOOLEAN :
          verify_invariants(fns, givesUp)
            = {i \in DOMAIN fns : fns[i].impl /\ fns[i].invariant \cap InvariantMarks # {}}
    BY InvariantsReported
  <2> QED
    BY <2>1, <2>2
<1>2. ASSUME part = "latency", subject # <<>>
      PROVE  LET l == Latency(subject) IN
             /\ l.min <= l.avg /\ l.avg <= l.max /\ l.p95 \in ToSet(subject)
             /\ Cardinality({i \in DOMAIN subject : subject[i] <= l.p95}) >= P95Index(Len(subject))
  <2>1. PICK s \in Seq(Nat) : s = subject
    BY <1>2 DEF MeasuresTyped
  <2>2. PICK l : l = Latency(s)
    OBVIOUS
  <2>3. /\ l.min <= l.avg /\ l.avg <= l.max /\ l.p95 \in ToSet(s)
        /\ Cardinality({i \in DOMAIN s : s[i] <= l.p95}) >= P95Index(Len(s))
    BY <1>2, <2>1, <2>2, LatencyIs
  <2> QED
    BY <2>1, <2>2, <2>3
<1>3. ASSUME part = "pattern"
      PROVE  LET tx == subject.text
                 literal == subject.pattern
                 line(n) == {i \in DOMAIN tx : LineOf(tx, i) = n}
                 holds(n) == \E i \in line(n) : /\ i + Len(literal) - 1 <= Len(tx)
                                               /\ SubSeq(tx, i, i + Len(literal) - 1) = literal
             IN literal # <<>> /\ LineBreak \notin ToSet(literal) /\ Stars(literal) = {} =>
                  /\ {m.line : m \in ScanVulns(tx, literal)} = {n \in 1..(Len(tx) + 1) : holds(n)}
                  /\ \A m \in ScanVulns(tx, literal) :
                       LineBreak \notin ToSet(m.snippet) /\ Len(m.snippet) >= Len(literal)
  <2>1. PICK S : subject.text \in Seq(S) /\ subject.pattern \in Seq(S)
    BY <1>3 DEF MeasuresTyped
  <2>2. PICK w \in Seq(S) : w = subject.text
    BY <2>1
  <2>3. PICK lit \in Seq(S) : lit = subject.pattern
    BY <2>1
  <2> SUFFICES ASSUME lit # <<>>, LineBreak \notin ToSet(lit)
               PROVE  LET line(n) == {i \in DOMAIN w : LineOf(w, i) = n}
                          holds(n) == \E i \in line(n) : /\ i + Len(lit) - 1 <= Len(w)
                                                         /\ SubSeq(w, i, i + Len(lit) - 1) = lit
                      IN /\ {m.line : m \in ScanVulns(w, lit)} = {n \in 1..(Len(w) + 1) : holds(n)}
                         /\ \A m \in ScanVulns(w, lit) :
                              LineBreak \notin ToSet(m.snippet) /\ Len(m.snippet) >= Len(lit)
    BY <2>2, <2>3, Zenon
  <2> QED
    BY PatternsFound, Zenon
<1>4. ASSUME part = "measures"
      PROVE  LET body == subject
                 tens == PowersOfTen(Len(body))
             IN /\ EstimateGas(body).instructions
                     = 50 + SumFunction([i \in DOMAIN body |-> OwnEstimate(body[i]).instructions * tens[LoopsAround(body, i)]])
                /\ EstimateGas(body).memory
                     = 32 + SumFunction([i \in DOMAIN body |-> OwnEstimate(body[i]).memory * tens[LoopsAround(body, i)]])
                /\ Complexity(body).cyclomatic
                     = 1 + SumFunction([i \in DOMAIN body |-> Decisions(body[i])])
                /\ Complexity(body).max = Max({0} \cup {SyntaxOpen(body, i) : i \in DOMAIN body})
  <2>1. subject \in NestedBody
    BY <1>4 DEF MeasuresTyped
  <2>2. /\ Complexity(subject).cyclomatic
             = 1 + SumFunction([i \in DOMAIN subject |-> Decisions(subject[i])])
        /\ Complexity(subject).max = Max({0} \cup {SyntaxOpen(subject, i) : i \in DOMAIN subject})
    BY <2>1, ComplexityIs
  <2>3. PICK tens : tens = PowersOfTen(Len(subject))
    OBVIOUS
  <2>4. /\ EstimateGas(subject).instructions
              = 50 + SumFunction([i \in DOMAIN subject |-> OwnEstimate(subject[i]).instructions * tens[LoopsAround(subject, i)]])
        /\ EstimateGas(subject).memory
              = 32 + SumFunction([i \in DOMAIN subject |-> OwnEstimate(subject[i]).memory * tens[LoopsAround(subject, i)]])
    BY <2>1, <2>3, GasWeighed
  <2> QED
    BY <2>2, <2>3, <2>4, Zenon
<1>5. ASSUME part = "entry"
      PROVE  LET first == Head(Last(subject.variants))
                 cfg == [limit |-> DefaultLimit, approaching |-> 80, strict |-> FALSE] IN
             /\ \A t \in Wraps(first) :
                  Last(t).n * EstimateTypeSize(first) < Usize
                      => EstimateTypeSize(t) >= EstimateTypeSize(first)
             /\ AnalyzeLedgerSize(<<subject>>, cfg) = LedgerSizeRule(<<subject>>, FALSE)
             /\ \A v \in AnalyzeLedgerSize(<<subject>>, [cfg EXCEPT !.strict = TRUE]) :
                  v[2] = "exceeds" => v \in LedgerSizeRule(<<subject>>, TRUE)
             /\ \A extra \in Growth :
                  LET level(n) == ClassifySize(n, DefaultLimit, 80, FALSE, 90) IN
                  LevelRank(level(EstimateSize(subject) + extra)) >= LevelRank(level(EstimateSize(subject)))
             /\ \E i \in DOMAIN subject.variants :
                  EstimateSize(subject)
                      = FieldsSize(subject.variants[i]) + (IF subject.enum THEN 4 ELSE 0)
  <2>1. subject \in EntryItem
    BY <1>5 DEF MeasuresTyped
  <2> QED
    BY <2>1, EntriesFlagged, Zenon
<1> QED
  BY <1>1, <1>2, <1>3, <1>4, <1>5, Zenon DEF MeasuresAreStructural
=============================================================================
