-------------------------- MODULE AnalyserPromises --------------------------
(* What the analysers promise of the subject that is looked at in a state: one *)
(* part of them, and the contract, the methods or the lines it is given.       *)
EXTENDS RuleWalkers, YamlRules, WasmFront, WorkspaceScan, LocalScopes, InterfaceRules,
        VulnDatabase, SmtChecks, Measures, Patcher

CONSTANTS MethodsTried,   \* the methods a later impl may add to a token
          SdkTried,       \* the dependency lines compared with one another
          MembersTried,   \* the members a workspace may gain
          SourceText      \* the text that is patched, as its characters

PublicMethod == [name : STRING, form : {"exact", "noauth", "signature"}]
\* A line writes its version in up to three parts.
Versions == [parts : 0..3, major : Nat, minor : Nat]
ASSUME TriedAssumption == MethodsTried \subseteq PublicMethod /\ SdkTried \subseteq Versions
\* A file of a workspace: what it holds, and whether its scan gets to tell.
ScannedFiles == [name : STRING, finds : Nat, readable : BOOLEAN, inTime : BOOLEAN]
ASSUME MembersAssumption ==
  \A m \in MembersTried : IsFiniteSet(m.files) /\ m.files \subseteq ScannedFiles
ASSUME SourceAssumption == SourceText \in Seq(STRING)

VARIABLES part, subject

UnderAt(c, p) == c[p[1]].body[p[2]].under

(* Checks written twice agree, or differ only where the two walkers do: the    *)
(* rule alone counts extend_ttl as a mutation and alone reads the arguments of *)
(* a handling method; the scan of unhandled results alone reads closures,      *)
(* operators and subscripts. What the panic rule reports the syn visitor finds *)
(* too, and a narrower YAML rule never matches more than a wider one. The      *)
(* bindings refuse what the browser target refuses, but for progress, which    *)
(* leaves the memory budget out. The workspace command counts what analyze     *)
(* finds, a shared library once for each contract and for none when there is   *)
(* no contract, and nothing of a file that timed out. A pattern between stars  *)
(* is looked for anywhere, as one without any star.                            *)
TwinsAgree ==
  /\ part = "rules" =>
       LET c == subject IN
       /\ ScanAuthGaps(c) \subseteq AuthGapRule(c)
       /\ \A i \in AuthGapRule(c) \ ScanAuthGaps(c) :
            ~SeesEvent(c[i].body, ExprWalker, StorageWrites \cup ExternalCalls)
       /\ PanicRule(c) = ScanPanics(c) /\ PanicRule(c) \subseteq UnsafePatterns(c)
       /\ LET rule == UnhandledResultRule(c)
              scan == ScanUnhandledResults(c) IN
          /\ \A p \in rule \ scan : "harg" \in UnderAt(c, p)
          /\ \A p \in scan \ rule : UnderAt(c, p) \cap {"closure", "op", "index"} # {}
       /\ StorageOperationRule(c, "set") \subseteq MethodCallRule(c, {"set", "set_all"})
       /\ MethodCallRule(c, {"set"}) \subseteq RegexRule(c, {e \in DOMAIN MethodOf : MethodOf[e] = "set"})
       /\ FunctionCallRule(c) \cap MethodCallRule(c, {"set"}) = {}
       /\ \A n \in RuleNames : RunByName(c, n) = {v \in RunAll(c) : v[1] = n}
       /\ ScanSmtBoundary(c) \cap {i \in DOMAIN c : c[i].item \in {"impl", "testimpl"}}
            \subseteq AuthGapRule(c) \cup {i \in DOMAIN c : IsReservedEntrypoint(c[i])}
                      \cup {i \in DOMAIN c : SeesEvent(c[i].body, ExprWalker, {"auth"})}
       /\ LET w == WasmSummary(c)
              steps == build_progress_events(w.total) IN
          /\ w.total <= CliCount(c) /\ (w.has_high <=> ScanAuthGaps(c) # {})
          /\ steps[5] = w.total /\ \A k \in 1..4 : steps[k] <= steps[k + 1]
  /\ part = "input" =>
       \A len \in 0..30 :
         /\ analyzeAdmits(len) = validate_for_target(len, "browser")
         /\ validate_for_target(len, "browser") = "ok" => validate_for_target(len, "node") = "ok"
         /\ progressAdmits(len) # analyzeAdmits(len) => analyzeAdmits(len) = "memory"
  /\ part = "workspace" =>
       LET scans(f) == Cardinality({i \in Contracts(subject) : f \in rs_files(subject, i)})
           finds(f) == IF f.readable /\ f.inTime THEN f.finds ELSE 0
           shared == shared_lib_files(subject)
           files == UNION {subject[i].files : i \in DOMAIN subject}
       IN /\ grand_total(subject) = MapThenSumSet(LAMBDA f : scans(f) * finds(f), files)
          /\ \A f \in shared : scans(f) = Cardinality(Contracts(subject))
          /\ \A m \in MembersTried : grand_total(subject) <= grand_total(Append(subject, m))
  /\ part = "pattern" =>
       LET stars == Cardinality(Stars(subject.pattern)) IN
       /\ stars = 1 => (MatchesPattern(subject.text, subject.pattern)
                          => \A i \in DOMAIN subject.pattern :
                               subject.pattern[i] \notin {Star} => subject.pattern[i] \in ToSet(subject.text))
       /\ stars = 0 => MatchesPattern(subject.text, subject.pattern)
                         = MatchesPattern(subject.text, <<Star>> \o subject.pattern \o <<Star>>)

(* A fix removes what it was made for and makes nothing else worse: the auth   *)
(* fix closes every gap; the guard of the reentrancy fix silences the function *)
(* it is put in, except for a call in an assignment, which the counting walker *)
(* does not see; it is put in once, and adds one panic to a method that has    *)
(* panics reported at all, and no auth gap.                                    *)
FixesSettle ==
  part = "rules" =>
    LET c == subject
        closed == AuthGapFix(c)
        guarded == ReentrancyFix(c)
        hidden(f) == \E s \in DOMAIN f.body : f.body[s].ev = "invoke" /\ "assign" \in f.body[s].under
    IN /\ AuthGapRule(closed) = {} /\ ScanAuthGaps(closed) = {}
       /\ \A i \in DOMAIN c : Cardinality(ReentrancyScan(closed[i].body)) = Cardinality(ReentrancyScan(c[i].body))
       /\ \A i \in ReentrancyFixable(c) :
            /\ ~hidden(c[i]) => ReentrancyScan(guarded[i].body) = {} /\ i \notin ReentrancyFixable(guarded)
            /\ Cardinality({p \in PanicRule(guarded) : p[1] = i})
                 = Cardinality({p \in PanicRule(c) : p[1] = i}) + (IF PanicScope(c[i]) THEN 1 ELSE 0)
       /\ AuthGapRule(guarded) = AuthGapRule(c)
       /\ ShadowStorage(guarded) \ ShadowStorage(c) \subseteq ReentrancyFixable(c)
       /\ Cardinality(UncheckedCalls(guarded)) = Cardinality(UncheckedCalls(c))

(* unused_variable reports the plain locals whose name no read refers to,      *)
(* judged for each local by itself. One that is read is reported only when an  *)
(* earlier let of the name in its own block took the read, or when the read    *)
(* initialises a let of the same name further in. One that is not read is left *)
(* out only when a read in its scope is meant for a binding that came later:   *)
(* one no visitor notices, or a let that is not further in; or when its own    *)
(* initialiser reads the name. So its fix renames no other variable that is    *)
(* read. variable_shadowing pairs a declaration with the nearest one of its    *)
(* name in a scope around it.                                                  *)
ScopesMatchLanguage ==
  part = "scopes" =>
    LET fn == subject
        all == Scopes(fn)
        plain == {j \in DOMAIN fn : fn[j].k = "let" /\ fn[j].v \notin Ignored}
        reported == ReportedUnused(fn)
        uses(j) == {i \in DOMAIN fn : fn[i].k = "use" /\ fn[i].v = fn[j].v}
        deeper(l, j) == Depth(Blocks(fn), l) > Depth(Blocks(fn), j)
        sameBlock(d, j) == /\ fn[d].v = fn[j].v /\ InScope(all, d, j)
                           /\ Depth(Blocks(fn), d) = Depth(Blocks(fn), j)
        outer(i) == {j \in 1..(i - 1) : all[j].k = "let" /\ fn[j].v = fn[i].v
                                         /\ InScope(all, j, i) /\ Depth(all, j) < Depth(all, i)}
    IN /\ reported \subseteq plain
       /\ \A j \in reported : \A i \in uses(j) : Binds(fn, j, Refers(fn, i)) =>
            \/ \E d \in plain \ reported : d < j /\ sameBlock(d, j)
            \/ \E c \in plain : fn[c].v = fn[j].v /\ deeper(c, j) /\ Initialises(fn, c, i)
       /\ \A j \in plain \ reported : \E i \in uses(j) :
            \/ Binds(fn, j, Refers(fn, i)) \/ Initialises(fn, j, i)
            \/ /\ InScope(all, j, i) /\ j < Refers(fn, i)
               /\ \A l \in plain : Binds(fn, l, Refers(fn, i)) => ~deeper(l, j)
       /\ ReportedShadows(fn) =
            {p \in (DOMAIN fn) \X (DOMAIN fn) :
               LET i == p[1]  j == p[2] IN
               all[i].k = "let" /\ fn[i].v \notin Skipped /\ j \in outer(i) /\ \A m \in outer(i) : m <= j}

(* Every function of a token contract is either verified or reported, once;    *)
(* later impls change nothing about a method the first one has. A publish line *)
(* is reported exactly when it has a name that an earlier line published with  *)
(* another count of topics; of colliding storage keys every use is. A          *)
(* manifest's first version decides, and whatever is held against a version is *)
(* held against every older one written with as many parts. A vulnerability    *)
(* database is accepted exactly when it says what it is, has entries, each is  *)
(* sound and no two share an id, a name or a signature; an id repeated n times *)
(* is reported n - 1 times. A fixed-point bound that is proved holds of the    *)
(* largest factors over the smallest divisor, a counterexample is only found   *)
(* when it does not, and one of the two is the answer unless the solver gives  *)
(* up; the benchmark overflows exactly where its domain reaches half of u64,   *)
(* and its 95th percentile is one of its samples.                              *)
InterfacesJudgedRight ==
  /\ part = "fixedpoint" =>
       /\ \A i \in DOMAIN subject :
            LET s == subject[i]
                worst == s.multiplicandMax * s.multiplierMax
                sound == 0 < s.divisorMin /\ s.divisorMin <= s.divisorMax
                safe == worst <= MaxU128 /\ \A bound \in s.result : worst \div s.divisorMin <= bound IN
            \A givesUp \in BOOLEAN :
              /\ prove_fixed_point(s, givesUp) = "proven" => sound /\ safe
              /\ prove_fixed_point(s, givesUp) = "counterexample" => sound /\ ~safe
              /\ sound /\ ~givesUp => prove_fixed_point(s, givesUp) \in {"proven", "counterexample"}
       /\ \A domain \in 0..MaxU64 : run_strategy(domain) = "sat" <=> 2 * domain > MaxU64
       /\ \A n \in 1..200 : P95Index(n) \in 1..n
  /\ part = "vulns" =>
       LET apart(key(_)) == \A i, j \in DOMAIN subject : key(subject[i]) = key(subject[j]) => i = j
           ids == {subject[i].id : i \in DOMAIN subject} IN
       /\ \A empty \in SUBSET AboutDb : ValidateDb(empty, subject) <=>
            /\ empty = {} /\ subject # <<>> /\ \A i \in DOMAIN subject : subject[i].sound
            /\ apart(LAMBDA v : v.id) /\ apart(LAMBDA v : v.name) /\ apart(LAMBDA v : v.signature)
       /\ Cardinality({e \in VulnErrors(subject) : e[1] = "id"}) = Len(subject) - Cardinality(ids)
  /\ part = "sep41" =>
       LET v == VerifySep41(subject)
           named == {i[1] : i \in v.issues} IN
       /\ v.candidate => /\ v.verified \cup named = SEP41Functions /\ v.verified \cap named = {}
                         /\ Cardinality(v.issues) = Cardinality(named)
                         /\ (v.compliant <=> v.issues = {})
                         /\ v.verified \subseteq MethodNames(subject)
       /\ \A m \in MethodsTried :
            v.candidate /\ m.name \in MethodNames(subject) => VerifySep41(Append(subject, m)) = v
  /\ part = "events" =>
       \A j \in DOMAIN subject : <<j, "schema">> \in ScanEvents(subject) <=>
         /\ HasName(subject[j])
         /\ \E i \in 1..(j - 1) : /\ HasName(subject[i]) /\ subject[i].name = subject[j].name
                                  /\ TopicCount(subject[i]) # TopicCount(subject[j])
  /\ part = "keys" =>
       /\ Cardinality(StorageCollisions(subject)) # 1
       /\ \A i \in DOMAIN subject : i \in StorageCollisions(subject)
            <=> \E j \in DOMAIN subject : j # i /\ subject[j].store = subject[i].store
                                              /\ subject[j].value = subject[i].value
  /\ part = "manifest" =>
       LET v == ExtractSdkVersion(subject) IN
       /\ \A w \in SdkTried :
            LET older == \/ w.major < v.major
                         \/ w.major = v.major /\ w.minor < v.minor IN
            /\ v.parts > 0 => ExtractSdkVersion(Append(subject, w)) = v
            /\ w.parts = v.parts /\ v.parts > 0 /\ older
               => /\ AnalyzeVersion(v).deprecated => AnalyzeVersion(w).deprecated
                  /\ AnalyzeVersion(v).warnings > 0 => AnalyzeVersion(w).warnings > 0
       /\ AnalyzeVersion(v).deprecated => AnalyzeVersion(v).warnings > 0
  /\ part = "input" =>
       (ValidateSourceAll(Len(subject), "null" \in ToSet(subject), 2) = "ok")
         <=> (Len(subject) \in 1..2 /\ "null" \notin ToSet(subject))
  /\ part = "upgrade" =>
       LET r == AnalyzeUpgrade(subject) IN
       /\ r.finding = "none" <=> ToSet(subject) \cap {"set_admin", "upgrade"} = {}
       /\ r.init \cap r.mechanisms = {}

From(p) == Offset(SourceText, p.startLine, p.startCol)
Upto(p) == Offset(SourceText, p.endLine, p.endCol)
\* A patch whose ends stand in the source, in order; replace_range panics when
\* they are not in order.
Valid(p) == /\ HasOffset(SourceText, p.startLine, p.startCol)
            /\ HasOffset(SourceText, p.endLine, p.endCol)
            /\ From(p) <= Upto(p)

Simultaneous(ps) ==
  LET at(i) == {n \in DOMAIN ps : From(ps[n]) = i}
      covered(i) == \E n \in DOMAIN ps : From(ps[n]) <= i /\ i < Upto(ps[n])
      piece(i) == (IF at(i) = {} THEN <<>> ELSE ps[CHOOSE n \in at(i) : TRUE].text)
                  \o (IF i > Len(SourceText) \/ covered(i) THEN <<>> ELSE <<SourceText[i]>>)
  IN FlattenSeq([i \in 1..(Len(SourceText) + 1) |-> piece(i)])

(* Valid patches that do not overlap change the source as if all were made at  *)
(* once, in whatever order they were collected: each replaces its own range of *)
(* the original. Of the patches of a file each is chosen or skipped.           *)
PatchesAreIndependent ==
  part = "patches" =>
    LET ps == subject.patches
        asked == Selected(ps, TRUE, FALSE, subject.answers)
        disjoint == \A i, j \in DOMAIN ps : i # j => From(ps[i]) # From(ps[j])
                      /\ (Upto(ps[i]) <= From(ps[j]) \/ Upto(ps[j]) <= From(ps[i]))
    IN /\ (\A i \in DOMAIN ps : Valid(ps[i])) /\ disjoint =>
            /\ ApplyPatches(SourceText, ps) = Simultaneous(ps)
            /\ ApplyPatches(SourceText, Reverse(ps)) = ApplyPatches(SourceText, ps)
            /\ FixFile(SourceText, ps, asked.chosen) = Simultaneous([i \in DOMAIN asked.chosen |-> ps[asked.chosen[i]]])
       /\ Len(asked.chosen) + asked.skipped = Len(ps)
       /\ asked.skipped = Cardinality({i \in DOMAIN ps : subject.answers[i] = "n"
                                                         /\ \A j \in 1..(i - 1) : subject.answers[j] # "a"})

\* A type as the last argument of another.
Wraps(t) == {Append(t, TypeHead("Vec", 1, 0)), Append(t, TypeHead("Option", 1, 0)),
             Append(t, TypeHead("array", 1, 50)),
             Append(<<TypeHead("u32", 0, 0)>> \o t, TypeHead("Map", 2, 0))}
\* Bytes an entry may gain: up to each of the levels, and just below one.
Growth == {0, 1, 12800, 51200, 63999}
LevelRank(l) == IF l = "exceeds" THEN 2 ELSE IF l = "approaching" THEN 1 ELSE 0

\* How many tokens of the kinds K a body has up to the i-th.
TokensUpTo(body, K, i) == Cardinality({j \in 1..i : body[j].k \in K})
LoopsAround(body, i) == TokensUpTo(body, {"do"}, i) - TokensUpTo(body, {"end"}, i)
SyntaxOpen(body, i) == TokensUpTo(body, Loops \cup Branches, i) - TokensUpTo(body, {"close", "end"}, i)
\* What a token adds by itself; the body of a loop has a visitor's start values.
OwnEstimate(t) ==
  IF t.k = "do" THEN NewEstimate
  ELSE [instructions |-> Instructions(t), memory |-> MemoryBytes(t)]
PowersOfTen(n) == LET tens[m \in 0..n] == IF m = 0 THEN 1 ELSE 10 * tens[m - 1] IN tens

(* An invariant with a plus or a minus is reported whatever its function       *)
(* does; a benchmark's average lies between its extremes, and at least the     *)
(* rank of the 95th percentile of its samples are no greater than it. A line   *)
(* is reported for a literal pattern exactly when it holds the literal.        *)
(* Gas and memory weigh a statement ten times per loop around it, a loop's own *)
(* visitor included; complexity is one more than the decisions, nesting the    *)
(* deepest open syntax. Wrapping the type of a field never makes the entry     *)
(* smaller as long as usize holds its size, and a larger entry is never        *)
(* flagged less. The size scan with the default limit flags what the rule      *)
(* flags, when neither is strict.                                              *)
MeasuresAreStructural ==
  /\ part = "invariants" =>
       /\ verify_invariants(subject, FALSE)
            = {i \in DOMAIN subject : subject[i].impl /\ subject[i].invariant \cap InvariantMarks # {}}
       /\ verify_invariants(subject, TRUE) = verify_invariants(subject, FALSE)
  /\ part = "latency" /\ subject # <<>> =>
       LET l == Latency(subject) IN
       /\ l.min <= l.avg /\ l.avg <= l.max /\ l.p95 \in ToSet(subject)
       /\ Cardinality({i \in DOMAIN subject : subject[i] <= l.p95}) >= P95Index(Len(subject))
  /\ part = "pattern" =>
       LET text == subject.text
           literal == subject.pattern
           line(n) == {i \in DOMAIN text : LineOf(text, i) = n}
           holds(n) == \E i \in line(n) : /\ i + Len(literal) - 1 <= Len(text)
                                         /\ SubSeq(text, i, i + Len(literal) - 1) = literal
       IN literal # <<>> /\ LineBreak \notin ToSet(literal) /\ Stars(literal) = {} =>
            /\ {m.line : m \in ScanVulns(text, literal)} = {n \in 1..(Len(text) + 1) : holds(n)}
            /\ \A m \in ScanVulns(text, literal) :
                 LineBreak \notin ToSet(m.snippet) /\ Len(m.snippet) >= Len(literal)
  /\ part = "measures" =>
       LET body == subject
           tens == PowersOfTen(Len(body))
       IN /\ EstimateGas(body).instructions
               = 50 + SumFunction([i \in DOMAIN body |-> OwnEstimate(body[i]).instructions * tens[LoopsAround(body, i)]])
          /\ EstimateGas(body).memory
               = 32 + SumFunction([i \in DOMAIN body |-> OwnEstimate(body[i]).memory * tens[LoopsAround(body, i)]])
          /\ Complexity(body).cyclomatic = 1 + SumFunction([i \in DOMAIN body |-> Decisions(body[i])])
          /\ Complexity(body).max = Max({0} \cup {SyntaxOpen(body, i) : i \in DOMAIN body})
  /\ part = "entry" =>
       LET first == Head(Last(subject.variants))
           cfg == [limit |-> DefaultLimit, approaching |-> 80, strict |-> FALSE] IN
       /\ \A t \in Wraps(first) :
            Last(t).n * EstimateTypeSize(first) < Usize => EstimateTypeSize(t) >= EstimateTypeSize(first)
       /\ AnalyzeLedgerSize(<<subject>>, cfg) = LedgerSizeRule(<<subject>>, FALSE)
       /\ \A v \in AnalyzeLedgerSize(<<subject>>, [cfg EXCEPT !.strict = TRUE]) :
            v[2] = "exceeds" => v \in LedgerSizeRule(<<subject>>, TRUE)
       /\ \A extra \in Growth :
            LET level(n) == ClassifySize(n, DefaultLimit, 80, FALSE, 90) IN
            LevelRank(level(EstimateSize(subject) + extra)) >= LevelRank(level(EstimateSize(subject)))
       /\ \E i \in DOMAIN subject.variants :
            EstimateSize(subject) = FieldsSize(subject.variants[i]) + (IF subject.enum THEN 4 ELSE 0)
=============================================================================
