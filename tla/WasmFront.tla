------------------------------ MODULE WasmFront ------------------------------
(* sanctifier-wasm: the limits of its entry points and the result they build.  *)
(* Sizes are in MiB, as the constants of constants.rs.                         *)
EXTENDS RuleWalkers

MaxSource == [browser |-> 10, node |-> 25]
MemoryBudget == [browser |-> 32, node |-> 128]
Overhead == 8

validate_source(len) ==
  IF len < 1 THEN "empty" ELSE IF len > MaxSource["browser"] THEN "tooLarge" ELSE "ok"
check_memory_budget(len) == IF len * Overhead > MemoryBudget["browser"] THEN "memory" ELSE "ok"

validate_for_target(len, target) ==
  IF len < 1 THEN "empty"
  ELSE IF len > MaxSource[target] THEN "tooLarge"
  ELSE IF len * Overhead > MemoryBudget[target] THEN "memory" ELSE "ok"

validate_config_json(len, blank) == IF ~blank /\ len > 1 THEN "tooLarge" ELSE "ok"

\* analyze; analyze_with_config asks validate_config_json first.
analyzeAdmits(len) == IF validate_source(len) # "ok" THEN validate_source(len) ELSE check_memory_budget(len)
configAdmits(config, blank, len) ==
  IF validate_config_json(config, blank) # "ok" THEN "config" ELSE analyzeAdmits(len)
\* analyze_with_progress leaves the budget out.
progressAdmits(len) == validate_source(len)

\* run_analysis over the passes that are modelled; the events, keys, sizes,
\* interface and upgrade passes are InterfaceRules' and Measures'.
WasmSummary(c) ==
  LET auth == Cardinality(ScanAuthGaps(c)) IN
  [total |-> auth + Cardinality(ScanPanics(c)) + Cardinality(ArithVisitor(c))
             + Cardinality(UnsafePatterns(c)) + Cardinality(ScanUnhandledResults(c)),
   has_high |-> auth > 0]

\* What analyze_single_file adds of these passes and of the truncation pass,
\* which the bindings do not run.
CliCount(c) == WasmSummary(c).total + Cardinality(TruncationVisitor(c))

build_progress_events(total) == [idx \in 1..5 |-> (idx * total) \div 5]
=============================================================================
