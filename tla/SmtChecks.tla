------------------------------ MODULE SmtChecks ------------------------------
(* sanctifier-core/src/smt.rs: what is asked of Z3 and made of its answers. Z3 *)
(* is modelled by what its answers mean, over integers of a small width.       *)
EXTENDS Naturals, Sequences, SequencesExt, FiniteSets, Functions

CONSTANTS MaxU64, MaxU128   \* scaled
ASSUME WidthAssumption == MaxU64 \in Nat \ {0} /\ MaxU128 \in Nat

Sat(witnesses) == IF witnesses = {} THEN "unsat" ELSE "sat"

(* ---- #[invariant = ".."] on the methods of an impl ---- *)
\* What of an invariant's text check_invariant_spec looks at.
InvariantMarks == {"+", "add", "-", "sub"}
\* The functions by their place, in which order they are told.
parse_invariants(fns) == {i \in DOMAIN fns : fns[i].impl /\ fns[i].invariant # {"none"}}

OverflowCheck(spec) == spec.invariant \cap {"+", "add"} # {}
UnderflowCheck(spec) == spec.invariant \cap {"-", "sub"} # {}

\* The operands are any two u64, whatever the function does with its own.
Violations(spec) ==
  {w \in (0..MaxU64) \X (0..MaxU64) :
     IF OverflowCheck(spec) THEN w[1] + w[2] > MaxU64 ELSE w[1] < w[2]}

\* None is "none"; a solver that gives up is reported as a timeout.
check_invariant_spec(spec, givesUp) ==
  IF ~OverflowCheck(spec) /\ ~UnderflowCheck(spec) THEN "none"
  ELSE IF givesUp THEN "timeout"
  ELSE IF Sat(Violations(spec)) = "sat" THEN "violated" ELSE "none"

verify_invariants(fns, givesUp) ==
  {i \in parse_invariants(fns) : check_invariant_spec(fns[i], givesUp) # "none"}

(* ---- fixed-point mul_div ---- *)
\* A spec bounds both factors and the divisor; result is a set of at most one
\* bound on the quotient.
validate_fixed_point_spec(s) == s.divisorMin > 0 /\ s.divisorMax >= s.divisorMin

FixedPointWitnesses(s) ==
  {w \in (0..s.multiplicandMax) \X (0..s.multiplierMax) \X (s.divisorMin..s.divisorMax) :
     w[1] * w[2] > MaxU128 \/ \E bound \in s.result : (w[1] * w[2]) \div w[3] > bound}

\* The query is not linear: the solver may give up, which is an error.
prove_fixed_point(s, givesUp) ==
  IF ~validate_fixed_point_spec(s) THEN "invalid"
  ELSE IF givesUp THEN "unknown"
  ELSE IF Sat(FixedPointWitnesses(s)) = "unsat" THEN "proven" ELSE "counterexample"

(* ---- latency benchmark ---- *)
\* Whether a + b can exceed u64 when both are at most "domain".
run_strategy(domain) ==
  Sat({w \in (0..domain) \X (0..domain) : w[1] + w[2] > MaxU64})

\* ((n - 1) * 0.95).round(), half away from zero, counted from 1.
P95Index(n) == ((n - 1) * 95 + 50) \div 100 + 1

\* sort_unstable: equal samples are the same sample.
SortedSamples(samples) ==
  LET before(i) == {j \in DOMAIN samples : \/ samples[j] < samples[i]
                                           \/ samples[j] = samples[i] /\ j < i}
  IN [n \in DOMAIN samples |->
        samples[CHOOSE i \in DOMAIN samples : Cardinality(before(i)) = n - 1]]

\* Of samples in any order, what is reported of them.
Latency(samples) ==
  LET sorted == SortedSamples(samples) IN
  [min |-> Head(sorted), max |-> Last(sorted),
   avg |-> SumFunction(samples) \div Len(samples),
   p95 |-> sorted[P95Index(Len(sorted))]]
=============================================================================
