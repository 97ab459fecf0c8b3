------------------------------ MODULE Measures ------------------------------
(* The numbers sanctifier-core computes of a contract: estimated gas per       *)
(* function, complexity metrics, and the estimated size of a ledger entry.     *)
EXTENDS Naturals, Sequences, FiniteSets, SequencesExt, FiniteSetsExt, Functions

CONSTANT Usize        \* 2^64: one more than the largest usize
ASSUME UsizeAssumption == Usize \in Nat \ {0}

(* A function body is the sequence of what a visitor meets. A loop is its      *)
(* keyword, its header, "do", its body, "end"; other syntax closes with        *)
(* "close"; the else-if of an if is met inside it and closes before it.        *)
(* x is the number of arms of a match, the annotated type of a let.            *)
Tok(k, x) == [k |-> k, x |-> x]
Loops == {"for", "while", "loop"}
Branches == {"if", "elseif", "match", "closure"}

(* ---- gas_estimator.rs ---- *)
FixedSize == [u32 |-> 4, u64 |-> 8, u128 |-> 16, Address |-> 32, Bytes |-> 64]

GasTypeSize(head) ==
  IF head \in DOMAIN FixedSize THEN FixedSize[head]
  ELSE IF head \in {"Vec", "Map"} THEN 128
  ELSE IF head \in {"none", "tuple"} THEN 8 ELSE 32

StorageMethods == {"get", "set", "has", "update", "remove"}

Instructions(t) ==
  IF t.k \in StorageMethods THEN 1000 ELSE IF t.k = "require_auth" THEN 500
  ELSE IF t.k \in Loops \cup {"vec"} THEN 50 ELSE IF t.k = "method" THEN 25
  ELSE IF t.k = "call" THEN 20 ELSE IF t.k \in {"macro", "symbol_short"} THEN 10
  ELSE IF t.k \in {"binary", "and"} THEN 5 ELSE IF t.k = "let" THEN 2 ELSE 0

MemoryBytes(t) ==
  IF t.k = "let" THEN GasTypeSize(t.x) ELSE IF t.k = "vec" THEN 128
  ELSE IF t.k = "symbol_short" THEN 32 ELSE 0

NewEstimate == [instructions |-> 50, memory |-> 32]
AddEstimate(e, t) == [instructions |-> e.instructions + Instructions(t),
                      memory |-> e.memory + MemoryBytes(t)]

\* A loop's body counted once.
GasStepOnce(stack, t) ==
  LET d == Len(stack) IN
  IF t.k = "do" THEN Append(stack, NewEstimate)
  ELSE IF t.k = "end"
  THEN [Front(stack) EXCEPT ![d - 1] =
          [instructions |-> @.instructions + stack[d].instructions,
           memory |-> @.memory + stack[d].memory]]
  ELSE [stack EXCEPT ![d] = AddEstimate(@, t)]

(* The body of a loop is estimated by a visitor of its own, ten times over.    *)
GasStep(stack, t) ==
  LET d == Len(stack) IN
  IF t.k = "do" THEN Append(stack, NewEstimate)
  ELSE IF t.k = "end"
  THEN [Front(stack) EXCEPT ![d - 1] =
          [instructions |-> @.instructions + 10 * stack[d].instructions,
           memory |-> @.memory + 10 * stack[d].memory]]
  ELSE [stack EXCEPT ![d] = AddEstimate(@, t)]

EstimateGas(body) == FoldLeft(GasStep, <<NewEstimate>>, body)[1]

GasTotal(bodies) == SumFunction([i \in DOMAIN bodies |-> EstimateGas(bodies[i]).instructions])

(* ---- complexity.rs ---- *)
Decisions(t) ==
  IF t.k = "match" THEN (IF t.x = 0 THEN 0 ELSE t.x - 1)
  ELSE IF t.k \in Loops \cup Branches \cup {"and"} THEN 1 ELSE 0

ComplexityStep(st, t) ==
  LET depth == IF t.k \in Loops \cup Branches THEN st.depth + 1
               ELSE IF t.k \in {"close", "end"} THEN st.depth - 1 ELSE st.depth
  IN [cyclomatic |-> st.cyclomatic + Decisions(t), depth |-> depth,
      max |-> IF depth > st.max THEN depth ELSE st.max]

Complexity(body) ==
  FoldLeft(ComplexityStep, [cyclomatic |-> 1, depth |-> 0, max |-> 0], body)

ComplexityWarnings(body, params, loc) ==
  LET c == Complexity(body) IN
  {w \in {"cyclomatic", "params", "nesting", "loc"} :
     \/ w = "cyclomatic" /\ c.cyclomatic > 10
     \/ w = "params" /\ params > 5
     \/ w = "nesting" /\ c.max > 4
     \/ w = "loc" /\ loc > 50}

\* FileVisitor: every method of an impl, but only the public free functions.
MeasuredFns(fns) == {i \in DOMAIN fns : fns[i].method \/ fns[i].pub}

(* ---- ledger entry sizes: Analyzer::analyze_ledger_size, LedgerSizeRule ---- *)
(* A type is its heads in the order in which they close: the type arguments    *)
(* of a head, args of them, stand before it; n is the length of an array. A    *)
(* contract type used as a field counts as any other name: 32 bytes.           *)
TypeHead(head, args, n) == [head |-> head, args |-> args, n |-> n]

\* The size of a type by the sizes of its arguments.
SizeOf(t, args) ==
  IF t.head \in DOMAIN FixedSize THEN FixedSize[t.head]
  ELSE IF t.head = "Vec" THEN (IF args = <<>> THEN 128 ELSE 8 + args[1])
  ELSE IF t.head = "Map" THEN (IF SumFunction(args) = 0 THEN 128 ELSE 16 + 2 * SumFunction(args))
  ELSE IF t.head = "Option" THEN (IF args = <<>> THEN 32 ELSE 1 + args[1])
  ELSE IF t.head = "array" THEN (t.n * args[1]) % Usize
  ELSE IF t.head = "const_array" THEN 64
  ELSE IF t.head \in {"tuple", "ref"} THEN 8 ELSE 32

\* A head takes its arguments' sizes off the stack and leaves its own.
SizeStep(stack, t) ==
  LET rest == Len(stack) - t.args IN
  Append(SubSeq(stack, 1, rest), SizeOf(t, SubSeq(stack, rest + 1, Len(stack))))

EstimateTypeSize(ty) == FoldLeft(SizeStep, <<>>, ty)[1]

FieldsSize(fields) == SumFunction([i \in DOMAIN fields |-> EstimateTypeSize(fields[i])])

\* item.variants: one sequence of fields for a struct, one per variant for an enum.
EstimateSize(item) ==
  IF item.enum THEN 4 + Max({0} \cup {FieldsSize(item.variants[i]) : i \in DOMAIN item.variants})
  ELSE FieldsSize(item.variants[1])

DefaultLimit == 64000   \* bytes of a ledger entry

\* Thresholds in percent of the limit.
ClassifySize(size, limit, approaching, strict, strictAt) ==
  IF size >= limit \/ (strict /\ size >= (limit * strictAt) \div 100) THEN "exceeds"
  ELSE IF 100 * size >= limit * approaching THEN "approaching" ELSE "none"

AnalyzeLedgerSize(items, cfg) ==
  {v \in (DOMAIN items) \X {"exceeds", "approaching"} :
     v[2] = ClassifySize(EstimateSize(items[v[1]]), cfg.limit, cfg.approaching, cfg.strict, 90)}

\* The rule of the registry is built with its defaults, whatever the config says.
LedgerSizeRule(items, strict) ==
  {v \in (DOMAIN items) \X {"exceeds", "approaching"} :
     v[2] = ClassifySize(EstimateSize(items[v[1]]), DefaultLimit, 80, strict, 50)}
=============================================================================
