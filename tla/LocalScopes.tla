----------------------------- MODULE LocalScopes -----------------------------
(* The two rules that keep a stack of scopes while they walk a function:       *)
(* unused_variable, whose fix renames what it reports, and variable_shadowing. *)
(* A function is the sequence of what a visitor meets in the order it meets it: *)
(*   open, close   a block                                                     *)
(*   arm, end      what a closure, a for loop or the arm of a match encloses   *)
(*   let v         a local of the pattern v, before its initialiser is walked  *)
(*   named v       an element of a tuple pattern, a parameter, a loop variable *)
(*                 or a name in the pattern of an arm                          *)
(*   bound v       the place from which v has its meaning: after the initialiser *)
(*                 of its let, and for a name no visitor notices (a let with a *)
(*                 type, an if let, a struct pattern) the only sign of it      *)
(*   use v         a path read in an expression                                *)
(*   macro v       a name among the tokens of a macro, which no visitor reads  *)
EXTENDS Naturals, Sequences, FiniteSets, SequencesExt

Token(k, v) == [k |-> k, v |-> v]

\* Names neither rule speaks about: env and those that start with _; the
\* shadowing rule leaves e and self alone too.
Ignored == {"env", "_"}
Skipped == Ignored \cup {"e", "self"}

(* ---- UnusedVariableVisitor ---- *)
\* A use credited to the outermost scope that knows the name.
MarkOutermost(stack, v) ==
  LET known == {d \in DOMAIN stack : \E i \in DOMAIN stack[d] : stack[d][i].v = v}
      d == CHOOSE x \in known : \A y \in known : x <= y
      first == CHOOSE i \in DOMAIN stack[d] : stack[d][i].v = v
  IN IF known = {} THEN stack ELSE [stack EXCEPT ![d][first].used = TRUE]

\* mark_used: the innermost scope that knows the name, its first entry of it.
MarkUsed(stack, v) ==
  LET known == {d \in DOMAIN stack : \E i \in DOMAIN stack[d] : stack[d][i].v = v}
      d == CHOOSE x \in known : \A y \in known : y <= x
      first == CHOOSE i \in DOMAIN stack[d] :
                 stack[d][i].v = v /\ \A j \in 1..(i - 1) : stack[d][j].v # v
  IN IF known = {} THEN stack ELSE [stack EXCEPT ![d][first].used = TRUE]

\* exit_scope: what the scope declared and nothing marked.
LeftUnused(scope) ==
  {scope[i].at : i \in {j \in DOMAIN scope : ~scope[j].used /\ scope[j].v \notin Ignored}}

\* visit_local adds the name of a plain pattern before it walks the initialiser;
\* only functions and blocks are scopes.
UnusedStep(st, n) ==
  LET t == n.token
      d == Len(st.stack)
  IN CASE t.k = "open"  -> [st EXCEPT !.stack = Append(@, <<>>)]
       [] t.k = "close" -> [stack |-> Front(st.stack),
                            unused |-> st.unused \cup LeftUnused(st.stack[d])]
       [] t.k = "let"   -> [st EXCEPT !.stack[d] = Append(@, [v |-> t.v, at |-> n.at, used |-> FALSE])]
       [] t.k = "use"   -> [st EXCEPT !.stack = MarkUsed(@, t.v)]
       [] OTHER -> st

NumberedTokens(fn) == [i \in DOMAIN fn |-> [at |-> i, token |-> fn[i]]]

\* The scopes still open at the end close with the function.
ReportedUnused(fn) ==
  LET end == FoldLeft(UnusedStep, [stack |-> <<<<>>>>, unused |-> {}], NumberedTokens(fn))
  IN end.unused \cup UNION {LeftUnused(end.stack[d]) : d \in DOMAIN end.stack}

(* ---- ShadowingVisitor ---- *)
\* scope_stack: per open scope, the declaration each name stands for.
Declare(scope, v, at) == [x \in DOMAIN scope \cup {v} |-> IF x = v THEN at ELSE scope[x]]

AddVariable(st, v, at) ==
  LET d == Len(st.stack)
      outer == {e \in 1..(d - 1) : v \in DOMAIN st.stack[e]}
      near == CHOOSE e \in outer : \A f \in outer : f <= e
  IN [stack |-> [st.stack EXCEPT ![d] = Declare(@, v, at)],
      pairs |-> st.pairs \cup IF outer = {} THEN {} ELSE {<<at, st.stack[near][v]>>}]

\* Loops, closures and arms are scopes too, and what they name is added.
ShadowStep(st, n) ==
  LET t == n.token IN
  CASE t.k \in {"open", "arm"}  -> [st EXCEPT !.stack = Append(@, <<>>)]
    [] t.k \in {"close", "end"} -> [st EXCEPT !.stack = Front(@)]
    [] t.k \in {"let", "named"} /\ t.v \notin Skipped -> AddVariable(st, t.v, n.at)
    [] OTHER -> st

ReportedShadows(fn) ==
  FoldLeft(ShadowStep, [stack |-> <<<<>>>>, pairs |-> {}], NumberedTokens(fn)).pairs

(* ---- what the language says: the reference ---- *)
\* A function as its blocks alone, and with every scope written as a block and
\* every name a visitor notices written as a let.
Blocks(fn) ==
  [i \in DOMAIN fn |-> IF fn[i].k \in {"arm", "end", "named"} THEN Token("other", fn[i].v) ELSE fn[i]]
Scopes(fn) ==
  LET as == [k \in {"arm", "end", "named"} |->
               IF k = "arm" THEN "open" ELSE IF k = "end" THEN "close" ELSE "let"]
  IN [i \in DOMAIN fn |-> IF fn[i].k \in DOMAIN as THEN Token(as[fn[i].k], fn[i].v) ELSE fn[i]]

Depth(fn, i) == 1 + Cardinality({j \in 1..i : fn[j].k = "open"})
                  - Cardinality({j \in 1..i : fn[j].k = "close"})
\* The scope that token j stands in is still open at i.
InScope(fn, j, i) == \A m \in j..i : Depth(fn, m) >= Depth(fn, j)

\* The binding a name read at token i refers to; 0 when there is none.
Refers(fn, i) ==
  LET B == {b \in 1..(i - 1) : fn[b].k = "bound" /\ fn[b].v = fn[i].v /\ InScope(Scopes(fn), b, i)}
  IN IF B = {} THEN 0 ELSE CHOOSE b \in B : \A m \in B : m <= b

\* Where the name that is declared at j is bound, once its initialiser is over.
Binds(fn, j, b) ==
  LET ends(m) == /\ fn[m].k = "bound" /\ fn[m].v = fn[j].v /\ InScope(Scopes(fn), j, m)
                 /\ Depth(Scopes(fn), m) = Depth(Scopes(fn), j)
  IN j < b /\ ends(b) /\ \A m \in (j + 1)..(b - 1) : ~ends(m)

\* Token i is part of the initialiser of the let at j.
Initialises(fn, j, i) == /\ j < i /\ InScope(Scopes(fn), j, i)
                         /\ \A b \in 1..i : ~Binds(fn, j, b)
=============================================================================
