----------------------------- MODULE RuleWalkers -----------------------------
(* What the static analysers of sanctifier-core read, a parsed contract source *)
(* reduced to what the rules tell apart, and the detectors over it: the rules  *)
(* of the registry and the scans of Analyzer that duplicate them.              *)
(*                                                                             *)
(* A contract is a sequence of functions in source order. A function knows its *)
(* name, where it stands (item), whether it is public, a #[test], and whether  *)
(* it returns a Result; its body is a sequence of statements. A statement does *)
(* one thing (ev), possibly inside other syntax: "under" is the set of kinds   *)
(* of syntax around it. An analyser that walks the tree by hand sees a         *)
(* statement only when it descends into everything around it.                  *)
EXTENDS Naturals, Sequences, FiniteSets, SequencesExt

(* The syntax that can stand around an event.                                  *)
(*   let       the value of a let statement    tail  the value of the function *)
(*   block     a block of its own                                              *)
(*   branch    a branch or condition of an if, an arm of a match               *)
(*   scrutinee the value a match looks at                                      *)
(*   arg       an argument of a function call  ok  an argument of Ok(..)       *)
(*   recv      the receiver or an argument of a method call                    *)
(*   handled   the receiver of unwrap(), ok(), map(), and the like             *)
(*   harg      an argument of such a method, as in unwrap_or(..)               *)
(*   assign    the right of an assignment  op  an operand, cast, field, tuple  *)
(*   try       the operand of ?            return  the operand of return       *)
(*   loop      the body of for, while, loop    closure  the body of a closure  *)
(*   index     the subscript of a[..]      macro   the tokens of a macro       *)
Syntax == {"let", "tail", "block", "branch", "scrutinee", "arg", "ok", "recv",
           "handled", "harg", "assign", "op", "try", "return", "loop", "closure",
           "index", "macro"}

(* Where a function can stand.                                                 *)
Items == {"impl", "testimpl", "modimpl", "free", "mod", "testmod"}

Stmt(ev, under) == [ev |-> ev, under |-> under]

Fn(name, item, pub, test, result, body) ==
  [name |-> name, item |-> item, pub |-> pub, test |-> test,
   result |-> result, body |-> body]

(* The places an analyser can point at: function number, statement number.     *)
Places(c) == UNION {{f} \X (DOMAIN c[f].body) : f \in DOMAIN c}

(* What a walker that descends into the kinds W of syntax sees of a body.      *)
Sees(W, s) == s.under \subseteq W
Seen(body, W) == SelectSeq(body, LAMBDA s : Sees(W, s))
SeesEvent(body, W, E) == \E i \in DOMAIN body : Sees(W, body[i]) /\ body[i].ev \in E

(* syn's own visitor descends into everything but the tokens of a macro.       *)
SynVisitor == Syntax \ {"macro"}

(* ---- which syntax each hand-written walker descends into ---- *)
Statements == {"let", "tail", "block", "branch"}
Calls == {"arg", "ok", "recv", "handled", "harg"}
ExprWalker == Statements \cup Calls \cup {"scrutinee"}
ReentrancyWalker == ExprWalker \cup {"assign"}
ScanResultWalker == Statements \cup {"arg", "recv", "assign", "op", "closure", "index"}
RuleResultWalker == Statements \cup {"arg", "recv", "harg", "assign"}

(* ---- auth gap: the registry's rule and Analyzer::scan_auth_gaps ---- *)
(* The receiver text is quoted as `#m.receiver`, which prints the whole call:  *)
(* a local map's set whose argument names a storage word counts as a mutation. *)
StorageWrites == {"write", "privwrite", "userkey", "update", "lock"}
MutatesForScan == StorageWrites \cup {"localset"}
MutatesForRule == MutatesForScan \cup {"ttl"}
ExternalCalls == {"invoke", "ext", "token"}

(* check_fn_body and check_expr: the summary of one function.                  *)
SecuritySummary(body, mutates) ==
  [mutation |-> SeesEvent(body, ExprWalker, mutates),
   auth     |-> SeesEvent(body, ExprWalker, {"auth"}),
   external |-> SeesEvent(body, ExprWalker, ExternalCalls)]

IsReservedEntrypoint(f) == f.name = "constructor"

Gap(f, mutates) ==
  LET sum == SecuritySummary(f.body, mutates) IN
  /\ f.item \in {"impl", "testimpl"}
  /\ f.pub
  /\ ~IsReservedEntrypoint(f)
  /\ sum.mutation \/ sum.external
  /\ ~sum.auth

AuthGapRule(c) == {i \in DOMAIN c : Gap(c[i], MutatesForRule)}
ScanAuthGaps(c) == {i \in DOMAIN c : Gap(c[i], MutatesForScan)}

(* AuthGapRule::fix puts env.require_auth() before the first statement.        *)
AuthGapFix(c) ==
  [i \in DOMAIN c |->
     IF i \in AuthGapRule(c)
     THEN [c[i] EXCEPT !.body = <<Stmt("auth", {})>> \o @] ELSE c[i]]

(* verify_smt_invariants (with the smt feature): an external call in a public  *)
(* function makes the verdict inconclusive.                                    *)
ScanSmtBoundary(c) ==
  {i \in DOMAIN c : c[i].item \in {"impl", "testimpl", "free"} /\ c[i].pub
                    /\ SecuritySummary(c[i].body, MutatesForScan).external}

(* ---- panics ---- *)
PanicEvents == {"panic", "unwrap", "expect", "lockpanic"}

\* Tests reported as well.
PanicScopeTests(f) == f.item \in {"impl", "mod"}

(* Functions of an impl or of a module; tests are left out, and so are         *)
(* functions at the top of the file and impls inside modules.                  *)
PanicScope(f) == f.item \in {"impl", "mod"} /\ ~f.test

(* The rule's check_fn_panics: a panic! as a statement of its own, or in an    *)
(* expression.                                                                 *)
CheckFnPanics(f) ==
  {s \in DOMAIN f.body : Sees(ExprWalker, f.body[s]) /\ f.body[s].ev \in PanicEvents}

PanicRule(c) ==
  {p \in Places(c) : PanicScope(c[p[1]]) /\ p[2] \in CheckFnPanics(c[p[1]])}

\* The analyser's own check_fn_panics, written out a second time.
AnalyzerFnPanics(f) ==
  {s \in DOMAIN f.body : f.body[s].ev \in PanicEvents /\ Sees(ExprWalker, f.body[s])}

ScanPanics(c) ==
  {p \in Places(c) :
     /\ c[p[1]].item \in {"impl", "mod"} /\ ~c[p[1]].test
     /\ p[2] \in AnalyzerFnPanics(c[p[1]])}

(* UnsafeVisitor: syn's visitor, over everything in the file, tests included.  *)
UnsafePatterns(c) ==
  {p \in Places(c) :
     /\ Sees(SynVisitor, c[p[1]].body[p[2]])
     /\ c[p[1]].body[p[2]].ev \in PanicEvents}

(* ---- arithmetic and narrowing: syn visitors with a set of keys seen ---- *)
PlainOps == {"add", "sub"}            \* a + b, a - b, a * b and their assignments
MathCalls == {"muldiv"}               \* mul_div, fixed_point_mul, ...

NotTestCode(f) == f.item # "testmod" /\ ~f.test

(* One finding per function name and operation: "seen" outlives the function.  *)
FirstOfKey(c, P) ==
  {p \in P : \A q \in P :
     (c[q[1]].name = c[p[1]].name /\ c[q[1]].body[q[2]].ev = c[p[1]].body[p[2]].ev)
     => (p[1] < q[1] \/ (p[1] = q[1] /\ p[2] <= q[2]))}

ArithVisitor(c) ==
  FirstOfKey(c,
    {p \in Places(c) :
       LET f == c[p[1]] IN
       /\ NotTestCode(f)
       /\ Sees(SynVisitor, f.body[p[2]])
       /\ \/ f.body[p[2]].ev \in PlainOps /\ "index" \notin f.body[p[2]].under
          \/ f.body[p[2]].ev \in MathCalls})

TruncationVisitor(c) ==
  FirstOfKey(c,
    {p \in Places(c) :
       LET f == c[p[1]] IN
       /\ NotTestCode(f)
       /\ Sees(SynVisitor, f.body[p[2]])
       /\ f.body[p[2]].ev \in {"narrow", "subscript"}})

(* ---- results nobody handles ---- *)
(* The operand of ? and of return is walked as if the function returned a      *)
(* Result, so nothing in it is reported. At a handling method the rule still   *)
(* reads the arguments, the scan of Analyzer nothing.                          *)
Unhandled(c, W) ==
  {p \in Places(c) :
     LET f == c[p[1]] IN
     /\ f.pub /\ ~f.result
     /\ Sees(W, f.body[p[2]])
     /\ f.body[p[2]].ev = "call"}

ScanUnhandledResults(c) == Unhandled(c, ScanResultWalker)
UnhandledResultRule(c) == Unhandled(c, RuleResultWalker)

(* ---- external calls whose result is dropped ---- *)
(* Only an expression statement that is the call itself, with its semicolon.   *)
UncheckedCalls(c) ==
  {p \in Places(c) :
     LET f == c[p[1]] IN
     /\ f.item \in {"impl", "testimpl"}
     /\ f.body[p[2]].ev \in ExternalCalls
     /\ f.body[p[2]].under \subseteq {"block", "branch"}}

(* ---- privileged writes without an event ---- *)
IsPrivileged(f) == f.name = "set_admin"

MissingStateEvent(c) ==
  {i \in DOMAIN c :
     /\ c[i].item \in {"impl", "testimpl"}
     /\ IsPrivileged(c[i])
     /\ SeesEvent(c[i].body, ExprWalker, {"privwrite"})
     /\ ~SeesEvent(c[i].body, ExprWalker, {"publish"})}

(* ---- storage changed in silence; user data in instance storage ---- *)
ShadowStorage(c) ==
  {i \in DOMAIN c :
     /\ c[i].item = "impl" /\ ~c[i].test /\ c[i].pub /\ ~IsReservedEntrypoint(c[i])
     /\ SeesEvent(c[i].body, SynVisitor, MutatesForRule)
     /\ ~SeesEvent(c[i].body, SynVisitor, {"publish"})}

InstanceMisuse(c) ==
  {p \in Places(c) : /\ Sees(SynVisitor, c[p[1]].body[p[2]])
                     /\ c[p[1]].body[p[2]].ev = "userkey"}

(* ---- update() without has() ---- *)
(* The rule reads the text of a statement, so depth does not matter: a check   *)
(* counts from its own statement on, an update unless it is in a let.          *)
VulnerableUpdate(body) ==
  \E s \in DOMAIN body :
    /\ body[s].ev = "update" /\ body[s].under \cap {"let", "macro"} = {}
    /\ \A h \in 1..s : ~(body[h].ev = "has" /\ "macro" \notin body[h].under)

UpdateStateCheck(c) ==
  {i \in DOMAIN c : c[i].item \in {"impl", "testimpl"} /\ c[i].pub
                    /\ VulnerableUpdate(c[i].body)}

(* ---- reentrancy: the fold of scan_block and scan_expr over one function ---- *)
ReentrancyMutates == StorageWrites \cup {"ttl", "token"}

ReentrancyStep(st, s) ==
  IF ~Sees(ReentrancyWalker, s.stmt) THEN st ELSE
  [mutated |-> st.mutated \/ s.stmt.ev \in ReentrancyMutates,
   guarded |-> st.guarded \/ s.stmt.ev \in {"lock", "lockpanic"},
   found   |-> st.found \cup
                 IF s.stmt.ev = "invoke" /\ st.mutated /\ ~st.guarded THEN {s.at} ELSE {}]

Numbered(body) == [i \in DOMAIN body |-> [at |-> i, stmt |-> body[i]]]

ReentrancyScan(body) ==
  FoldLeft(ReentrancyStep, [mutated |-> FALSE, guarded |-> FALSE, found |-> {}],
           Numbered(body)).found

ReentrancyRule(c) ==
  {p \in Places(c) : c[p[1]].item \in {"impl", "testimpl"}
                     /\ p[2] \in ReentrancyScan(c[p[1]].body)}

(* count_invoke_contract_calls: a walker of its own, without assignments.      *)
InvokeCount(body) ==
  Cardinality({s \in DOMAIN body : Sees(ExprWalker, body[s]) /\ body[s].ev = "invoke"})

(* build_guard_patch: the first statement at the top of the function whose     *)
(* expression holds the call, which contains_invoke_contract looks for in      *)
(* calls and blocks only; 0 when there is none.                                *)
GuardWalker == {"let", "tail", "block"} \cup Calls
GuardPoint(body) ==
  LET at == {s \in DOMAIN body : body[s].ev = "invoke" /\ body[s].under \subseteq GuardWalker}
  IN IF at = {} THEN 0 ELSE CHOOSE s \in at : \A t \in at : s <= t

ReentrancyFixable(c) ==
  {i \in DOMAIN c :
     /\ c[i].item \in {"impl", "testimpl"}
     /\ ReentrancyScan(c[i].body) # {}
     /\ InvokeCount(c[i].body) = 1
     /\ GuardPoint(c[i].body) # 0}

(* The replacement: read the lock, panic when it is held, set it, the          *)
(* statement, release it.                                                      *)
\* The lock set and tested after the call.
GuardedLate(body) ==
  LET g == GuardPoint(body) IN
  SubSeq(body, 1, g)
    \o <<Stmt("lockpanic", {"branch"}), Stmt("lock", {}), Stmt("lock", {})>>
    \o SubSeq(body, g + 1, Len(body))

Guarded(body) ==
  LET g == GuardPoint(body) IN
  SubSeq(body, 1, g - 1)
    \o <<Stmt("lockpanic", {"branch"}), Stmt("lock", {}), body[g], Stmt("lock", {})>>
    \o SubSeq(body, g + 1, Len(body))

ReentrancyFix(c) ==
  [i \in DOMAIN c |->
     IF i \in ReentrancyFixable(c) THEN [c[i] EXCEPT !.body = Guarded(@)] ELSE c[i]]
=============================================================================
