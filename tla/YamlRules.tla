------------------------------ MODULE YamlRules ------------------------------
(* The rules a user writes in YAML, the registry that runs rules, and how a    *)
(* name is matched against a pattern.                                          *)
EXTENDS RuleWalkers, FiniteSetsExt

(* ---- matches_pattern ---- *)
(* Texts and patterns are sequences of characters. A pattern without a star is *)
(* looked for anywhere; with one star it is a prefix and a suffix, which may   *)
(* overlap; with more, the stars at its ends are cut off and the rest, stars   *)
(* included, is looked for anywhere.                                           *)
Star == "*"
Stars(pattern) == {i \in DOMAIN pattern : pattern[i] = Star}

ContainsText(text, part) ==
  \E i \in 0..Len(text) : i + Len(part) <= Len(text)
                          /\ SubSeq(text, i + 1, i + Len(part)) = part

TrimStars(p) ==
  LET plain == (DOMAIN p) \ Stars(p) IN
  IF plain = {} THEN <<>> ELSE SubSeq(p, Min(plain), Max(plain))

MatchesPattern(text, pattern) ==
  IF Stars(pattern) = {} THEN ContainsText(text, pattern)
  ELSE IF Cardinality(Stars(pattern)) = 1
  THEN LET at == CHOOSE i \in Stars(pattern) : TRUE IN
       /\ IsPrefix(SubSeq(pattern, 1, at - 1), text)
       /\ IsSuffix(SubSeq(pattern, at + 1, Len(pattern)), text)
  ELSE ContainsText(text, TrimStars(pattern))

(* ---- the three walkers over the methods of the impls of a file ---- *)
(* Calls are looked for in statements and in the arguments of calls; method    *)
(* calls, storage operations among them, in receivers and their arguments.     *)
FunctionWalker == Statements \cup {"scrutinee", "arg", "ok"}
MethodWalker == Statements \cup {"scrutinee", "recv", "handled", "harg"}

FunctionEvents == {"call"}
\* The method an event is a call of; receivers are quoted with the whole call,
\* so the set of a local map whose argument names storage is a storage set.
MethodOf == [write |-> "set", privwrite |-> "set", userkey |-> "set", lock |-> "set",
             localset |-> "set", update |-> "update", ttl |-> "extend_ttl", has |-> "has",
             invoke |-> "invoke_contract", token |-> "transfer", ext |-> "ext",
             auth |-> "require_auth", publish |-> "publish",
             unwrap |-> "unwrap", expect |-> "expect"]
StorageEvents == {"write", "privwrite", "userkey", "lock", "localset", "update", "ttl", "has"}

ImplStatements(c, W, E) ==
  {p \in Places(c) : LET f == c[p[1]] IN
     /\ f.item \in {"impl", "testimpl"}
     /\ Sees(W, f.body[p[2]]) /\ f.body[p[2]].ev \in E}

FunctionCallRule(c) == ImplStatements(c, FunctionWalker, FunctionEvents)
MethodCallRule(c, methods) ==
  ImplStatements(c, MethodWalker, {e \in DOMAIN MethodOf : MethodOf[e] \in methods})
StorageOperationRule(c, operation) ==
  ImplStatements(c, MethodWalker, {e \in StorageEvents : MethodOf[e] = operation})

\* check_regex_pattern reads the text of every line, wherever it stands.
RegexRule(c, E) ==
  {p \in Places(c) : c[p[1]].body[p[2]].ev \in E}

(* ---- RuleRegistry ---- *)
WholeFn(S) == {<<i, 0>> : i \in S}
RuleNames == {"auth_gap", "panic_detection", "arithmetic_overflow", "unhandled_result",
              "shadow_storage", "storage_update_state_check", "reentrancy",
              "truncation_bounds", "unchecked_external_call", "missing_state_event",
              "instance_storage_misuse"}

CheckRule(n, c) ==
  CASE n = "auth_gap" -> WholeFn(AuthGapRule(c))
    [] n = "panic_detection" -> PanicRule(c)
    [] n = "arithmetic_overflow" -> ArithVisitor(c)
    [] n = "unhandled_result" -> UnhandledResultRule(c)
    [] n = "shadow_storage" -> WholeFn(ShadowStorage(c))
    [] n = "storage_update_state_check" -> WholeFn(UpdateStateCheck(c))
    [] n = "reentrancy" -> ReentrancyRule(c)
    [] n = "truncation_bounds" -> TruncationVisitor(c)
    [] n = "unchecked_external_call" -> UncheckedCalls(c)
    [] n = "missing_state_event" -> WholeFn(MissingStateEvent(c))
    [] OTHER -> InstanceMisuse(c)

RunByName(c, n) == IF n \in RuleNames THEN {n} \X CheckRule(n, c) ELSE {}
RunAll(c) == UNION {RunByName(c, n) : n \in RuleNames}
=============================================================================
