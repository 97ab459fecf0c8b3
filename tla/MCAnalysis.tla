----------------------------- MODULE MCAnalysis -----------------------------
(* One part of the analysers per behaviour, over a subject that grows a step   *)
(* at a time: a contract, a function's scopes, a token's methods, publish      *)
(* lines, storage keys, a manifest, patches, a body, a ledger entry, a text    *)
(* and a pattern, a workspace, a vulnerability database, the input of the      *)
(* solver; or the diff command with its source and its baseline.               *)
EXTENDS AnalyserPromises, Baseline, TLC

CONSTANTS BodyBound, TokenBound, ListBound, PatchBound, MeasureBound, NestingBound, TextBound

analysisVars == <<part, subject, source, baseline, report, told, exit, failed>>

Parts == {"rules", "scopes", "sep41", "events", "keys", "manifest", "input", "upgrade",
          "patches", "measures", "entry", "pattern", "diff",
          "workspace", "vulns", "fixedpoint", "invariants", "latency"}

(* ---- what subjects are made of ---- *)
Shapes == {Fn("f", "impl", TRUE, FALSE, FALSE, <<>>),
           Fn("g", "impl", TRUE, FALSE, TRUE, <<>>),
           Fn("f", "impl", FALSE, FALSE, FALSE, <<>>),
           Fn("f", "impl", TRUE, TRUE, FALSE, <<>>),
           Fn("constructor", "impl", TRUE, FALSE, FALSE, <<>>),
           Fn("set_admin", "testimpl", TRUE, FALSE, FALSE, <<>>),
           Fn("f", "modimpl", TRUE, FALSE, FALSE, <<>>),
           Fn("f", "free", TRUE, FALSE, FALSE, <<>>),
           Fn("f", "mod", TRUE, FALSE, FALSE, <<>>),
           Fn("f", "testmod", TRUE, TRUE, FALSE, <<>>)}
Entry == Fn("f", "impl", TRUE, FALSE, FALSE, <<>>)

Events == {"write", "privwrite", "userkey", "localset", "update", "ttl", "has", "invoke",
           "ext", "token", "auth", "lock", "lockpanic", "publish", "panic", "unwrap",
           "call", "add", "muldiv", "narrow", "subscript"}
Around == {{}} \cup {{k} : k \in Syntax} \cup {{k, l} : k \in Syntax, l \in {"recv", "branch", "closure"}}
AnyStmt == {Stmt(e, u) : e \in Events, u \in Around}
FewStmts == {Stmt(e, u) : e \in {"write", "token", "invoke", "auth", "lockpanic", "ttl", "add"},
                          u \in {{}, {"assign"}, {"branch"}}}

ScopeSteps ==
  {<<Token(k, "")>> : k \in {"open", "close", "arm", "end"}}
  \cup {<<Token("use", "a")>>, <<Token("macro", "a")>>, <<Token("let", "a")>>, <<Token("bound", "a")>>,
        <<Token("let", "a"), Token("bound", "a")>>, <<Token("named", "a"), Token("bound", "a")>>,
        <<Token("let", "b"), Token("use", "a"), Token("bound", "b")>>,
        <<Token("let", "e"), Token("bound", "e")>>, <<Token("let", "env"), Token("bound", "env")>>}

\* Two core and two metadata functions of the token, and one name of no token.
TokenMethods == {Method(n, f) : n \in {"transfer", "balance", "decimals", "name"},
                                f \in {"exact", "noauth", "signature"}}
                \cup {Method("mint", "exact")}
\* A vec![] of two topics on a line with no comma in parentheses has its comma
\* after them.
LinesTried == {l \in {PublishLine(n, c, t, v, s, h) : n \in {"mint", "burn"}, c \in 0..2, t \in BOOLEAN,
                                                     v \in 0..2, s \in BOOLEAN, h \in {FALSE}}
                        \cup {PublishLine("mint", 1, FALSE, 0, TRUE, TRUE)} :
                 l.commas = 0 /\ l.listed = 2 => l.trailing}
KeysTried == {KeyUse(s, v, o) : s \in {"instance", "unknown"}, v \in {"A", "B"}, o \in {"get", "set"}}
SdkLines == {SdkLine(0, 0, 0)}
            \cup {SdkLine(p, ma, mi) : p \in 1..3, ma \in {0, 20, 21, 22}, mi \in {0, 1, 4, 5}}

ThreeLines == <<"a", "b", "\n", "c", "d", "\n", "e">>
Positions == {<<1, 0>>, <<1, 2>>, <<2, 0>>, <<2, 1>>, <<2, 2>>, <<3, 0>>, <<3, 1>>}
Ranges == {<<p, q>> \in Positions \X Positions :
             p[1] < q[1] \/ (p[1] = q[1] /\ p[2] <= q[2])}
PatchesTried == {Patch(r[1][1], r[1][2], r[2][1], r[2][2], t) :
                   r \in Ranges, t \in {<<>>, <<"x", "\n", "y">>}}
                \cup {Patch(1, 3, 2, 0, <<>>), Patch(3, 0, 4, 0, <<>>)}

Leaves == {Tok("call", 0), Tok("get", 0), Tok("require_auth", 0), Tok("method", 0), Tok("binary", 0),
           Tok("and", 0), Tok("let", "none"), Tok("let", "u64"), Tok("let", "Map"), Tok("let", "Named"),
           Tok("vec", 0), Tok("symbol_short", 0), Tok("macro", 0)}
Wrapped(k, body) ==
  IF k \in Loops THEN <<Tok(k, 0), Tok("call", 0), Tok("do", 0)>> \o body \o <<Tok("end", 0)>>
  ELSE <<Tok(k, 3)>> \o body \o <<Tok("close", 0)>>

BaseTypes == {TypeHead("u32", 0, 0), TypeHead("Bytes", 0, 0), TypeHead("Named", 0, 0),
              TypeHead("tuple", 0, 0), TypeHead("Vec", 0, 0), TypeHead("Option", 0, 0),
              TypeHead("const_array", 0, 0)}
TypeNesting(t) == Cardinality({i \in DOMAIN t : t[i].args > 0})
Item(enum, variants) == [enum |-> enum, variants |-> variants]

\* A file with two findings, one never analysed in time, one unreadable.
ScannedFile(n, finds, readable, inTime) ==
  [name |-> n, finds |-> finds, readable |-> readable, inTime |-> inTime]
FilesTried == {ScannedFile("a", 2, TRUE, TRUE), ScannedFile("b", 1, TRUE, FALSE),
               ScannedFile("c", 1, FALSE, TRUE)}
AnyMember == {Member(m, F) : m \in {"cdylib", "plain", "broken"}, F \in SUBSET FilesTried}
VulnsTried == {Vuln(i, p, n, g, TRUE) : i \in {"A", "B"}, p \in BOOLEAN, n \in {1, 2}, g \in {1, 2}}
              \cup {Vuln("A", FALSE, 1, 1, FALSE)}
SpecsTried == [multiplicandMax : 0..4, multiplierMax : 0..4, divisorMin : 0..2,
               divisorMax : 0..3, result : {{}} \cup {{n} : n \in 0..3}]
InvariantsTried == [impl : BOOLEAN, invariant : {{"none"}, {}, {"+"}, {"sub"}, {"add", "-"}}]

AnyRank == [name \in Function |-> 1]

(* ---- behaviours ---- *)
StartOf(p) ==
  IF p = "rules" THEN {<<f>> : f \in Shapes}
  ELSE IF p = "patches" THEN {[patches |-> <<>>, answers |-> <<>>]}
  ELSE IF p = "entry" THEN {Item(FALSE, <<<<<<t>>>>>>) : t \in BaseTypes}
                           \cup {Item(TRUE, <<<<>>, <<<<t>>>>>>) : t \in BaseTypes}
  ELSE IF p = "pattern" THEN {[text |-> <<>>, pattern |-> <<>>]}
  ELSE {<<>>}

MCInit == /\ DiffInit
          /\ part \in Parts
          /\ subject \in StartOf(part)

Still == UNCHANGED <<part, source, baseline, report, told, exit, failed>>
In(p) == part = p /\ Still

AddStatement ==
  /\ In("rules") /\ Len(subject) = 1
  /\ \/ subject[1].body = <<>> /\ \E s \in AnyStmt : subject' = [subject EXCEPT ![1].body = <<s>>]
     \/ /\ [subject[1] EXCEPT !.body = <<>>] = Entry
        /\ \A i \in DOMAIN subject[1].body : subject[1].body[i] \in FewStmts
        /\ Len(subject[1].body) < BodyBound
        /\ \E s \in FewStmts : subject' = [subject EXCEPT ![1].body = Append(@, s)]

AddFunction ==
  /\ In("rules") /\ Len(subject) = 1 /\ Len(subject[1].body) = 1
  /\ subject[1].body[1].under = {}
  /\ \E f \in {Entry, Fn("g", "impl", TRUE, FALSE, FALSE, <<>>)}, e \in {"add", "write", "narrow"} :
       subject' = Append(subject, [f EXCEPT !.body = <<Stmt(e, {}), Stmt(e, {"loop"})>>])

ApplyAuthFix == In("rules") /\ AuthGapRule(subject) # {} /\ subject' = AuthGapFix(subject)

ApplyReentrancyFix ==
  In("rules") /\ ReentrancyFixable(subject) # {} /\ Len(subject[1].body) <= BodyBound
  /\ subject' = ReentrancyFix(subject)

\* What is open closes in its order; a let stands directly in a block, and of a
\* let whose initialiser is under way the name is bound before anything closes.
AddToken ==
  /\ In("scopes")
  /\ \E s \in ScopeSteps :
       LET follow(o, t) == CASE t.k \in {"open", "arm", "let"} -> Append(o, t.k)
                             [] t.k \in {"close", "end"} -> Front(o)
                             [] t.k = "bound" /\ Last(o) = "let" -> Front(o)
                             [] OTHER -> o
           around == FoldLeft(follow, <<"open">>, subject)
       IN /\ Len(subject) + Len(s) <= TokenBound
          /\ s[1].k = "close" => Len(around) > 1 /\ Last(around) = "open"
          /\ s[1].k = "end" => Last(around) = "arm"
          /\ s[1].k = "let" => Last(around) = "open"
          /\ s[1].k = "named" => Last(around) # "let"
          /\ subject' = subject \o s

Adds(p, bound, S) == In(p) /\ Len(subject) < bound /\ \E x \in S : subject' = Append(subject, x)
AddMethod == Adds("sep41", ListBound, TokenMethods)
AddPublish == Adds("events", ListBound, LinesTried)
AddKey == Adds("keys", ListBound, KeysTried)
AddDependency == Adds("manifest", 2, SdkLines)
AddByte == Adds("input", ListBound, {"text", "null"})
AddEntryPoint == Adds("upgrade", ListBound, {"initialize", "set_admin", "upgrade", "transfer"})

AddMember == Adds("workspace", ListBound, AnyMember)
AddVuln == Adds("vulns", ListBound, VulnsTried)
AddSpec == Adds("fixedpoint", 1, SpecsTried)
AddInvariant == Adds("invariants", ListBound, InvariantsTried)
AddSample == Adds("latency", MeasureBound, {0, 1, 5})

AddPatch ==
  /\ In("patches") /\ Len(subject.patches) < PatchBound
  /\ \E p \in PatchesTried, a \in {"y", "n", "a"} :
       subject' = [patches |-> Append(subject.patches, p), answers |-> Append(subject.answers, a)]

AddCode ==
  /\ In("measures") /\ Len(subject) < MeasureBound
  /\ \/ \E t \in Leaves : /\ Len(subject) < 2 \/ t = Tok("binary", 0)
                          /\ subject' = Append(subject, t)
     \/ \E k \in Loops \cup Branches : subject' = Wrapped(k, subject)

AddField ==
  /\ In("entry")
  /\ Len(Last(subject.variants)) < 2
  /\ \E t \in BaseTypes : subject' = [subject EXCEPT !.variants[Len(subject.variants)] = Append(@, <<t>>)]

WrapField ==
  /\ In("entry") /\ TypeNesting(Head(Last(subject.variants))) < NestingBound
  /\ \E t \in Wraps(Head(Last(subject.variants))) :
       subject' = [subject EXCEPT !.variants[Len(subject.variants)] = <<t>> \o Tail(@)]

AddCharacter ==
  /\ In("pattern")
  /\ \/ Len(subject.text) < TextBound
        /\ \E ch \in {"a", "b", "\n"} : subject' = [subject EXCEPT !.text = Append(@, ch)]
     \/ Len(subject.pattern) < TextBound
        /\ \E ch \in {"a", "b", Star} : subject' = [subject EXCEPT !.pattern = Append(@, ch)]

RunDiff == part = "diff" /\ DiffNext /\ UNCHANGED <<part, subject>>

MCNext ==
  \/ AddStatement \/ AddFunction \/ ApplyAuthFix \/ ApplyReentrancyFix
  \/ AddToken \/ AddMethod \/ AddPublish \/ AddKey \/ AddDependency \/ AddByte
  \/ AddEntryPoint \/ AddPatch \/ AddCode \/ AddField \/ WrapField \/ AddCharacter
  \/ AddMember \/ AddVuln \/ AddSpec \/ AddInvariant \/ AddSample
  \/ RunDiff

AnalysisSpec == MCInit /\ [][MCNext]_analysisVars
=============================================================================
