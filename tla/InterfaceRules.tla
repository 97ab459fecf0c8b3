--------------------------- MODULE InterfaceRules ---------------------------
(* The analysers of sanctifier-core that read a source file for its interface, *)
(* its events, its storage keys and its versions rather than for a statement.  *)
EXTENDS Naturals, Sequences, FiniteSets, SequencesExt, FiniteSetsExt

(* ---- SEP-41: the token interface ---- *)
(* A public method is its name and how it differs from the standard: "exact",  *)
(* "noauth" (right signature, the authorising parameter not required),         *)
(* "signature" (wrong arguments or result).                                    *)
CoreNames == {"allowance", "approve", "balance", "transfer", "transfer_from",
              "burn", "burn_from"}
MetadataNames == {"decimals", "name", "symbol"}
SEP41Functions == CoreNames \cup MetadataNames
AuthorizedFunctions == {"approve", "transfer", "transfer_from", "burn", "burn_from"}

Method(name, form) == [name |-> name, form |-> form]

\* The last impl that names a method keeps it.
FormOfLast(methods, n) == methods[CHOOSE i \in DOMAIN methods :
                            methods[i].name = n /\ \A j \in DOMAIN methods :
                              methods[j].name = n => j <= i].form

\* collect_public_methods: the first impl that names a method keeps it.
FormOf(methods, n) == methods[CHOOSE i \in DOMAIN methods :
                        methods[i].name = n /\ \A j \in 1..(i - 1) : methods[j].name # n].form
MethodNames(methods) == {methods[i].name : i \in DOMAIN methods}

LooksLikeCandidate(methods) ==
  LET core == Cardinality(CoreNames \cap MethodNames(methods))
      meta == Cardinality(MetadataNames \cap MethodNames(methods))
  IN core >= 2 \/ (core >= 1 /\ meta >= 2)

Sep41IssueOf(methods, n) ==
  IF n \notin MethodNames(methods) THEN "missing"
  ELSE IF FormOf(methods, n) = "signature" THEN "signature"
  ELSE IF n \in AuthorizedFunctions /\ FormOf(methods, n) = "noauth" THEN "authorization"
  ELSE "none"

VerifySep41(methods) ==
  IF ~LooksLikeCandidate(methods)
  THEN [candidate |-> FALSE, compliant |-> FALSE, verified |-> {}, issues |-> {}]
  ELSE LET bad == {n \in SEP41Functions : Sep41IssueOf(methods, n) # "none"} IN
       [candidate |-> TRUE, compliant |-> bad = {},
        verified |-> SEP41Functions \ bad,
        issues |-> {<<n, Sep41IssueOf(methods, n)>> : n \in bad}]

(* ---- upgrade and initialisation entry points ---- *)
IsInitFn(n) == n = "initialize"
IsUpgradeOrAdminFn(n) == n \in {"set_admin", "upgrade"}

\* fns: the public functions of the impls, in source order; the positions of
\* those that initialise and of those that upgrade or hand over.
AnalyzeUpgrade(fns) ==
  LET ups == {i \in DOMAIN fns : IsUpgradeOrAdminFn(fns[i])} IN
  [init |-> {i \in DOMAIN fns : IsInitFn(fns[i])}, mechanisms |-> ups,
   finding |-> IF ups = {} THEN "none" ELSE fns[Min(ups)]]

(* ---- events, read line by line ---- *)
(* Of a publish line: its text up to the first comma (the event's "name"), how *)
(* many commas it has before its last closing parenthesis and whether it has   *)
(* one after it, how many topics a vec![] on it lists (0: none), and whether a *)
(* string or a symbol_short! is in it. The text searched starts at the first   *)
(* parenthesis of the line, which is that of events(): the commas of the data  *)
(* count as topics.                                                            *)
PublishLine(name, commas, trailing, listed, string, short) ==
  [name |-> name, commas |-> commas, trailing |-> trailing, listed |-> listed,
   string |-> string, short |-> short]

\* extract_topics: the vec![] is only read when there is no comma in parentheses.
TopicCount(l) == IF l.commas > 0 THEN l.commas + 1 ELSE l.listed

\* extract_event_name: without a comma there is none, and the line stands for
\* itself (unknown_<line>).
HasName(l) == l.commas > 0 \/ l.trailing
EventName(l, at) == IF HasName(l) THEN <<l.name, 0>> ELSE <<"unknown", at>>

EventStep(st, n) ==
  LET l == n.line
      name == EventName(l, n.at)
      earlier == {c \in st.seen : c[1] = name}
  IN [seen |-> st.seen \cup {<<name, TopicCount(l)>>},
      issues |-> st.issues
        \cup (IF \E c \in earlier : c[2] # TopicCount(l) THEN {<<n.at, "schema">>} ELSE {})
        \cup (IF ~l.short /\ TopicCount(l) > 0 /\ l.string THEN {<<n.at, "gas">>} ELSE {})]

ScanEvents(lines) ==
  FoldLeft(EventStep, [seen |-> {}, issues |-> {}],
           [i \in DOMAIN lines |-> [at |-> i, line |-> lines[i]]]).issues

(* ---- storage keys ---- *)
(* A use of a key: in which storage, which value, by which operation; constants *)
(* and symbols written elsewhere are uses in storage "unknown".                *)
KeyUse(store, value, op) == [store |-> store, value |-> value, op |-> op]

StorageCollisions(uses) ==
  {i \in DOMAIN uses : \E j \in DOMAIN uses :
     i # j /\ uses[i].store = uses[j].store /\ uses[i].value = uses[j].value}

(* ---- sizes and bytes of the input ---- *)
MinSource == 1
ValidateSourceSize(len, max) ==
  IF len < MinSource THEN "EMPTY_SOURCE"
  ELSE IF len > max THEN "SOURCE_TOO_LARGE" ELSE "ok"
ValidateNoNull(nul) == IF nul THEN "NULL_BYTE_DETECTED" ELSE "ok"
ValidateUtf8(valid) == IF valid THEN "ok" ELSE "INVALID_UTF8"
ValidatePath(parent) == IF parent THEN "PATH_TRAVERSAL" ELSE "ok"
ValidateSourceAll(len, nul, max) ==
  IF ValidateSourceSize(len, max) # "ok" THEN ValidateSourceSize(len, max)
  ELSE ValidateNoNull(nul)

(* ---- the version of soroban-sdk in a manifest ---- *)
(* A dependency line gives a version by its parts; a part that is no number    *)
(* parses as 0 (^20 for instance). The first line with a quoted version wins;  *)
(* lines of the dependency without one (a workspace or a git source) do not.   *)
SdkLine(parts, major, minor) == [parts |-> parts, major |-> major, minor |-> minor]

ExtractSdkVersion(lines) ==
  LET quoted == {i \in DOMAIN lines : lines[i].parts > 0} IN
  IF quoted = {} THEN SdkLine(0, 0, 0) ELSE lines[Min(quoted)]

AnalyzeVersion(v) ==
  IF v.parts = 0 THEN [deprecated |-> FALSE, warnings |-> 0, known |-> FALSE]
  ELSE IF v.parts < 2 THEN [deprecated |-> FALSE, warnings |-> 0, known |-> TRUE]
  ELSE [deprecated |-> v.major <= 20, known |-> TRUE,
        warnings |-> (IF v.major <= 20 \/ (v.major = 21 /\ v.minor < 5) THEN 2 ELSE 0)
                   + (IF v.parts = 3 /\ v.major = 21 /\ v.minor \in {0, 1} THEN 1 ELSE 0)]
=============================================================================
