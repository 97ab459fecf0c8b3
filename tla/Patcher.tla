------------------------------- MODULE Patcher -------------------------------
(* Patcher::apply_patches, and the fix command that collects patches of one    *)
(* source, asks about them one by one and writes the patched file.             *)
(* A source is a sequence of lines, a line a sequence of characters; a patch   *)
(* replaces what stands from (startLine, startCol) up to (endLine, endCol).    *)
EXTENDS Naturals, Sequences, FiniteSets, SequencesExt

Patch(sl, sc, el, ec, text) ==
  [startLine |-> sl, startCol |-> sc, endLine |-> el, endCol |-> ec, text |-> text]

Newline == "\n"

(* calculate_offsets: a column past the end of its line, or a line past the    *)
(* end of the source, has no offset. The offsets are of the text as it stands, *)
(* with the patches applied before.                                            *)
LineStarts(text) == {1} \cup {i + 1 : i \in {j \in DOMAIN text : text[j] = Newline}}
LineStart(text, line) ==
  CHOOSE i \in LineStarts(text) : Cardinality({j \in LineStarts(text) : j < i}) = line - 1

HasOffset(text, line, col) ==
  /\ line \in 1..Cardinality(LineStarts(text))
  /\ LineStart(text, line) + col - 1 <= Len(text)
  /\ \A i \in LineStart(text, line)..(LineStart(text, line) + col - 1) : text[i] # Newline

Offset(text, line, col) == LineStart(text, line) + col

ApplyOne(text, p) ==
  IF ~HasOffset(text, p.startLine, p.startCol) \/ ~HasOffset(text, p.endLine, p.endCol)
  THEN text
  ELSE SubSeq(text, 1, Offset(text, p.startLine, p.startCol) - 1) \o p.text
         \o SubSeq(text, Offset(text, p.endLine, p.endCol), Len(text))

(* sort_by is stable: patches of one starting point keep their order.          *)
\* Patches in reading order.
Earlier(p, q) == \/ p.startLine < q.startLine
                 \/ p.startLine = q.startLine /\ p.startCol < q.startCol
Later(p, q) == \/ p.startLine > q.startLine
               \/ p.startLine = q.startLine /\ p.startCol > q.startCol

Precedes(patches, i, j) == \/ Later(patches[i], patches[j])
                           \/ ~Later(patches[j], patches[i]) /\ i < j
SortedPatches(patches) ==
  LET before(i) == {j \in DOMAIN patches : Precedes(patches, j, i)}
  IN [n \in DOMAIN patches |->
        patches[CHOOSE i \in DOMAIN patches : Cardinality(before(i)) = n - 1]]

ApplyPatches(source, patches) == FoldLeft(ApplyOne, source, SortedPatches(patches))

(* fix.rs: the answers y, n, a (apply all that remain, in this file and the    *)
(* next ones), d and anything else ask again.                                  *)
AskStep(st, n) ==
  LET answer == IF st.all THEN "y" ELSE st.answers[n]
  IN IF answer = "n" THEN [st EXCEPT !.skipped = @ + 1]
     ELSE [st EXCEPT !.chosen = Append(@, n), !.all = @ \/ answer = "a"]

Selected(patches, interactive, all, answers) ==
  FoldLeft(AskStep, [chosen |-> <<>>, skipped |-> 0,
                     all |-> all \/ ~interactive, answers |-> answers],
           [i \in DOMAIN patches |-> i])

FixFile(source, patches, chosen) ==
  IF chosen = <<>> THEN source
  ELSE ApplyPatches(source, [i \in DOMAIN chosen |-> patches[chosen[i]]])
=============================================================================
