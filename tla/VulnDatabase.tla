---------------------------- MODULE VulnDatabase ----------------------------
(* sanctifier-cli/src/vulndb.rs: validation of a vulnerability database and    *)
(* its search through a source.                                                *)
EXTENDS Naturals, Sequences, SequencesExt, FiniteSets, FiniteSetsExt

\* sound stands for the checks of one field alone: nothing empty, a severity of
\* the five, an id and a pattern that are well formed. An id is compared as it
\* is written, padded with spaces or not; the rest is trimmed and lowered, and
\* an empty name or pattern, refused by itself, is taken for one like no other.
Vuln(id, padded, name, signature, sound) ==
  [id |-> <<id, padded>>, name |-> name, signature |-> signature, sound |-> sound]

\* ids, names and signatures are maps to the index that was inserted last.
NoneSeen == [x \in {} |-> 0]
InsertKey(seen, key, index) ==
  [k \in DOMAIN seen \union {key} |-> IF k = key THEN index ELSE seen[k]]

CheckEntry(st, v) ==
  LET n == st.index + 1
      clash(seen, key, kind) ==
        IF key \in DOMAIN seen THEN {<<kind, seen[key], n>>} ELSE {}
  IN [index |-> n,
      ids |-> InsertKey(st.ids, v.id, n),
      names |-> InsertKey(st.names, v.name, n),
      signatures |-> InsertKey(st.signatures, v.signature, n),
      errors |-> st.errors \union (IF v.sound THEN {} ELSE {<<"field", n, n>>})
                   \union clash(st.ids, v.id, "id") \union clash(st.names, v.name, "name")
                   \union clash(st.signatures, v.signature, "signature")]

VulnErrors(db) ==
  FoldLeft(CheckEntry, [index |-> 0, ids |-> NoneSeen, names |-> NoneSeen,
                        signatures |-> NoneSeen, errors |-> {}], db).errors

\* What the database says of itself, and may leave empty.
AboutDb == {"version", "last_updated", "description"}
ValidateDb(empty, db) == empty = {} /\ db # <<>> /\ VulnErrors(db) = {}

LineBreak == "\n"

\* find_iter of a literal that is not empty: leftmost matches that do not
\* overlap, by position.
FindIter(text, literal) ==
  LET at == {i \in DOMAIN text : i + Len(literal) - 1 <= Len(text)
                                 /\ SubSeq(text, i, i + Len(literal) - 1) = literal}
      find[from \in 1..(Len(text) + 1)] ==
        LET next == {i \in at : i >= from} IN
        IF next = {} THEN {} ELSE {Min(next)} \union find[Min(next) + Len(literal)]
  IN find[1]

\* The line a match is reported at, and the snippet before it is trimmed.
LineOf(text, i) == 1 + Cardinality({j \in 1..(i - 1) : text[j] = LineBreak})
SnippetOf(text, i, end) ==
  LET starts == {j \in 1..(i - 1) : text[j] = LineBreak}
      start == IF starts = {} THEN 1 ELSE 1 + (CHOOSE j \in starts : \A k \in starts : k <= j)
      ends == {j \in end..Len(text) : text[j] = LineBreak}
      stop == IF ends = {} THEN Len(text) ELSE (CHOOSE j \in ends : \A k \in ends : j <= k) - 1
  IN SubSeq(text, start, stop)

ScanVulns(text, literal) ==
  {[line |-> LineOf(text, i), snippet |-> SnippetOf(text, i, i + Len(literal))] :
     i \in FindIter(text, literal)}
=============================================================================
