--------------------------- MODULE AnalysisCache ----------------------------
(***************************************************************************)
(* tooling/sanctifier-core/src/analysis_cache.rs: the in-memory cache of   *)
(* analysis passes. Its methods take `&mut self`, so they are atomic; what *)
(* can happen in between is that `compute`, the caller's closure, panics   *)
(* and the caller catches it.                                              *)
(*                                                                         *)
(* The analysis of a text is represented by the text. hash_source is the   *)
(* function Hash, which may give two texts the same hash.                  *)
(***************************************************************************)
EXTENDS Integers, FiniteSets, Functions

CONSTANTS
  Keys, Texts,
  Hash,       \* [Texts -> hashes]
  requested,  \* the argument of `new`
  MaxClock,   \* bound: questions asked
  Nothing

ASSUME CacheAssumption ==
  /\ IsFiniteSet(Keys)
  /\ Hash \in [Texts -> Nat]
  /\ requested \in Nat /\ MaxClock \in Nat
  /\ Nothing \notin Texts

capacity == IF requested = 0 THEN 1 ELSE requested

Entry == [source_hash : Nat, value : Texts, last_used : Nat]

VARIABLES
  entries,  \* a function on the keys that have an entry
  clock,
  answer    \* history: the last question, and its answer if there was one

vars == <<entries, clock, answer>>

cached == DOMAIN entries

CacheTypeOK ==
  /\ cached \subseteq Keys
  /\ entries \in [cached -> Entry]
  /\ \A k \in cached : entries[k].source_hash = Hash[entries[k].value]
  /\ clock \in 0..MaxClock
  /\ answer \in [key : Keys, source : Texts, value : Texts \cup {Nothing}] \cup {Nothing}

(* `new`.                                                                  *)
Init ==
  /\ entries = <<>>
  /\ clock = 0
  /\ answer = Nothing

-----------------------------------------------------------------------------
\* Fault: an entry of the key is taken whatever its hash.
keyOnly(k, t) == k \in cached

hit(k, t) == k \in cached /\ entries[k].source_hash = Hash[t]

tick == clock < MaxClock /\ clock' = clock + 1

\* Fault: a hit leaves last_used alone.
untouched(k) == entries

touched(k) == [entries EXCEPT ![k].last_used = clock']

(* `get_or_analyze` on a key whose entry has the hash of the source.       *)
Hit(k, t) ==
  /\ hit(k, t)
  /\ tick
  /\ entries' = touched(k)
  /\ answer' = [key |-> k, source |-> t, value |-> entries[k].value]

(* The entries with the least last_used; `maybe_evict` removes one.        *)
oldest(es) ==
  {k \in DOMAIN es : \A j \in DOMAIN es : es[k].last_used <= es[j].last_used}

\* Fault: one entry too many is kept.
evictLate(es) ==
  IF Cardinality(DOMAIN es) <= capacity THEN {es}
  ELSE {Restrict(es, DOMAIN es \ {k}) : k \in oldest(es)}

maybe_evict(es) ==
  IF Cardinality(DOMAIN es) < capacity THEN {es}
  ELSE {Restrict(es, DOMAIN es \ {k}) : k \in oldest(es)}

without(k) == Restrict(entries, cached \ {k})

newEntry(k, t) == [source_hash |-> Hash[t], value |-> t, last_used |-> clock']

(* Otherwise: the entry of another text is removed, the answer computed,   *)
(* room made and the answer stored.                                        *)
Miss(k, t) ==
  /\ ~hit(k, t)
  /\ tick
  /\ \E es \in maybe_evict(without(k)) :
       entries' = [j \in DOMAIN es \cup {k} |-> IF j = k THEN newEntry(k, t) ELSE es[j]]
  /\ answer' = [key |-> k, source |-> t, value |-> t]

(* `compute` panics: the old entry is gone, nothing is stored.             *)
ComputePanics(k, t) ==
  /\ ~hit(k, t)
  /\ tick
  /\ entries' = without(k)
  /\ answer' = [key |-> k, source |-> t, value |-> Nothing]

(* `invalidate`.                                                           *)
Invalidate(k) ==
  /\ k \in cached
  /\ entries' = without(k)
  /\ UNCHANGED <<clock, answer>>

(* `clear`.                                                                *)
Clear ==
  /\ entries' = <<>>
  /\ UNCHANGED <<clock, answer>>

Next ==
  \/ \E k \in Keys, t \in Texts : Hit(k, t) \/ Miss(k, t) \/ ComputePanics(k, t)
  \/ \E k \in Keys : Invalidate(k)
  \/ Clear

Spec == Init /\ [][Next]_vars

-----------------------------------------------------------------------------
(* What is answered is the analysis of a text with the hash of the text    *)
(* asked about: of that very text, unless two texts collide.               *)
AnswersTheText ==
  answer # Nothing /\ answer.value # Nothing => Hash[answer.value] = Hash[answer.source]

(* The cache never holds more than it may, and no two entries were used at *)
(* the same time, so which one is evicted does not depend on the order in  *)
(* which the hash map is walked.                                           *)
EvictionDetermined ==
  /\ Cardinality(cached) <= capacity
  /\ \A j, k \in cached : entries[j].last_used = entries[k].last_used => j = k

memory == [k \in Keys |-> IF k \in cached THEN entries[k].value ELSE Nothing]

usedBefore == {p \in cached \X cached : entries[p[1]].last_used < entries[p[2]].last_used}

Memo == INSTANCE RecencyMemo WITH
  Size <- capacity, reply <- answer, before <- usedBefore, memo <- memory

(* The clock stamps keep the order of the last uses: after any sequence of *)
(* hits, changed sources, invalidations and panics it is the key used      *)
(* longest ago that makes room, and only when the cache is full.           *)
ForgetsLeastRecent == Memo!Spec
=============================================================================
