----------------------------- MODULE CoreProofs -----------------------------
(* What holds of sanctifier-core for any input: of its in-memory cache, for    *)
(* every finite set of keys, every set of texts, every hash function and every *)
(* capacity, and that it implements a memo which forgets the least recently    *)
(* asked; of its analysers, for every contract, function, list of methods,     *)
(* publish lines, storage keys, dependencies and database entries; and of the  *)
(* checks it makes twice, for every contract, pattern and workspace.           *)
EXTENDS AnalysisCache, AnalyserPromises, FoldLemmas, TLAPS

(* ---- the cache ---- *)
(* No stamp is later than the clock: what makes the next one new.          *)
StampsPast == \A k \in cached : entries[k].last_used <= clock

IInv ==
  /\ CacheTypeOK
  /\ AnswersTheText
  /\ EvictionDetermined
  /\ StampsPast

LEMMA CachedFinite ==
  ASSUME CacheTypeOK
  PROVE  IsFiniteSet(cached) /\ Cardinality(cached) \in Nat
  BY CacheAssumption, FS_Subset, FS_CardinalityType DEF CacheTypeOK

(* Leaving keys out leaves the rest as it was.                             *)
LEMMA Fewer ==
  ASSUME IInv, NEW D \in SUBSET cached, entries' = Restrict(entries, D)
  PROVE  /\ DOMAIN entries' = D
         /\ \A j \in D : entries'[j] = entries[j] /\ entries'[j] \in Entry
         /\ Cardinality(D) <= capacity
  <1>1. entries' = [x \in D |-> entries[x]]
    BY DEF Restrict
  <1>2. Cardinality(D) <= Cardinality(cached) /\ Cardinality(D) \in Nat
    BY CachedFinite, FS_Subset, FS_CardinalityType DEF IInv
  <1>3. Cardinality(cached) \in Nat /\ Cardinality(cached) <= capacity /\ capacity \in Nat
    BY CachedFinite, CacheAssumption DEF IInv, EvictionDetermined, capacity
  <1>. QED  BY <1>1, <1>2, <1>3 DEF IInv, CacheTypeOK, cached

LEMMA FewerInv ==
  ASSUME IInv, NEW D \in SUBSET cached, entries' = Restrict(entries, D),
         clock <= clock', clock' \in 0..MaxClock
  PROVE  /\ cached' \subseteq Keys
         /\ entries' \in [cached' -> Entry]
         /\ \A k \in cached' : entries'[k].source_hash = Hash[entries'[k].value]
         /\ EvictionDetermined' /\ StampsPast'
  <1>1. /\ DOMAIN entries' = D
        /\ \A j \in D : entries'[j] = entries[j] /\ entries'[j] \in Entry
        /\ Cardinality(D) <= capacity
        /\ entries' = [x \in D |-> entries[x]]
    BY Fewer DEF Restrict
  <1>2. cached' = D
    BY <1>1 DEF cached
  <1>3. EvictionDetermined'
    BY <1>1, <1>2 DEF IInv, EvictionDetermined, capacity
  <1>4. \A j \in D : entries[j].last_used \in Nat
    BY DEF IInv, CacheTypeOK, Entry
  <1>5. clock \in Nat /\ clock' \in Nat
    BY CacheAssumption DEF IInv, CacheTypeOK
  <1>6. StampsPast'
    BY <1>1, <1>2, <1>4, <1>5 DEF IInv, StampsPast
  <1>. QED  BY <1>1, <1>2, <1>3, <1>6 DEF IInv, CacheTypeOK

LEMMA TickForward ==
  ASSUME IInv, tick
  PROVE  /\ clock \in Nat /\ clock' = clock + 1 /\ clock' \in Nat
         /\ clock <= clock' /\ clock' \in 0..MaxClock
  BY CacheAssumption DEF IInv, CacheTypeOK, tick

LEMMA HitStep ==
  ASSUME IInv, NEW k \in Keys, NEW t \in Texts, Hit(k, t)
  PROVE  IInv'
  <1>1. /\ clock \in Nat /\ clock' = clock + 1 /\ clock' \in 0..MaxClock
        /\ k \in cached /\ entries[k].source_hash = Hash[t]
        /\ entries' = [entries EXCEPT ![k].last_used = clock']
        /\ answer' = [key |-> k, source |-> t, value |-> entries[k].value]
    BY TickForward DEF Hit, hit, touched
  <1>2. entries[k] \in Entry /\ entries \in [cached -> Entry]
    BY <1>1 DEF IInv, CacheTypeOK
  <1>3. cached' = cached
    BY <1>1 DEF cached
  <1>4. /\ entries' \in [cached -> Entry]
        /\ \A j \in cached :
             /\ entries'[j].source_hash = entries[j].source_hash
             /\ entries'[j].value = entries[j].value
             /\ entries'[j].last_used = IF j = k THEN clock' ELSE entries[j].last_used
    BY <1>1, <1>2 DEF Entry
  <1>5. answer' \in [key : Keys, source : Texts, value : Texts \cup {Nothing}]
    BY <1>1, <1>2 DEF Entry
  <1>6. CacheTypeOK'
    BY <1>1, <1>3, <1>4, <1>5 DEF IInv, CacheTypeOK
  <1>7. AnswersTheText'
    BY <1>1 DEF IInv, CacheTypeOK, AnswersTheText
  <1>8. \A j \in cached : entries[j].last_used \in Nat /\ entries[j].last_used <= clock
    BY DEF IInv, CacheTypeOK, Entry, StampsPast
  <1>9. StampsPast'
    BY <1>1, <1>3, <1>4, <1>8 DEF StampsPast
  <1>10. EvictionDetermined'
    <2>1. Cardinality(cached') <= capacity
      BY <1>3 DEF IInv, EvictionDetermined
    <2>2. ASSUME NEW i \in cached, NEW j \in cached,
                 entries'[i].last_used = entries'[j].last_used
          PROVE  i = j
      BY <1>1, <1>4, <1>8, <2>2 DEF IInv, EvictionDetermined
    <2>. QED  BY <1>3, <2>1, <2>2 DEF EvictionDetermined, capacity
  <1>. QED  BY <1>6, <1>7, <1>9, <1>10 DEF IInv

(* What `maybe_evict` leaves: some of the entries, fewer than the capacity.*)
LEMMA RoomMade ==
  ASSUME IInv, NEW k \in Keys, NEW es \in maybe_evict(without(k))
  PROVE  /\ DOMAIN es \in SUBSET (cached \ {k})
         /\ es = [x \in DOMAIN es |-> entries[x]]
         /\ Cardinality(DOMAIN es) < capacity
  <1>. DEFINE kept == without(k)
  <1>1. kept = [x \in cached \ {k} |-> entries[x]]
    BY DEF without, Restrict
  <1>2. DOMAIN kept = cached \ {k}
    BY <1>1
  <1>3. /\ IsFiniteSet(DOMAIN kept)
        /\ Cardinality(DOMAIN kept) \in Nat
        /\ Cardinality(DOMAIN kept) <= Cardinality(cached)
        /\ Cardinality(cached) \in Nat
    BY <1>2, CachedFinite, FS_Subset, FS_CardinalityType DEF IInv
  <1>4. capacity \in Nat /\ capacity > 0 /\ Cardinality(cached) <= capacity
    BY CacheAssumption DEF IInv, EvictionDetermined, capacity
  <1>. HIDE DEF kept
  <1>5. CASE Cardinality(DOMAIN kept) < capacity
    <2>1. es = kept
      BY <1>5 DEF maybe_evict, kept
    <2>. QED  BY <1>1, <1>2, <1>5, <2>1
  <1>6. CASE ~(Cardinality(DOMAIN kept) < capacity)
    <2>1. PICK j \in oldest(kept) : es = Restrict(kept, DOMAIN kept \ {j})
      BY <1>6 DEF maybe_evict, kept
    <2>2. j \in DOMAIN kept
      BY DEF oldest
    <2>3. es = [x \in DOMAIN kept \ {j} |-> kept[x]]
      BY <2>1 DEF Restrict
    <2>4. DOMAIN es = DOMAIN kept \ {j}
      BY <2>3
    <2>5. Cardinality(DOMAIN es) = Cardinality(DOMAIN kept) - 1
      BY <1>3, <2>2, <2>4, FS_RemoveElement
    <2>6. \A x \in DOMAIN es : es[x] = entries[x]
      BY <1>1, <1>2, <2>3, <2>4
    <2>7. es = [x \in DOMAIN es |-> entries[x]]
      BY <2>3, <2>4, <2>6
    <2>. QED  BY <1>2, <1>3, <1>4, <2>4, <2>5, <2>7
  <1>. QED  BY <1>5, <1>6

LEMMA MissStep ==
  ASSUME IInv, NEW k \in Keys, NEW t \in Texts, Miss(k, t)
  PROVE  IInv'
  <1>1. /\ clock \in Nat /\ clock' = clock + 1 /\ clock' \in 0..MaxClock /\ clock' \in Nat
        /\ answer' = [key |-> k, source |-> t, value |-> t]
    BY TickForward DEF Miss
  <1>2. PICK es \in maybe_evict(without(k)) :
          entries' = [j \in DOMAIN es \cup {k} |-> IF j = k THEN newEntry(k, t) ELSE es[j]]
    BY DEF Miss
  <1>. DEFINE D == DOMAIN es
  <1>3. /\ D \in SUBSET (cached \ {k})
        /\ \A j \in D : es[j] = entries[j]
        /\ Cardinality(D) < capacity
    BY RoomMade
  <1>. HIDE DEF D
  <1>4. cached' = D \cup {k}
    BY <1>2 DEF cached, D
  <1>5. /\ newEntry(k, t) \in Entry
        /\ newEntry(k, t).source_hash = Hash[newEntry(k, t).value]
        /\ newEntry(k, t).last_used = clock'
    BY <1>1, CacheAssumption DEF newEntry, Entry
  <1>6. /\ entries'[k] = newEntry(k, t)
        /\ \A j \in D : entries'[j] = entries[j] /\ j # k /\ j \in cached
        /\ \A j \in D : entries[j] \in Entry
    BY <1>2, <1>3 DEF IInv, CacheTypeOK, D
  <1>7. CacheTypeOK'
    <2>1. cached' \subseteq Keys
      BY <1>3, <1>4 DEF IInv, CacheTypeOK
    <2>2. \A j \in cached' : entries'[j] \in Entry
      BY <1>4, <1>5, <1>6
    <2>3. entries' \in [cached' -> Entry]
      BY <1>2, <1>4, <2>2 DEF D
    <2>4. \A j \in cached' : entries'[j].source_hash = Hash[entries'[j].value]
      BY <1>4, <1>5, <1>6 DEF IInv, CacheTypeOK
    <2>. QED  BY <1>1, <2>1, <2>3, <2>4 DEF CacheTypeOK
  <1>8. AnswersTheText'
    BY <1>1 DEF AnswersTheText
  <1>9. \A j \in D : entries[j].last_used \in Nat /\ entries[j].last_used <= clock
    BY <1>6 DEF IInv, StampsPast, Entry
  <1>10. StampsPast'
    BY <1>1, <1>4, <1>5, <1>6, <1>9 DEF StampsPast
  <1>11. EvictionDetermined'
    <2>1. IsFiniteSet(D) /\ Cardinality(D) \in Nat
      BY <1>3, CachedFinite, FS_Subset, FS_CardinalityType DEF IInv
    <2>2. Cardinality(cached') = Cardinality(D) + 1
      BY <1>3, <1>4, <2>1, FS_AddElement
    <2>3. Cardinality(cached') <= capacity
      BY <1>3, <2>1, <2>2, CacheAssumption DEF capacity
    <2>4. ASSUME NEW i \in D \cup {k}, NEW j \in D \cup {k},
                 entries'[i].last_used = entries'[j].last_used
          PROVE  i = j
      <3>1. CASE i \in D /\ j \in D
        BY <1>6, <2>4, <3>1 DEF IInv, EvictionDetermined
      <3>2. CASE i = k /\ j \in D
        BY <1>1, <1>5, <1>6, <1>9, <2>4, <3>2
      <3>3. CASE i \in D /\ j = k
        BY <1>1, <1>5, <1>6, <1>9, <2>4, <3>3
      <3>. QED  BY <3>1, <3>2, <3>3
    <2>. QED  BY <1>4, <2>3, <2>4 DEF EvictionDetermined, capacity
  <1>. QED  BY <1>7, <1>8, <1>10, <1>11 DEF IInv

LEMMA DropStep ==
  ASSUME IInv, NEW k \in Keys,
         \/ Invalidate(k)
         \/ \E t \in Texts : ComputePanics(k, t)
  PROVE  IInv'
  <1>. DEFINE D == cached \ {k}
  <1>1. entries' = Restrict(entries, D)
    BY DEF Invalidate, ComputePanics, without
  <1>2. clock <= clock' /\ clock' \in 0..MaxClock
    <2>1. clock \in 0..MaxClock /\ clock \in Nat
      BY CacheAssumption DEF IInv, CacheTypeOK
    <2>. QED  BY <2>1, TickForward DEF Invalidate, ComputePanics
  <1>3. answer' \in [key : Keys, source : Texts, value : Texts \cup {Nothing}] \cup {Nothing}
    BY DEF Invalidate, ComputePanics, IInv, CacheTypeOK
  <1>4. AnswersTheText'
    BY DEF Invalidate, ComputePanics, IInv, AnswersTheText
  <1>. QED  BY <1>1, <1>2, <1>3, <1>4, FewerInv DEF IInv, CacheTypeOK

LEMMA ClearStep ==
  ASSUME IInv, Clear
  PROVE  IInv'
  <1>1. entries' = <<>> /\ cached' = {} /\ UNCHANGED <<clock, answer>>
    BY DEF Clear, cached
  <1>2. entries' \in [cached' -> Entry]
    BY <1>1
  <1>3. EvictionDetermined'
    BY <1>1, FS_EmptySet, CacheAssumption DEF EvictionDetermined, capacity
  <1>. QED  BY <1>1, <1>2, <1>3 DEF IInv, CacheTypeOK, AnswersTheText, StampsPast

LEMMA Invariance == Spec => []IInv
  <1>1. Init => IInv
    <2>. SUFFICES ASSUME Init PROVE IInv
      OBVIOUS
    <2>1. entries = <<>> /\ cached = {} /\ clock = 0 /\ answer = Nothing
      BY DEF Init, cached
    <2>2. entries \in [cached -> Entry]
      BY <2>1
    <2>3. EvictionDetermined
      BY <2>1, FS_EmptySet, CacheAssumption DEF EvictionDetermined, capacity
    <2>. QED
      BY <2>1, <2>2, <2>3, CacheAssumption DEF IInv, CacheTypeOK, AnswersTheText, StampsPast
  <1>2. IInv /\ [Next]_vars => IInv'
    <2>1. ASSUME IInv, Next PROVE IInv'
      BY <2>1, HitStep, MissStep, DropStep, ClearStep DEF Next
    <2>2. ASSUME IInv, UNCHANGED vars PROVE IInv'
      BY <2>2
      DEF vars, IInv, CacheTypeOK, AnswersTheText, EvictionDetermined, StampsPast, cached
    <2>. QED  BY <2>1, <2>2
  <1>. QED  BY <1>1, <1>2, PTL DEF Spec

(* The types, and every entry's hash is that of the text it answers for.   *)
THEOREM CacheTypes == Spec => []CacheTypeOK
  BY Invariance, PTL DEF IInv

(* Whatever was cached, evicted, invalidated or panicked before, the       *)
(* answer is the analysis of a text with the hash of the text asked about. *)
THEOREM AnswerIsTheTexts == Spec => []AnswersTheText
  BY Invariance, PTL DEF IInv

(* The capacity is kept and the victim of an eviction is unique.           *)
THEOREM EvictionIsDetermined == Spec => []EvictionDetermined
  BY Invariance, PTL DEF IInv

-----------------------------------------------------------------------------
(* What the memo remembers is what the cache holds.                        *)
LEMMA Remembered ==
  ASSUME CacheTypeOK
  PROVE  /\ \A k \in cached : memory[k] = entries[k].value /\ memory[k] \in Texts
         /\ \A k \in Keys \ cached : memory[k] = Nothing
         /\ Memo!remembered = cached
         /\ \A k : Memo!others(k) = cached \ {k}
<1>1. \A k \in cached : k \in Keys /\ memory[k] = entries[k].value /\ memory[k] \in Texts
  BY DEF CacheTypeOK, Entry, memory
<1>2. \A k \in Keys \ cached : memory[k] = Nothing
  BY DEF memory
<1>3. Memo!remembered = cached
  BY <1>1, <1>2, CacheAssumption DEF Memo!remembered
<1> QED
  BY <1>1, <1>2, <1>3 DEF Memo!others

(* The memo's module has its own instance of the cardinality.               *)
LEMMA OneCardinality == \A S : Memo!Cardinality(S) = Cardinality(S)
  BY DEF Memo!Cardinality, Cardinality

LEMMA KnownIsHit ==
  ASSUME CacheTypeOK, NEW k \in Keys, NEW t \in Texts
  PROVE  Memo!Known(k, t) <=> hit(k, t)
  BY Remembered DEF Memo!Known, hit, CacheTypeOK

(* Later stamps and lost entries leave the order of the others.            *)
LEMMA OrderKept ==
  ASSUME NEW K \in SUBSET cached, cached' = K,
         \A j \in K : entries'[j].last_used = entries[j].last_used
  PROVE  usedBefore' = Memo!InOrder(K)
  BY DEF usedBefore, Memo!InOrder

LEMMA AskedLast ==
  ASSUME IInv, NEW K \in SUBSET cached, NEW k, k \notin K, cached' = K \cup {k},
         \A j \in K : entries'[j].last_used = entries[j].last_used,
         entries'[k].last_used = clock + 1
  PROVE  usedBefore' = Memo!ThenAsked(K, k)
<1>1. clock \in Nat /\ \A j \in K : entries[j].last_used \in Nat /\ entries[j].last_used <= clock
  BY CacheAssumption DEF IInv, CacheTypeOK, Entry, StampsPast
<1>2. ASSUME NEW i \in K, NEW j \in K
      PROVE  <<i, j>> \in usedBefore' <=> <<i, j>> \in usedBefore
  BY DEF usedBefore
<1>3. ASSUME NEW i \in K PROVE <<i, k>> \in usedBefore' /\ <<k, i>> \notin usedBefore'
  BY <1>1 DEF usedBefore
<1>4. <<k, k>> \notin usedBefore'
  BY <1>1 DEF usedBefore
<1>5. usedBefore' \subseteq (K \cup {k}) \X (K \cup {k})
  BY DEF usedBefore
<1>6. /\ Memo!ThenAsked(K, k) = (usedBefore \cap (K \X K)) \cup (K \X {k})
      /\ \A x \in (K \cup {k}) \X (K \cup {k}) : x = <<x[1], x[2]>>
  BY DEF Memo!ThenAsked, Memo!InOrder
<1>7. Memo!ThenAsked(K, k) \subseteq (K \cup {k}) \X (K \cup {k})
  BY <1>6
<1>8. ASSUME NEW i \in K \cup {k}, NEW j \in K \cup {k}
      PROVE  <<i, j>> \in usedBefore' <=> <<i, j>> \in Memo!ThenAsked(K, k)
  BY <1>2, <1>3, <1>4, <1>6
<1>9. PICK U, V : U = usedBefore' /\ V = Memo!ThenAsked(K, k)
  OBVIOUS
<1> QED
  BY <1>5, <1>7, <1>8, <1>9

LEMMA HitRecalls ==
  ASSUME IInv, NEW k \in Keys, NEW t \in Texts, Hit(k, t)
  PROVE  Memo!Recall(k, t)
<1>1. /\ clock' = clock + 1 /\ k \in cached /\ hit(k, t)
      /\ entries' = [entries EXCEPT ![k].last_used = clock']
      /\ answer' = [key |-> k, source |-> t, value |-> entries[k].value]
  BY TickForward DEF Hit, hit, touched
<1>2. CacheTypeOK /\ entries \in [cached -> Entry]
  BY DEF IInv, CacheTypeOK
<1>3. /\ cached' = cached
      /\ \A j \in cached : entries'[j].value = entries[j].value
      /\ entries'[k].last_used = clock + 1
      /\ \A j \in cached \ {k} : entries'[j].last_used = entries[j].last_used
  BY <1>1, <1>2 DEF cached, Entry
<1>4. memory' = memory
  BY <1>3 DEF memory
<1>5. usedBefore' = Memo!ThenAsked(cached \ {k}, k)
  BY <1>1, <1>3, AskedLast
<1>6. Memo!Known(k, t) /\ Memo!others(k) = cached \ {k} /\ memory[k] = entries[k].value
  BY <1>1, <1>2, KnownIsHit, Remembered
<1> QED
  BY <1>1, <1>4, <1>5, <1>6 DEF Memo!Recall, Memo!Answer

(* Of the entries without k those left are all, or all but the oldest.     *)
LEMMA VictimIsOldest ==
  ASSUME IInv, NEW k \in Keys, NEW es \in maybe_evict(without(k))
  PROVE  \/ Cardinality(cached \ {k}) < capacity /\ DOMAIN es = cached \ {k}
         \/ /\ Cardinality(cached \ {k}) >= capacity
            /\ \E first \in cached \ {k} :
                 /\ DOMAIN es = (cached \ {k}) \ {first}
                 /\ \A j \in (cached \ {k}) \ {first} : <<first, j>> \in usedBefore
<1>1. PICK kept : kept = without(k)
  OBVIOUS
<1>2. DOMAIN kept = cached \ {k} /\ \A j \in cached \ {k} : kept[j] = entries[j]
  BY <1>1 DEF without, Restrict
<1>3. Cardinality(cached \ {k}) \in Nat /\ capacity \in Nat
  BY CachedFinite, FS_Subset, FS_CardinalityType, CacheAssumption DEF IInv, capacity
<1>4. ASSUME Cardinality(cached \ {k}) < capacity PROVE DOMAIN es = cached \ {k}
  BY <1>1, <1>2, <1>4 DEF maybe_evict
<1>5. ASSUME ~(Cardinality(cached \ {k}) < capacity)
      PROVE  \E first \in cached \ {k} :
               /\ DOMAIN es = (cached \ {k}) \ {first}
               /\ \A j \in (cached \ {k}) \ {first} : <<first, j>> \in usedBefore
  <2>1. PICK first \in oldest(kept) : es = Restrict(kept, DOMAIN kept \ {first})
    BY <1>1, <1>2, <1>5 DEF maybe_evict
  <2>2. first \in cached \ {k} /\ DOMAIN es = (cached \ {k}) \ {first}
    BY <1>2, <2>1 DEF oldest, Restrict
  <2>3. ASSUME NEW j \in (cached \ {k}) \ {first} PROVE <<first, j>> \in usedBefore
    <3>1. entries[first].last_used <= entries[j].last_used
      BY <1>2, <2>1, <2>2 DEF oldest
    <3>2. entries[first].last_used # entries[j].last_used
      BY <2>2 DEF IInv, EvictionDetermined
    <3>3. entries[first].last_used \in Nat /\ entries[j].last_used \in Nat
      BY <2>2 DEF IInv, CacheTypeOK, Entry
    <3> QED
      BY <2>2, <3>1, <3>2, <3>3 DEF usedBefore
  <2> QED
    BY <2>2, <2>3
<1> QED
  BY <1>3, <1>4, <1>5

LEMMA MissLearns ==
  ASSUME IInv, NEW k \in Keys, NEW t \in Texts, Miss(k, t)
  PROVE  Memo!Learn(k, t)
<1>1. /\ clock' = clock + 1 /\ answer' = [key |-> k, source |-> t, value |-> t]
      /\ ~Memo!Known(k, t) /\ Memo!others(k) = cached \ {k}
  BY TickForward, KnownIsHit, Remembered DEF Miss, IInv
<1>2. PICK es \in maybe_evict(without(k)) :
        entries' = [j \in DOMAIN es \cup {k} |-> IF j = k THEN newEntry(k, t) ELSE es[j]]
  BY DEF Miss
<1>3. PICK K \in SUBSET (cached \ {k}) :
        K = DOMAIN es /\ \A j \in K : es[j] = entries[j]
  BY RoomMade
<1>4. /\ cached' = K \cup {k}
      /\ \A j \in K : entries'[j] = entries[j]
      /\ entries'[k].last_used = clock + 1 /\ entries'[k].value = t
  BY <1>1, <1>2, <1>3 DEF cached, newEntry
<1>5. usedBefore' = Memo!ThenAsked(K, k)
  BY <1>3, <1>4, AskedLast
<1>6. /\ memory' = [j \in Keys |-> IF j = k THEN t ELSE IF j \in K THEN entries[j].value ELSE Nothing]
      /\ memory = [j \in Keys |-> IF j \in cached THEN entries[j].value ELSE Nothing]
  BY <1>3, <1>4 DEF memory
<1>7. ASSUME Cardinality(cached \ {k}) < capacity, K = cached \ {k} PROVE Memo!Learn(k, t)
  <2>1. memory' = [memory EXCEPT ![k] = t]
    BY <1>6, <1>7
  <2>2. usedBefore' = Memo!ThenAsked(Memo!others(k), k) /\ Memo!Cardinality(Memo!others(k)) < capacity
    BY <1>1, <1>5, <1>7, OneCardinality
  <2>3. Memo!Answer(k, t, t)
    BY <1>1 DEF Memo!Answer
  <2> QED
    BY <1>1, <2>1, <2>2, <2>3, Zenon DEF Memo!Learn
<1>8. ASSUME Cardinality(cached \ {k}) >= capacity,
             NEW first \in cached \ {k}, K = (cached \ {k}) \ {first},
             \A j \in (cached \ {k}) \ {first} : <<first, j>> \in usedBefore
      PROVE  Memo!Learn(k, t)
  <2>1. memory' = [memory EXCEPT ![k] = t, ![first] = Nothing]
    BY <1>6, <1>8
  <2>2. /\ usedBefore' = Memo!ThenAsked(Memo!others(k) \ {first}, k)
        /\ Memo!Cardinality(Memo!others(k)) >= capacity /\ first \in Memo!others(k)
        /\ \A j \in Memo!others(k) \ {first} : <<first, j>> \in usedBefore
    BY <1>1, <1>5, <1>8, OneCardinality
  <2>3. Memo!Answer(k, t, t)
    BY <1>1 DEF Memo!Answer
  <2> QED
    BY <1>1, <2>1, <2>2, <2>3, Zenon DEF Memo!Learn
<1> QED
  BY <1>3, <1>7, <1>8, VictimIsOldest

(* A panic of the computation and `invalidate` both forget the key.        *)
LEMMA DropForgets ==
  ASSUME IInv, NEW k \in Keys, entries' = without(k)
  PROVE  Memo!Forgotten(k)
<1>1. cached' = cached \ {k} /\ \A j \in cached \ {k} : entries'[j] = entries[j]
  BY DEF cached, without, Restrict
<1>2. usedBefore' = Memo!InOrder(cached \ {k})
  BY <1>1, OrderKept
<1>3. memory' = [memory EXCEPT ![k] = Nothing]
  BY <1>1 DEF memory
<1>4. Memo!others(k) = cached \ {k}
  BY Remembered DEF IInv
<1> QED
  BY <1>2, <1>3, <1>4 DEF Memo!Forgotten

LEMMA MemoStep == ASSUME IInv, Next PROVE Memo!Next
<1>1. ASSUME NEW k \in Keys, NEW t \in Texts, Hit(k, t) PROVE Memo!Recall(k, t)
  BY <1>1, HitRecalls
<1>2. ASSUME NEW k \in Keys, NEW t \in Texts, Miss(k, t) PROVE Memo!Learn(k, t)
  BY <1>2, MissLearns
<1>3. ASSUME NEW k \in Keys, NEW t \in Texts, ComputePanics(k, t) PROVE Memo!Fail(k, t)
  <2>1. ~Memo!Known(k, t)
    BY <1>3, KnownIsHit DEF ComputePanics, IInv
  <2> QED
    BY <1>3, <2>1, DropForgets DEF ComputePanics, Memo!Fail, Memo!Answer
<1>4. ASSUME NEW k \in Keys, Invalidate(k) PROVE Memo!Forget(k)
  <2>1. k \in Memo!remembered
    BY <1>4, Remembered DEF Invalidate, IInv
  <2> QED
    BY <1>4, <2>1, DropForgets DEF Invalidate, Memo!Forget
<1>5. ASSUME Clear PROVE Memo!ForgetAll
  <2>1. cached' = {} /\ answer' = answer
    BY <1>5 DEF Clear, cached
  <2>2. usedBefore' = {} /\ memory' = [k \in Keys |-> Nothing]
    BY <2>1 DEF usedBefore, memory
  <2> QED
    BY <2>1, <2>2 DEF Memo!ForgetAll
<1> QED
  BY <1>1, <1>2, <1>3, <1>4, <1>5 DEF Next, Memo!Next

(* Whatever hits, misses, panics, invalidations and clears come in what    *)
(* order, the stamps of `get_or_analyze` and `maybe_evict` keep the order  *)
(* of the last uses: only when a key is learned and the cache is full is   *)
(* another forgotten, the one used longest ago.                            *)
THEOREM KeepsRecency == Spec => ForgetsLeastRecent
<1>1. Init => Memo!Init
  <2>1. ASSUME Init PROVE cached = {} /\ answer = Nothing
    BY <2>1 DEF Init, cached
  <2>2. ASSUME Init PROVE usedBefore = {} /\ memory = [k \in Keys |-> Nothing]
    BY <2>1, <2>2 DEF usedBefore, memory
  <2> QED
    BY <2>1, <2>2 DEF Memo!Init
<1>2. IInv /\ [Next]_vars => [Memo!Next]_(Memo!vars)
  <2>1. ASSUME UNCHANGED vars PROVE UNCHANGED Memo!vars
    BY <2>1 DEF vars, Memo!vars, usedBefore, memory, cached
  <2> QED
    BY <2>1, MemoStep
<1> QED
  BY <1>1, <1>2, Invariance, PTL DEF Spec, ForgetsLeastRecent, Memo!Spec

(* ---- the fixes of the auth gap and reentrancy rules ---- *)
\* The recursion a fold over a sequence unfolds to has a solution.
LoopTable(D, V, base, step, g) ==
  /\ g \in [SUBSET D -> V]
  /\ \A s \in SUBSET D : g[s] = IF s = {} THEN base ELSE step[Max(s)][g[s \ {Max(s)}]]

LEMMA LoopRuns ==
  ASSUME NEW D, IsFiniteSet(D), D \subseteq Int, NEW V, NEW base \in V,
         NEW step, \A x \in D : \A v \in V : step[x][v] \in V
  PROVE  \E g : LoopTable(D, V, base, step, g)
<1>1. \A s \in SUBSET D : s # {} => Max(s) \in s
  BY MaxIsMember
<1>2. PICK p : p = [s \in SUBSET D |-> Max(s)]
  OBVIOUS
<1>3. PICK st : st = [s \in SUBSET D |-> step[Max(s)]]
  OBVIOUS
<1>4. PicksFrom(D, p)
  BY <1>1, <1>2 DEF PicksFrom
<1>5. StepsIn(D, V, st)
  BY <1>1, <1>3 DEF StepsIn
<1>6. PICK g : Iterates(D, V, base, p, st, g)
  BY <1>4, <1>5, RecursionOnSubsets
<1> QED
  BY <1>2, <1>3, <1>6 DEF Iterates, LoopTable

Events == StorageWrites \cup ExternalCalls \cup PanicEvents \cup PlainOps \cup MathCalls
            \cup {"localset", "ttl", "has", "auth", "publish", "call", "narrow", "subscript"}
Statement == [ev : Events, under : SUBSET Syntax]
SourceFn == [name : STRING, item : Items, pub : BOOLEAN, test : BOOLEAN, result : BOOLEAN,
             body : Seq(Statement)]
Contract == Seq(SourceFn)

\* The state of the reentrancy walker.
WalkState == [mutated : BOOLEAN, guarded : BOOLEAN, found : SUBSET Nat]
NothingMet == [mutated |-> FALSE, guarded |-> FALSE, found |-> {}]

Walks(seq, it) ==
  it = [s \in SUBSET DOMAIN seq |-> IF s = {} THEN NothingMet
          ELSE LET x == Max(s) IN ReentrancyStep(it[s \ {x}], seq[x])]

LEMMA WalkIsIterated ==
  ASSUME NEW body
  PROVE  ReentrancyScan(body)
           = (CHOOSE it : Walks(Numbered(body), it))[DOMAIN Numbered(body)].found
  BY DEF ReentrancyScan, FoldLeft, MapThenFoldSet, Walks, NothingMet

Marked(body, j, E) == Sees(ReentrancyWalker, body[j]) /\ body[j].ev \in E

LEMMA WalkStepTyped ==
  ASSUME NEW st \in WalkState, NEW n \in [at : Nat, stmt : Statement]
  PROVE  ReentrancyStep(st, n) \in WalkState
<1>1. PICK m \in BOOLEAN, g \in BOOLEAN, f \in SUBSET Nat :
        st = [mutated |-> m, guarded |-> g, found |-> f]
  BY DEF WalkState
<1>2. PICK p \in BOOLEAN : p = (m \/ n.stmt.ev \in ReentrancyMutates)
  BY Zenon
<1>3. PICK q \in BOOLEAN : q = (g \/ n.stmt.ev \in {"lock", "lockpanic"})
  BY Zenon
<1>4. PICK h \in SUBSET Nat :
        h = f \cup IF n.stmt.ev = "invoke" /\ m /\ ~g THEN {n.at} ELSE {}
  OBVIOUS
<1>5. [mutated |-> p, guarded |-> q, found |-> h] \in WalkState
  BY DEF WalkState
<1>6. st.mutated = m /\ st.guarded = g /\ st.found = f
  BY <1>1
<1>7. \/ ReentrancyStep(st, n) = st
      \/ ReentrancyStep(st, n) = [mutated |-> p, guarded |-> q, found |-> h]
  BY <1>2, <1>3, <1>4, <1>6, Zenon DEF ReentrancyStep
<1> QED
  BY <1>5, <1>7

LEMMA WalkTraced ==
  ASSUME NEW body \in Seq(Statement)
  PROVE  \E tr : /\ tr[0] = NothingMet
                 /\ \A k \in 1..Len(body) :
                      tr[k] = ReentrancyStep(tr[k - 1], [at |-> k, stmt |-> body[k]])
                 /\ ReentrancyScan(body) = tr[Len(body)].found
<1>1. PICK n, D : n \in Nat /\ n = Len(body) /\ D = 1..n /\ DOMAIN body = D
  OBVIOUS
<1>2. PICK seq : seq = Numbered(body)
  OBVIOUS
<1>3. DOMAIN seq = D /\ \A x \in D : /\ seq[x] = [at |-> x, stmt |-> body[x]]
                                     /\ seq[x] \in [at : Nat, stmt : Statement]
  BY <1>1, <1>2 DEF Numbered
<1>4. IsFiniteSet(D) /\ D \subseteq Int
  BY <1>1, FS_Interval
<1>5. PICK st : st = [x \in D |-> [v \in WalkState |-> ReentrancyStep(v, seq[x])]]
  OBVIOUS
<1>6. \A x \in D : \A v \in WalkState : st[x][v] = ReentrancyStep(v, seq[x]) /\ st[x][v] \in WalkState
  BY <1>3, <1>5, WalkStepTyped
<1>7. NothingMet \in WalkState
  BY Zenon DEF NothingMet, WalkState
<1>8. PICK g : LoopTable(D, WalkState, NothingMet, st, g)
  <2>1. \A x \in D : \A v \in WalkState : st[x][v] \in WalkState
    BY <1>6
  <2> QED
    BY <1>4, <1>7, <2>1, LoopRuns
<1>9. \A s \in SUBSET D : s # {} => Max(s) \in s
  BY <1>4, MaxIsMember
<1>10. \A s \in SUBSET D : g[s] = IF s = {} THEN NothingMet
                                   ELSE ReentrancyStep(g[s \ {Max(s)}], seq[Max(s)])
  <2> SUFFICES ASSUME NEW s \in SUBSET D, s # {}
               PROVE  g[s] = ReentrancyStep(g[s \ {Max(s)}], seq[Max(s)])
    BY <1>8 DEF LoopTable
  <2>1. g[s \ {Max(s)}] \in WalkState /\ Max(s) \in D
    BY <1>8, <1>9 DEF LoopTable
  <2> QED
    BY <1>6, <1>8, <2>1 DEF LoopTable
<1>11. Walks(seq, g)
  BY <1>3, <1>8, <1>10 DEF Walks, LoopTable
<1>12. PICK it : it = CHOOSE h : Walks(seq, h)
  OBVIOUS
<1>13. Walks(seq, it)
  BY <1>11, <1>12
<1>14. PICK tr : tr = [k \in 0..n |-> it[1..k]]
  OBVIOUS
<1>15. tr[0] = NothingMet
  BY <1>1, <1>3, <1>13, <1>14 DEF Walks
<1>16. ASSUME NEW k \in 1..n PROVE tr[k] = ReentrancyStep(tr[k - 1], [at |-> k, stmt |-> body[k]])
  <2>1. Max(1..k) = k /\ (1..k) \ {k} = 1..(k - 1) /\ 1..k # {} /\ 1..k \in SUBSET D
    BY <1>1, MaxOfInterval
  <2>2. \A s \in SUBSET D : s # {} => it[s] = ReentrancyStep(it[s \ {Max(s)}], seq[Max(s)])
    BY <1>3, <1>13 DEF Walks
  <2>4. it[1..k] = ReentrancyStep(it[1..(k - 1)], seq[k])
    BY <2>1, <2>2
  <2>3. tr[k] = it[1..k] /\ tr[k - 1] = it[1..(k - 1)] /\ k \in D
    BY <1>1, <1>14
  <2> QED
    BY <1>3, <2>3, <2>4
<1>17. ReentrancyScan(body) = tr[n].found
  BY <1>1, <1>2, <1>3, <1>12, <1>14, WalkIsIterated
<1> QED
  BY <1>1, <1>15, <1>16, <1>17

\* What the walker has met up to position k, and the calls it enters after a
\* mutation and no lock.
Locks == {"lock", "lockpanic"}
Met(body, k, E) == \E j \in 1..k : Marked(body, j, E)
Entered(body, k) ==
  {j \in 1..k : Marked(body, j, {"invoke"}) /\ Met(body, j - 1, ReentrancyMutates)
                /\ ~Met(body, j - 1, Locks)}

LEMMA MetNext ==
  ASSUME NEW k \in Nat, k # 0, NEW body, NEW E
  PROVE  Met(body, k, E) <=> Met(body, k - 1, E) \/ Marked(body, k, E)
  BY DEF Met

LEMMA EnteredNext ==
  ASSUME NEW k \in Nat, k # 0, NEW body
  PROVE  Entered(body, k) = Entered(body, k - 1) \cup
           IF /\ Marked(body, k, {"invoke"}) /\ Met(body, k - 1, ReentrancyMutates)
              /\ ~Met(body, k - 1, Locks)
           THEN {k} ELSE {}
<1>1. 1..k = 1..(k - 1) \cup {k}
  OBVIOUS
<1> QED
  BY <1>1, Zenon DEF Entered

LEMMA ScanFinds ==
  ASSUME NEW body \in Seq(Statement)
  PROVE  ReentrancyScan(body) = Entered(body, Len(body))
<1>1. PICK n, tr : /\ n \in Nat /\ n = Len(body) /\ tr[0] = NothingMet
                   /\ \A k \in 1..n :
                        tr[k] = ReentrancyStep(tr[k - 1], [at |-> k, stmt |-> body[k]])
                   /\ ReentrancyScan(body) = tr[n].found
  BY WalkTraced
<1> DEFINE M(k) == [mutated |-> Met(body, k, ReentrancyMutates),
                    guarded |-> Met(body, k, Locks), found |-> Entered(body, k)]
           G == {k \in Nat : k <= n => tr[k] = M(k)}
<1>2. 0 \in G
  <2>1. /\ Met(body, 0, ReentrancyMutates) = FALSE /\ Met(body, 0, Locks) = FALSE
        /\ Entered(body, 0) = {}
    BY DEF Met, Entered
  <2> QED
    BY <1>1, <2>1 DEF NothingMet
<1>3. ASSUME NEW k \in Nat, k \in G PROVE k + 1 \in G
  <2> SUFFICES ASSUME k + 1 <= n PROVE tr[k + 1] = M(k + 1)
    OBVIOUS
  <2>1. PICK h \in Nat : h = k + 1 /\ h # 0 /\ h - 1 = k /\ h \in 1..n
    OBVIOUS
  <2>2. tr[h] = ReentrancyStep(M(k), [at |-> h, stmt |-> body[h]])
    BY <1>1, <1>3, <2>1
  <2>3. PICK m, g, f : m = Met(body, k, ReentrancyMutates) /\ g = Met(body, k, Locks)
                       /\ f = Entered(body, k)
    OBVIOUS
  <2>4. PICK see : see = Sees(ReentrancyWalker, body[h])
    OBVIOUS
  <2>5. /\ Met(body, h, ReentrancyMutates) = (m \/ (see /\ body[h].ev \in ReentrancyMutates))
        /\ Met(body, h, Locks) = (g \/ (see /\ body[h].ev \in Locks))
        /\ Entered(body, h) = f \cup IF see /\ body[h].ev = "invoke" /\ m /\ ~g THEN {h} ELSE {}
    BY <2>1, <2>3, <2>4, MetNext, EnteredNext, Zenon DEF Marked, Met
  <2>6. M(k) = [mutated |-> m, guarded |-> g, found |-> f]
    BY <2>3, Zenon
  <2>7. tr[h] = M(h)
    <3>1. PICK st, x : st = M(k) /\ x = [at |-> h, stmt |-> body[h]]
      OBVIOUS
    <3>2. /\ x.at = h /\ x.stmt = body[h]
          /\ st.mutated = m /\ st.guarded = g /\ st.found = f
      BY <2>6, <3>1
    <3>3. tr[h] = ReentrancyStep(st, x)
      BY <2>2, <3>1
    <3>4. ASSUME ~see PROVE tr[h] = M(h)
      <4>1. tr[h] = st
        BY <2>4, <3>2, <3>3, <3>4, Zenon DEF ReentrancyStep
      <4>2. /\ Met(body, h, ReentrancyMutates) = m /\ Met(body, h, Locks) = g
            /\ Entered(body, h) = f
        <5>1. Entered(body, h) = f
          BY <2>5, <3>4
        <5>2. Met(body, h, ReentrancyMutates) <=> m
          BY <2>5, <3>4, Zenon
        <5>3. Met(body, h, Locks) <=> g
          BY <2>5, <3>4, Zenon
        <5>4. m \in BOOLEAN /\ g \in BOOLEAN
          BY <2>3, Zenon DEF Met
        <5> QED
          BY <5>1, <5>2, <5>3, <5>4, Zenon DEF Met
      <4> QED
        BY <2>6, <3>1, <4>1, <4>2, Zenon
    <3>5. ASSUME see PROVE tr[h] = M(h)
      <4>1. tr[h] = [mutated |-> m \/ body[h].ev \in ReentrancyMutates,
                     guarded |-> g \/ body[h].ev \in Locks,
                     found |-> f \cup IF body[h].ev = "invoke" /\ m /\ ~g THEN {h} ELSE {}]
        BY <2>4, <3>2, <3>3, <3>5, Zenon DEF ReentrancyStep, Locks
      <4>2. Met(body, h, ReentrancyMutates) = (m \/ body[h].ev \in ReentrancyMutates)
        BY <2>5, <3>5, Zenon
      <4>3. Met(body, h, Locks) = (g \/ body[h].ev \in Locks)
        BY <2>5, <3>5, Zenon
      <4>4. Entered(body, h) = f \cup IF body[h].ev = "invoke" /\ m /\ ~g THEN {h} ELSE {}
        BY <2>5, <3>5, Zenon
      <4> QED
        BY <4>1, <4>2, <4>3, <4>4, Zenon
    <3>6. see \in BOOLEAN
      BY <2>4, Zenon DEF Sees
    <3> QED
      BY <3>4, <3>5, <3>6, Zenon
  <2> QED
    BY <2>1, <2>7
<1>4. Nat \subseteq G
  <2> HIDE DEF G
  <2> QED
    BY <1>2, <1>3, NumbersByInduction
<1>5. tr[n] = M(n)
  BY <1>1, <1>4
<1> QED
  BY <1>1, <1>5

LEMMA SameSize ==
  ASSUME NEW S, NEW T, IsFiniteSet(S), NEW f \in [S -> T],
         \A x, y \in S : f[x] = f[y] => x = y, \A y \in T : \E x \in S : f[x] = y
  PROVE  IsFiniteSet(T) /\ Cardinality(T) = Cardinality(S)
<1>1. f \in Bijection(S, T)
  BY DEF Bijection, Injection, Surjection, IsInjective
<1> QED
  BY <1>1, FS_Bijection DEF ExistsBijection

\* What the two fixes insert, and where the statements of a body go.
LEMMA NewStatements ==
  /\ Stmt("auth", {}) \in Statement /\ Stmt("lock", {}) \in Statement
  /\ Stmt("lockpanic", {"branch"}) \in Statement
<1>1. {"branch"} \in SUBSET Syntax /\ {} \in SUBSET Syntax
  BY DEF Syntax
<1>2. "auth" \in Events /\ "lock" \in Events /\ "lockpanic" \in Events
  BY DEF Events, StorageWrites, PanicEvents
<1> QED
  BY <1>1, <1>2 DEF Stmt, Statement

LEMMA AuthPut ==
  ASSUME NEW body \in Seq(Statement), NEW b, b = <<Stmt("auth", {})>> \o body
  PROVE  /\ b \in Seq(Statement) /\ Len(b) = Len(body) + 1 /\ b[1] = Stmt("auth", {})
         /\ \A j \in 1..Len(body) : b[j + 1] = body[j]
<1>1. PICK n \in Nat, a \in Statement : n = Len(body) /\ a = Stmt("auth", {})
  BY NewStatements
<1>2. PICK s \in Seq(Statement) : s = <<a>> /\ Len(s) = 1 /\ s[1] = a
  <2>1. <<a>> \in Seq(Statement) /\ Len(<<a>>) = 1 /\ <<a>>[1] = a
    OBVIOUS
  <2> QED
    BY <2>1, Zenon
<1>3. b = s \o body
  BY <1>1, <1>2
<1>4. b \in Seq(Statement)
  BY <1>3, ConcatProperties
<1>5. Len(b) = n + 1
  BY <1>1, <1>2, <1>3, ConcatProperties
<1>6. \A i \in 1..(1 + n) : b[i] = IF i <= 1 THEN s[i] ELSE body[i - 1]
  BY <1>1, <1>2, <1>3, ConcatProperties
<1> QED
  BY <1>1, <1>2, <1>4, <1>5, <1>6

\* A sequence z of k positions of x and then m of y; one of three pieces.
Joined(x, y, k, m, z) == \A i \in 1..(k + m) : z[i] = IF i <= k THEN x[i] ELSE y[i - k]
Pieced(x, y, z, k, m, n, b) ==
  /\ \A i \in 1..k : b[i] = x[i]
  /\ \A i \in 1..m : b[k + i] = y[i]
  /\ \A i \in 1..n : b[k + m + i] = z[i]

LEMMA JoinedTwice ==
  ASSUME NEW k \in Nat, NEW m \in Nat, NEW n \in Nat, NEW x, NEW y, NEW z, NEW a, NEW b,
         Joined(x, y, k, m, a), Joined(a, z, k + m, n, b)
  PROVE  Pieced(x, y, z, k, m, n, b)
<1>1. \A i \in 1..k : b[i] = x[i]
  <2> SUFFICES ASSUME NEW i \in 1..k PROVE b[i] = x[i]
    OBVIOUS
  <2>1. i \in 1..(k + m) /\ i \in 1..((k + m) + n) /\ i <= k /\ i <= k + m
    OBVIOUS
  <2> QED
    BY <2>1 DEF Joined
<1>2. ASSUME NEW i \in 1..m PROVE b[k + i] = y[i]
  <2>1. k + i \in 1..(k + m) /\ k + i \in 1..((k + m) + n) /\ ~(k + i <= k) /\ (k + i) - k = i
        /\ k + i <= k + m
    OBVIOUS
  <2> QED
    BY <2>1 DEF Joined
<1>3. ASSUME NEW i \in 1..n PROVE b[k + m + i] = z[i]
  <2>1. /\ k + m + i \in 1..((k + m) + n) /\ ~(k + m + i <= k + m)
        /\ (k + m + i) - (k + m) = i
    OBVIOUS
  <2> QED
    BY <2>1 DEF Joined
<1> QED
  BY <1>1, <1>2, <1>3 DEF Pieced

LEMMA Concatenates ==
  ASSUME NEW S, NEW x \in Seq(S), NEW y \in Seq(S)
  PROVE  /\ x \o y \in Seq(S) /\ Len(x \o y) = Len(x) + Len(y)
         /\ Joined(x, y, Len(x), Len(y), x \o y)
<1>1. x \o y \in Seq(S)
  BY ConcatProperties
<1>2. Len(x \o y) = Len(x) + Len(y)
  BY ConcatProperties
<1>3. Joined(x, y, Len(x), Len(y), x \o y)
  BY ConcatProperties, Zenon DEF Joined
<1> QED
  BY <1>1, <1>2, <1>3

LEMMA Spliced ==
  ASSUME NEW S, NEW pre \in Seq(S), NEW mid \in Seq(S), NEW post \in Seq(S)
  PROVE  LET b == (pre \o mid) \o post IN
         /\ b \in Seq(S) /\ Len(b) = (Len(pre) + Len(mid)) + Len(post)
         /\ Pieced(pre, mid, post, Len(pre), Len(mid), Len(post), b)
<1>1. PICK a, b : a = pre \o mid /\ b = a \o post
  OBVIOUS
<1>2. a \in Seq(S) /\ Len(a) = Len(pre) + Len(mid) /\ Joined(pre, mid, Len(pre), Len(mid), a)
  BY <1>1, Concatenates, Zenon
<1>3. b \in Seq(S) /\ Len(b) = Len(a) + Len(post) /\ Joined(a, post, Len(a), Len(post), b)
  BY <1>1, <1>2, Concatenates, Zenon
<1>4. Len(pre) \in Nat /\ Len(mid) \in Nat /\ Len(post) \in Nat
  OBVIOUS
<1>5. Joined(a, post, Len(pre) + Len(mid), Len(post), b)
  BY <1>2, <1>3, Zenon
<1>6. Pieced(pre, mid, post, Len(pre), Len(mid), Len(post), b)
  BY <1>2, <1>4, <1>5, JoinedTwice, Zenon
<1> QED
  BY <1>1, <1>2, <1>3, <1>6, Zenon

Shift(g, j) == IF j < g THEN j ELSE IF j = g THEN g + 2 ELSE j + 3

\* The pieces of a body of n statements around its g-th, and what it becomes.
SplitAt(body, g, n, pre, mid, post) ==
  /\ \A i \in 1..(g - 1) : pre[i] = body[i]
  /\ \A i \in 1..(n - g) : post[i] = body[g + i]
  /\ mid[3] = body[g]
Shifted(body, g, n, b) == \A j \in 1..n : b[Shift(g, j)] = body[j]
Enclosed(b, g, mid) == b[g] = mid[1] /\ b[g + 1] = mid[2] /\ b[g + 3] = mid[4]

LEMMA PositionsShifted ==
  ASSUME NEW n \in Nat, NEW g \in 1..n, NEW body, NEW b, NEW pre, NEW mid, NEW post,
         SplitAt(body, g, n, pre, mid, post), Pieced(pre, mid, post, g - 1, 4, n - g, b)
  PROVE  Enclosed(b, g, mid) /\ Shifted(body, g, n, b)
<1>0. PICK k \in Nat, m \in Nat : /\ k = g - 1 /\ m = n - g /\ g = k + 1 /\ g + 1 = k + 2
                                  /\ g + 2 = k + 3 /\ g + 3 = k + 4
  <2>1. g - 1 \in Nat /\ n - g \in Nat
    OBVIOUS
  <2> QED
    BY <2>1
<1>1. /\ \A i \in 1..k : b[i] = pre[i]
      /\ \A i \in 1..4 : b[k + i] = mid[i]
      /\ \A i \in 1..m : b[k + 4 + i] = post[i]
  BY <1>0 DEF Pieced
<1>2. /\ \A i \in 1..k : pre[i] = body[i]
      /\ \A i \in 1..m : post[i] = body[g + i]
      /\ mid[3] = body[g]
  BY <1>0 DEF SplitAt
<1>3. b[g] = mid[1] /\ b[g + 1] = mid[2] /\ b[g + 2] = mid[3] /\ b[g + 3] = mid[4]
  <2>1. b[k + 1] = mid[1] /\ b[k + 2] = mid[2] /\ b[k + 3] = mid[3] /\ b[k + 4] = mid[4]
    BY <1>1
  <2> QED
    BY <1>0, <2>1
<1>4. ASSUME NEW j \in 1..n PROVE b[Shift(g, j)] = body[j]
  <2>1. ASSUME j < g PROVE b[j] = body[j]
    <3>1. j \in 1..k
      BY <1>0, <2>1
    <3> QED
      BY <1>1, <1>2, <3>1
  <2>2. ASSUME j > g PROVE b[j + 3] = body[j]
    <3>1. PICK i \in 1..m : i = j - g /\ g + i = j /\ k + 4 + i = j + 3
      BY <1>0, <2>2
    <3>2. b[k + 4 + i] = post[i] /\ post[i] = body[g + i]
      BY <1>1, <1>2
    <3> QED
      BY <3>1, <3>2
  <2>3. j < g \/ j = g \/ j > g
    OBVIOUS
  <2> QED
    BY <1>2, <1>3, <2>1, <2>2, <2>3 DEF Shift
<1> QED
  BY <1>3, <1>4 DEF Shifted, Enclosed

LEMMA GuardLengths ==
  ASSUME NEW n \in Nat, NEW g \in 1..n
  PROVE  g - 1 \in Nat /\ n - g \in Nat /\ ((g - 1) + 4) + (n - g) = n + 3
  OBVIOUS

LEMMA GuardPut ==
  ASSUME NEW body \in Seq(Statement), NEW g \in 1..Len(body), g = GuardPoint(body),
         NEW b, b = Guarded(body)
  PROVE  /\ b \in Seq(Statement) /\ Len(b) = Len(body) + 3
         /\ b[g] = Stmt("lockpanic", {"branch"})
         /\ b[g + 1] = Stmt("lock", {}) /\ b[g + 3] = Stmt("lock", {})
         /\ Shifted(body, g, Len(body), b)
<1>1. PICK n \in Nat : n = Len(body) /\ g \in 1..n /\ \A i \in 1..n : body[i] \in Statement
  OBVIOUS
<1>2. PICK pre \in Seq(Statement) : pre = SubSeq(body, 1, g - 1) /\ Len(pre) = g - 1
                                    /\ \A i \in 1..(g - 1) : pre[i] = body[i]
  <2>1. SubSeq(body, 1, g - 1) \in Seq(Statement)
    BY <1>1, SubSeqProperties
  <2>2. Len(SubSeq(body, 1, g - 1)) = g - 1
    BY <1>1, SubSeqProperties
  <2>3. \A i \in 1..(g - 1) : SubSeq(body, 1, g - 1)[i] = body[i]
    BY <1>1, SubSeqProperties
  <2> QED
    BY <2>1, <2>2, <2>3
<1>3. PICK post \in Seq(Statement) : post = SubSeq(body, g + 1, n) /\ Len(post) = n - g
                                     /\ \A i \in 1..(n - g) : post[i] = body[g + i]
  <2>1. SubSeq(body, g + 1, n) \in Seq(Statement)
    BY <1>1, SubSeqProperties
  <2>2. Len(SubSeq(body, g + 1, n)) = n - g
    BY <1>1, SubSeqProperties
  <2>3. \A i \in 1..(n - g) : SubSeq(body, g + 1, n)[i] = body[g + i]
    BY <1>1, SubSeqProperties
  <2> QED
    BY <2>1, <2>2, <2>3
<1>4. PICK p \in Statement, l \in Statement : p = Stmt("lockpanic", {"branch"}) /\ l = Stmt("lock", {})
  BY NewStatements
<1>5. PICK mid \in Seq(Statement) : mid = <<p, l, body[g], l>> /\ Len(mid) = 4
        /\ mid[1] = p /\ mid[2] = l /\ mid[3] = body[g] /\ mid[4] = l
  <2>1. PICK q \in Statement : q = body[g]
    BY <1>1
  <2>2. <<p, l, q, l>> \in Seq(Statement)
    OBVIOUS
  <2> QED
    BY <2>1, <2>2
<1>6. b = (pre \o mid) \o post
  BY <1>1, <1>2, <1>3, <1>4, <1>5 DEF Guarded
<1>7. /\ b \in Seq(Statement) /\ Len(b) = ((g - 1) + 4) + (n - g)
      /\ Pieced(pre, mid, post, g - 1, 4, n - g, b)
  <2>1. Len(pre) = g - 1 /\ Len(mid) = 4 /\ Len(post) = n - g
    BY <1>2, <1>3, <1>5, Zenon
  <2>2. LET c == (pre \o mid) \o post IN
        /\ c \in Seq(Statement) /\ Len(c) = (Len(pre) + Len(mid)) + Len(post)
        /\ Pieced(pre, mid, post, Len(pre), Len(mid), Len(post), c)
    BY Spliced
  <2> QED
    BY <1>6, <2>1, <2>2, Zenon
<1>8. Len(b) = n + 3
  BY <1>1, <1>7, GuardLengths, Zenon
<1>9. SplitAt(body, g, n, pre, mid, post)
  BY <1>2, <1>3, <1>5, Zenon DEF SplitAt
<1>10. Enclosed(b, g, mid) /\ Shifted(body, g, n, b)
  <2>1. n \in Nat /\ g \in 1..n
    BY <1>1
  <2>2. Pieced(pre, mid, post, g - 1, 4, n - g, b)
    BY <1>7
  <2> QED
    BY <1>9, <2>1, <2>2, PositionsShifted, Zenon
<1> QED
  BY <1>1, <1>4, <1>5, <1>7, <1>8, <1>10, Zenon DEF Enclosed

\* The guard goes to a call that all walkers see.
LEMMA GuardedCallIs ==
  ASSUME NEW body \in Seq(Statement), GuardPoint(body) # 0
  PROVE  /\ GuardPoint(body) \in 1..Len(body)
         /\ body[GuardPoint(body)].ev = "invoke" /\ Sees(ExprWalker, body[GuardPoint(body)])
<1>1. PICK at : at = {s \in DOMAIN body : body[s].ev = "invoke" /\ body[s].under \subseteq GuardWalker}
  OBVIOUS
<1>2. at # {} /\ GuardPoint(body) = CHOOSE s \in at : \A t \in at : s <= t
  BY <1>1 DEF GuardPoint
<1>3. \E s \in at : \A t \in at : s <= t
  BY <1>1, <1>2, LeastExists
<1>4. GuardPoint(body) \in at
  BY <1>2, <1>3
<1> QED
  BY <1>1, <1>4 DEF Sees, GuardWalker, ExprWalker, Statements, Calls

\* The statements of a body that a walker sees and that do one of the events E.
At(body, W, E) == {s \in DOMAIN body : Sees(W, body[s]) /\ body[s].ev \in E}

LEMMA SomeAreAt ==
  ASSUME NEW body, NEW W, NEW E
  PROVE  SeesEvent(body, W, E) <=> At(body, W, E) # {}
  BY DEF SeesEvent, At

LEMMA FewAreAt ==
  ASSUME NEW S, NEW body \in Seq(S), NEW W, NEW E
  PROVE  At(body, W, E) \subseteq 1..Len(body) /\ IsFiniteSet(At(body, W, E))
<1>1. At(body, W, E) \subseteq 1..Len(body)
  BY DEF At
<1>2. IsFiniteSet(1..Len(body))
  <2>1. PICK n \in Nat : n = Len(body)
    OBVIOUS
  <2> QED
    BY <2>1, FS_Interval
<1> QED
  BY <1>1, <1>2, FS_Subset

Spreads(n, g) ==
  /\ \A j \in 1..n : Shift(g, j) \in 1..(n + 3) /\ Shift(g, j) \notin {g, g + 1, g + 3}
  /\ \A j, k \in 1..n : Shift(g, j) = Shift(g, k) => j = k
  /\ \A p \in 1..(n + 3) : p \in {g, g + 1, g + 3} \/ \E j \in 1..n : p = Shift(g, j)

LEMMA ShiftSpreads ==
  ASSUME NEW n \in Nat, NEW g \in 1..n PROVE Spreads(n, g)
<1>1. ASSUME NEW j \in 1..n
      PROVE Shift(g, j) \in 1..(n + 3) /\ Shift(g, j) \notin {g, g + 1, g + 3}
  BY DEF Shift
<1>2. ASSUME NEW j \in 1..n, NEW k \in 1..n, Shift(g, j) = Shift(g, k) PROVE j = k
  BY <1>2 DEF Shift
<1>3. ASSUME NEW p \in 1..(n + 3), p \notin {g, g + 1, g + 3}
      PROVE \E j \in 1..n : p = Shift(g, j)
  <2>1. p < g \/ p = g + 2 \/ p > g + 3
    BY <1>3
  <2>2. CASE p < g
    <3>1. p \in 1..n /\ Shift(g, p) = p
      BY <2>2 DEF Shift
    <3> QED
      BY <3>1
  <2>3. CASE p = g + 2
    <3>1. Shift(g, g) = p
      BY <2>3 DEF Shift
    <3> QED
      BY <3>1
  <2>4. CASE p > g + 3
    <3>1. PICK j \in 1..n : j = p - 3 /\ j > g /\ p = j + 3
      BY <2>4
    <3>2. Shift(g, j) = p
      BY <3>1 DEF Shift
    <3> QED
      BY <3>2
  <2> QED
    BY <2>1, <2>2, <2>3, <2>4
<1> QED
  BY <1>1, <1>2, <1>3 DEF Spreads

LEMMA SeenNew ==
  ASSUME NEW W
  PROVE  /\ Stmt("auth", {}).ev = "auth" /\ Sees(W, Stmt("auth", {}))
         /\ Stmt("lock", {}).ev = "lock"
         /\ Stmt("lockpanic", {"branch"}).ev = "lockpanic"
         /\ "branch" \in W => Sees(W, Stmt("lockpanic", {"branch"}))
  BY DEF Stmt, Sees

\* The guard moves the statements of a body and adds a panic and two locks.
LEMMA GuardMoves ==
  ASSUME NEW body \in Seq(Statement), GuardPoint(body) # 0, NEW W, NEW E, "lock" \notin E,
         "lockpanic" \in E => "branch" \in W
  PROVE  LET g == GuardPoint(body) IN
         At(Guarded(body), W, E) = {Shift(g, j) : j \in At(body, W, E)}
                                   \cup IF "lockpanic" \in E THEN {g} ELSE {}
<1>1. PICK g \in 1..Len(body) : g = GuardPoint(body)
  BY GuardedCallIs
<1>2. PICK b : b = Guarded(body)
  OBVIOUS
<1>3. /\ b \in Seq(Statement) /\ Len(b) = Len(body) + 3
      /\ b[g] = Stmt("lockpanic", {"branch"})
      /\ b[g + 1] = Stmt("lock", {}) /\ b[g + 3] = Stmt("lock", {})
      /\ Shifted(body, g, Len(body), b)
  BY <1>1, <1>2, GuardPut
<1>4. PICK n \in Nat : n = Len(body) /\ g \in 1..n /\ DOMAIN body = 1..n
  BY <1>1
<1>10. Spreads(n, g)
  <2>1. n \in Nat /\ g \in 1..n
    BY <1>4
  <2> QED
    BY <2>1, ShiftSpreads
<1>5. DOMAIN b = 1..(n + 3)
  BY <1>3, <1>4
<1>6. ASSUME NEW p \in 1..(n + 3)
      PROVE p \in At(b, W, E) <=> \/ \E j \in At(body, W, E) : p = Shift(g, j)
                                  \/ "lockpanic" \in E /\ p = g
  <2>0. p \in At(b, W, E) <=> Sees(W, b[p]) /\ b[p].ev \in E
    BY <1>5 DEF At
  <2>1. ASSUME p = g PROVE p \in At(b, W, E) <=> "lockpanic" \in E
    BY <1>3, <2>0, <2>1, SeenNew, Zenon
  <2>2. ASSUME p = g + 1 \/ p = g + 3 PROVE p \notin At(b, W, E)
    BY <1>3, <2>0, <2>2, SeenNew, Zenon
  <2>3. ASSUME NEW j \in 1..n, p = Shift(g, j) PROVE p \in At(b, W, E) <=> j \in At(body, W, E)
    <3>1. b[p] = body[j]
      BY <1>3, <1>4, <2>3, Zenon DEF Shifted
    <3> QED
      BY <1>4, <2>0, <3>1, Zenon DEF At
  <2>4. /\ \A j \in 1..n : Shift(g, j) \notin {g, g + 1, g + 3}
        /\ \A j, k \in 1..n : Shift(g, j) = Shift(g, k) => j = k
        /\ p \in {g, g + 1, g + 3} \/ \E j \in 1..n : p = Shift(g, j)
    BY <1>10, Zenon DEF Spreads
  <2>5. \A j \in At(body, W, E) : j \in 1..n
    BY <1>4, Zenon DEF At
  <2>6. CASE p \in {g, g + 1, g + 3}
    <3>1. ~ \E j \in At(body, W, E) : p = Shift(g, j)
      BY <2>4, <2>5, <2>6
    <3>2. g # g + 1 /\ g # g + 3
      BY <1>4
    <3> QED
      BY <2>1, <2>2, <2>6, <3>1, <3>2
  <2>7. CASE p \notin {g, g + 1, g + 3}
    <3>1. PICK j \in 1..n : p = Shift(g, j)
      BY <2>4, <2>7
    <3>2. p \in At(b, W, E) <=> j \in At(body, W, E)
      BY <2>3, <3>1
    <3>3. \A k \in At(body, W, E) : p = Shift(g, k) => k = j
      BY <2>4, <2>5, <3>1
    <3> QED
      BY <2>7, <3>1, <3>2, <3>3
  <2> QED
    BY <2>6, <2>7
<1>7. \A j \in At(body, W, E) : Shift(g, j) \in 1..(n + 3)
  BY <1>4, <1>10, Zenon DEF At, Spreads
<1>8. At(b, W, E) \subseteq 1..(n + 3) /\ g \in 1..(n + 3)
  BY <1>4, <1>5 DEF At
<1>9. At(b, W, E) = {Shift(g, j) : j \in At(body, W, E)} \cup IF "lockpanic" \in E THEN {g} ELSE {}
  BY <1>6, <1>7, <1>8
<1> QED
  BY <1>1, <1>2, <1>9

\* The auth fix moves every statement by one.
LEMMA AuthMoves ==
  ASSUME NEW body \in Seq(Statement), NEW W, NEW E, "auth" \notin E
  PROVE  At(<<Stmt("auth", {})>> \o body, W, E) = {j + 1 : j \in At(body, W, E)}
<1>1. PICK b : b = <<Stmt("auth", {})>> \o body
  OBVIOUS
<1>2. PICK n \in Nat : n = Len(body) /\ DOMAIN body = 1..n
  OBVIOUS
<1>3. /\ b \in Seq(Statement) /\ Len(b) = Len(body) + 1 /\ b[1] = Stmt("auth", {})
      /\ \A j \in 1..Len(body) : b[j + 1] = body[j]
  BY <1>1, AuthPut
<1>4. DOMAIN b = 1..(n + 1)
  BY <1>2, <1>3
<1>5. \A j \in 1..n : b[j + 1] = body[j]
  BY <1>2, <1>3
<1>6. 1 \notin At(b, W, E)
  BY <1>3, SeenNew, Zenon DEF At
<1>7. \A j \in 1..n : j + 1 \in At(b, W, E) <=> j \in At(body, W, E)
  <2> SUFFICES ASSUME NEW j \in 1..n PROVE j + 1 \in At(b, W, E) <=> j \in At(body, W, E)
    OBVIOUS
  <2>1. j + 1 \in 1..(n + 1)
    OBVIOUS
  <2> QED
    BY <1>2, <1>4, <1>5, <2>1, Zenon DEF At
<1>8. At(b, W, E) \subseteq 1..(n + 1) /\ At(body, W, E) \subseteq 1..n
  BY <1>2, <1>4, Zenon DEF At
<1>9. \A p \in 1..(n + 1) : p = 1 \/ \E j \in 1..n : p = j + 1
  <2> SUFFICES ASSUME NEW p \in 1..(n + 1), p # 1 PROVE \E j \in 1..n : p = j + 1
    OBVIOUS
  <2>1. p - 1 \in 1..n /\ p = (p - 1) + 1
    OBVIOUS
  <2> QED
    BY <2>1
<1>10. At(b, W, E) = {j + 1 : j \in At(body, W, E)}
  BY <1>6, <1>7, <1>8, <1>9
<1> QED
  BY <1>1, <1>10

LEMMA GapMeans ==
  ASSUME NEW f, NEW M
  PROVE  Gap(f, M) <=> /\ f.item \in {"impl", "testimpl"} /\ f.pub /\ ~IsReservedEntrypoint(f)
                       /\ At(f.body, ExprWalker, M) # {} \/ At(f.body, ExprWalker, ExternalCalls) # {}
                       /\ At(f.body, ExprWalker, {"auth"}) = {}
<1>1. PICK sum : sum = SecuritySummary(f.body, M)
  OBVIOUS
<1>2. /\ sum.mutation = SeesEvent(f.body, ExprWalker, M)
      /\ sum.auth = SeesEvent(f.body, ExprWalker, {"auth"})
      /\ sum.external = SeesEvent(f.body, ExprWalker, ExternalCalls)
  BY <1>1 DEF SecuritySummary
<1>3. Gap(f, M) <=> /\ f.item \in {"impl", "testimpl"} /\ f.pub /\ ~IsReservedEntrypoint(f)
                    /\ sum.mutation \/ sum.external
                    /\ ~sum.auth
  BY <1>1, Zenon DEF Gap
<1>4. /\ SeesEvent(f.body, ExprWalker, M) <=> At(f.body, ExprWalker, M) # {}
      /\ SeesEvent(f.body, ExprWalker, {"auth"}) <=> At(f.body, ExprWalker, {"auth"}) # {}
      /\ SeesEvent(f.body, ExprWalker, ExternalCalls) <=> At(f.body, ExprWalker, ExternalCalls) # {}
  BY SomeAreAt, Zenon
<1> QED
  BY <1>2, <1>3, <1>4, Zenon

\* What the two fixes do to the i-th function.
LEMMA AuthFixOf ==
  ASSUME NEW c \in Contract, NEW i \in DOMAIN c, NEW d, d = AuthGapFix(c)[i]
  PROVE  /\ c[i] \in SourceFn /\ DOMAIN AuthGapFix(c) = DOMAIN c
         /\ d.name = c[i].name /\ d.item = c[i].item /\ d.pub = c[i].pub
         /\ d.test = c[i].test /\ d.result = c[i].result
         /\ i \in AuthGapRule(c) => d.body = <<Stmt("auth", {})>> \o c[i].body
         /\ i \notin AuthGapRule(c) => d = c[i]
<1>1. PICK f \in SourceFn : f = c[i]
  BY DEF Contract
<1>2. DOMAIN AuthGapFix(c) = DOMAIN c
  BY DEF AuthGapFix
<1>3. d = IF i \in AuthGapRule(c) THEN [f EXCEPT !.body = <<Stmt("auth", {})>> \o f.body] ELSE f
  BY <1>1 DEF AuthGapFix
<1>4. PICK b : b = <<Stmt("auth", {})>> \o f.body
  OBVIOUS
<1>5. PICK e : e = [f EXCEPT !.body = b]
  OBVIOUS
<1>6. /\ e.name = f.name /\ e.item = f.item /\ e.pub = f.pub /\ e.test = f.test
      /\ e.result = f.result /\ e.body = b
  BY <1>5 DEF SourceFn
<1> QED
  BY <1>1, <1>2, <1>3, <1>4, <1>5, <1>6, Zenon

LEMMA GuardFixOf ==
  ASSUME NEW c \in Contract, NEW i \in DOMAIN c, NEW d, d = ReentrancyFix(c)[i]
  PROVE  /\ c[i] \in SourceFn /\ DOMAIN ReentrancyFix(c) = DOMAIN c
         /\ d.name = c[i].name /\ d.item = c[i].item /\ d.pub = c[i].pub
         /\ d.test = c[i].test /\ d.result = c[i].result
         /\ i \in ReentrancyFixable(c) => d.body = Guarded(c[i].body)
         /\ i \notin ReentrancyFixable(c) => d = c[i]
<1>1. PICK f \in SourceFn : f = c[i]
  BY DEF Contract
<1>2. DOMAIN ReentrancyFix(c) = DOMAIN c
  BY DEF ReentrancyFix
<1>3. d = IF i \in ReentrancyFixable(c) THEN [f EXCEPT !.body = Guarded(f.body)] ELSE f
  BY <1>1 DEF ReentrancyFix
<1>4. PICK b : b = Guarded(f.body)
  OBVIOUS
<1>5. PICK e : e = [f EXCEPT !.body = b]
  OBVIOUS
<1>6. /\ e.name = f.name /\ e.item = f.item /\ e.pub = f.pub /\ e.test = f.test
      /\ e.result = f.result /\ e.body = b
  BY <1>5 DEF SourceFn
<1> QED
  BY <1>1, <1>2, <1>3, <1>4, <1>5, <1>6, Zenon

LEMMA BodyOf ==
  ASSUME NEW c \in Contract, NEW i \in DOMAIN c
  PROVE  c[i].body \in Seq(Statement)
<1>1. PICK f \in SourceFn : f = c[i]
  BY DEF Contract
<1>2. f.body \in Seq(Statement)
  BY DEF SourceFn
<1> QED
  BY <1>1, <1>2

LEMMA GapsClose ==
  ASSUME NEW c \in Contract
  PROVE  AuthGapRule(AuthGapFix(c)) = {} /\ ScanAuthGaps(AuthGapFix(c)) = {}
<1>1. ASSUME NEW i \in DOMAIN c, NEW M \in {MutatesForRule, MutatesForScan}
      PROVE  ~Gap(AuthGapFix(c)[i], M)
  <2>1. PICK d : d = AuthGapFix(c)[i]
    OBVIOUS
  <2>2. CASE i \in AuthGapRule(c)
    <3>1. PICK b : b = d.body
      OBVIOUS
    <3>2. b = <<Stmt("auth", {})>> \o c[i].body /\ c[i].body \in Seq(Statement)
      BY <2>1, <2>2, <3>1, AuthFixOf, BodyOf, Zenon
    <3>3. b \in Seq(Statement) /\ Len(b) = Len(c[i].body) + 1 /\ b[1] = Stmt("auth", {})
      BY <3>2, AuthPut, Zenon
    <3>4. 1 \in DOMAIN b
      BY <3>2, <3>3
    <3>5. 1 \in At(b, ExprWalker, {"auth"})
      BY <3>3, <3>4, SeenNew, Zenon DEF At
    <3> QED
      BY <2>1, <3>1, <3>5, GapMeans, Zenon
  <2>3. CASE i \notin AuthGapRule(c)
    <3>1. d = c[i] /\ ~Gap(c[i], MutatesForRule)
      BY <2>1, <2>3, AuthFixOf, Zenon DEF AuthGapRule
    <3>2. At(c[i].body, ExprWalker, MutatesForScan) \subseteq At(c[i].body, ExprWalker, MutatesForRule)
      BY Zenon DEF At, MutatesForRule
    <3>3. Gap(c[i], MutatesForScan) => Gap(c[i], MutatesForRule)
      BY <3>2, GapMeans, Zenon
    <3> QED
      BY <2>1, <3>1, <3>3
  <2> QED
    BY <2>2, <2>3
<1>2. DOMAIN AuthGapFix(c) = DOMAIN c
  BY DEF AuthGapFix
<1> QED
  BY <1>1, <1>2, Zenon DEF AuthGapRule, ScanAuthGaps

LEMMA MarkedIsAt ==
  ASSUME NEW body, NEW j \in DOMAIN body, NEW E
  PROVE  Marked(body, j, E) <=> j \in At(body, ReentrancyWalker, E)
  BY Zenon DEF Marked, At

\* An authorisation in front changes nothing for the reentrancy walker.
LEMMA CallsStay ==
  ASSUME NEW body \in Seq(Statement), NEW b, b = <<Stmt("auth", {})>> \o body
  PROVE  Cardinality(ReentrancyScan(b)) = Cardinality(ReentrancyScan(body))
<1>1. PICK n \in Nat : n = Len(body) /\ DOMAIN body = 1..n
  OBVIOUS
<1>2. /\ b \in Seq(Statement) /\ Len(b) = n + 1 /\ DOMAIN b = 1..(n + 1) /\ b[1] = Stmt("auth", {})
      /\ \A j \in 1..n : b[j + 1] = body[j]
  <2>1. /\ b \in Seq(Statement) /\ Len(b) = Len(body) + 1 /\ b[1] = Stmt("auth", {})
        /\ \A j \in 1..Len(body) : b[j + 1] = body[j]
    BY AuthPut, Zenon
  <2> QED
    BY <1>1, <2>1
<1>3. PICK S, T : S = Entered(body, n) /\ T = Entered(b, n + 1)
  OBVIOUS
<1>4. ReentrancyScan(body) = S /\ ReentrancyScan(b) = T
  BY <1>1, <1>2, <1>3, ScanFinds, Zenon
<1>5. ASSUME NEW E, "auth" \notin E
      PROVE  /\ \A j \in 1..n : Marked(b, j + 1, E) <=> Marked(body, j, E)
             /\ ~Marked(b, 1, E)
  BY <1>2, <1>5, SeenNew, Zenon DEF Marked
<1>6. ASSUME NEW E, "auth" \notin E, NEW j \in 0..n
      PROVE  Met(b, j + 1, E) <=> Met(body, j, E)
  <2>1. ASSUME NEW i \in 1..j, Marked(body, i, E) PROVE Met(b, j + 1, E)
    <3>1. i + 1 \in 1..(j + 1) /\ i \in 1..n
      OBVIOUS
    <3> QED
      BY <1>5, <1>6, <2>1, <3>1, Zenon DEF Met
  <2>2. ASSUME NEW i \in 1..(j + 1), Marked(b, i, E) PROVE Met(body, j, E)
    <3>1. i # 1
      BY <1>5, <1>6, <2>2
    <3>2. PICK h \in 1..n : h \in 1..j /\ i = h + 1
      <4>1. i - 1 \in 1..n /\ i - 1 \in 1..j /\ i = (i - 1) + 1
        BY <3>1
      <4> QED
        BY <4>1
    <3>3. Marked(body, h, E)
      BY <1>5, <1>6, <2>2, <3>2, Zenon
    <3> QED
      BY <3>2, <3>3, Zenon DEF Met
  <2> QED
    BY <2>1, <2>2, Zenon DEF Met
<1>7. /\ "auth" \notin {"invoke"} /\ "auth" \notin ReentrancyMutates /\ "auth" \notin Locks
  BY DEF ReentrancyMutates, StorageWrites, Locks
<1>8. \A j \in 1..n : j + 1 \in T <=> j \in S
  <2> SUFFICES ASSUME NEW j \in 1..n PROVE j + 1 \in T <=> j \in S
    OBVIOUS
  <2>1. PICK h \in 0..n : h = j - 1 /\ h + 1 = j /\ (j + 1) - 1 = h + 1 /\ j + 1 \in 1..(n + 1)
    OBVIOUS
  <2>2. j \in S <=> Marked(body, j, {"invoke"}) /\ Met(body, h, ReentrancyMutates) /\ ~Met(body, h, Locks)
    BY <1>3, <2>1, Zenon DEF Entered
  <2>3. j + 1 \in T <=> /\ Marked(b, j + 1, {"invoke"}) /\ Met(b, h + 1, ReentrancyMutates)
                        /\ ~Met(b, h + 1, Locks)
    BY <1>3, <2>1, Zenon DEF Entered
  <2> QED
    BY <1>5, <1>6, <1>7, <2>2, <2>3, Zenon
<1>9. 1 \notin T /\ S \subseteq 1..n /\ T \subseteq 1..(n + 1)
  BY <1>3, <1>5, <1>7, Zenon DEF Entered
<1>10. \A p \in T : \E j \in S : p = j + 1
  <2> SUFFICES ASSUME NEW p \in T PROVE \E j \in S : p = j + 1
    OBVIOUS
  <2>1. p - 1 \in 1..n /\ p = (p - 1) + 1
    BY <1>9
  <2> QED
    BY <1>8, <2>1
<1>11. IsFiniteSet(S)
  <2>1. IsFiniteSet(1..n)
    BY FS_Interval
  <2> QED
    BY <1>9, <2>1, FS_Subset, Zenon
<1>12. PICK f \in [S -> T] : \A j \in S : f[j] = j + 1
  <2>1. [j \in S |-> j + 1] \in [S -> T]
    BY <1>8, <1>9
  <2> QED
    BY <2>1
<1>13. /\ \A x, y \in S : f[x] = f[y] => x = y
       /\ \A y \in T : \E x \in S : f[x] = y
  BY <1>9, <1>10, <1>12
<1> QED
  <2>1. Cardinality(T) = Cardinality(S)
    BY <1>11, <1>13, SameSize
  <2> QED
    BY <1>4, <2>1, Zenon

\* Nothing of a guarded body is entered unguarded when the only call it makes is
\* the one that the guard goes to.
LEMMA GuardSilences ==
  ASSUME NEW body \in Seq(Statement), GuardPoint(body) # 0, InvokeCount(body) = 1,
         \A s \in DOMAIN body : body[s].ev = "invoke" => "assign" \notin body[s].under
  PROVE  ReentrancyScan(Guarded(body)) = {}
<1>1. PICK n, g, b : /\ n \in Nat /\ g \in 1..n
                     /\ n = Len(body) /\ DOMAIN body = 1..n /\ g = GuardPoint(body) /\ b = Guarded(body)
  <2>1. PICK n \in Nat : n = Len(body) /\ DOMAIN body = 1..n
    OBVIOUS
  <2>2. GuardPoint(body) \in 1..n
    BY <2>1, GuardedCallIs, Zenon
  <2> QED
    BY <2>1, <2>2
<1>2. /\ b \in Seq(Statement) /\ Len(b) = n + 3 /\ b[g] = Stmt("lockpanic", {"branch"})
  <2>1. g \in 1..Len(body)
    BY <1>1
  <2>2. b \in Seq(Statement) /\ Len(b) = Len(body) + 3 /\ b[g] = Stmt("lockpanic", {"branch"})
    BY <1>1, <2>1, GuardPut, Zenon
  <2> QED
    BY <1>1, <2>2, Zenon
<1>3. At(body, ExprWalker, {"invoke"}) = {g}
  <2>1. At(body, ExprWalker, {"invoke"})
          = {s \in DOMAIN body : Sees(ExprWalker, body[s]) /\ body[s].ev = "invoke"}
    BY DEF At
  <2>2. Cardinality(At(body, ExprWalker, {"invoke"})) = 1
    BY <2>1, Zenon DEF InvokeCount
  <2>3. PICK x : At(body, ExprWalker, {"invoke"}) = {x}
    <3>1. IsFiniteSet(At(body, ExprWalker, {"invoke"}))
      BY FewAreAt, Zenon
    <3> QED
      BY <2>2, <3>1, FS_Singleton, Zenon
  <2>4. g \in At(body, ExprWalker, {"invoke"})
    BY <1>1, GuardedCallIs, Zenon DEF At
  <2> QED
    BY <2>3, <2>4
<1>4. At(body, ReentrancyWalker, {"invoke"}) \subseteq {g}
  <2>1. \A s \in DOMAIN body : Sees(ReentrancyWalker, body[s]) /\ body[s].ev = "invoke"
                                 => Sees(ExprWalker, body[s])
    BY DEF Sees, ReentrancyWalker
  <2> QED
    BY <1>3, <2>1, Zenon DEF At
<1>5. At(b, ReentrancyWalker, {"invoke"}) \subseteq {g + 2}
  <2>1. "lock" \notin {"invoke"} /\ "lockpanic" \notin {"invoke"}
    OBVIOUS
  <2>2. At(b, ReentrancyWalker, {"invoke"}) = {Shift(g, j) : j \in At(body, ReentrancyWalker, {"invoke"})}
    BY <1>1, <2>1, GuardMoves
  <2>3. Shift(g, g) = g + 2
    <3>1. g \in Nat
      BY <1>1
    <3> QED
      BY <3>1 DEF Shift
  <2> QED
    BY <1>4, <2>2, <2>3
<1>6. Marked(b, g, Locks)
  <2>1. "branch" \in ReentrancyWalker /\ "lockpanic" \in Locks
    BY DEF ReentrancyWalker, ExprWalker, Statements, Locks
  <2> QED
    BY <1>2, <2>1, SeenNew, Zenon DEF Marked
<1>7. ASSUME NEW j \in Entered(b, n + 3) PROVE FALSE
  <2>1. j \in 1..(n + 3) /\ Marked(b, j, {"invoke"}) /\ ~Met(b, j - 1, Locks)
    BY <1>7 DEF Entered
  <2>2. j \in DOMAIN b
    BY <1>2, <2>1
  <2>3. j = g + 2
    BY <1>5, <2>1, <2>2, MarkedIsAt, Zenon
  <2>4. g \in 1..(j - 1)
    <3>1. g \in Nat /\ g >= 1
      BY <1>1
    <3> QED
      BY <2>3, <3>1
  <2> QED
    BY <1>6, <2>1, <2>4, Zenon DEF Met
<1>8. ReentrancyScan(b) = Entered(b, n + 3)
  BY <1>2, ScanFinds, Zenon
<1> QED
  BY <1>1, <1>7, <1>8, Zenon

\* The panics the rule reports of one function.
PanicsOf(c, i) == {p \in PanicRule(c) : p[1] = i}

LEMMA PlacesAre ==
  ASSUME NEW c, NEW p
  PROVE  p \in Places(c) <=> \E i \in DOMAIN c : \E s \in DOMAIN c[i].body : p = <<i, s>>
  BY DEF Places

LEMMA PanicsAre ==
  ASSUME NEW c, NEW i \in DOMAIN c
  PROVE  PanicsOf(c, i) = {<<i, s>> : s \in IF PanicScope(c[i]) THEN At(c[i].body, ExprWalker, PanicEvents) ELSE {}}
<1>1. CheckFnPanics(c[i]) = At(c[i].body, ExprWalker, PanicEvents)
  BY DEF CheckFnPanics, At
<1>2. ASSUME NEW p \in PanicsOf(c, i)
      PROVE  PanicScope(c[i]) /\ \E s \in CheckFnPanics(c[i]) : p = <<i, s>>
  <2>1. p \in Places(c) /\ PanicScope(c[p[1]]) /\ p[2] \in CheckFnPanics(c[p[1]]) /\ p[1] = i
    BY DEF PanicsOf, PanicRule
  <2>2. p = <<i, p[2]>>
    BY <2>1, PlacesAre
  <2> QED
    BY <2>1, <2>2, Zenon
<1>3. ASSUME NEW s \in CheckFnPanics(c[i]), PanicScope(c[i]) PROVE <<i, s>> \in PanicsOf(c, i)
  <2>1. s \in DOMAIN c[i].body
    BY DEF CheckFnPanics
  <2>2. <<i, s>> \in Places(c)
    BY <2>1, PlacesAre
  <2>3. <<i, s>>[1] = i /\ <<i, s>>[2] = s
    OBVIOUS
  <2> QED
    BY <1>3, <2>2, <2>3, Zenon DEF PanicsOf, PanicRule
<1>4. CASE PanicScope(c[i])
  <2>1. PanicsOf(c, i) = {<<i, s>> : s \in CheckFnPanics(c[i])}
    BY <1>2, <1>3, <1>4
  <2> QED
    BY <1>1, <1>4, <2>1, Zenon
<1>5. CASE ~PanicScope(c[i])
  <2>1. PanicsOf(c, i) = {}
    BY <1>2, <1>5
  <2> QED
    BY <1>5, <2>1
<1> QED
  BY <1>4, <1>5

LEMMA PairedSize ==
  ASSUME NEW S, IsFiniteSet(S), NEW i
  PROVE  Cardinality({<<i, s>> : s \in S}) = Cardinality(S)
<1>1. PICK T : T = {<<i, s>> : s \in S}
  OBVIOUS
<1>2. PICK f \in [S -> T] : \A s \in S : f[s] = <<i, s>>
  <2>1. [s \in S |-> <<i, s>>] \in [S -> T]
    BY <1>1
  <2> QED
    BY <2>1
<1>3. (\A x, y \in S : f[x] = f[y] => x = y) /\ (\A y \in T : \E x \in S : f[x] = y)
  BY <1>1, <1>2
<1>4. Cardinality(T) = Cardinality(S)
  BY <1>3, SameSize
<1> QED
  BY <1>1, <1>4

\* A finite image of as many elements, without g.
MovedOff(S, T, g) ==
  IsFiniteSet(T) /\ Cardinality(T) = Cardinality(S) /\ Cardinality(S) \in Nat /\ g \notin T

LEMMA ShiftedSize ==
  ASSUME NEW n \in Nat, NEW g \in 1..n, NEW S \in SUBSET (1..n)
  PROVE  MovedOff(S, {Shift(g, j) : j \in S}, g)
<1>1. PICK T : T = {Shift(g, j) : j \in S}
  OBVIOUS
<1>2. Spreads(n, g)
  BY ShiftSpreads
<1>3. IsFiniteSet(S)
  <2>1. IsFiniteSet(1..n)
    BY FS_Interval
  <2> QED
    BY <2>1, FS_Subset, Zenon
<1>4. PICK f \in [S -> T] : \A s \in S : f[s] = Shift(g, s)
  <2>1. [s \in S |-> Shift(g, s)] \in [S -> T]
    BY <1>1
  <2> QED
    BY <2>1
<1>5. (\A x, y \in S : f[x] = f[y] => x = y) /\ (\A y \in T : \E x \in S : f[x] = y)
  BY <1>1, <1>2, <1>4 DEF Spreads
<1>6. IsFiniteSet(T) /\ Cardinality(T) = Cardinality(S)
  BY <1>3, <1>5, SameSize
<1>7. g \notin T
  BY <1>1, <1>2 DEF Spreads
<1>8. Cardinality(S) \in Nat
  BY <1>3, FS_CardinalityType, Zenon
<1> QED
  BY <1>1, <1>6, <1>7, <1>8 DEF MovedOff

LEMMA FixablesAre ==
  ASSUME NEW c \in Contract, NEW i \in ReentrancyFixable(c)
  PROVE  /\ i \in DOMAIN c /\ c[i].item \in {"impl", "testimpl"} /\ c[i].body \in Seq(Statement)
         /\ ReentrancyScan(c[i].body) # {} /\ InvokeCount(c[i].body) = 1
         /\ GuardPoint(c[i].body) # 0
<1>1. i \in DOMAIN c
  BY DEF ReentrancyFixable
<1> QED
  BY <1>1, BodyOf, Zenon DEF ReentrancyFixable

LEMMA OnePanicMore ==
  ASSUME NEW c \in Contract, NEW i \in ReentrancyFixable(c)
  PROVE  Cardinality(PanicsOf(ReentrancyFix(c), i))
           = Cardinality(PanicsOf(c, i)) + (IF PanicScope(c[i]) THEN 1 ELSE 0)
<1>1. PICK d, body, b : /\ d = ReentrancyFix(c) /\ body = c[i].body /\ b = Guarded(body)
  OBVIOUS
<1>2. i \in DOMAIN c /\ body \in Seq(Statement) /\ GuardPoint(body) # 0
  BY <1>1, FixablesAre, Zenon
<1>3. DOMAIN d = DOMAIN c /\ d[i].body = b /\ d[i].item = c[i].item /\ d[i].test = c[i].test
  BY <1>1, <1>2, GuardFixOf, Zenon
<1>4. PanicScope(d[i]) <=> PanicScope(c[i])
  BY <1>3, Zenon DEF PanicScope
<1>5. PICK n, g : n \in Nat /\ g \in 1..n /\ n = Len(body) /\ g = GuardPoint(body)
  <2>1. Len(body) \in Nat /\ GuardPoint(body) \in 1..Len(body)
    BY <1>2, GuardedCallIs
  <2> QED
    BY <2>1
<1>6. PICK S : S = At(body, ExprWalker, PanicEvents) /\ S \in SUBSET (1..n) /\ IsFiniteSet(S)
  <2>1. At(body, ExprWalker, PanicEvents) \subseteq 1..n /\ IsFiniteSet(At(body, ExprWalker, PanicEvents))
    BY <1>2, <1>5, FewAreAt, Zenon
  <2> QED
    BY <2>1
<1>7. PICK T : T = {Shift(g, j) : j \in S}
  OBVIOUS
<1>8. At(b, ExprWalker, PanicEvents) = T \cup {g}
  <2>1. "lock" \notin PanicEvents /\ "lockpanic" \in PanicEvents /\ "branch" \in ExprWalker
    BY DEF PanicEvents, ExprWalker, Statements
  <2>2. At(Guarded(body), ExprWalker, PanicEvents)
          = {Shift(GuardPoint(body), j) : j \in At(body, ExprWalker, PanicEvents)} \cup {GuardPoint(body)}
    BY <1>2, <2>1, GuardMoves
  <2> QED
    BY <1>1, <1>5, <1>6, <1>7, <2>2, Zenon
<1>9. IsFiniteSet(T) /\ Cardinality(T) = Cardinality(S) /\ g \notin T /\ Cardinality(S) \in Nat
  <2>1. n \in Nat /\ g \in 1..n /\ S \in SUBSET (1..n)
    BY <1>5, <1>6
  <2> QED
    <3>1. MovedOff(S, {Shift(g, j) : j \in S}, g)
      BY <2>1, ShiftedSize, Zenon
    <3> QED
      BY <1>7, <3>1, Zenon DEF MovedOff
<1>10. IsFiniteSet(T \cup {g}) /\ Cardinality(T \cup {g}) = Cardinality(S) + 1
  BY <1>9, FS_AddElement, Zenon
<1>11. CASE PanicScope(c[i])
  <2>1. PanicsOf(c, i) = {<<i, s>> : s \in S} /\ PanicsOf(d, i) = {<<i, s>> : s \in T \cup {g}}
    <3>1. PanicsOf(c, i) = {<<i, s>> : s \in At(body, ExprWalker, PanicEvents)}
      BY <1>1, <1>2, <1>11, PanicsAre, Zenon
    <3>2. PanicsOf(d, i) = {<<i, s>> : s \in At(b, ExprWalker, PanicEvents)}
      BY <1>2, <1>3, <1>4, <1>11, PanicsAre, Zenon
    <3> QED
      BY <1>6, <1>8, <3>1, <3>2, Zenon
  <2>2. Cardinality(PanicsOf(c, i)) = Cardinality(S) /\ Cardinality(PanicsOf(d, i)) = Cardinality(S) + 1
    <3>1. Cardinality({<<i, s>> : s \in S}) = Cardinality(S)
      <4>1. IsFiniteSet(S)
        BY <1>6
      <4> QED
        BY <4>1, PairedSize
    <3>2. Cardinality({<<i, s>> : s \in T \cup {g}}) = Cardinality(T \cup {g})
      BY <1>10, PairedSize, Zenon
    <3> QED
      BY <1>10, <2>1, <3>1, <3>2, Zenon
  <2> QED
    BY <1>1, <1>11, <2>2, Zenon
<1>12. CASE ~PanicScope(c[i])
  <2>1. PanicsOf(c, i) = {} /\ PanicsOf(d, i) = {}
    <3>1. PanicsOf(c, i) = {<<i, s>> : s \in {}}
      BY <1>2, <1>12, PanicsAre, Zenon
    <3>2. PanicsOf(d, i) = {<<i, s>> : s \in {}}
      BY <1>2, <1>3, <1>4, <1>12, PanicsAre, Zenon
    <3> QED
      BY <3>1, <3>2
  <2>2. Cardinality({}) = 0
    BY FS_EmptySet, Zenon
  <2> QED
    BY <1>1, <1>12, <2>1, <2>2
<1> QED
  BY <1>11, <1>12

\* The guard changes nothing about authorisation.
LEMMA GapsStay ==
  ASSUME NEW c \in Contract PROVE AuthGapRule(ReentrancyFix(c)) = AuthGapRule(c)
<1>1. PICK d : d = ReentrancyFix(c)
  OBVIOUS
<1>2. DOMAIN d = DOMAIN c
  BY <1>1 DEF ReentrancyFix
<1>3. ASSUME NEW i \in DOMAIN c PROVE Gap(d[i], MutatesForRule) <=> Gap(c[i], MutatesForRule)
  <2>1. CASE i \notin ReentrancyFixable(c)
    <3>1. d[i] = c[i]
      BY <1>1, <2>1, GuardFixOf, Zenon
    <3> QED
      BY <3>1
  <2>2. CASE i \in ReentrancyFixable(c)
    <3>1. PICK body, b, g : body = c[i].body /\ b = Guarded(body) /\ g = GuardPoint(body)
      OBVIOUS
    <3>2. body \in Seq(Statement) /\ g # 0
      BY <2>2, <3>1, FixablesAre, Zenon
    <3>3. /\ d[i].body = b /\ d[i].item = c[i].item /\ d[i].pub = c[i].pub /\ d[i].name = c[i].name
      BY <1>1, <2>2, <3>1, GuardFixOf, Zenon
    <3>4. g \in At(body, ExprWalker, ExternalCalls)
      <4>1. g \in DOMAIN body /\ body[g].ev = "invoke" /\ Sees(ExprWalker, body[g])
        <5>1. g \in 1..Len(body) /\ body[g].ev = "invoke" /\ Sees(ExprWalker, body[g])
          BY <3>1, <3>2, GuardedCallIs, Zenon
        <5> QED
          BY <3>2, <5>1
      <4>2. "invoke" \in ExternalCalls
        BY DEF ExternalCalls
      <4> QED
        BY <4>1, <4>2, Zenon DEF At
    <3>5. Shift(g, g) \in At(b, ExprWalker, ExternalCalls)
      <4>1. "lock" \notin ExternalCalls /\ "lockpanic" \notin ExternalCalls
        BY DEF ExternalCalls
      <4>2. At(b, ExprWalker, ExternalCalls) = {Shift(g, j) : j \in At(body, ExprWalker, ExternalCalls)}
        BY <3>1, <3>2, <4>1, GuardMoves
      <4> QED
        BY <3>4, <4>2
    <3>6. At(b, ExprWalker, {"auth"}) = {Shift(g, j) : j \in At(body, ExprWalker, {"auth"})}
      <4>1. "lock" \notin {"auth"} /\ "lockpanic" \notin {"auth"}
        OBVIOUS
      <4> QED
        BY <3>1, <3>2, <4>1, GuardMoves
    <3>7. At(b, ExprWalker, {"auth"}) = {} <=> At(body, ExprWalker, {"auth"}) = {}
      BY <3>6
    <3>8. IsReservedEntrypoint(d[i]) <=> IsReservedEntrypoint(c[i])
      BY <3>3 DEF IsReservedEntrypoint
    <3>9. /\ At(c[i].body, ExprWalker, ExternalCalls) # {} /\ At(d[i].body, ExprWalker, ExternalCalls) # {}
          /\ At(d[i].body, ExprWalker, {"auth"}) = {} <=> At(c[i].body, ExprWalker, {"auth"}) = {}
      BY <3>1, <3>3, <3>4, <3>5, <3>7
    <3>10. Gap(d[i], MutatesForRule)
             <=> /\ d[i].item \in {"impl", "testimpl"} /\ d[i].pub /\ ~IsReservedEntrypoint(d[i])
                 /\ At(d[i].body, ExprWalker, {"auth"}) = {}
      BY <3>9, GapMeans, Zenon
    <3>11. Gap(c[i], MutatesForRule)
             <=> /\ c[i].item \in {"impl", "testimpl"} /\ c[i].pub /\ ~IsReservedEntrypoint(c[i])
                 /\ At(c[i].body, ExprWalker, {"auth"}) = {}
      BY <3>9, GapMeans, Zenon
    <3> QED
      BY <3>3, <3>8, <3>9, <3>10, <3>11, Zenon
  <2> QED
    BY <2>1, <2>2
<1>4. AuthGapRule(d) = AuthGapRule(c)
  BY <1>2, <1>3, Zenon DEF AuthGapRule
<1> QED
  BY <1>1, <1>4

LEMMA ShadowsOfFixed ==
  ASSUME NEW c \in Contract
  PROVE  ShadowStorage(ReentrancyFix(c)) \ ShadowStorage(c) \subseteq ReentrancyFixable(c)
<1>1. DOMAIN ReentrancyFix(c) = DOMAIN c
  BY DEF ReentrancyFix
<1>2. \A i \in DOMAIN c : i \notin ReentrancyFixable(c) => ReentrancyFix(c)[i] = c[i]
  BY GuardFixOf, Zenon
<1> QED
  BY <1>1, <1>2, Zenon DEF ShadowStorage

(* ---- calls whose result is dropped ---- *)
Dropped(f) == IF f.item \in {"impl", "testimpl"}
              THEN At(f.body, {"block", "branch"}, ExternalCalls) ELSE {}

LEMMA UncheckedAre ==
  ASSUME NEW c, NEW p
  PROVE  p \in UncheckedCalls(c) <=> \E i \in DOMAIN c : \E s \in Dropped(c[i]) : p = <<i, s>>
<1>1. ASSUME p \in UncheckedCalls(c) PROVE \E i \in DOMAIN c : \E s \in Dropped(c[i]) : p = <<i, s>>
  <2>1. PICK i \in DOMAIN c : \E s \in DOMAIN c[i].body : p = <<i, s>>
    <3>1. p \in Places(c)
      BY <1>1, Zenon DEF UncheckedCalls
    <3> QED
      BY <3>1, PlacesAre
  <2>2. PICK s \in DOMAIN c[i].body : p = <<i, s>> /\ p[1] = i /\ p[2] = s
    BY <2>1
  <2>3. /\ c[i].item \in {"impl", "testimpl"} /\ c[i].body[s].ev \in ExternalCalls
        /\ c[i].body[s].under \subseteq {"block", "branch"}
    BY <1>1, <2>2, Zenon DEF UncheckedCalls
  <2>4. s \in Dropped(c[i])
    BY <2>3, Zenon DEF Dropped, At, Sees
  <2> QED
    BY <2>2, <2>4
<1>2. ASSUME NEW i \in DOMAIN c, NEW s \in Dropped(c[i]), p = <<i, s>> PROVE p \in UncheckedCalls(c)
  <2>1. /\ c[i].item \in {"impl", "testimpl"} /\ s \in DOMAIN c[i].body
        /\ c[i].body[s].ev \in ExternalCalls /\ c[i].body[s].under \subseteq {"block", "branch"}
    BY DEF Dropped, At, Sees
  <2>2. p[1] = i /\ p[2] = s
    BY <1>2
  <2>3. p \in Places(c)
    BY <1>2, <2>1, PlacesAre, Zenon
  <2> QED
    BY <2>1, <2>2, <2>3, Zenon DEF UncheckedCalls
<1> QED
  BY <1>1, <1>2

LEMMA PlacesFinite == ASSUME NEW c \in Contract PROVE IsFiniteSet(Places(c))
<1>1. PICK D : D = DOMAIN c /\ IsFiniteSet(D)
  <2>1. PICK n \in Nat : n = Len(c) /\ DOMAIN c = 1..n
    BY DEF Contract
  <2> QED
    BY <2>1, FS_Interval
<1>2. PICK h : h = [i \in D |-> {i} \X (DOMAIN c[i].body)]
  OBVIOUS
<1>3. \A i \in D : IsFiniteSet(h[i])
  <2> SUFFICES ASSUME NEW i \in D PROVE IsFiniteSet(h[i])
    OBVIOUS
  <2>1. PICK body \in Seq(Statement) : body = c[i].body
    BY <1>1, BodyOf
  <2>2. PICK n \in Nat : DOMAIN body = 1..n
    OBVIOUS
  <2>3. IsFiniteSet(1..n) /\ IsFiniteSet({i})
    <3>1. IsFiniteSet(1..n)
      BY FS_Interval
    <3>2. IsFiniteSet({i})
      BY FS_Singleton, Zenon
    <3> QED
      BY <3>1, <3>2
  <2>4. IsFiniteSet({i} \X (1..n))
    BY <2>3, FS_Product
  <2> QED
    BY <1>2, <2>1, <2>2, <2>4
<1>4. PICK R : R = Range(h)
  OBVIOUS
<1>5. IsFiniteSet(R) /\ \A T \in R : IsFiniteSet(T)
  <2>1. h \in [D -> R]
    BY <1>2, <1>4 DEF Range
  <2>2. IsFiniteSet(R)
    BY <1>1, <1>4, <2>1, RangeIsFinite, Zenon
  <2> QED
    BY <1>2, <1>3, <1>4, <2>2 DEF Range
<1>6. IsFiniteSet(UNION R)
  BY <1>5, FS_UNION
<1>7. Places(c) \subseteq UNION R
  BY <1>1, <1>2, <1>4, PlacesAre DEF Range
<1> QED
  BY <1>6, <1>7, FS_Subset

LEMMA UncheckedFinite ==
  ASSUME NEW c \in Contract PROVE IsFiniteSet(UncheckedCalls(c))
<1>1. UncheckedCalls(c) \subseteq Places(c)
  BY DEF UncheckedCalls
<1> QED
  BY <1>1, PlacesFinite, FS_Subset

LEMMA UncheckedStay ==
  ASSUME NEW c \in Contract
  PROVE  Cardinality(UncheckedCalls(ReentrancyFix(c))) = Cardinality(UncheckedCalls(c))
<1>1. PICK d, S, T : d = ReentrancyFix(c) /\ S = UncheckedCalls(c) /\ T = UncheckedCalls(d)
  OBVIOUS
<1>2. DOMAIN d = DOMAIN c
  BY <1>1 DEF ReentrancyFix
<1>3. PICK mv : mv = [i \in DOMAIN c |-> [s \in Dropped(c[i]) |->
                        IF i \in ReentrancyFixable(c) THEN Shift(GuardPoint(c[i].body), s) ELSE s]]
  OBVIOUS
<1>4. ASSUME NEW i \in DOMAIN c
      PROVE  /\ \A s \in Dropped(c[i]) : mv[i][s] \in Dropped(d[i])
             /\ \A s, t \in Dropped(c[i]) : mv[i][s] = mv[i][t] => s = t
             /\ \A t \in Dropped(d[i]) : \E s \in Dropped(c[i]) : mv[i][s] = t
  <2>1. CASE i \notin ReentrancyFixable(c)
    <3>1. d[i] = c[i]
      BY <1>1, <2>1, GuardFixOf, Zenon
    <3>2. \A s \in Dropped(c[i]) : mv[i][s] = s
      BY <1>3, <2>1
    <3> QED
      BY <3>1, <3>2
  <2>2. CASE i \in ReentrancyFixable(c)
    <3>1. PICK body, b, g : body = c[i].body /\ b = Guarded(body) /\ g = GuardPoint(body)
      OBVIOUS
    <3>2. body \in Seq(Statement) /\ g # 0 /\ c[i].item \in {"impl", "testimpl"}
      BY <2>2, <3>1, FixablesAre, Zenon
    <3>3. d[i].body = b /\ d[i].item = c[i].item
      BY <1>1, <2>2, <3>1, GuardFixOf, Zenon
    <3>4. PICK D : D = Dropped(c[i]) /\ D = At(body, {"block", "branch"}, ExternalCalls)
      BY <3>1, <3>2, Zenon DEF Dropped
    <3>5. Dropped(d[i]) = {Shift(g, j) : j \in D}
      <4>1. "lock" \notin ExternalCalls /\ "lockpanic" \notin ExternalCalls
        BY DEF ExternalCalls
      <4>2. At(b, {"block", "branch"}, ExternalCalls) = {Shift(g, j) : j \in At(body, {"block", "branch"}, ExternalCalls)}
        BY <3>1, <3>2, <4>1, GuardMoves
      <4>3. Dropped(d[i]) = At(b, {"block", "branch"}, ExternalCalls)
        BY <3>2, <3>3, Zenon DEF Dropped
      <4> QED
        BY <3>4, <4>2, <4>3
    <3>6. \A s \in D : mv[i][s] = Shift(g, s)
      BY <1>3, <2>2, <3>1, <3>4
    <3>7. \A s, t \in D : Shift(g, s) = Shift(g, t) => s = t
      <4>1. PICK n \in Nat : n = Len(body) /\ g \in 1..n
        BY <3>1, <3>2, GuardedCallIs
      <4>2. Spreads(n, g)
        BY <4>1, ShiftSpreads
      <4>3. D \subseteq 1..n
        BY <3>2, <3>4, <4>1, FewAreAt, Zenon
      <4> QED
        BY <4>2, <4>3, Zenon DEF Spreads
    <3> QED
      BY <3>4, <3>5, <3>6, <3>7
  <2> QED
    BY <2>1, <2>2
<1>5. \A p \in S : \E i \in DOMAIN c : \E s \in Dropped(c[i]) : p = <<i, s>>
  BY <1>1, UncheckedAre
<1>6. \A i \in DOMAIN c : \A s \in Dropped(d[i]) : <<i, s>> \in T
  BY <1>1, <1>2, UncheckedAre, Zenon
<1>7. \A p \in T : \E i \in DOMAIN c : \E s \in Dropped(d[i]) : p = <<i, s>>
  BY <1>1, <1>2, UncheckedAre
<1>8. \A i \in DOMAIN c : \A s \in Dropped(c[i]) : <<i, s>> \in S
  BY <1>1, UncheckedAre, Zenon
<1>9. PICK f : f = [p \in S |-> <<p[1], mv[p[1]][p[2]]>>]
  OBVIOUS
<1>10. \A i \in DOMAIN c : \A s \in Dropped(c[i]) : f[<<i, s>>] = <<i, mv[i][s]>>
  BY <1>8, <1>9
<1>11. f \in [S -> T]
  <2>1. ASSUME NEW p \in S PROVE f[p] \in T
    <3>1. PICK i \in DOMAIN c : \E s \in Dropped(c[i]) : p = <<i, s>>
      BY <1>5
    <3>2. PICK s \in Dropped(c[i]) : p = <<i, s>>
      BY <3>1
    <3>3. f[p] = <<i, mv[i][s]>> /\ mv[i][s] \in Dropped(d[i])
      BY <1>4, <1>10, <3>2, Zenon
    <3> QED
      BY <1>6, <3>3, Zenon
  <2> QED
    BY <1>9, <2>1
<1>12. ASSUME NEW p \in S, NEW q \in S, f[p] = f[q] PROVE p = q
  <2>1. PICK i \in DOMAIN c : \E s \in Dropped(c[i]) : p = <<i, s>>
    BY <1>5
  <2>2. PICK s \in Dropped(c[i]) : p = <<i, s>>
    BY <2>1
  <2>3. PICK j \in DOMAIN c : \E t \in Dropped(c[j]) : q = <<j, t>>
    BY <1>5
  <2>4. PICK t \in Dropped(c[j]) : q = <<j, t>>
    BY <2>3
  <2>5. <<i, mv[i][s]>> = <<j, mv[j][t]>>
    BY <1>10, <1>12, <2>2, <2>4, Zenon
  <2>6. i = j /\ mv[i][s] = mv[i][t]
    BY <2>5
  <2> QED
    BY <1>4, <2>2, <2>4, <2>6, Zenon
<1>13. ASSUME NEW q \in T PROVE \E p \in S : f[p] = q
  <2>1. PICK i \in DOMAIN c : \E t \in Dropped(d[i]) : q = <<i, t>>
    BY <1>7
  <2>2. PICK t \in Dropped(d[i]) : q = <<i, t>>
    BY <2>1
  <2>3. PICK s \in Dropped(c[i]) : mv[i][s] = t
    BY <1>4
  <2> QED
    BY <1>8, <1>10, <2>2, <2>3, Zenon
<1>14. IsFiniteSet(S)
  BY <1>1, UncheckedFinite, Zenon
<1>15. Cardinality(T) = Cardinality(S)
  BY <1>11, <1>12, <1>13, <1>14, SameSize
<1> QED
  BY <1>1, <1>15

(* Whatever the contract: the auth fix closes every gap and leaves the number  *)
(* of calls the reentrancy walker reports; the guard silences its function,    *)
(* adds one panic, and leaves authorisation and unchecked calls as they were.  *)
THEOREM FixesSettleAnywhere ==
  ASSUME subject \in Contract PROVE FixesSettle
<1>1. PICK c : c = subject /\ c \in Contract
  OBVIOUS
<1>2. PICK closed, guarded : closed = AuthGapFix(c) /\ guarded = ReentrancyFix(c)
  OBVIOUS
<1>3. AuthGapRule(closed) = {} /\ ScanAuthGaps(closed) = {}
  BY <1>1, <1>2, GapsClose, Zenon
<1>4. ASSUME NEW i \in DOMAIN c
      PROVE  Cardinality(ReentrancyScan(closed[i].body)) = Cardinality(ReentrancyScan(c[i].body))
  <2>1. CASE i \in AuthGapRule(c)
    <3>1. closed[i].body = <<Stmt("auth", {})>> \o c[i].body /\ c[i].body \in Seq(Statement)
      BY <1>1, <1>2, <2>1, AuthFixOf, BodyOf, Zenon
    <3> QED
      BY <3>1, CallsStay, Zenon
  <2>2. CASE i \notin AuthGapRule(c)
    <3>1. closed[i] = c[i]
      BY <1>1, <1>2, <2>2, AuthFixOf, Zenon
    <3> QED
      BY <3>1
  <2> QED
    BY <2>1, <2>2
<1>5. ASSUME NEW i \in ReentrancyFixable(c)
      PROVE  /\ ~(\E s \in DOMAIN c[i].body : c[i].body[s].ev = "invoke" /\ "assign" \in c[i].body[s].under)
                => ReentrancyScan(guarded[i].body) = {} /\ i \notin ReentrancyFixable(guarded)
             /\ Cardinality({p \in PanicRule(guarded) : p[1] = i})
                  = Cardinality({p \in PanicRule(c) : p[1] = i}) + (IF PanicScope(c[i]) THEN 1 ELSE 0)
  <2>1. /\ i \in DOMAIN c /\ c[i].body \in Seq(Statement) /\ InvokeCount(c[i].body) = 1
        /\ GuardPoint(c[i].body) # 0 /\ guarded[i].body = Guarded(c[i].body)
    <3>1. i \in DOMAIN c /\ c[i].body \in Seq(Statement) /\ InvokeCount(c[i].body) = 1 /\ GuardPoint(c[i].body) # 0
      BY <1>1, FixablesAre
    <3>2. guarded[i].body = Guarded(c[i].body)
      <4>1. PICK d : d = ReentrancyFix(c)[i] /\ d = guarded[i]
        BY <1>2
      <4>2. i \in ReentrancyFixable(c) => d.body = Guarded(c[i].body)
        BY <1>1, <3>1, <4>1, GuardFixOf, Zenon
      <4> QED
        BY <4>1, <4>2
    <3> QED
      BY <3>1, <3>2
  <2>2. ASSUME ~(\E s \in DOMAIN c[i].body : c[i].body[s].ev = "invoke" /\ "assign" \in c[i].body[s].under)
        PROVE  ReentrancyScan(guarded[i].body) = {} /\ i \notin ReentrancyFixable(guarded)
    <3>1. ReentrancyScan(guarded[i].body) = {}
      BY <2>1, <2>2, GuardSilences, Zenon
    <3> QED
      BY <3>1, Zenon DEF ReentrancyFixable
  <2>3. Cardinality({p \in PanicRule(guarded) : p[1] = i})
          = Cardinality({p \in PanicRule(c) : p[1] = i}) + (IF PanicScope(c[i]) THEN 1 ELSE 0)
    BY <1>1, <1>2, OnePanicMore, Zenon DEF PanicsOf
  <2> QED
    BY <2>2, <2>3, Zenon
<1>6. AuthGapRule(guarded) = AuthGapRule(c)
  BY <1>1, <1>2, GapsStay, Zenon
<1>7. ShadowStorage(guarded) \ ShadowStorage(c) \subseteq ReentrancyFixable(c)
  BY <1>1, <1>2, ShadowsOfFixed, Zenon
<1>8. Cardinality(UncheckedCalls(guarded)) = Cardinality(UncheckedCalls(c))
  BY <1>1, <1>2, UncheckedStay, Zenon
<1> QED
  BY <1>1, <1>2, <1>3, <1>4, <1>5, <1>6, <1>7, <1>8, Zenon DEF FixesSettle

(* ---- the events that are published ---- *)
NoEvents == [seen |-> {}, issues |-> {}]
EventLoop(seq, n, g) ==
  g = [s \in SUBSET (1..n) |-> IF s = {} THEN NoEvents
         ELSE LET x == Max(s) IN EventStep(g[s \ {x}], seq[x])]

LEMMA EventLoopRuns ==
  ASSUME NEW seq PROVE \A n \in Nat : \E g : EventLoop(seq, n, g)
<1> DEFINE G == {n \in Nat : \E g : EventLoop(seq, n, g)}
<1>1. 0 \in G
  <2>1. SUBSET (1..0) = {{}}
    OBVIOUS
  <2>2. EventLoop(seq, 0, [s \in SUBSET (1..0) |-> NoEvents])
    BY <2>1 DEF EventLoop
  <2> QED
    BY <2>2
<1>2. ASSUME NEW n \in Nat, n \in G PROVE n + 1 \in G
  <2>1. PICK g : EventLoop(seq, n, g)
    BY <1>2
  <2>2. PICK h : h = [s \in SUBSET (1..(n + 1)) |-> IF n + 1 \in s
                        THEN EventStep(g[s \ {n + 1}], seq[n + 1]) ELSE g[s]]
    OBVIOUS
  <2>3. ASSUME NEW s \in SUBSET (1..(n + 1))
        PROVE  h[s] = IF s = {} THEN NoEvents
                      ELSE LET x == Max(s) IN EventStep(h[s \ {x}], seq[x])
    <3>1. CASE n + 1 \in s
      <4>1. /\ s # {} /\ Max(s) = n + 1 /\ s \ {n + 1} \in SUBSET (1..(n + 1))
            /\ n + 1 \notin s \ {n + 1}
        BY <3>1, TopOfInterval
      <4>2. h[s] = EventStep(g[s \ {n + 1}], seq[n + 1]) /\ h[s \ {n + 1}] = g[s \ {n + 1}]
        BY <2>2, <3>1, <4>1, Zenon
      <4> QED
        BY <4>1, <4>2, Zenon
    <3>2. CASE n + 1 \notin s
      <4>1. /\ s \in SUBSET (1..n)
            /\ s # {} => s \ {Max(s)} \in SUBSET (1..(n + 1)) /\ n + 1 \notin s \ {Max(s)}
        BY <3>2, TopOfInterval
      <4>2. h[s] = g[s] /\ (s # {} => h[s \ {Max(s)}] = g[s \ {Max(s)}])
        BY <2>2, <3>2, <4>1, Zenon
      <4>3. g[s] = IF s = {} THEN NoEvents
                   ELSE LET x == Max(s) IN EventStep(g[s \ {x}], seq[x])
        BY <2>1, <4>1, Zenon DEF EventLoop
      <4> QED
        BY <4>2, <4>3, Zenon
    <3> QED
      BY <3>1, <3>2
  <2>4. EventLoop(seq, n + 1, h)
    BY <2>2, <2>3, Zenon DEF EventLoop
  <2> QED
    BY <2>4
<1>3. Nat \subseteq G
  <2> HIDE DEF G
  <2> QED
    BY <1>1, <1>2, NumbersByInduction
<1> QED
  BY <1>3

LEMMA EventsTraced ==
  ASSUME NEW S, NEW lines \in Seq(S)
  PROVE  \E tr : /\ tr[0] = NoEvents
                 /\ \A k \in 1..Len(lines) :
                      tr[k] = EventStep(tr[k - 1], [at |-> k, line |-> lines[k]])
                 /\ ScanEvents(lines) = tr[Len(lines)].issues
<1>1. PICK n \in Nat : n = Len(lines) /\ DOMAIN lines = 1..n
  OBVIOUS
<1>2. PICK seq : seq = [i \in DOMAIN lines |-> [at |-> i, line |-> lines[i]]]
  OBVIOUS
<1>3. DOMAIN seq = 1..n /\ \A k \in 1..n : seq[k] = [at |-> k, line |-> lines[k]]
  BY <1>1, <1>2
<1>4. PICK g : EventLoop(seq, n, g)
  BY EventLoopRuns
<1>5. PICK it : it = CHOOSE f : EventLoop(seq, n, f)
  OBVIOUS
<1>6. EventLoop(seq, n, it)
  BY <1>4, <1>5
<1>7. ScanEvents(lines) = it[1..n].issues
  <2>1. ScanEvents(lines) = (CHOOSE f : f = [s \in SUBSET DOMAIN seq |-> IF s = {} THEN NoEvents
           ELSE LET x == Max(s) IN EventStep(f[s \ {x}], seq[x])])[DOMAIN seq].issues
    BY <1>2 DEF ScanEvents, FoldLeft, MapThenFoldSet, NoEvents
  <2> QED
    BY <1>3, <1>5, <2>1 DEF EventLoop
<1>8. PICK tr : tr = [k \in 0..n |-> it[1..k]]
  OBVIOUS
<1>9. tr[0] = NoEvents
  <2>1. 1..0 = {} /\ {} \in SUBSET (1..n) /\ 0 \in 0..n
    OBVIOUS
  <2>2. it[{}] = NoEvents
    BY <1>6, <2>1, Zenon DEF EventLoop
  <2> QED
    BY <1>8, <2>1, <2>2
<1>10. ASSUME NEW k \in 1..n PROVE tr[k] = EventStep(tr[k - 1], seq[k])
  <2>1. /\ Max(1..k) = k /\ (1..k) \ {k} = 1..(k - 1) /\ 1..k # {} /\ 1..k \in SUBSET (1..n)
    BY PrefixIs
  <2>2. it[1..k] = EventStep(it[1..(k - 1)], seq[k])
    BY <1>6, <2>1, Zenon DEF EventLoop
  <2>3. k \in 0..n /\ k - 1 \in 0..n
    OBVIOUS
  <2> QED
    BY <1>8, <2>2, <2>3
<1>11. tr[n] = it[1..n]
  BY <1>8
<1> QED
  BY <1>1, <1>3, <1>7, <1>9, <1>10, <1>11

\* What is known of the names after k lines, and which lines contradict it.
NamesSeen(lines, k) == {<<EventName(lines[i], i), TopicCount(lines[i])>> : i \in 1..k}
Contradicts(lines, j) ==
  \E i \in 1..(j - 1) : /\ EventName(lines[i], i) = EventName(lines[j], j)
                        /\ TopicCount(lines[i]) # TopicCount(lines[j])

LEMMA EventStepIs ==
  ASSUME NEW st, NEW k, NEW l, NEW n, n = [at |-> k, line |-> l], NEW name, name = EventName(l, k)
  PROVE  /\ EventStep(st, n).seen = st.seen \cup {<<name, TopicCount(l)>>}
         /\ \A j : <<j, "schema">> \in EventStep(st, n).issues
              <=> \/ <<j, "schema">> \in st.issues
                  \/ j = k /\ \E c \in st.seen : c[1] = name /\ c[2] # TopicCount(l)
<1>1. n.at = k /\ n.line = l
  OBVIOUS
<1>2. EventStep(st, n).seen = st.seen \cup {<<name, TopicCount(l)>>}
  BY <1>1 DEF EventStep
<1>3. PICK E, F : /\ E = {c \in st.seen : c[1] = name}
                  /\ F = IF ~l.short /\ TopicCount(l) > 0 /\ l.string THEN {<<k, "gas">>} ELSE {}
  OBVIOUS
<1>4. EventStep(st, n).issues = st.issues \cup
        (IF \E c \in E : c[2] # TopicCount(l) THEN {<<k, "schema">>} ELSE {}) \cup F
  BY <1>1, <1>3, Zenon DEF EventStep
<1>5. \A j : <<j, "schema">> \notin F
  BY <1>3
<1>6. (\E c \in E : c[2] # TopicCount(l)) <=> \E c \in st.seen : c[1] = name /\ c[2] # TopicCount(l)
  BY <1>3
<1>7. ASSUME NEW j PROVE <<j, "schema">> \in EventStep(st, n).issues
              <=> \/ <<j, "schema">> \in st.issues
                  \/ j = k /\ \E c \in st.seen : c[1] = name /\ c[2] # TopicCount(l)
  <2>1. <<j, "schema">> \in {<<k, "schema">>} <=> j = k
    OBVIOUS
  <2> QED
    BY <1>4, <1>5, <1>6, <2>1
<1> QED
  BY <1>2, <1>7

LEMMA NamesSeenNext ==
  ASSUME NEW lines, NEW k, NEW h, 1..h = 1..k \cup {h}
  PROVE  NamesSeen(lines, h)
           = NamesSeen(lines, k) \cup {<<EventName(lines[h], h), TopicCount(lines[h])>>}
<1>1. \A m, c : c \in NamesSeen(lines, m)
                <=> \E i \in 1..m : c = <<EventName(lines[i], i), TopicCount(lines[i])>>
  BY Zenon DEF NamesSeen
<1>2. ASSUME NEW c PROVE c \in NamesSeen(lines, h)
        <=> c \in NamesSeen(lines, k) \/ c = <<EventName(lines[h], h), TopicCount(lines[h])>>
  <2>1. \A i : i \in 1..h <=> i \in 1..k \/ i = h
    BY Zenon
  <2>2. PICK named, held, before :
          /\ named = [i \in 1..h |-> <<EventName(lines[i], i), TopicCount(lines[i])>>]
          /\ held = (c \in NamesSeen(lines, h)) /\ before = (c \in NamesSeen(lines, k))
    OBVIOUS
  <2>3. held <=> \E i \in 1..h : c = named[i]
    BY <1>1, <2>2, Zenon
  <2>4. before <=> \E i \in 1..k : c = named[i]
    BY <1>1, <2>1, <2>2, Zenon
  <2>5. held <=> before \/ c = named[h]
    BY <2>1, <2>3, <2>4, Zenon
  <2> QED
    BY <2>1, <2>2, <2>5, Zenon
<1> QED
  BY <1>2, Zenon

LEMMA SchemaFound ==
  ASSUME NEW S, NEW lines \in Seq(S)
  PROVE  \A j \in DOMAIN lines : <<j, "schema">> \in ScanEvents(lines) <=> Contradicts(lines, j)
<1>1. PICK n, tr : /\ n \in Nat /\ n = Len(lines) /\ DOMAIN lines = 1..n /\ tr[0] = NoEvents
                   /\ \A k \in 1..n : tr[k] = EventStep(tr[k - 1], [at |-> k, line |-> lines[k]])
                   /\ ScanEvents(lines) = tr[n].issues
  BY EventsTraced
<1> DEFINE Told(k) == \A j \in Nat : <<j, "schema">> \in tr[k].issues <=> j \in 1..k /\ Contradicts(lines, j)
           G == {k \in Nat : k <= n => tr[k].seen = NamesSeen(lines, k) /\ Told(k)}
<1>2. 0 \in G
  BY <1>1 DEF NoEvents, NamesSeen
<1>3. ASSUME NEW k \in Nat, k \in G PROVE k + 1 \in G
  <2> SUFFICES ASSUME k + 1 <= n PROVE tr[k + 1].seen = NamesSeen(lines, k + 1) /\ Told(k + 1)
    OBVIOUS
  <2>1. PICK h \in 1..n : h = k + 1 /\ h - 1 = k /\ 1..h = 1..k \cup {h} /\ h \notin 1..k
    OBVIOUS
  <2>2. PICK st, l, name : st = tr[k] /\ l = lines[h] /\ name = EventName(l, h)
    OBVIOUS
  <2>3. tr[h] = EventStep(st, [at |-> h, line |-> l])
    BY <1>1, <2>1, <2>2, Zenon
  <2>4. st.seen = NamesSeen(lines, k) /\ Told(k)
    <3>1. k <= n
      BY <1>1
    <3> QED
      BY <1>3, <2>2, <3>1, Zenon
  <2>5. tr[h].seen = NamesSeen(lines, h)
    <3>1. tr[h].seen = st.seen \cup {<<name, TopicCount(l)>>}
      BY <2>2, <2>3, EventStepIs
    <3>2. NamesSeen(lines, h)
            = NamesSeen(lines, k) \cup {<<EventName(lines[h], h), TopicCount(lines[h])>>}
      BY <2>1, NamesSeenNext
    <3> QED
      BY <2>2, <2>4, <3>1, <3>2, Zenon
  <2>6. (\E c \in st.seen : c[1] = name /\ c[2] # TopicCount(l)) <=> Contradicts(lines, h)
    <3>1. \A c : c \in st.seen <=> \E i \in 1..k : c = <<EventName(lines[i], i), TopicCount(lines[i])>>
      BY <2>4, Zenon DEF NamesSeen
    <3>2. \A c, i : c = <<EventName(lines[i], i), TopicCount(lines[i])>>
                      => c[1] = EventName(lines[i], i) /\ c[2] = TopicCount(lines[i])
      OBVIOUS
    <3>3. 1..(h - 1) = 1..k
      BY <2>1
    <3>4. (\E c \in st.seen : c[1] = name /\ c[2] # TopicCount(l))
            <=> \E i \in 1..k : EventName(lines[i], i) = name /\ TopicCount(lines[i]) # TopicCount(l)
      <4>1. ASSUME NEW c \in st.seen, c[1] = name /\ c[2] # TopicCount(l)
            PROVE  \E i \in 1..k : EventName(lines[i], i) = name /\ TopicCount(lines[i]) # TopicCount(l)
        <5>1. PICK i \in 1..k : c = <<EventName(lines[i], i), TopicCount(lines[i])>>
          BY <3>1
        <5>2. c[1] = EventName(lines[i], i) /\ c[2] = TopicCount(lines[i])
          BY <3>2, <5>1
        <5> QED
          BY <4>1, <5>2
      <4>2. ASSUME NEW i \in 1..k, EventName(lines[i], i) = name /\ TopicCount(lines[i]) # TopicCount(l)
            PROVE  \E c \in st.seen : c[1] = name /\ c[2] # TopicCount(l)
        BY <3>1, <3>2, <4>2, Zenon
      <4> QED
        BY <4>1, <4>2
    <3> QED
      BY <2>2, <3>3, <3>4, Zenon DEF Contradicts
  <2>7. Told(h)
    <3> SUFFICES ASSUME NEW j \in Nat
                 PROVE  <<j, "schema">> \in tr[h].issues <=> j \in 1..h /\ Contradicts(lines, j)
      OBVIOUS
    <3>1. <<j, "schema">> \in tr[h].issues <=> <<j, "schema">> \in st.issues \/ (j = h /\ Contradicts(lines, h))
      BY <2>2, <2>3, <2>6, EventStepIs
    <3> QED
      BY <2>1, <2>2, <2>4, <3>1, Zenon
  <2> QED
    BY <2>1, <2>5, <2>7
<1>4. Nat \subseteq G
  <2> HIDE DEF G
  <2> QED
    BY <1>2, <1>3, NumbersByInduction
<1>5. Told(n)
  <2>1. n \in G /\ n <= n
    BY <1>1, <1>4
  <2> QED
    BY <2>1, Zenon
<1>6. \A j \in 1..n : j \in Nat
  OBVIOUS
<1> QED
  BY <1>1, <1>5, <1>6, Zenon

\* Two lines publish the same event only when both have a name.
LEMMA SameEvent ==
  ASSUME NEW l, NEW m, NEW i \in Nat, NEW j \in Nat, i # 0, j # 0, i # j
  PROVE  EventName(l, i) = EventName(m, j) <=> HasName(l) /\ HasName(m) /\ l.name = m.name
<1>1. \A x, y : <<x, 0>> # <<y, i>> /\ <<x, 0>> # <<y, j>>
  OBVIOUS
<1>2. \A x : <<x, i>> # <<x, j>>
  OBVIOUS
<1>3. \A x, y : <<x, 0>> = <<y, 0>> <=> x = y
  OBVIOUS
<1>4. EventName(l, i) = IF HasName(l) THEN <<l.name, 0>> ELSE <<"unknown", i>>
  BY DEF EventName
<1>5. EventName(m, j) = IF HasName(m) THEN <<m.name, 0>> ELSE <<"unknown", j>>
  BY DEF EventName
<1>6. CASE HasName(l) /\ HasName(m)
  BY <1>3, <1>4, <1>5, <1>6
<1>7. CASE HasName(l) /\ ~HasName(m)
  <2>1. EventName(l, i) = <<l.name, 0>> /\ EventName(m, j) = <<"unknown", j>>
    BY <1>4, <1>5, <1>7
  <2> QED
    BY <1>1, <1>7, <2>1
<1>8. CASE ~HasName(l) /\ HasName(m)
  <2>1. EventName(l, i) = <<"unknown", i>> /\ EventName(m, j) = <<m.name, 0>>
    BY <1>4, <1>5, <1>8
  <2> QED
    BY <1>1, <1>8, <2>1
<1>9. CASE ~HasName(l) /\ ~HasName(m)
  <2>1. EventName(l, i) = <<"unknown", i>> /\ EventName(m, j) = <<"unknown", j>>
    BY <1>4, <1>5, <1>9
  <2> QED
    BY <1>2, <1>9, <2>1
<1> QED
  BY <1>6, <1>7, <1>8, <1>9

\* The lines that contradict an earlier one.
Reported(lines, j) ==
  /\ HasName(lines[j])
  /\ \E i \in 1..(j - 1) : /\ HasName(lines[i]) /\ lines[i].name = lines[j].name
                           /\ TopicCount(lines[i]) # TopicCount(lines[j])
LEMMA EventsJudged ==
  ASSUME NEW S, NEW lines \in Seq(S)
  PROVE  \A j \in DOMAIN lines : <<j, "schema">> \in ScanEvents(lines) <=> Reported(lines, j)
<1> SUFFICES ASSUME NEW j \in DOMAIN lines
             PROVE  <<j, "schema">> \in ScanEvents(lines) <=> Reported(lines, j)
  OBVIOUS
<1>1. \A i \in 1..(j - 1) : i \in Nat /\ j \in Nat /\ i # 0 /\ j # 0 /\ i # j
  OBVIOUS
<1>2. \A i \in 1..(j - 1) : EventName(lines[i], i) = EventName(lines[j], j)
                              <=> HasName(lines[i]) /\ HasName(lines[j]) /\ lines[i].name = lines[j].name
  BY <1>1, SameEvent
<1>3. Contradicts(lines, j) <=> Reported(lines, j)
  BY <1>2, Zenon DEF Contradicts, Reported
<1> QED
  BY <1>3, SchemaFound

(* ---- the vulnerability database ---- *)
NothingKept == [index |-> 0, ids |-> NoneSeen, names |-> NoneSeen,
                signatures |-> NoneSeen, errors |-> {}]
EntryLoop(seq, n, g) ==
  g = [s \in SUBSET (1..n) |-> IF s = {} THEN NothingKept
         ELSE LET x == Max(s) IN CheckEntry(g[s \ {x}], seq[x])]

LEMMA EntryLoopRuns ==
  ASSUME NEW seq PROVE \A n \in Nat : \E g : EntryLoop(seq, n, g)
<1> DEFINE G == {n \in Nat : \E g : EntryLoop(seq, n, g)}
<1>1. 0 \in G
  <2>1. SUBSET (1..0) = {{}}
    OBVIOUS
  <2>2. EntryLoop(seq, 0, [s \in SUBSET (1..0) |-> NothingKept])
    BY <2>1 DEF EntryLoop
  <2> QED
    BY <2>2
<1>2. ASSUME NEW n \in Nat, n \in G PROVE n + 1 \in G
  <2>1. PICK g : EntryLoop(seq, n, g)
    BY <1>2
  <2>2. PICK h : h = [s \in SUBSET (1..(n + 1)) |-> IF n + 1 \in s
                        THEN CheckEntry(g[s \ {n + 1}], seq[n + 1]) ELSE g[s]]
    OBVIOUS
  <2>3. ASSUME NEW s \in SUBSET (1..(n + 1))
        PROVE  h[s] = IF s = {} THEN NothingKept
                      ELSE LET x == Max(s) IN CheckEntry(h[s \ {x}], seq[x])
    <3>1. CASE n + 1 \in s
      <4>1. /\ s # {} /\ Max(s) = n + 1 /\ s \ {n + 1} \in SUBSET (1..(n + 1))
            /\ n + 1 \notin s \ {n + 1}
        BY <3>1, TopOfInterval
      <4>2. h[s] = CheckEntry(g[s \ {n + 1}], seq[n + 1]) /\ h[s \ {n + 1}] = g[s \ {n + 1}]
        BY <2>2, <3>1, <4>1, Zenon
      <4> QED
        BY <4>1, <4>2, Zenon
    <3>2. CASE n + 1 \notin s
      <4>1. /\ s \in SUBSET (1..n)
            /\ s # {} => s \ {Max(s)} \in SUBSET (1..(n + 1)) /\ n + 1 \notin s \ {Max(s)}
        BY <3>2, TopOfInterval
      <4>2. h[s] = g[s] /\ (s # {} => h[s \ {Max(s)}] = g[s \ {Max(s)}])
        BY <2>2, <3>2, <4>1, Zenon
      <4>3. g[s] = IF s = {} THEN NothingKept
                   ELSE LET x == Max(s) IN CheckEntry(g[s \ {x}], seq[x])
        BY <2>1, <4>1, Zenon DEF EntryLoop
      <4> QED
        BY <4>2, <4>3, Zenon
    <3> QED
      BY <3>1, <3>2
  <2>4. EntryLoop(seq, n + 1, h)
    BY <2>2, <2>3, Zenon DEF EntryLoop
  <2> QED
    BY <2>4
<1>3. Nat \subseteq G
  <2> HIDE DEF G
  <2> QED
    BY <1>1, <1>2, NumbersByInduction
<1> QED
  BY <1>3

LEMMA EntriesTraced ==
  ASSUME NEW S, NEW db \in Seq(S)
  PROVE  \E tr : /\ tr[0] = NothingKept
                 /\ \A k \in 1..Len(db) : tr[k] = CheckEntry(tr[k - 1], db[k])
                 /\ VulnErrors(db) = tr[Len(db)].errors
<1>1. PICK n \in Nat : n = Len(db) /\ DOMAIN db = 1..n
  OBVIOUS
<1>4. PICK g : EntryLoop(db, n, g)
  BY EntryLoopRuns
<1>5. PICK it : it = CHOOSE f : EntryLoop(db, n, f)
  OBVIOUS
<1>6. EntryLoop(db, n, it)
  BY <1>4, <1>5
<1>7. VulnErrors(db) = it[1..n].errors
  <2>1. VulnErrors(db) = (CHOOSE f : f = [s \in SUBSET DOMAIN db |-> IF s = {} THEN NothingKept
           ELSE LET x == Max(s) IN CheckEntry(f[s \ {x}], db[x])])[DOMAIN db].errors
    BY DEF VulnErrors, FoldLeft, MapThenFoldSet, NothingKept
  <2> QED
    BY <1>1, <1>5, <2>1 DEF EntryLoop
<1>8. PICK tr : tr = [k \in 0..n |-> it[1..k]]
  OBVIOUS
<1>9. tr[0] = NothingKept
  <2>1. 1..0 = {} /\ {} \in SUBSET (1..n) /\ 0 \in 0..n
    OBVIOUS
  <2>2. it[{}] = NothingKept
    BY <1>6, <2>1, Zenon DEF EntryLoop
  <2> QED
    BY <1>8, <2>1, <2>2
<1>10. ASSUME NEW k \in 1..n PROVE tr[k] = CheckEntry(tr[k - 1], db[k])
  <2>1. /\ Max(1..k) = k /\ (1..k) \ {k} = 1..(k - 1) /\ 1..k # {} /\ 1..k \in SUBSET (1..n)
    BY PrefixIs
  <2>2. it[1..k] = CheckEntry(it[1..(k - 1)], db[k])
    BY <1>6, <2>1, Zenon DEF EntryLoop
  <2>3. k \in 0..n /\ k - 1 \in 0..n
    OBVIOUS
  <2> QED
    BY <1>8, <2>2, <2>3
<1>11. tr[n] = it[1..n]
  BY <1>8
<1> QED
  BY <1>1, <1>7, <1>9, <1>10, <1>11

\* One entry more, after what the maps and the errors were.
ClashAt(seen, key, kind, n) == IF key \in DOMAIN seen THEN {<<kind, seen[key], n>>} ELSE {}

LEMMA CheckEntryIs ==
  ASSUME NEW st, NEW v, NEW n, n = st.index + 1
  PROVE  /\ CheckEntry(st, v).index = n
         /\ DOMAIN CheckEntry(st, v).ids = DOMAIN st.ids \cup {v.id}
         /\ DOMAIN CheckEntry(st, v).names = DOMAIN st.names \cup {v.name}
         /\ DOMAIN CheckEntry(st, v).signatures = DOMAIN st.signatures \cup {v.signature}
         /\ CheckEntry(st, v).errors
              = st.errors \cup (IF v.sound THEN {} ELSE {<<"field", n, n>>})
                  \cup ClashAt(st.ids, v.id, "id", n) \cup ClashAt(st.names, v.name, "name", n)
                  \cup ClashAt(st.signatures, v.signature, "signature", n)
<1>1. PICK new : new = CheckEntry(st, v)
  OBVIOUS
<1>2. /\ new.index = n /\ new.ids = InsertKey(st.ids, v.id, n)
      /\ new.names = InsertKey(st.names, v.name, n)
      /\ new.signatures = InsertKey(st.signatures, v.signature, n)
  BY <1>1 DEF CheckEntry
<1>3. \A seen, key : DOMAIN InsertKey(seen, key, n) = DOMAIN seen \cup {key}
  BY DEF InsertKey
<1>4. new.errors = st.errors \cup (IF v.sound THEN {} ELSE {<<"field", n, n>>})
                  \cup ClashAt(st.ids, v.id, "id", n) \cup ClashAt(st.names, v.name, "name", n)
                  \cup ClashAt(st.signatures, v.signature, "signature", n)
  BY <1>1, Zenon DEF CheckEntry, ClashAt
<1> QED
  BY <1>1, <1>2, <1>3, <1>4, Zenon

IdsOf(db, k) == {db[i].id : i \in 1..k}
NamesOf(db, k) == {db[i].name : i \in 1..k}
SignaturesOf(db, k) == {db[i].signature : i \in 1..k}
IdErrors(errors) == {e \in errors : e[1] = "id"}
\* Nothing is held against entry j; nothing against the first k.
Accepted(db, j) == /\ db[j].sound /\ db[j].id \notin IdsOf(db, j - 1)
                   /\ db[j].name \notin NamesOf(db, j - 1)
                   /\ db[j].signature \notin SignaturesOf(db, j - 1)
Clean(db, k) == \A j \in 1..k : Accepted(db, j)

Keeps(db, k, st) ==
  /\ st.index = k
  /\ DOMAIN st.ids = IdsOf(db, k) /\ DOMAIN st.names = NamesOf(db, k)
  /\ DOMAIN st.signatures = SignaturesOf(db, k)
  /\ st.errors = {} <=> Clean(db, k)
  /\ \A e \in st.errors : e[3] \in 1..k
  /\ IsFiniteSet(IdErrors(st.errors)) /\ IsFiniteSet(IdsOf(db, k))
  /\ Cardinality(IdErrors(st.errors)) + Cardinality(IdsOf(db, k)) = k

LEMMA ClashIs ==
  ASSUME NEW seen, NEW key, NEW kind, NEW n, NEW A, A = ClashAt(seen, key, kind, n)
  PROVE  (A = {} <=> key \notin DOMAIN seen) /\ \A e \in A : e[1] = kind /\ e[3] = n
<1>1. A # {} <=> key \in DOMAIN seen
  BY DEF ClashAt
<1>2. \A e \in A : e = <<kind, seen[key], n>>
  BY DEF ClashAt
<1>3. \A e \in A : e[1] = kind /\ e[3] = n
  BY <1>2
<1> QED
  BY <1>1, <1>3, Zenon

ErrorsAdded(st, v, n, new) ==
  new = st.errors \cup (IF v.sound THEN {} ELSE {<<"field", n, n>>})
          \cup ClashAt(st.ids, v.id, "id", n) \cup ClashAt(st.names, v.name, "name", n)
          \cup ClashAt(st.signatures, v.signature, "signature", n)

LEMMA ErrorsGrow ==
  ASSUME NEW st, NEW v, NEW n, NEW new, ErrorsAdded(st, v, n, new)
  PROVE  /\ new = {} <=> /\ st.errors = {} /\ v.sound /\ v.id \notin DOMAIN st.ids
                         /\ v.name \notin DOMAIN st.names /\ v.signature \notin DOMAIN st.signatures
         /\ IdErrors(new) = IdErrors(st.errors) \cup ClashAt(st.ids, v.id, "id", n)
         /\ \A e \in new : e \in st.errors \/ e[3] = n
<1>0. PICK old, ids, names, sigs, i, m, g, sound :
        /\ old = st.errors /\ ids = st.ids /\ names = st.names /\ sigs = st.signatures
        /\ i = v.id /\ m = v.name /\ g = v.signature /\ sound = v.sound
  OBVIOUS
<1>1. PICK F, A, B, C : /\ F = IF sound THEN {} ELSE {<<"field", n, n>>}
                        /\ A = ClashAt(ids, i, "id", n) /\ B = ClashAt(names, m, "name", n)
                        /\ C = ClashAt(sigs, g, "signature", n)
  OBVIOUS
<1>2. new = old \cup F \cup A \cup B \cup C
  BY <1>0, <1>1, Zenon DEF ErrorsAdded
<1>3. /\ F = {} <=> sound
      /\ \A e \in F : e[1] = "field" /\ e[3] = n
  <2>1. F # {} <=> ~sound
    BY <1>1
  <2>2. \A e \in F : e = <<"field", n, n>>
    BY <1>1
  <2>3. \A e \in F : e[1] = "field" /\ e[3] = n
    BY <2>2
  <2> QED
    BY <2>1, <2>3, Zenon
<1>4. (A = {} <=> i \notin DOMAIN ids) /\ \A e \in A : e[1] = "id" /\ e[3] = n
  BY <1>1, ClashIs
<1>5. (B = {} <=> m \notin DOMAIN names) /\ \A e \in B : e[1] = "name" /\ e[3] = n
  BY <1>1, ClashIs
<1>6. (C = {} <=> g \notin DOMAIN sigs) /\ \A e \in C : e[1] = "signature" /\ e[3] = n
  BY <1>1, ClashIs
<1>7. new = {} <=> old = {} /\ F = {} /\ A = {} /\ B = {} /\ C = {}
  BY <1>2
<1>8. IdErrors(new) = IdErrors(old) \cup A
  <2>1. "field" # "id" /\ "name" # "id" /\ "signature" # "id"
    OBVIOUS
  <2>2. \A e : e \in new /\ e[1] = "id" <=> (e \in old /\ e[1] = "id") \/ e \in A
    BY <1>2, <1>3, <1>4, <1>5, <1>6, <2>1, Zenon
  <2> QED
    BY <2>2, Zenon DEF IdErrors
<1>9. \A e \in new : e \in old \/ e[3] = n
  BY <1>2, <1>3, <1>4, <1>5, <1>6, Zenon
<1> QED
  BY <1>0, <1>1, <1>3, <1>4, <1>5, <1>6, <1>7, <1>8, <1>9, Zenon

\* Of the keys and the errors of one kind, exactly one grows with each entry.
OneMore(E, K, F, e, x) == e \notin E /\ F = E \cup (IF x \in K THEN {e} ELSE {})

LEMMA OneGrows ==
  ASSUME NEW k \in Nat, NEW E, NEW K, IsFiniteSet(E), IsFiniteSet(K),
         Cardinality(E) + Cardinality(K) = k, NEW e, NEW x, NEW F, OneMore(E, K, F, e, x)
  PROVE  /\ IsFiniteSet(F) /\ IsFiniteSet(K \cup {x})
         /\ Cardinality(F) + Cardinality(K \cup {x}) = k + 1
<1>1. Cardinality(E) \in Nat /\ Cardinality(K) \in Nat /\ e \notin E
  BY FS_CardinalityType DEF OneMore
<1>2. CASE x \in K
  <2>1. F = E \cup {e} /\ K \cup {x} = K
    BY <1>2 DEF OneMore
  <2>2. IsFiniteSet(E \cup {e}) /\ Cardinality(E \cup {e}) = Cardinality(E) + 1
    BY <1>1, FS_AddElement
  <2>3. IsFiniteSet(F) /\ Cardinality(F) = Cardinality(E) + 1 /\ Cardinality(K \cup {x}) = Cardinality(K)
    BY <2>1, <2>2, Zenon
  <2> QED
    BY <1>1, <2>1, <2>3
<1>3. CASE x \notin K
  <2>1. F = E
    BY <1>3 DEF OneMore
  <2>2. IsFiniteSet(K \cup {x}) /\ Cardinality(K \cup {x}) = Cardinality(K) + 1
    BY <1>3, FS_AddElement
  <2>3. IsFiniteSet(F) /\ Cardinality(F) = Cardinality(E)
    BY <2>1, Zenon
  <2> QED
    BY <1>1, <2>2, <2>3
<1> QED
  BY <1>2, <1>3

LEMMA KeepsNext ==
  ASSUME NEW db, NEW k \in Nat, NEW st, Keeps(db, k, st)
  PROVE  Keeps(db, k + 1, CheckEntry(st, db[k + 1]))
<1>1. PICK n \in Nat : n = k + 1 /\ n - 1 = k /\ 1..n = 1..k \cup {n} /\ n \notin 1..k
  OBVIOUS
<1>2. PICK v, new : v = db[n] /\ new = CheckEntry(st, v)
  OBVIOUS
<1>3. /\ st.index = k /\ n = st.index + 1
      /\ DOMAIN st.ids = IdsOf(db, k) /\ DOMAIN st.names = NamesOf(db, k)
      /\ DOMAIN st.signatures = SignaturesOf(db, k)
      /\ st.errors = {} <=> Clean(db, k)
      /\ \A e \in st.errors : e[3] \in 1..k
      /\ IsFiniteSet(IdErrors(st.errors)) /\ IsFiniteSet(IdsOf(db, k))
      /\ Cardinality(IdErrors(st.errors)) + Cardinality(IdsOf(db, k)) = k
  BY <1>1 DEF Keeps
<1>4. /\ IdsOf(db, n) = IdsOf(db, k) \cup {v.id} /\ NamesOf(db, n) = NamesOf(db, k) \cup {v.name}
      /\ SignaturesOf(db, n) = SignaturesOf(db, k) \cup {v.signature}
  BY <1>1, <1>2, Zenon DEF IdsOf, NamesOf, SignaturesOf
<1>5. /\ new.index = n /\ DOMAIN new.ids = DOMAIN st.ids \cup {v.id}
      /\ DOMAIN new.names = DOMAIN st.names \cup {v.name}
      /\ DOMAIN new.signatures = DOMAIN st.signatures \cup {v.signature}
      /\ ErrorsAdded(st, v, n, new.errors)
  BY <1>2, <1>3, CheckEntryIs DEF ErrorsAdded
<1>6. /\ new.errors = {} <=> /\ st.errors = {} /\ v.sound /\ v.id \notin DOMAIN st.ids
                             /\ v.name \notin DOMAIN st.names
                             /\ v.signature \notin DOMAIN st.signatures
      /\ IdErrors(new.errors) = IdErrors(st.errors) \cup ClashAt(st.ids, v.id, "id", n)
      /\ \A e \in new.errors : e \in st.errors \/ e[3] = n
  <2>1. PICK er : er = new.errors
    OBVIOUS
  <2>2. ErrorsAdded(st, v, n, er)
    BY <1>5, <2>1, Zenon
  <2>3. er = {} <=> /\ st.errors = {} /\ v.sound /\ v.id \notin DOMAIN st.ids
                    /\ v.name \notin DOMAIN st.names /\ v.signature \notin DOMAIN st.signatures
    BY <2>2, ErrorsGrow, Zenon
  <2>4. IdErrors(er) = IdErrors(st.errors) \cup ClashAt(st.ids, v.id, "id", n)
    BY <2>2, ErrorsGrow, Zenon
  <2>5. \A e \in er : e \in st.errors \/ e[3] = n
    BY <2>2, ErrorsGrow, Zenon
  <2> QED
    BY <2>1, <2>3, <2>4, <2>5, Zenon
<1>7. new.errors = {} <=> Clean(db, n)
  <2>1. Accepted(db, n) <=> /\ v.sound /\ v.id \notin DOMAIN st.ids
                             /\ v.name \notin DOMAIN st.names
                             /\ v.signature \notin DOMAIN st.signatures
    BY <1>1, <1>2, <1>3, Zenon DEF Accepted
  <2>2. Clean(db, n) <=> Clean(db, k) /\ Accepted(db, n)
    BY <1>1, Zenon DEF Clean
  <2> QED
    BY <1>3, <1>6, <2>1, <2>2, Zenon
<1>8. \A e \in new.errors : e[3] \in 1..n
  BY <1>1, <1>3, <1>6, Zenon
<1>9. /\ IsFiniteSet(IdErrors(new.errors)) /\ IsFiniteSet(IdsOf(db, n))
      /\ Cardinality(IdErrors(new.errors)) + Cardinality(IdsOf(db, n)) = n
  <2>1. PICK e : e = <<"id", st.ids[v.id], n>>
    OBVIOUS
  <2>2. e \notin IdErrors(st.errors)
    <3>1. e[3] = n
      BY <2>1
    <3> QED
      BY <1>1, <1>3, <3>1, Zenon DEF IdErrors
  <2>3. PICK E, K, F : E = IdErrors(st.errors) /\ K = IdsOf(db, k) /\ F = IdErrors(new.errors)
    OBVIOUS
  <2>4. OneMore(E, K, F, e, v.id)
    BY <1>3, <1>6, <2>1, <2>2, <2>3, Zenon DEF ClashAt, OneMore
  <2>5. /\ IsFiniteSet(F) /\ IsFiniteSet(K \cup {v.id})
        /\ Cardinality(F) + Cardinality(K \cup {v.id}) = k + 1
    <3>1. IsFiniteSet(E) /\ IsFiniteSet(K) /\ Cardinality(E) + Cardinality(K) = k /\ e \notin E
      BY <1>3, <2>2, <2>3, Zenon
    <3> QED
      <4>1. IsFiniteSet(F) /\ IsFiniteSet(K \cup {v.id})
        BY <2>4, <3>1, OneGrows, Zenon
      <4>2. Cardinality(F) + Cardinality(K \cup {v.id}) = k + 1
        <5>1. PICK x : x = v.id
          OBVIOUS
        <5>2. OneMore(E, K, F, e, x)
          BY <2>4, <5>1, Zenon
        <5>3. Cardinality(F) + Cardinality(K \cup {x}) = k + 1
          BY <3>1, <5>2, OneGrows, SMTT(30)
        <5> QED
          BY <5>1, <5>3
      <4> QED
        BY <4>1, <4>2
  <2> QED
    BY <1>1, <1>4, <2>3, <2>5, Zenon
<1>10. Keeps(db, n, new)
  BY <1>3, <1>4, <1>5, <1>7, <1>8, <1>9, Zenon DEF Keeps
<1> QED
  BY <1>1, <1>2, <1>10, Zenon

LEMMA KeepsAll ==
  ASSUME NEW S, NEW db \in Seq(S)
  PROVE  /\ VulnErrors(db) = {} <=> Clean(db, Len(db))
         /\ Cardinality(IdErrors(VulnErrors(db))) = Len(db) - Cardinality(IdsOf(db, Len(db)))
<1>1. PICK n, tr : /\ n \in Nat /\ n = Len(db) /\ tr[0] = NothingKept
                   /\ \A k \in 1..n : tr[k] = CheckEntry(tr[k - 1], db[k])
                   /\ VulnErrors(db) = tr[n].errors
  BY EntriesTraced
<1> DEFINE G == {k \in Nat : k <= n => Keeps(db, k, tr[k])}
<1>2. 0 \in G
  <2>1. PICK st : st = tr[0]
    OBVIOUS
  <2>2. st.index = 0 /\ st.ids = NoneSeen /\ st.names = NoneSeen /\ st.signatures = NoneSeen
        /\ st.errors = {}
    BY <1>1, <2>1 DEF NothingKept
  <2>3. DOMAIN NoneSeen = {}
    BY DEF NoneSeen
  <2>4. IdsOf(db, 0) = {} /\ NamesOf(db, 0) = {} /\ SignaturesOf(db, 0) = {} /\ Clean(db, 0)
    BY DEF IdsOf, NamesOf, SignaturesOf, Clean
  <2>5. IdErrors({}) = {}
    BY DEF IdErrors
  <2>6. IsFiniteSet({}) /\ Cardinality({}) + Cardinality({}) = 0
    BY FS_EmptySet
  <2>7. Keeps(db, 0, st)
    BY <2>2, <2>3, <2>4, <2>5, <2>6, Zenon DEF Keeps
  <2> QED
    BY <2>1, <2>7
<1>3. ASSUME NEW k \in Nat, k \in G PROVE k + 1 \in G
  <2> SUFFICES ASSUME k + 1 <= n PROVE Keeps(db, k + 1, tr[k + 1])
    OBVIOUS
  <2>1. k + 1 \in 1..n /\ (k + 1) - 1 = k /\ k <= n
    BY <1>1
  <2>2. Keeps(db, k, tr[k]) /\ tr[k + 1] = CheckEntry(tr[k], db[k + 1])
    BY <1>1, <1>3, <2>1
  <2> QED
    BY <2>2, KeepsNext
<1>4. Nat \subseteq G
  <2> HIDE DEF G
  <2> QED
    BY <1>2, <1>3, NumbersByInduction
<1>5. Keeps(db, n, tr[n])
  <2>1. n \in G /\ n <= n
    BY <1>1, <1>4
  <2> QED
    BY <2>1, Zenon
<1>6. PICK E, K : E = IdErrors(tr[n].errors) /\ K = IdsOf(db, n)
  OBVIOUS
<1>7. IsFiniteSet(E) /\ IsFiniteSet(K) /\ Cardinality(E) + Cardinality(K) = n
  BY <1>5, <1>6, Zenon DEF Keeps
<1>8. Cardinality(E) \in Nat /\ Cardinality(K) \in Nat
  BY <1>7, FS_CardinalityType
<1>9. Cardinality(E) = n - Cardinality(K)
  BY <1>1, <1>7, <1>8
<1>10. VulnErrors(db) = {} <=> Clean(db, n)
  BY <1>1, <1>5, Zenon DEF Keeps
<1> QED
  BY <1>1, <1>6, <1>9, <1>10, Zenon

Apart(db, n) ==
  /\ \A i, j \in 1..n : db[i].id = db[j].id => i = j
  /\ \A i, j \in 1..n : db[i].name = db[j].name => i = j
  /\ \A i, j \in 1..n : db[i].signature = db[j].signature => i = j

LEMMA CleanIsApart ==
  ASSUME NEW db, NEW n \in Nat
  PROVE  Clean(db, n) <=> (\A i \in 1..n : db[i].sound) /\ Apart(db, n)
<1>1. \A j \in 1..n : \A i \in 1..(j - 1) : i \in 1..n /\ i # j
  OBVIOUS
<1>2. \A i, j \in 1..n : i = j \/ i \in 1..(j - 1) \/ j \in 1..(i - 1)
  OBVIOUS
<1>3. ASSUME Clean(db, n) PROVE (\A i \in 1..n : db[i].sound) /\ Apart(db, n)
  <2>1. \A j \in 1..n : /\ db[j].sound
                        /\ \A i \in 1..(j - 1) : /\ db[i].id # db[j].id /\ db[i].name # db[j].name
                                                 /\ db[i].signature # db[j].signature
    BY <1>3, Zenon DEF Clean, Accepted, IdsOf, NamesOf, SignaturesOf
  <2>2. \A i, j \in 1..n : db[i].id = db[j].id => i = j
    BY <1>2, <2>1, Zenon
  <2>3. \A i, j \in 1..n : db[i].name = db[j].name => i = j
    BY <1>2, <2>1, Zenon
  <2>4. \A i, j \in 1..n : db[i].signature = db[j].signature => i = j
    BY <1>2, <2>1, Zenon
  <2> QED
    BY <2>1, <2>2, <2>3, <2>4, Zenon DEF Apart
<1>4. ASSUME \A i \in 1..n : db[i].sound, Apart(db, n) PROVE Clean(db, n)
  <2> SUFFICES ASSUME NEW j \in 1..n PROVE Accepted(db, j)
    BY DEF Clean
  <2>1. \A i \in 1..(j - 1) : /\ db[i].id # db[j].id /\ db[i].name # db[j].name
                              /\ db[i].signature # db[j].signature
    BY <1>1, <1>4, Zenon DEF Apart
  <2> QED
    BY <1>4, <2>1, Zenon DEF Accepted, IdsOf, NamesOf, SignaturesOf
<1> QED
  BY <1>3, <1>4, Zenon

LEMMA DatabaseJudged ==
  ASSUME NEW S, NEW db \in Seq(S), NEW n, n = Len(db)
  PROVE  /\ \A empty : ValidateDb(empty, db) <=>
              empty = {} /\ db # <<>> /\ (\A i \in DOMAIN db : db[i].sound) /\ Apart(db, n)
         /\ Cardinality({e \in VulnErrors(db) : e[1] = "id"})
              = n - Cardinality({db[i].id : i \in DOMAIN db})
<1>1. n \in Nat /\ DOMAIN db = 1..n
  OBVIOUS
<1>2. /\ VulnErrors(db) = {} <=> Clean(db, n)
      /\ Cardinality(IdErrors(VulnErrors(db))) = n - Cardinality(IdsOf(db, n))
  BY KeepsAll
<1>3. Clean(db, n) <=> (\A i \in DOMAIN db : db[i].sound) /\ Apart(db, n)
  BY <1>1, CleanIsApart, Zenon
<1>4. ASSUME NEW empty
      PROVE  ValidateDb(empty, db) <=>
               empty = {} /\ db # <<>> /\ (\A i \in DOMAIN db : db[i].sound) /\ Apart(db, n)
  BY <1>2, <1>3, Zenon DEF ValidateDb
<1>5. IdErrors(VulnErrors(db)) = {e \in VulnErrors(db) : e[1] = "id"}
  BY DEF IdErrors
<1>6. IdsOf(db, n) = {db[i].id : i \in DOMAIN db}
  BY <1>1, Zenon DEF IdsOf
<1> QED
  BY <1>2, <1>4, <1>5, <1>6, Zenon

(* ---- the token interface ---- *)
\* The first method of a name, and that no later one changes it.
LEMMA FirstOfName ==
  ASSUME NEW S, NEW l \in Seq(S), NEW n, n \in MethodNames(l)
  PROVE  \E i \in DOMAIN l : l[i].name = n /\ \A j \in 1..(i - 1) : l[j].name # n
<1>1. PICK T \in SUBSET Nat : T = {i \in DOMAIN l : l[i].name = n}
  <2>1. PICK k \in Nat : DOMAIN l = 1..k
    OBVIOUS
  <2>2. {i \in 1..k : l[i].name = n} \in SUBSET Nat
    OBVIOUS
  <2> QED
    BY <2>1, <2>2
<1>2. T # {}
  BY <1>1 DEF MethodNames
<1>3. PICK i \in T : \A j \in T : i <= j
  BY <1>2, LeastExists
<1>4. i \in DOMAIN l /\ l[i].name = n
  BY <1>1, <1>3
<1>5. ASSUME NEW j \in 1..(i - 1) PROVE l[j].name # n
  <2>1. j \in DOMAIN l /\ ~(i <= j)
    BY <1>4
  <2> QED
    BY <1>1, <1>3, <2>1
<1> QED
  BY <1>4, <1>5

LEMMA FormStays ==
  ASSUME NEW S, NEW l \in Seq(S), NEW m \in S, NEW n, n \in MethodNames(l)
  PROVE  FormOf(Append(l, m), n) = FormOf(l, n)
<1>1. PICK k \in Nat : k = Len(l) /\ DOMAIN l = 1..k
  OBVIOUS
<1>2. PICK a : a = Append(l, m)
  OBVIOUS
<1>3. DOMAIN a = 1..(k + 1) /\ \A i \in 1..k : a[i] = l[i]
  BY <1>1, <1>2
<1> DEFINE F(s, i) == s[i].name = n /\ \A j \in 1..(i - 1) : s[j].name # n
<1>4. PICK i \in 1..k : F(l, i)
  BY <1>1, FirstOfName
<1>5. F(a, i)
  BY <1>1, <1>3, <1>4
<1>6. \A j \in 1..k : F(l, j) => j = i
  BY <1>4
<1>7. \A j \in 1..(k + 1) : F(a, j) => j = i
  BY <1>4, <1>5
<1>8. (CHOOSE j \in DOMAIN l : F(l, j)) = i /\ (CHOOSE j \in DOMAIN a : F(a, j)) = i
  BY <1>1, <1>3, <1>4, <1>5, <1>6, <1>7
<1>9. FormOf(l, n) = l[i].form /\ FormOf(a, n) = a[i].form
  BY <1>8 DEF FormOf
<1> QED
  BY <1>2, <1>3, <1>9

LEMMA IssuesStay ==
  ASSUME NEW S, NEW l \in Seq(S), NEW m \in S, m.name \in MethodNames(l)
  PROVE  /\ MethodNames(Append(l, m)) = MethodNames(l)
         /\ \A n : Sep41IssueOf(Append(l, m), n) = Sep41IssueOf(l, n)
         /\ VerifySep41(Append(l, m)) = VerifySep41(l)
<1>1. PICK k \in Nat : k = Len(l) /\ DOMAIN l = 1..k
  OBVIOUS
<1>2. PICK a : a = Append(l, m)
  OBVIOUS
<1>3. DOMAIN a = 1..k \cup {k + 1} /\ (\A i \in 1..k : a[i] = l[i]) /\ a[k + 1] = m
  BY <1>1, <1>2
<1>4. MethodNames(a) = MethodNames(l)
  BY <1>1, <1>3, Zenon DEF MethodNames
<1>5. \A n : n \in MethodNames(l) => FormOf(a, n) = FormOf(l, n)
  BY <1>2, FormStays
<1>6. \A n : Sep41IssueOf(a, n) = Sep41IssueOf(l, n)
  BY <1>4, <1>5, Zenon DEF Sep41IssueOf
<1>7. LooksLikeCandidate(a) <=> LooksLikeCandidate(l)
  BY <1>4, Zenon DEF LooksLikeCandidate
<1>8. {n \in SEP41Functions : Sep41IssueOf(a, n) # "none"}
        = {n \in SEP41Functions : Sep41IssueOf(l, n) # "none"}
  BY <1>6
<1>9. PICK bad : bad = {n \in SEP41Functions : Sep41IssueOf(l, n) # "none"}
  OBVIOUS
<1>10. {<<n, Sep41IssueOf(a, n)>> : n \in bad} = {<<n, Sep41IssueOf(l, n)>> : n \in bad}
  BY <1>6
<1>11. VerifySep41(a) = VerifySep41(l)
  BY <1>7, <1>8, <1>9, <1>10, Zenon DEF VerifySep41
<1> QED
  BY <1>2, <1>4, <1>6, <1>11

LEMMA TokenNamesFinite == IsFiniteSet(SEP41Functions)
<1>1. \A a, b : IsFiniteSet({a, b})
  <2> SUFFICES ASSUME NEW a, NEW b PROVE IsFiniteSet({a, b})
    OBVIOUS
  <2>1. {a, b} = {a} \cup {b}
    OBVIOUS
  <2>2. IsFiniteSet({a}) /\ IsFiniteSet({b})
    BY FS_Singleton
  <2>3. IsFiniteSet({a} \cup {b})
    BY <2>2, FS_Union
  <2> QED
    BY <2>1, <2>3
<1>2. SEP41Functions = {"allowance", "approve"} \cup ({"balance", "transfer"} \cup
        ({"transfer_from", "burn"} \cup ({"burn_from", "decimals"} \cup {"name", "symbol"})))
  BY DEF SEP41Functions, CoreNames, MetadataNames
<1> QED
  BY <1>1, <1>2, FS_Union

LEMMA ReportsEachOnce ==
  ASSUME NEW l, NEW v, v = VerifySep41(l), v.candidate
  PROVE  /\ v.verified \cup {i[1] : i \in v.issues} = SEP41Functions
         /\ v.verified \cap {i[1] : i \in v.issues} = {}
         /\ Cardinality(v.issues) = Cardinality({i[1] : i \in v.issues})
         /\ v.compliant <=> v.issues = {}
         /\ v.verified \subseteq MethodNames(l)
<1>1. PICK bad : bad = {n \in SEP41Functions : Sep41IssueOf(l, n) # "none"}
  OBVIOUS
<1>2. /\ v.candidate = TRUE /\ v.compliant = (bad = {}) /\ v.verified = SEP41Functions \ bad
      /\ v.issues = {<<n, Sep41IssueOf(l, n)>> : n \in bad}
  <2>1. CASE LooksLikeCandidate(l)
    BY <1>1, <2>1 DEF VerifySep41
  <2>2. CASE ~LooksLikeCandidate(l)
    BY <2>2 DEF VerifySep41
  <2> QED
    BY <2>1, <2>2
<1>3. {i[1] : i \in v.issues} = bad
  <2>1. ASSUME NEW i \in v.issues PROVE i[1] \in bad
    BY <1>2
  <2>2. ASSUME NEW n \in bad PROVE \E i \in v.issues : i[1] = n
    <3>1. <<n, Sep41IssueOf(l, n)>> \in v.issues
      BY <1>2
    <3>2. <<n, Sep41IssueOf(l, n)>>[1] = n
      OBVIOUS
    <3> QED
      BY <3>1, <3>2
  <2> QED
    BY <2>1, <2>2
<1>4. bad \subseteq SEP41Functions /\ IsFiniteSet(bad)
  BY <1>1, TokenNamesFinite, FS_Subset
<1>5. Cardinality(v.issues) = Cardinality(bad)
  <2>1. PICK T : T = v.issues
    OBVIOUS
  <2>2. PICK f : f = [n \in bad |-> <<n, Sep41IssueOf(l, n)>>]
    OBVIOUS
  <2>3. f \in [bad -> T]
    BY <1>2, <2>1, <2>2
  <2>4. \A x, y \in bad : f[x] = f[y] => x = y
    BY <2>2
  <2>5. \A y \in T : \E x \in bad : f[x] = y
    BY <1>2, <2>1, <2>2
  <2> QED
    BY <1>4, <2>1, <2>3, <2>4, <2>5, SameSize
<1>6. bad = {} <=> v.issues = {}
  BY <1>2
<1>7. SEP41Functions \ bad \subseteq MethodNames(l)
  <2> SUFFICES ASSUME NEW n \in SEP41Functions, n \notin MethodNames(l) PROVE n \in bad
    OBVIOUS
  <2>1. Sep41IssueOf(l, n) = "missing"
    BY DEF Sep41IssueOf
  <2> QED
    BY <1>1, <2>1
<1> QED
  BY <1>2, <1>3, <1>4, <1>5, <1>6, <1>7

(* ---- storage keys ---- *)
LEMMA CollisionsPair ==
  ASSUME NEW S, NEW uses \in Seq(S)
  PROVE  /\ Cardinality(StorageCollisions(uses)) # 1
         /\ \A i \in DOMAIN uses : i \in StorageCollisions(uses)
              <=> \E j \in DOMAIN uses : j # i /\ uses[j].store = uses[i].store
                                                /\ uses[j].value = uses[i].value
<1>1. PICK C : C = StorageCollisions(uses)
  OBVIOUS
<1>2. \A i \in DOMAIN uses : i \in C
        <=> \E j \in DOMAIN uses : j # i /\ uses[j].store = uses[i].store
                                         /\ uses[j].value = uses[i].value
  BY <1>1, Zenon DEF StorageCollisions
<1>3. C \subseteq DOMAIN uses
  BY <1>1 DEF StorageCollisions
<1>4. \A i \in C : \E j \in C : j # i
  BY <1>2, <1>3, Zenon
<1>5. IsFiniteSet(C)
  <2>1. PICK n \in Nat : DOMAIN uses = 1..n
    OBVIOUS
  <2> QED
    BY <1>3, <2>1, FS_Interval, FS_Subset
<1>6. Cardinality(C) # 1
  <2> SUFFICES ASSUME Cardinality(C) = 1 PROVE FALSE
    OBVIOUS
  <2>1. PICK c : C = {c}
    BY <1>5, FS_Singleton
  <2> QED
    BY <1>4, <2>1
<1> QED
  BY <1>1, <1>2, <1>6, Zenon

(* ---- manifests, sizes and entry points ---- *)
LEMMA FirstQuoted ==
  ASSUME NEW lines \in Seq(Versions)
  PROVE  /\ ExtractSdkVersion(lines) \in Versions
         /\ \A w : ExtractSdkVersion(lines).parts > 0 =>
                     ExtractSdkVersion(Append(lines, w)) = ExtractSdkVersion(lines)
<1>1. PICK n \in Nat : n = Len(lines) /\ DOMAIN lines = 1..n
  OBVIOUS
<1>2. PICK Q : Q = {i \in 1..n : lines[i].parts > 0}
  OBVIOUS
<1>3. ExtractSdkVersion(lines) = IF Q = {} THEN SdkLine(0, 0, 0) ELSE lines[Min(Q)]
  BY <1>1, <1>2, Zenon DEF ExtractSdkVersion
<1>4. Q \in SUBSET Nat /\ (Q # {} => Min(Q) \in 1..n /\ Min(Q) \in Q)
  <2>1. Q \in SUBSET Nat /\ Q \subseteq 1..n
    BY <1>2
  <2>2. Q # {} => Min(Q) \in Q
    BY <2>1, LeastIndex
  <2> QED
    BY <2>1, <2>2, Zenon
<1>5. \A i \in 1..n : lines[i] \in Versions
  BY <1>1
<1>6. SdkLine(0, 0, 0) \in Versions /\ SdkLine(0, 0, 0).parts = 0
  BY DEF SdkLine, Versions
<1>7. ExtractSdkVersion(lines) \in Versions
  BY <1>3, <1>4, <1>5, <1>6
<1>8. ASSUME NEW w, ExtractSdkVersion(lines).parts > 0
      PROVE  ExtractSdkVersion(Append(lines, w)) = ExtractSdkVersion(lines)
  <2>1. Q # {}
    BY <1>3, <1>6, <1>8
  <2>2. PICK a : a = Append(lines, w)
    OBVIOUS
  <2>3. DOMAIN a = 1..(n + 1) /\ \A i \in 1..n : a[i] = lines[i]
    BY <1>1, <2>2
  <2>4. PICK R : R = {i \in 1..(n + 1) : a[i].parts > 0}
    OBVIOUS
  <2>5. ExtractSdkVersion(a) = IF R = {} THEN SdkLine(0, 0, 0) ELSE a[Min(R)]
    BY <2>3, <2>4, Zenon DEF ExtractSdkVersion
  <2>6. PICK m \in 1..n : m = Min(Q) /\ m \in Q /\ \A k \in Q : m <= k
    BY <1>4, <2>1, LeastIndex
  <2>7. m \in R /\ \A k \in R : m <= k
    <3>1. m \in R
      BY <1>2, <2>3, <2>4, <2>6
    <3>2. ASSUME NEW k \in R PROVE m <= k
      <4>1. CASE k = n + 1
        BY <4>1
      <4>2. CASE k \in 1..n
        <5>1. k \in Q
          BY <1>2, <2>3, <2>4, <4>2
        <5> QED
          BY <2>6, <5>1
      <4>3. k \in 1..(n + 1)
        BY <2>4
      <4> QED
        BY <4>1, <4>2, <4>3
    <3> QED
      BY <3>1, <3>2
  <2>8. \A x \in R : (\A k \in R : x <= k) => x = m
    <3>1. \A x \in R : x \in Nat
      BY <2>4
    <3> QED
      BY <2>7, <3>1
  <2>9. Min(R) = m
    BY <2>7, <2>8, Zenon DEF Min
  <2> QED
    BY <1>3, <2>1, <2>2, <2>3, <2>5, <2>6, <2>7, <2>9
<1> QED
  BY <1>7, <1>8

LEMMA OlderIsWorse ==
  ASSUME NEW v \in Versions, NEW w \in Versions, w.parts = v.parts, v.parts > 0,
         w.major < v.major \/ (w.major = v.major /\ w.minor < v.minor)
  PROVE  /\ AnalyzeVersion(v).deprecated => AnalyzeVersion(w).deprecated
         /\ AnalyzeVersion(v).warnings > 0 => AnalyzeVersion(w).warnings > 0
<1>1. PICK p \in 0..3, a \in Nat, b \in Nat, c \in Nat, d \in Nat :
        v = [parts |-> p, major |-> a, minor |-> b] /\ w = [parts |-> p, major |-> c, minor |-> d]
  BY DEF Versions
<1>2. v.parts = p /\ v.major = a /\ v.minor = b /\ w.parts = p /\ w.major = c /\ w.minor = d
  BY <1>1
<1>3. p > 0 /\ (c < a \/ (c = a /\ d < b))
  BY <1>2
<1>4. CASE p < 2
  BY <1>2, <1>3, <1>4 DEF AnalyzeVersion
<1>5. CASE p >= 2
  <2>0. p # 0 /\ ~(p < 2)
    BY <1>5
  <2>1. AnalyzeVersion(v).deprecated <=> a <= 20
    BY <1>2, <2>0, Zenon DEF AnalyzeVersion
  <2>3. AnalyzeVersion(w).deprecated <=> c <= 20
    BY <1>2, <2>0, Zenon DEF AnalyzeVersion
  <2>2. /\ AnalyzeVersion(v).warnings = (IF a <= 20 \/ (a = 21 /\ b < 5) THEN 2 ELSE 0)
              + (IF p = 3 /\ a = 21 /\ b \in {0, 1} THEN 1 ELSE 0)
        /\ AnalyzeVersion(w).warnings = (IF c <= 20 \/ (c = 21 /\ d < 5) THEN 2 ELSE 0)
              + (IF p = 3 /\ c = 21 /\ d \in {0, 1} THEN 1 ELSE 0)
    BY <1>2, <1>3, <1>5 DEF AnalyzeVersion
  <2> QED
    BY <1>3, <2>1, <2>2, <2>3
<1> QED
  BY <1>4, <1>5

LEMMA DeprecatedIsWarned ==
  ASSUME NEW v \in Versions
  PROVE  AnalyzeVersion(v).deprecated => AnalyzeVersion(v).warnings > 0
<1>1. PICK p \in 0..3, a \in Nat, b \in Nat : v = [parts |-> p, major |-> a, minor |-> b]
  BY DEF Versions
<1>2. v.parts = p /\ v.major = a /\ v.minor = b
  BY <1>1
<1>3. CASE p < 2
  <2>1. AnalyzeVersion(v).deprecated = FALSE
    BY <1>2, <1>3 DEF AnalyzeVersion
  <2> QED
    BY <2>1
<1>4. CASE p >= 2
  <2>0. p # 0 /\ ~(p < 2)
    BY <1>4
  <2>1. AnalyzeVersion(v).deprecated <=> a <= 20
    BY <1>2, <2>0, Zenon DEF AnalyzeVersion
  <2>2. AnalyzeVersion(v).warnings = (IF a <= 20 \/ (a = 21 /\ b < 5) THEN 2 ELSE 0)
              + (IF p = 3 /\ a = 21 /\ b \in {0, 1} THEN 1 ELSE 0)
    BY <1>2, <1>4 DEF AnalyzeVersion
  <2> QED
    BY <2>1, <2>2
<1> QED
  BY <1>3, <1>4

LEMMA InputJudged ==
  ASSUME NEW S, NEW text \in Seq(S)
  PROVE  (ValidateSourceAll(Len(text), "null" \in ToSet(text), 2) = "ok")
            <=> (Len(text) \in 1..2 /\ "null" \notin ToSet(text))
<1>1. PICK n \in Nat : n = Len(text)
  OBVIOUS
<1>2. ValidateSourceSize(n, 2) = "ok" <=> n \in 1..2
  BY DEF ValidateSourceSize, MinSource
<1>3. ASSUME NEW b PROVE ValidateNoNull(b) = "ok" <=> ~b
  BY DEF ValidateNoNull
<1> QED
  BY <1>1, <1>2, <1>3 DEF ValidateSourceAll

LEMMA UpgradeJudged ==
  ASSUME NEW S, NEW fns \in Seq(S), NEW r, r = AnalyzeUpgrade(fns)
  PROVE  /\ r.finding = "none" <=> ToSet(fns) \cap {"set_admin", "upgrade"} = {}
         /\ r.init \cap r.mechanisms = {}
<1>1. PICK n \in Nat : DOMAIN fns = 1..n
  OBVIOUS
<1>2. PICK U : U = {i \in DOMAIN fns : IsUpgradeOrAdminFn(fns[i])}
  OBVIOUS
<1>3. /\ r.init = {i \in DOMAIN fns : IsInitFn(fns[i])} /\ r.mechanisms = U
      /\ r.finding = IF U = {} THEN "none" ELSE fns[Min(U)]
  BY <1>2 DEF AnalyzeUpgrade
<1>4. U \in SUBSET Nat /\ (U # {} => Min(U) \in U)
  <2>1. U \in SUBSET Nat
    BY <1>1, <1>2
  <2> QED
    BY <2>1, LeastIndex
<1>5. U # {} => r.finding \in {"set_admin", "upgrade"}
  BY <1>2, <1>3, <1>4 DEF IsUpgradeOrAdminFn
<1>6. U = {} <=> ToSet(fns) \cap {"set_admin", "upgrade"} = {}
  BY <1>2 DEF IsUpgradeOrAdminFn, ToSet
<1>7. r.init \cap r.mechanisms = {}
  BY <1>2, <1>3 DEF IsInitFn, IsUpgradeOrAdminFn
<1>8. "none" \notin {"set_admin", "upgrade"}
  OBVIOUS
<1> QED
  BY <1>3, <1>5, <1>6, <1>7, <1>8

(* ---- fixed-point bounds and the latency benchmark ---- *)
FixedPointSpec == [multiplicandMax : Nat, multiplierMax : Nat, divisorMin : Nat, divisorMax : Nat,
                   result : SUBSET Nat]

\* A smaller product over a larger divisor is not more.
LEMMA WorstCorner ==
  ASSUME NEW a \in Nat, NEW b \in Nat, NEW m \in 0..a, NEW n \in 0..b,
         NEW e \in Nat, NEW d \in Nat, 0 < e, e <= d
  PROVE  m * n <= a * b /\ (m * n) \div d <= (a * b) \div e
<1>1. m * n <= a * b
  <2>1. PICK x, y : x = a - m /\ y = b - n /\ x \in Nat /\ y \in Nat
    OBVIOUS
  <2>2. a = m + x /\ b = n + y /\ m \in Nat /\ n \in Nat
    BY <2>1
  <2>3. (m + x) * (n + y) = m * n + m * y + x * n + x * y
    BY <2>1, <2>2
  <2>4. m * y >= 0 /\ x * n >= 0 /\ x * y >= 0
    BY <2>1, <2>2
  <2>5. m * y \in Nat /\ x * n \in Nat /\ x * y \in Nat /\ m * n \in Nat
    BY <2>1, <2>2
  <2> QED
    BY <2>2, <2>3, <2>4, <2>5
<1>2. PICK p, w : p = m * n /\ w = a * b /\ p \in Nat /\ w \in Nat /\ p <= w
  BY <1>1
<1>3. PICK q, r : q = p \div d /\ r = w \div e
  OBVIOUS
<1>4. q \in Nat /\ q * d <= p
  BY <1>2, <1>3
<1>5. r \in Nat /\ w < (r + 1) * e
  BY <1>2, <1>3
<1>6. q * e <= q * d
  BY <1>4
<1>7. q * e < (r + 1) * e
  <2>1. q * e \in Nat /\ q * d \in Nat /\ (r + 1) * e \in Nat
    BY <1>4, <1>5
  <2> QED
    BY <1>2, <1>4, <1>5, <1>6, <2>1
<1>8. q < r + 1
  <2> SUFFICES ASSUME q >= r + 1 PROVE FALSE
    BY <1>4, <1>5
  <2>1. q * e >= (r + 1) * e
    BY <1>4, <1>5
  <2>2. q * e \in Nat /\ (r + 1) * e \in Nat
    BY <1>4, <1>5
  <2> QED
    BY <1>7, <2>1, <2>2
<1> QED
  BY <1>1, <1>2, <1>3, <1>4, <1>5, <1>8

LEMMA FixedPointDecided ==
  ASSUME NEW s \in FixedPointSpec
  PROVE  /\ validate_fixed_point_spec(s) <=> 0 < s.divisorMin /\ s.divisorMin <= s.divisorMax
         /\ validate_fixed_point_spec(s) => (FixedPointWitnesses(s) = {} <=>
              /\ s.multiplicandMax * s.multiplierMax <= MaxU128
              /\ \A bound \in s.result : (s.multiplicandMax * s.multiplierMax) \div s.divisorMin <= bound)
<1>1. PICK a, b, e, f, R : /\ a = s.multiplicandMax /\ b = s.multiplierMax /\ e = s.divisorMin
                           /\ f = s.divisorMax /\ R = s.result
                           /\ a \in Nat /\ b \in Nat /\ e \in Nat /\ f \in Nat /\ R \in SUBSET Nat
  BY DEF FixedPointSpec
<1>2. MaxU128 \in Nat
  BY WidthAssumption
<1>3. validate_fixed_point_spec(s) <=> 0 < e /\ e <= f
  BY <1>1 DEF validate_fixed_point_spec
<1>5. PICK W : W = FixedPointWitnesses(s)
  OBVIOUS
<1>6. \A m, n, d : <<m, n, d>> \in W <=>
        /\ m \in 0..a /\ n \in 0..b /\ d \in e..f
        /\ m * n > MaxU128 \/ \E bound \in R : (m * n) \div d > bound
  BY <1>1, <1>5 DEF FixedPointWitnesses
<1>7. \A x \in W : \E m, n, d : x = <<m, n, d>>
  BY <1>5 DEF FixedPointWitnesses
<1>8. PICK w : w = a * b /\ w \in Nat
  BY <1>1
<1>9. ASSUME 0 < e, e <= f, W = {} PROVE w <= MaxU128 /\ \A bound \in R : w \div e <= bound
  <2>1. a \in 0..a /\ b \in 0..b /\ e \in e..f
    BY <1>1, <1>9
  <2>2. ~(w > MaxU128 \/ \E bound \in R : w \div e > bound)
    BY <1>6, <1>8, <1>9, <2>1
  <2>3. w \div e \in Nat
    BY <1>1, <1>8, <1>9
  <2> QED
    BY <1>1, <1>2, <1>8, <2>2, <2>3
<1>10. ASSUME 0 < e, e <= f, w <= MaxU128, \A bound \in R : w \div e <= bound PROVE W = {}
  <2> SUFFICES ASSUME NEW x \in W PROVE FALSE
    OBVIOUS
  <2>1. PICK m, n, d : x = <<m, n, d>>
    BY <1>7
  <2>2. m \in 0..a /\ n \in 0..b /\ d \in e..f /\ (m * n > MaxU128 \/ \E bound \in R : (m * n) \div d > bound)
    BY <1>6, <2>1
  <2>3. d \in Nat /\ e <= d /\ 0 < d
    BY <1>1, <1>10, <2>2
  <2>4. m * n <= w /\ (m * n) \div d <= w \div e
    BY <1>1, <1>8, <1>10, <2>2, <2>3, WorstCorner
  <2>5. PICK p : p = m * n /\ p \in Nat
    BY <1>1, <2>2
  <2>6. p \div d \in Nat /\ w \div e \in Nat
    BY <1>1, <1>8, <1>10, <2>3, <2>5
  <2>7. p <= MaxU128 /\ \A bound \in R : p \div d <= bound
    BY <1>1, <1>2, <1>8, <1>10, <2>4, <2>5, <2>6
  <2> QED
    BY <1>1, <1>2, <2>2, <2>5, <2>6, <2>7
<1>11. 0 < e /\ e <= f => (W = {} <=> w <= MaxU128 /\ \A bound \in R : w \div e <= bound)
  BY <1>9, <1>10, Zenon
<1> QED
  BY <1>1, <1>3, <1>5, <1>8, <1>11

FixedPointAnswer(s, givesUp, sound, safe) ==
  /\ prove_fixed_point(s, givesUp) = "proven" => sound /\ safe
  /\ prove_fixed_point(s, givesUp) = "counterexample" => sound /\ ~safe
  /\ sound /\ ~givesUp => prove_fixed_point(s, givesUp) \in {"proven", "counterexample"}

LEMMA FixedPointAnswered ==
  ASSUME NEW s \in FixedPointSpec, NEW sound, NEW safe, NEW givesUp,
         sound = (0 < s.divisorMin /\ s.divisorMin <= s.divisorMax),
         safe = (/\ s.multiplicandMax * s.multiplierMax <= MaxU128
                 /\ \A bound \in s.result : (s.multiplicandMax * s.multiplierMax) \div s.divisorMin <= bound)
  PROVE  FixedPointAnswer(s, givesUp, sound, safe)
<1>1. sound <=> validate_fixed_point_spec(s)
  BY FixedPointDecided
<1>2. validate_fixed_point_spec(s) => (FixedPointWitnesses(s) = {} <=> safe)
  BY FixedPointDecided
<1>3. prove_fixed_point(s, givesUp) =
        IF ~validate_fixed_point_spec(s) THEN "invalid" ELSE IF givesUp THEN "unknown"
        ELSE IF FixedPointWitnesses(s) = {} THEN "proven" ELSE "counterexample"
  BY DEF prove_fixed_point, Sat
<1>4. CASE ~validate_fixed_point_spec(s)
  <2>1. prove_fixed_point(s, givesUp) = "invalid"
    BY <1>3, <1>4
  <2> QED
    BY <1>1, <1>4, <2>1 DEF FixedPointAnswer
<1>5. CASE validate_fixed_point_spec(s) /\ givesUp
  <2>1. prove_fixed_point(s, givesUp) = "unknown"
    BY <1>3, <1>5
  <2> QED
    BY <1>5, <2>1 DEF FixedPointAnswer
<1>6. CASE validate_fixed_point_spec(s) /\ ~givesUp /\ FixedPointWitnesses(s) = {}
  <2>1. prove_fixed_point(s, givesUp) = "proven"
    BY <1>3, <1>6
  <2>2. sound /\ safe
    BY <1>1, <1>2, <1>6
  <2> QED
    BY <2>1, <2>2 DEF FixedPointAnswer
<1>7. CASE validate_fixed_point_spec(s) /\ ~givesUp /\ FixedPointWitnesses(s) # {}
  <2>1. prove_fixed_point(s, givesUp) = "counterexample"
    BY <1>3, <1>7
  <2>2. sound /\ ~safe
    BY <1>1, <1>2, <1>7
  <2> QED
    BY <2>1, <2>2 DEF FixedPointAnswer
<1> QED
  BY <1>4, <1>5, <1>6, <1>7

LEMMA StrategyOverflows ==
  ASSUME NEW domain \in Nat
  PROVE  run_strategy(domain) = "sat" <=> 2 * domain > MaxU64
<1>1. MaxU64 \in Nat
  BY WidthAssumption
<1>2. PICK W : W = {w \in (0..domain) \X (0..domain) : w[1] + w[2] > MaxU64}
  OBVIOUS
<1>3. run_strategy(domain) = "sat" <=> W # {}
  BY <1>2 DEF run_strategy, Sat
<1>4. ASSUME 2 * domain > MaxU64 PROVE <<domain, domain>> \in W
  BY <1>1, <1>2, <1>4
<1>5. ASSUME NEW x \in W PROVE 2 * domain > MaxU64
  <2>1. PICK a \in 0..domain, b \in 0..domain : a + b > MaxU64
    BY <1>2
  <2> QED
    BY <1>1, <2>1
<1> QED
  BY <1>3, <1>4, <1>5

LEMMA PercentileInRange == ASSUME NEW n \in Nat, n # 0 PROVE P95Index(n) \in 1..n
<1>1. PICK x : x = (n - 1) * 95 + 50 /\ x \in Nat /\ x < n * 100
  OBVIOUS
<1>2. x \div 100 \in Nat /\ x \div 100 < n
  BY <1>1
<1> QED
  BY <1>1, <1>2 DEF P95Index

\* The subject is a list, of methods, versions or specs where their form matters.
InterfaceTyped ==
  /\ part \in {"vulns", "events", "keys", "input", "upgrade"} => \E S : subject \in Seq(S)
  /\ part = "sep41" => subject \in Seq(PublicMethod)
  /\ part = "manifest" => subject \in Seq(Versions)
  /\ part = "fixedpoint" => subject \in Seq(FixedPointSpec)

(* Whatever the list: a database is accepted exactly when it says what it is   *)
(* and its entries are sound and apart, an id repeated n times is reported     *)
(* n - 1 times, every token function is verified or reported once and a later  *)
(* impl changes nothing, a publish line is reported exactly when an earlier one*)
(* of its name has another count, of colliding keys every use is, an older     *)
(* version is never judged better, and of a fixed-point bound a proof and a    *)
(* counterexample say where its worst corner is, whenever the solver decides.  *)
THEOREM InterfacesJudgedAnywhere ==
  ASSUME InterfaceTyped PROVE InterfacesJudgedRight
<1>1. ASSUME part = "vulns"
      PROVE  /\ \A empty \in SUBSET AboutDb : ValidateDb(empty, subject) <=>
                  /\ empty = {} /\ subject # <<>> /\ \A i \in DOMAIN subject : subject[i].sound
                  /\ \A i, j \in DOMAIN subject : subject[i].id = subject[j].id => i = j
                  /\ \A i, j \in DOMAIN subject : subject[i].name = subject[j].name => i = j
                  /\ \A i, j \in DOMAIN subject : subject[i].signature = subject[j].signature => i = j
             /\ Cardinality({e \in VulnErrors(subject) : e[1] = "id"})
                  = Len(subject) - Cardinality({subject[i].id : i \in DOMAIN subject})
  <2>1. PICK S : subject \in Seq(S)
    BY <1>1, Zenon DEF InterfaceTyped
  <2>2. PICK n \in Nat : n = Len(subject) /\ DOMAIN subject = 1..n
    BY <2>1
  <2>3. \A empty : ValidateDb(empty, subject) <=>
          empty = {} /\ subject # <<>> /\ (\A i \in DOMAIN subject : subject[i].sound) /\ Apart(subject, n)
    BY <2>1, <2>2, DatabaseJudged, Zenon
  <2>4. Cardinality({e \in VulnErrors(subject) : e[1] = "id"})
          = n - Cardinality({subject[i].id : i \in DOMAIN subject})
    BY <2>1, <2>2, DatabaseJudged, Zenon
  <2> QED
    BY <2>2, <2>3, <2>4, Zenon DEF Apart
<1>2. ASSUME part = "sep41", NEW v, v = VerifySep41(subject)
      PROVE  /\ v.candidate => /\ v.verified \cup {i[1] : i \in v.issues} = SEP41Functions
                               /\ v.verified \cap {i[1] : i \in v.issues} = {}
                               /\ Cardinality(v.issues) = Cardinality({i[1] : i \in v.issues})
                               /\ (v.compliant <=> v.issues = {})
                               /\ v.verified \subseteq MethodNames(subject)
             /\ \A m \in MethodsTried :
                  v.candidate /\ m.name \in MethodNames(subject) => VerifySep41(Append(subject, m)) = v
  <2>1. subject \in Seq(PublicMethod) /\ MethodsTried \subseteq PublicMethod
    BY <1>2, TriedAssumption, Zenon DEF InterfaceTyped
  <2>2. \A m \in MethodsTried : m.name \in MethodNames(subject) => VerifySep41(Append(subject, m)) = v
    BY <1>2, <2>1, IssuesStay
  <2> QED
    BY <1>2, <2>2, ReportsEachOnce
<1>3. ASSUME part = "events"
      PROVE  \A j \in DOMAIN subject : <<j, "schema">> \in ScanEvents(subject) <=>
               /\ HasName(subject[j])
               /\ \E i \in 1..(j - 1) : /\ HasName(subject[i]) /\ subject[i].name = subject[j].name
                                        /\ TopicCount(subject[i]) # TopicCount(subject[j])
  <2>1. PICK S : subject \in Seq(S)
    BY <1>3, Zenon DEF InterfaceTyped
  <2> QED
    BY <2>1, EventsJudged, Zenon DEF Reported
<1>4. ASSUME part = "keys"
      PROVE  /\ Cardinality(StorageCollisions(subject)) # 1
             /\ \A i \in DOMAIN subject : i \in StorageCollisions(subject)
                  <=> \E j \in DOMAIN subject : j # i /\ subject[j].store = subject[i].store
                                                    /\ subject[j].value = subject[i].value
  <2>1. PICK S : subject \in Seq(S)
    BY <1>4, Zenon DEF InterfaceTyped
  <2> QED
    BY <2>1, CollisionsPair, Zenon
<1>5. ASSUME part = "manifest", NEW v, v = ExtractSdkVersion(subject)
      PROVE  /\ \A w \in SdkTried :
                  /\ v.parts > 0 => ExtractSdkVersion(Append(subject, w)) = v
                  /\ w.parts = v.parts /\ v.parts > 0
                       /\ (w.major < v.major \/ (w.major = v.major /\ w.minor < v.minor))
                     => /\ AnalyzeVersion(v).deprecated => AnalyzeVersion(w).deprecated
                        /\ AnalyzeVersion(v).warnings > 0 => AnalyzeVersion(w).warnings > 0
             /\ AnalyzeVersion(v).deprecated => AnalyzeVersion(v).warnings > 0
  <2>1. subject \in Seq(Versions) /\ SdkTried \subseteq Versions
    BY <1>5, TriedAssumption, Zenon DEF InterfaceTyped
  <2>2. v \in Versions /\ \A w : v.parts > 0 => ExtractSdkVersion(Append(subject, w)) = v
    BY <1>5, <2>1, FirstQuoted, Zenon
  <2>3. ASSUME NEW w \in SdkTried, w.parts = v.parts, v.parts > 0,
               w.major < v.major \/ (w.major = v.major /\ w.minor < v.minor)
        PROVE  /\ AnalyzeVersion(v).deprecated => AnalyzeVersion(w).deprecated
               /\ AnalyzeVersion(v).warnings > 0 => AnalyzeVersion(w).warnings > 0
    <3>1. w \in Versions
      BY <2>1
    <3> QED
      BY <2>2, <2>3, <3>1, OlderIsWorse, Zenon
  <2> QED
    BY <2>2, <2>3, DeprecatedIsWarned, Zenon
<1>6. ASSUME part = "input"
      PROVE  (ValidateSourceAll(Len(subject), "null" \in ToSet(subject), 2) = "ok")
               <=> (Len(subject) \in 1..2 /\ "null" \notin ToSet(subject))
  <2>1. PICK S : subject \in Seq(S)
    BY <1>6, Zenon DEF InterfaceTyped
  <2> QED
    BY <2>1, InputJudged, Zenon
<1>7. ASSUME part = "upgrade", NEW r, r = AnalyzeUpgrade(subject)
      PROVE  /\ r.finding = "none" <=> ToSet(subject) \cap {"set_admin", "upgrade"} = {}
             /\ r.init \cap r.mechanisms = {}
  <2>1. PICK S : subject \in Seq(S)
    BY <1>7, Zenon DEF InterfaceTyped
  <2> QED
    BY <1>7, <2>1, UpgradeJudged, Zenon
<1>8. ASSUME part = "fixedpoint"
      PROVE  \A i \in DOMAIN subject :
               LET s == subject[i]
                   worst == s.multiplicandMax * s.multiplierMax
                   sound == 0 < s.divisorMin /\ s.divisorMin <= s.divisorMax
                   safe == worst <= MaxU128 /\ \A bound \in s.result : worst \div s.divisorMin <= bound IN
               \A givesUp \in BOOLEAN :
                 /\ prove_fixed_point(s, givesUp) = "proven" => sound /\ safe
                 /\ prove_fixed_point(s, givesUp) = "counterexample" => sound /\ ~safe
                 /\ sound /\ ~givesUp => prove_fixed_point(s, givesUp) \in {"proven", "counterexample"}
  <2>1. ASSUME NEW i \in DOMAIN subject, NEW givesUp \in BOOLEAN
        PROVE  FixedPointAnswer(subject[i], givesUp,
                 0 < subject[i].divisorMin /\ subject[i].divisorMin <= subject[i].divisorMax,
                 /\ subject[i].multiplicandMax * subject[i].multiplierMax <= MaxU128
                 /\ \A bound \in subject[i].result :
                      (subject[i].multiplicandMax * subject[i].multiplierMax)
                        \div subject[i].divisorMin <= bound)
    <3>1. subject[i] \in FixedPointSpec
      BY <1>8 DEF InterfaceTyped
    <3>2. PICK s : s = subject[i]
      OBVIOUS
    <3>3. PICK sound, safe :
            /\ sound = (0 < s.divisorMin /\ s.divisorMin <= s.divisorMax)
            /\ safe = (/\ s.multiplicandMax * s.multiplierMax <= MaxU128
                       /\ \A bound \in s.result :
                            (s.multiplicandMax * s.multiplierMax) \div s.divisorMin <= bound)
      OBVIOUS
    <3>4. FixedPointAnswer(s, givesUp, sound, safe)
      BY <3>1, <3>2, <3>3, FixedPointAnswered
    <3> QED
      BY <3>2, <3>3, <3>4
  <2> QED
    BY <2>1, Zenon DEF FixedPointAnswer
<1>9. \A domain \in 0..MaxU64 : run_strategy(domain) = "sat" <=> 2 * domain > MaxU64
  <2>1. \A domain \in 0..MaxU64 : domain \in Nat
    BY WidthAssumption
  <2> QED
    BY <2>1, StrategyOverflows, Zenon
<1>10. \A n \in 1..200 : P95Index(n) \in 1..n
  <2>1. \A n \in 1..200 : n \in Nat /\ n # 0
    OBVIOUS
  <2> QED
    BY <2>1, PercentileInRange, Zenon
<1> QED
  BY <1>1, <1>2, <1>3, <1>4, <1>5, <1>6, <1>7, <1>8, <1>9, <1>10, Zenon DEF InterfacesJudgedRight

(* ---- scopes ---- *)
TokenKinds == {"open", "close", "arm", "end", "let", "named", "bound", "use", "macro"}
ScopeToken == [k : TokenKinds, v : STRING]
\* A view of a function: its blocks alone, or its scopes as blocks. A scope only
\* closes when it is open.
ViewKinds == {"open", "close", "let", "bound", "use", "macro", "other"}
ViewToken == [k : ViewKinds, v : STRING]
ScopedFn(fn) == /\ fn \in Seq(ViewToken)
                /\ \A i \in DOMAIN fn : Depth(fn, i) >= 1

LEMMA DepthStarts == ASSUME NEW fn PROVE Depth(fn, 0) = 1
<1>1. \A K : {j \in 1..0 : fn[j].k = K} = {}
  OBVIOUS
<1> QED
  BY <1>1, FS_EmptySet DEF Depth

CountOf(fn, i, K) == Cardinality({j \in 1..i : fn[j].k = K})

LEMMA CountNext ==
  ASSUME NEW fn, NEW K, NEW i \in Nat, NEW h \in Nat, h = i + 1
  PROVE  /\ CountOf(fn, i, K) \in Nat
         /\ CountOf(fn, h, K) = CountOf(fn, i, K) + (IF fn[h].k = K THEN 1 ELSE 0)
<1>1. PICK S, T : S = {j \in 1..i : fn[j].k = K} /\ T = {j \in 1..h : fn[j].k = K}
  OBVIOUS
<1>2. IsFiniteSet(S) /\ Cardinality(S) \in Nat /\ h \notin S
  <2>1. S \subseteq 1..i /\ IsFiniteSet(1..i) /\ h \notin S
    BY <1>1, FS_Interval
  <2> QED
    BY <2>1, FS_Subset, FS_CardinalityType
<1>3. T = IF fn[h].k = K THEN S \cup {h} ELSE S
  <2>1. 1..h = 1..i \cup {h}
    OBVIOUS
  <2> QED
    BY <1>1, <2>1
<1>4. Cardinality(S \cup {h}) = Cardinality(S) + 1
  BY <1>2, FS_AddElement
<1>5. CountOf(fn, i, K) = Cardinality(S) /\ CountOf(fn, h, K) = Cardinality(T)
  BY <1>1, Zenon DEF CountOf
<1> HIDE DEF CountOf
<1>6. CASE fn[h].k = K
  <2>1. T = S \cup {h}
    BY <1>3, <1>6
  <2> QED
    BY <1>2, <1>4, <1>5, <1>6, <2>1, Zenon
<1>7. CASE fn[h].k # K
  <2>1. T = S
    BY <1>3, <1>7
  <2>2. CountOf(fn, h, K) = CountOf(fn, i, K) /\ CountOf(fn, i, K) \in Nat
    BY <1>2, <1>5, <2>1
  <2>3. CountOf(fn, i, K) + 0 = CountOf(fn, i, K)
    BY <2>2
  <2> QED
    BY <1>7, <2>2, <2>3, Zenon
<1> QED
  BY <1>6, <1>7

LEMMA DepthNext ==
  ASSUME NEW fn, NEW i \in Nat, NEW h \in Nat, h = i + 1
  PROVE  /\ Depth(fn, i) \in Int /\ Depth(fn, h) \in Int
         /\ fn[h].k = "open" => Depth(fn, h) = Depth(fn, i) + 1
         /\ fn[h].k = "close" => Depth(fn, h) = Depth(fn, i) - 1
         /\ fn[h].k \notin {"open", "close"} => Depth(fn, h) = Depth(fn, i)
<1>1. PICK a \in Nat, b \in Nat, c \in Nat, d \in Nat :
        /\ a = CountOf(fn, i, "open") /\ b = CountOf(fn, i, "close")
        /\ c = CountOf(fn, h, "open") /\ d = CountOf(fn, h, "close")
        /\ c = a + (IF fn[h].k = "open" THEN 1 ELSE 0)
        /\ d = b + (IF fn[h].k = "close" THEN 1 ELSE 0)
  <2>1. /\ CountOf(fn, i, "open") \in Nat /\ CountOf(fn, i, "close") \in Nat
        /\ CountOf(fn, h, "open") = CountOf(fn, i, "open") + (IF fn[h].k = "open" THEN 1 ELSE 0)
        /\ CountOf(fn, h, "close") = CountOf(fn, i, "close") + (IF fn[h].k = "close" THEN 1 ELSE 0)
    BY CountNext
  <2> QED
    BY <2>1
<1>2. Depth(fn, i) = 1 + a - b /\ Depth(fn, h) = 1 + c - d
  BY <1>1 DEF Depth, CountOf
<1> QED
  BY <1>1, <1>2

LEMMA DepthInt == ASSUME NEW fn, NEW i \in Nat PROVE Depth(fn, i) \in Int
<1>1. PICK h \in Nat : h = i + 1
  OBVIOUS
<1> QED
  BY <1>1, DepthNext

LEMMA ScopeNext ==
  ASSUME NEW fn, NEW k \in Nat, NEW h \in Nat, h = k + 1, NEW j \in 1..k
  PROVE  /\ InScope(fn, j, h) <=> InScope(fn, j, k) /\ Depth(fn, h) >= Depth(fn, j)
         /\ InScope(fn, j, k) => Depth(fn, k) >= Depth(fn, j)
<1>1. j..h = j..k \cup {h} /\ k \in j..k
  OBVIOUS
<1> QED
  BY <1>1, Zenon DEF InScope

LEMMA ScopeStarts == ASSUME NEW fn, NEW j \in Nat PROVE InScope(fn, j, j)
  BY DepthInt DEF InScope

LEMMA DeeperIsLater ==
  ASSUME NEW fn, NEW k \in Nat, NEW j \in 1..k, NEW m \in 1..k, InScope(fn, j, k),
         Depth(fn, m) < Depth(fn, j)
  PROVE  m < j
<1>1. Depth(fn, m) \in Int /\ Depth(fn, j) \in Int
  BY DepthInt
<1> SUFFICES ASSUME ~(m < j) PROVE FALSE
  OBVIOUS
<1>2. m \in j..k
  OBVIOUS
<1> QED
  BY <1>1, <1>2 DEF InScope

\* The declarations of v at depth d whose scope is open at k.
Live(fn, k, d, v) ==
  {j \in 1..k : fn[j].k = "let" /\ fn[j].v = v /\ Depth(fn, j) = d /\ InScope(fn, j, k)}

LEMMA LiveNext ==
  ASSUME NEW fn, NEW k \in Nat, NEW h \in Nat, h = k + 1, NEW d \in Int, d <= Depth(fn, h), NEW v
  PROVE  Live(fn, h, d, v) = Live(fn, k, d, v) \cup
           (IF fn[h].k = "let" /\ fn[h].v = v /\ Depth(fn, h) = d THEN {h} ELSE {})
<1>1. 1..h = 1..k \cup {h} /\ h \notin 1..k
  OBVIOUS
<1>2. \A j \in 1..k : Depth(fn, j) = d => (InScope(fn, j, h) <=> InScope(fn, j, k))
  <2>1. Depth(fn, h) >= d
    BY DepthInt
  <2> QED
    BY <2>1, ScopeNext
<1>3. InScope(fn, h, h)
  BY ScopeStarts
<1> QED
  BY <1>1, <1>2, <1>3, Zenon DEF Live

LEMMA NothingAbove ==
  ASSUME NEW fn, NEW k \in Nat, NEW d \in Int, d > Depth(fn, k), NEW v
  PROVE  Live(fn, k, d, v) = {}
<1> SUFFICES ASSUME NEW j \in Live(fn, k, d, v) PROVE FALSE
  OBVIOUS
<1>1. j \in 1..k /\ Depth(fn, j) = d /\ InScope(fn, j, k)
  BY DEF Live
<1>2. Depth(fn, k) >= d
  <2>1. k + 1 \in Nat
    OBVIOUS
  <2> QED
    BY <1>1, <2>1, ScopeNext
<1>3. Depth(fn, k) \in Int
  BY DepthInt
<1> QED
  BY <1>2, <1>3

(* ---- stacks ---- *)
IsList(s) == \E S : s \in Seq(S)

Grown(s, x, t) == /\ IsList(t) /\ Len(s) \in Nat /\ Len(t) = Len(s) + 1 /\ t[Len(s) + 1] = x
                  /\ \A i \in 1..Len(s) : t[i] = s[i]
LEMMA Pushed == ASSUME NEW s, IsList(s), NEW x PROVE Grown(s, x, Append(s, x))
<1>1. PICK S : s \in Seq(S)
  BY DEF IsList
<1>2. PICK T, t : T = S \cup {x} /\ t = Append(s, x)
  OBVIOUS
<1>3. s \in Seq(T) /\ x \in T
  BY <1>1, <1>2
<1>4. /\ t \in Seq(T) /\ Len(s) \in Nat /\ Len(t) = Len(s) + 1 /\ t[Len(s) + 1] = x
      /\ \A i \in 1..Len(s) : t[i] = s[i]
  BY <1>2, <1>3
<1>5. Grown(s, x, t)
  BY <1>4, Zenon DEF Grown, IsList
<1> QED
  BY <1>2, <1>5

LEMMA Popped ==
  ASSUME NEW s, IsList(s), NEW n \in Nat, n + 1 = Len(s), NEW t, t = Front(s)
  PROVE  IsList(t) /\ Len(t) = n /\ \A i \in 1..n : t[i] = s[i]
<1>1. PICK S : s \in Seq(S)
  BY DEF IsList
<1>2. t = SubSeq(s, 1, n) /\ Len(s) = n + 1
  BY DEF Front
<1>3. t \in Seq(S) /\ Len(t) = n /\ \A i \in 1..n : t[i] = s[i]
  BY <1>1, <1>2
<1> QED
  BY <1>3 DEF IsList

Changed(s, d, x, t) == /\ IsList(t) /\ Len(t) = Len(s) /\ t[d] = x
                       /\ \A i \in 1..Len(s) : i # d => t[i] = s[i]
LEMMA Replaced ==
  ASSUME NEW s, IsList(s), NEW d \in 1..Len(s), NEW x PROVE Changed(s, d, x, [s EXCEPT ![d] = x])
<1>1. PICK S : s \in Seq(S)
  BY DEF IsList
<1>2. PICK T, t : T = S \cup {x} /\ t = [s EXCEPT ![d] = x]
  OBVIOUS
<1>3. s \in Seq(T) /\ x \in T
  BY <1>1, <1>2
<1>4. t \in Seq(T) /\ Len(t) = Len(s) /\ t[d] = x /\ \A i \in 1..Len(s) : i # d => t[i] = s[i]
  BY <1>2, <1>3
<1>5. Changed(s, d, x, t)
  BY <1>4, Zenon DEF Changed, IsList
<1> QED
  BY <1>2, <1>5

(* ---- what the stack of the shadowing visitor holds ---- *)
NoShadows == [stack |-> <<<<>>>>, pairs |-> {}]
ShadowLoop(seq, n, g) ==
  g = [s \in SUBSET (1..n) |-> IF s = {} THEN NoShadows
         ELSE LET x == Max(s) IN ShadowStep(g[s \ {x}], seq[x])]

LEMMA ShadowLoopRuns ==
  ASSUME NEW seq PROVE \A n \in Nat : \E g : ShadowLoop(seq, n, g)
<1> DEFINE G == {n \in Nat : \E g : ShadowLoop(seq, n, g)}
<1>1. 0 \in G
  <2>1. SUBSET (1..0) = {{}}
    OBVIOUS
  <2>2. ShadowLoop(seq, 0, [s \in SUBSET (1..0) |-> NoShadows])
    BY <2>1 DEF ShadowLoop
  <2> QED
    BY <2>2
<1>2. ASSUME NEW n \in Nat, n \in G PROVE n + 1 \in G
  <2>1. PICK g : ShadowLoop(seq, n, g)
    BY <1>2
  <2>2. PICK h : h = [s \in SUBSET (1..(n + 1)) |-> IF n + 1 \in s
                        THEN ShadowStep(g[s \ {n + 1}], seq[n + 1]) ELSE g[s]]
    OBVIOUS
  <2>3. ASSUME NEW s \in SUBSET (1..(n + 1))
        PROVE  h[s] = IF s = {} THEN NoShadows
                      ELSE LET x == Max(s) IN ShadowStep(h[s \ {x}], seq[x])
    <3>1. CASE n + 1 \in s
      <4>1. /\ s # {} /\ Max(s) = n + 1 /\ s \ {n + 1} \in SUBSET (1..(n + 1))
            /\ n + 1 \notin s \ {n + 1}
        BY <3>1, TopOfInterval
      <4>2. h[s] = ShadowStep(g[s \ {n + 1}], seq[n + 1]) /\ h[s \ {n + 1}] = g[s \ {n + 1}]
        BY <2>2, <3>1, <4>1, Zenon
      <4> QED
        BY <4>1, <4>2, Zenon
    <3>2. CASE n + 1 \notin s
      <4>1. /\ s \in SUBSET (1..n)
            /\ s # {} => s \ {Max(s)} \in SUBSET (1..(n + 1)) /\ n + 1 \notin s \ {Max(s)}
        BY <3>2, TopOfInterval
      <4>2. h[s] = g[s] /\ (s # {} => h[s \ {Max(s)}] = g[s \ {Max(s)}])
        BY <2>2, <3>2, <4>1, Zenon
      <4>3. g[s] = IF s = {} THEN NoShadows
                   ELSE LET x == Max(s) IN ShadowStep(g[s \ {x}], seq[x])
        BY <2>1, <4>1, Zenon DEF ShadowLoop
      <4> QED
        BY <4>2, <4>3, Zenon
    <3> QED
      BY <3>1, <3>2
  <2>4. ShadowLoop(seq, n + 1, h)
    BY <2>2, <2>3, Zenon DEF ShadowLoop
  <2> QED
    BY <2>4
<1>3. Nat \subseteq G
  <2> HIDE DEF G
  <2> QED
    BY <1>1, <1>2, NumbersByInduction
<1> QED
  BY <1>3

LEMMA ShadowsTraced ==
  ASSUME NEW S, NEW fn \in Seq(S)
  PROVE  \E tr : /\ tr[0] = NoShadows
                 /\ \A k \in 1..Len(fn) :
                      tr[k] = ShadowStep(tr[k - 1], [at |-> k, token |-> fn[k]])
                 /\ ReportedShadows(fn) = tr[Len(fn)].pairs
<1>1. PICK n \in Nat : n = Len(fn) /\ DOMAIN fn = 1..n
  OBVIOUS
<1>2. PICK seq : seq = NumberedTokens(fn)
  OBVIOUS
<1>3. DOMAIN seq = 1..n /\ \A k \in 1..n : seq[k] = [at |-> k, token |-> fn[k]]
  BY <1>1, <1>2 DEF NumberedTokens
<1>4. PICK g : ShadowLoop(seq, n, g)
  BY ShadowLoopRuns
<1>5. PICK it : it = CHOOSE f : ShadowLoop(seq, n, f)
  OBVIOUS
<1>6. ShadowLoop(seq, n, it)
  BY <1>4, <1>5
<1>7. ReportedShadows(fn) = it[1..n].pairs
  <2>1. ReportedShadows(fn) = (CHOOSE f : f = [s \in SUBSET DOMAIN seq |-> IF s = {} THEN NoShadows
           ELSE LET x == Max(s) IN ShadowStep(f[s \ {x}], seq[x])])[DOMAIN seq].pairs
    BY <1>2 DEF ReportedShadows, FoldLeft, MapThenFoldSet, NoShadows
  <2> QED
    BY <1>3, <1>5, <2>1 DEF ShadowLoop
<1>8. PICK tr : tr = [k \in 0..n |-> it[1..k]]
  OBVIOUS
<1>9. tr[0] = NoShadows
  <2>1. 1..0 = {} /\ {} \in SUBSET (1..n) /\ 0 \in 0..n
    OBVIOUS
  <2>2. it[{}] = NoShadows
    BY <1>6, <2>1, Zenon DEF ShadowLoop
  <2> QED
    BY <1>8, <2>1, <2>2
<1>10. ASSUME NEW k \in 1..n PROVE tr[k] = ShadowStep(tr[k - 1], seq[k])
  <2>1. /\ Max(1..k) = k /\ (1..k) \ {k} = 1..(k - 1) /\ 1..k # {} /\ 1..k \in SUBSET (1..n)
    BY PrefixIs
  <2>2. it[1..k] = ShadowStep(it[1..(k - 1)], seq[k])
    BY <1>6, <2>1, Zenon DEF ShadowLoop
  <2>3. k \in 0..n /\ k - 1 \in 0..n
    OBVIOUS
  <2> QED
    BY <1>8, <2>2, <2>3
<1>11. tr[n] = it[1..n]
  BY <1>8
<1> QED
  BY <1>1, <1>3, <1>7, <1>9, <1>10, <1>11

\* Per open scope: the names declared in it, each with its latest declaration.
Latest(L, j) == j \in L /\ \A m \in L : m <= j
ScopeHolds(fn, k, d, scope) ==
  /\ \A v : v \in DOMAIN scope <=> v \notin Skipped /\ Live(fn, k, d, v) # {}
  /\ \A v \in DOMAIN scope : Latest(Live(fn, k, d, v), scope[v])
NamesOnStack(fn, k, stack) ==
  /\ IsList(stack) /\ Len(stack) = Depth(fn, k)
  /\ \A d \in 1..Len(stack) : ScopeHolds(fn, k, d, stack[d])

LEMMA HoldsSame ==
  ASSUME NEW fn, NEW k, NEW h, NEW d, NEW scope, ScopeHolds(fn, k, d, scope),
         \A v : v \notin Skipped => Live(fn, h, d, v) = Live(fn, k, d, v)
  PROVE  ScopeHolds(fn, h, d, scope)
  BY Zenon DEF ScopeHolds

LEMMA HoldsNothing ==
  ASSUME NEW fn, NEW k, NEW d, \A v : Live(fn, k, d, v) = {}
  PROVE  ScopeHolds(fn, k, d, <<>>)
<1>1. DOMAIN <<>> = {}
  OBVIOUS
<1> QED
  BY <1>1, Zenon DEF ScopeHolds

LEMMA HoldsDeclared ==
  ASSUME NEW fn, NEW k, NEW h \in Nat, h = k + 1, k \in Nat, NEW d, NEW scope, ScopeHolds(fn, k, d, scope),
         NEW x, x \notin Skipped, NEW new, new = Declare(scope, x, h),
         \A v : Live(fn, h, d, v) = Live(fn, k, d, v) \cup (IF v = x THEN {h} ELSE {})
  PROVE  ScopeHolds(fn, h, d, new)
<1>1. /\ DOMAIN new = DOMAIN scope \cup {x} /\ new[x] = h
      /\ \A v \in DOMAIN scope : v # x => new[v] = scope[v]
  BY DEF Declare
<1>2. Live(fn, h, d, x) = Live(fn, k, d, x) \cup {h}
  BY Zenon
<1>3. \A m \in Live(fn, k, d, x) : m <= h
  BY DEF Live
<1>4. Latest(Live(fn, h, d, x), h)
  <2>1. h <= h
    OBVIOUS
  <2> QED
    BY <1>2, <1>3, <2>1, Zenon DEF Latest
<1>5. \A v : v # x => Live(fn, h, d, v) = Live(fn, k, d, v)
  BY Zenon
<1> QED
  BY <1>1, <1>2, <1>4, <1>5, Zenon DEF ScopeHolds

LEMMA LiveKept ==
  ASSUME NEW fn, NEW k \in Nat, NEW h \in Nat, h = k + 1, NEW d \in Int, d <= Depth(fn, h), NEW v,
         ~(fn[h].k = "let" /\ fn[h].v = v /\ Depth(fn, h) = d)
  PROVE  Live(fn, h, d, v) = Live(fn, k, d, v)
<1>1. Live(fn, h, d, v) = Live(fn, k, d, v) \cup
           (IF fn[h].k = "let" /\ fn[h].v = v /\ Depth(fn, h) = d THEN {h} ELSE {})
  BY LiveNext
<1>2. (IF fn[h].k = "let" /\ fn[h].v = v /\ Depth(fn, h) = d THEN {h} ELSE {}) = {}
  BY Zenon
<1> QED
  BY <1>1, <1>2

LEMMA StackOpens ==
  ASSUME NEW fn, NEW k \in Nat, NEW h \in Nat, h = k + 1, fn[h].k = "open",
         NEW s, NamesOnStack(fn, k, s), NEW t, t = Append(s, <<>>)
  PROVE  NamesOnStack(fn, h, t)
<1>1. PICK n \in Nat : n = Len(s) /\ IsList(t) /\ Len(t) = n + 1 /\ t[n + 1] = <<>>
                       /\ \A i \in 1..n : t[i] = s[i]
  <2>1. IsList(s)
    BY DEF NamesOnStack
  <2>2. Grown(s, <<>>, t)
    BY <2>1, Pushed
  <2> QED
    BY <2>2 DEF Grown
<1>2. Depth(fn, k) = n /\ Depth(fn, h) = n + 1
  <2>1. Depth(fn, k) = n
    BY <1>1 DEF NamesOnStack
  <2> QED
    BY <2>1, DepthNext
<1>3. ASSUME NEW d \in 1..(n + 1) PROVE ScopeHolds(fn, h, d, t[d])
  <2>1. ASSUME NEW v PROVE Live(fn, h, d, v) = Live(fn, k, d, v)
    <3>1. fn[h].k # "let" /\ d \in Int /\ d <= Depth(fn, h)
      BY <1>2
    <3> QED
      BY <3>1, LiveKept
  <2>2. CASE d \in 1..n
    <3>1. ScopeHolds(fn, k, d, s[d])
      BY <1>1, <2>2 DEF NamesOnStack
    <3> QED
      BY <1>1, <2>1, <2>2, <3>1, HoldsSame
  <2>3. CASE d = n + 1
    <3>1. \A v : Live(fn, k, d, v) = {}
      BY <1>2, <2>3, NothingAbove
    <3>2. \A v : Live(fn, h, d, v) = {}
      BY <2>1, <3>1
    <3> QED
      BY <1>1, <2>3, <3>2, HoldsNothing
  <2> QED
    BY <1>1, <2>2, <2>3
<1> QED
  BY <1>1, <1>2, <1>3, Zenon DEF NamesOnStack

LEMMA StackCloses ==
  ASSUME NEW fn, NEW k \in Nat, NEW h \in Nat, h = k + 1, fn[h].k = "close", Depth(fn, h) >= 1,
         NEW s, NamesOnStack(fn, k, s), NEW t, t = Front(s)
  PROVE  NamesOnStack(fn, h, t)
<1>1. Depth(fn, h) = Depth(fn, k) - 1 /\ Depth(fn, h) \in Int /\ Depth(fn, k) \in Int
  BY DepthNext
<1>2. PICK n \in Nat : n = Depth(fn, h) /\ n + 1 = Depth(fn, k)
  BY <1>1
<1>3. IsList(s) /\ Len(s) = n + 1
  BY <1>2 DEF NamesOnStack
<1>4. IsList(t) /\ Len(t) = n /\ \A i \in 1..n : t[i] = s[i]
  BY <1>3, Popped
<1>5. ASSUME NEW d \in 1..n PROVE ScopeHolds(fn, h, d, t[d])
  <2>1. \A v : Live(fn, h, d, v) = Live(fn, k, d, v)
    BY <1>2, LiveKept
  <2>2. ScopeHolds(fn, k, d, s[d])
    BY <1>3 DEF NamesOnStack
  <2> QED
    BY <1>4, <2>1, <2>2, HoldsSame
<1> QED
  BY <1>2, <1>4, <1>5, Zenon DEF NamesOnStack

LEMMA StackKeeps ==
  ASSUME NEW fn, NEW k \in Nat, NEW h \in Nat, h = k + 1, fn[h].k \notin {"open", "close"},
         fn[h].k # "let" \/ fn[h].v \in Skipped,
         NEW s, NamesOnStack(fn, k, s)
  PROVE  NamesOnStack(fn, h, s)
<1>1. Depth(fn, h) = Depth(fn, k) /\ Depth(fn, h) \in Int
  BY DepthNext
<1>2. IsList(s) /\ Len(s) = Depth(fn, h)
  BY <1>1 DEF NamesOnStack
<1>3. ASSUME NEW d \in 1..Len(s) PROVE ScopeHolds(fn, h, d, s[d])
  <2>1. \A v : v \notin Skipped => Live(fn, h, d, v) = Live(fn, k, d, v)
    <3>1. d \in Int /\ d <= Depth(fn, h)
      BY <1>1, <1>2
    <3> QED
      BY <3>1, LiveKept
  <2>2. ScopeHolds(fn, k, d, s[d])
    BY DEF NamesOnStack
  <2> QED
    BY <2>1, <2>2, HoldsSame
<1> QED
  BY <1>2, <1>3, Zenon DEF NamesOnStack

DeclaredOn(s, d, v, h, t) == d = Len(s) /\ t = [s EXCEPT ![d] = Declare(s[d], v, h)]
LEMMA StackDeclares ==
  ASSUME NEW fn, NEW k \in Nat, NEW h \in Nat, h = k + 1, fn[h].k = "let", NEW v, v = fn[h].v, v \notin Skipped,
         Depth(fn, h) >= 1, NEW s, NamesOnStack(fn, k, s), NEW d, NEW t, DeclaredOn(s, d, v, h, t)
  PROVE  NamesOnStack(fn, h, t)
<1>0. d = Len(s) /\ t = [s EXCEPT ![d] = Declare(s[d], v, h)]
  BY DEF DeclaredOn
<1>1. Depth(fn, h) = Depth(fn, k) /\ Depth(fn, h) \in Int
  BY DepthNext
<1>2. IsList(s) /\ d = Depth(fn, h) /\ d \in 1..d /\ d \in 1..Len(s)
  BY <1>0, <1>1 DEF NamesOnStack
<1>3. PICK new : new = Declare(s[d], v, h)
  OBVIOUS
<1>4. IsList(t) /\ Len(t) = d /\ t[d] = new /\ \A i \in 1..d : i # d => t[i] = s[i]
  <2>1. Changed(s, d, new, [s EXCEPT ![d] = new])
    BY <1>2, Replaced
  <2>2. Changed(s, d, new, t)
    BY <1>0, <1>3, <2>1
  <2> QED
    BY <1>0, <2>2, Zenon DEF Changed
<1>5. ASSUME NEW e \in 1..d PROVE ScopeHolds(fn, h, e, t[e])
  <2>0. ScopeHolds(fn, k, e, s[e])
    BY <1>0 DEF NamesOnStack
  <2>1. e \in Int /\ e <= Depth(fn, h)
    BY <1>1, <1>2
  <2>2. CASE e # d
    <3>1. \A x : Live(fn, h, e, x) = Live(fn, k, e, x)
      BY <1>2, <2>1, <2>2, LiveKept
    <3> QED
      BY <1>4, <2>0, <2>2, <3>1, HoldsSame
  <2>3. CASE e = d
    <3>1. \A x : Live(fn, h, e, x) = Live(fn, k, e, x) \cup (IF x = v THEN {h} ELSE {})
      <4>1. ASSUME NEW x PROVE Live(fn, h, e, x) = Live(fn, k, e, x) \cup (IF x = v THEN {h} ELSE {})
        BY <1>0, <1>1, <1>2, <2>1, <2>3, LiveNext
      <4> QED
        BY <4>1
    <3> QED
      BY <1>3, <1>4, <2>0, <2>3, <3>1, HoldsDeclared
  <2> QED
    BY <2>2, <2>3
<1> QED
  BY <1>2, <1>4, <1>5, Zenon DEF NamesOnStack

\* The declarations of the same name in the scopes around declaration i.
OuterOnes(fn, i) == {j \in 1..(i - 1) : fn[j].k = "let" /\ fn[j].v = fn[i].v
                                        /\ InScope(fn, j, i) /\ Depth(fn, j) < Depth(fn, i)}
IsShadow(fn, i, j) == fn[i].k = "let" /\ fn[i].v \notin Skipped /\ Latest(OuterOnes(fn, i), j)
PairsUpTo(fn, k) == {p \in (1..k) \X (1..k) : IsShadow(fn, p[1], p[2])}

LEMMA LatestUnique ==
  ASSUME NEW L \in SUBSET Int, NEW i, NEW j, Latest(L, i), Latest(L, j) PROVE i = j
  BY DEF Latest

LEMMA PairsArePairs == ASSUME NEW fn, NEW k, NEW p \in PairsUpTo(fn, k) PROVE \E i, m : p = <<i, m>>
<1>1. p \in (1..k) \X (1..k)
  BY DEF PairsUpTo
<1>2. PICK i \in 1..k, m \in 1..k : p = <<i, m>>
  BY <1>1
<1> QED
  BY <1>2

LEMMA PairsNext ==
  ASSUME NEW fn, NEW k \in Nat, NEW h \in Nat, h = k + 1
  PROVE  /\ \A j : IsShadow(fn, h, j) => PairsUpTo(fn, h) = PairsUpTo(fn, k) \cup {<<h, j>>}
         /\ (\A j : ~IsShadow(fn, h, j)) => PairsUpTo(fn, h) = PairsUpTo(fn, k)
<1>1. \A i \in 1..h : \A j : IsShadow(fn, i, j) => j \in 1..(i - 1)
  BY DEF IsShadow, Latest, OuterOnes
<1>2. 1..h = 1..k \cup {h} /\ h \notin 1..k /\ h - 1 = k /\ \A i \in 1..k : h \notin 1..(i - 1)
  OBVIOUS
<1>3. ASSUME NEW i, NEW j
      PROVE  i \in 1..h /\ j \in 1..h /\ IsShadow(fn, i, j)
               <=> \/ i \in 1..k /\ j \in 1..k /\ IsShadow(fn, i, j)
                   \/ i = h /\ IsShadow(fn, h, j)
  <2>1. IsShadow(fn, h, j) => j \in 1..k
    BY <1>1, <1>2
  <2>2. i \in 1..k /\ IsShadow(fn, i, j) => j # h
    BY <1>1, <1>2
  <2> QED
    BY <1>2, <2>1, <2>2, Zenon
<1>4. ASSUME NEW j, IsShadow(fn, h, j) PROVE PairsUpTo(fn, h) = PairsUpTo(fn, k) \cup {<<h, j>>}
  <2>1. \A m : IsShadow(fn, h, m) <=> m = j
    <3>1. OuterOnes(fn, h) \in SUBSET Int
      BY DEF OuterOnes
    <3>2. \A m : IsShadow(fn, h, m) => Latest(OuterOnes(fn, h), m)
      BY DEF IsShadow
    <3> QED
      BY <1>4, <3>1, <3>2, LatestUnique
  <2>2. ASSUME NEW p PROVE p \in PairsUpTo(fn, h) <=> p \in PairsUpTo(fn, k) \cup {<<h, j>>}
    <3>1. CASE ~\E i, m : p = <<i, m>>
      BY <3>1, PairsArePairs
    <3>2. ASSUME NEW i, NEW m, p = <<i, m>> PROVE p \in PairsUpTo(fn, h) <=> p \in PairsUpTo(fn, k) \cup {<<h, j>>}
      <4>1. /\ <<i, m>> \in PairsUpTo(fn, h) <=> i \in 1..h /\ m \in 1..h /\ IsShadow(fn, i, m)
            /\ <<i, m>> \in PairsUpTo(fn, k) <=> i \in 1..k /\ m \in 1..k /\ IsShadow(fn, i, m)
            /\ <<i, m>> = <<h, j>> <=> i = h /\ m = j
        BY DEF PairsUpTo
      <4> QED
        BY <1>3, <2>1, <3>2, <4>1
    <3> QED
      BY <3>1, <3>2
  <2> QED
    BY <2>2
<1>5. ASSUME \A j : ~IsShadow(fn, h, j) PROVE PairsUpTo(fn, h) = PairsUpTo(fn, k)
  <2>1. ASSUME NEW p PROVE p \in PairsUpTo(fn, h) <=> p \in PairsUpTo(fn, k)
    <3>1. CASE ~\E i, m : p = <<i, m>>
      BY <3>1, PairsArePairs
    <3>2. ASSUME NEW i, NEW m, p = <<i, m>> PROVE p \in PairsUpTo(fn, h) <=> p \in PairsUpTo(fn, k)
      <4>1. /\ <<i, m>> \in PairsUpTo(fn, h) <=> i \in 1..h /\ m \in 1..h /\ IsShadow(fn, i, m)
            /\ <<i, m>> \in PairsUpTo(fn, k) <=> i \in 1..k /\ m \in 1..k /\ IsShadow(fn, i, m)
        BY DEF PairsUpTo
      <4> QED
        BY <1>3, <1>5, <3>2, <4>1
    <3> QED
      BY <3>1, <3>2
  <2> QED
    BY <2>1
<1> QED
  BY <1>4, <1>5

\* What the nearest scope around says of the name is its latest declaration.
ScopesAround(s, v) == {e \in 1..(Len(s) - 1) : v \in DOMAIN s[e]}
NearestTells(fn, h, s, E, v) ==
  /\ E = {} <=> OuterOnes(fn, h) = {}
  /\ E # {} => Latest(OuterOnes(fn, h), s[CHOOSE e \in E : \A f \in E : f <= e][v])
LEMMA NearestIs ==
  ASSUME NEW fn, NEW k \in Nat, NEW h \in Nat, h = k + 1, fn[h].k = "let", fn[h].v \notin Skipped,
         \A i \in 1..k : Depth(fn, i) >= 1, NEW s, NamesOnStack(fn, k, s)
  PROVE  NearestTells(fn, h, s, ScopesAround(s, fn[h].v), fn[h].v)
<1>0. PICK v, d, E : v = fn[h].v /\ v \notin Skipped /\ d = Len(s) /\ E = {e \in 1..(d - 1) : v \in DOMAIN s[e]}
  OBVIOUS
<1>1. Depth(fn, h) = d /\ Depth(fn, k) = d /\ d \in Nat /\ IsList(s)
  <2>1. Depth(fn, h) = Depth(fn, k) /\ Depth(fn, k) = d /\ IsList(s)
    BY <1>0, DepthNext DEF NamesOnStack
  <2>2. \A S : s \in Seq(S) => Len(s) \in Nat
    OBVIOUS
  <2> QED
    BY <1>0, <2>1, <2>2 DEF IsList
<1>2. \A e : e \in E <=> e \in 1..(d - 1) /\ Live(fn, k, e, v) # {}
  <2>1. \A e \in 1..(d - 1) : v \in DOMAIN s[e] <=> Live(fn, k, e, v) # {}
    <3>1. \A e \in 1..(d - 1) : e \in 1..Len(s)
      BY <1>0, <1>1
    <3> QED
      BY <1>0, <3>1, Zenon DEF NamesOnStack, ScopeHolds
  <2> QED
    BY <1>0, <2>1, Zenon
<1>3. ASSUME NEW j PROVE j \in OuterOnes(fn, h) <=> \E e \in 1..(d - 1) : j \in Live(fn, k, e, v)
  <2>1. h - 1 = k
    OBVIOUS
  <2>2. ASSUME NEW i \in 1..k, Depth(fn, i) < d
        PROVE  InScope(fn, i, h) <=> InScope(fn, i, k)
    <3>1. Depth(fn, h) >= Depth(fn, i)
      BY <1>1, <2>2, DepthInt
    <3> QED
      BY <3>1, ScopeNext
  <2>3. ASSUME NEW i \in 1..k PROVE Depth(fn, i) < d <=> Depth(fn, i) \in 1..(d - 1)
    BY <1>1, DepthInt
  <2>4. j \in OuterOnes(fn, h) <=> /\ j \in 1..k /\ fn[j].k = "let" /\ fn[j].v = v
                                   /\ Depth(fn, j) \in 1..(d - 1) /\ InScope(fn, j, k)
    <3>1. j \in OuterOnes(fn, h) <=> /\ j \in 1..k /\ fn[j].k = "let" /\ fn[j].v = v
                                     /\ InScope(fn, j, h) /\ Depth(fn, j) < d
      BY <1>0, <1>1, <2>1, Zenon DEF OuterOnes
    <3> QED
      BY <2>2, <2>3, <3>1, Zenon
  <2> QED
    BY <2>4, Zenon DEF Live
<1>4. E = {} <=> OuterOnes(fn, h) = {}
  BY <1>2, <1>3, Zenon
<1>5. ASSUME E # {} PROVE Latest(OuterOnes(fn, h), s[CHOOSE e \in E : \A f \in E : f <= e][v])
  <2>1. PICK near : near = CHOOSE e \in E : \A f \in E : f <= e
    OBVIOUS
  <2>2. near \in E /\ \A f \in E : f <= near
    <3>1. \E e \in E : \A f \in E : f <= e
      <4>1. IsFiniteSet(1..(d - 1)) /\ E \subseteq 1..(d - 1) /\ 1..(d - 1) \subseteq Int
        <5>1. 1 \in Int /\ d - 1 \in Int
          BY <1>1
        <5>2. IsFiniteSet(1..(d - 1))
          BY <5>1, FS_Interval
        <5>3. E \subseteq 1..(d - 1)
          BY <1>2, Zenon
        <5> QED
          BY <5>2, <5>3
      <4>2. IsFiniteSet(E) /\ E \subseteq Int
        BY <4>1, FS_Subset
      <4>3. \E x \in E : \A y \in E : x >= y
        BY <1>5, <4>2, LargestExists
      <4> QED
        BY <4>2, <4>3
    <3> QED
      BY <2>1, <3>1, Zenon
  <2>3. near \in 1..(d - 1) /\ near \in 1..Len(s) /\ Live(fn, k, near, v) # {}
    BY <1>0, <1>1, <1>2, <2>2
  <2>4. PICK j : j = s[near][v]
    OBVIOUS
  <2>5. Latest(Live(fn, k, near, v), j)
    <3>1. ScopeHolds(fn, k, near, s[near])
      BY <2>3 DEF NamesOnStack
    <3> QED
      BY <1>0, <2>3, <2>4, <3>1, Zenon DEF ScopeHolds
  <2>6. j \in OuterOnes(fn, h)
    BY <1>3, <2>3, <2>5, Zenon DEF Latest
  <2>7. ASSUME NEW m \in OuterOnes(fn, h) PROVE m <= j
    <3>1. PICK e \in 1..(d - 1) : m \in Live(fn, k, e, v)
      BY <1>3, <2>7
    <3>2. e \in E /\ e <= near
      BY <1>2, <2>2, <3>1, Zenon
    <3>3. CASE e = near
      BY <2>5, <3>1, <3>3, Zenon DEF Latest
    <3>4. CASE e # near
      <4>1. /\ m \in 1..k /\ j \in 1..k /\ InScope(fn, j, k) /\ Depth(fn, m) = e /\ Depth(fn, j) = near
        BY <2>5, <3>1, Zenon DEF Live, Latest
      <4>2. e < near
        BY <2>3, <3>2, <3>4
      <4>3. m < j
        BY <4>1, <4>2, DeeperIsLater
      <4> QED
        BY <4>1, <4>3
    <3> QED
      BY <3>3, <3>4
  <2>8. Latest(OuterOnes(fn, h), j)
    BY <2>6, <2>7, Zenon DEF Latest
  <2> QED
    BY <2>1, <2>4, <2>8, Zenon
<1>6. NearestTells(fn, h, s, E, v)
  BY <1>4, <1>5 DEF NearestTells
<1> QED
  BY <1>0, <1>6, Zenon DEF ScopesAround

LEMMA StackStarts == ASSUME NEW fn PROVE NamesOnStack(fn, 0, <<<<>>>>)
<1>1. PICK s : s = <<<<>>>>
  OBVIOUS
<1>2. s \in Seq({<<>>}) /\ Len(s) = 1 /\ s[1] = <<>>
  BY <1>1
<1>3. IsList(s)
  BY <1>2 DEF IsList
<1>4. Depth(fn, 0) = 1
  BY DepthStarts
<1>5. \A d : \A v : Live(fn, 0, d, v) = {}
  BY DEF Live
<1>6. ASSUME NEW d \in 1..1 PROVE ScopeHolds(fn, 0, d, s[d])
  <2>1. d = 1
    OBVIOUS
  <2> QED
    BY <1>2, <1>5, <2>1, HoldsNothing
<1> QED
  BY <1>1, <1>2, <1>3, <1>4, <1>6, Zenon DEF NamesOnStack

ShadowsKnown(fn, k, st) ==
  \E a, b : st = [stack |-> a, pairs |-> b] /\ NamesOnStack(fn, k, a) /\ b = PairsUpTo(fn, k)

Opened(st, n, a, b) == ShadowStep(st, n) = [stack |-> Append(a, <<>>), pairs |-> b]
LEMMA ShadowStepIs ==
  ASSUME NEW a, NEW b, NEW st, st = [stack |-> a, pairs |-> b],
         NEW h, NEW t, NEW n, n = [at |-> h, token |-> t], t.k \in ViewKinds
  PROVE  /\ t.k = "open" => Opened(st, n, a, b)
         /\ t.k = "close" => ShadowStep(st, n) = [stack |-> Front(a), pairs |-> b]
         /\ t.k = "let" /\ t.v \notin Skipped => ShadowStep(st, n) = AddVariable(st, t.v, h)
         /\ t.k \notin {"open", "close"} /\ (t.k # "let" \/ t.v \in Skipped) => ShadowStep(st, n) = st
<1>1. n.at = h /\ n.token = t /\ st.stack = a /\ st.pairs = b
  OBVIOUS
<1>2. ASSUME t.k = "open" PROVE ShadowStep(st, n) = [stack |-> Append(a, <<>>), pairs |-> b]
  <2>1. ShadowStep(st, n) = [st EXCEPT !.stack = Append(a, <<>>)]
    BY <1>1, <1>2 DEF ShadowStep
  <2> QED
    BY <2>1
<1>3. ASSUME t.k = "close" PROVE ShadowStep(st, n) = [stack |-> Front(a), pairs |-> b]
  <2>1. ShadowStep(st, n) = [st EXCEPT !.stack = Front(a)]
    BY <1>1, <1>3 DEF ShadowStep
  <2> QED
    BY <2>1
<1>4. t.k = "let" /\ t.v \notin Skipped => ShadowStep(st, n) = AddVariable(st, t.v, h)
  BY <1>1 DEF ShadowStep, ViewKinds
<1>5. t.k \notin {"open", "close"} /\ (t.k # "let" \/ t.v \in Skipped) => ShadowStep(st, n) = st
  BY <1>1 DEF ShadowStep, ViewKinds
<1>6. t.k = "open" => Opened(st, n, a, b)
  BY <1>2, Zenon DEF Opened
<1> QED
  BY <1>3, <1>4, <1>5, <1>6, Zenon

LEMMA NoShadowHere ==
  ASSUME NEW fn, NEW h, fn[h].k # "let" \/ fn[h].v \in Skipped
  PROVE  \A j : ~IsShadow(fn, h, j)
  BY DEF IsShadow

LEMMA ShadowStepKeeps ==
  ASSUME NEW fn, ScopedFn(fn), NEW k \in Nat, NEW h \in DOMAIN fn, h = k + 1,
         NEW st, ShadowsKnown(fn, k, st), NEW n, n = [at |-> h, token |-> fn[h]]
  PROVE  ShadowsKnown(fn, h, ShadowStep(st, n))
<1>1. PICK t : t = fn[h]
  OBVIOUS
<1>2. t.k \in ViewKinds /\ h \in Nat /\ \A i \in 1..h : Depth(fn, i) >= 1
  <2>1. t \in ViewToken /\ h \in 1..Len(fn) /\ DOMAIN fn = 1..Len(fn) /\ Len(fn) \in Nat
    BY <1>1 DEF ScopedFn
  <2>2. \A i \in 1..h : i \in DOMAIN fn
    BY <2>1
  <2> QED
    BY <2>1, <2>2 DEF ScopedFn, ViewToken
<1>3. PICK r : r = ShadowStep(st, n)
  OBVIOUS
<1>4. n = [at |-> h, token |-> t]
  BY <1>1
<1>5. PICK a, b : st = [stack |-> a, pairs |-> b] /\ NamesOnStack(fn, k, a) /\ b = PairsUpTo(fn, k)
  BY DEF ShadowsKnown
<1>6. CASE t.k = "open"
  <2>1. PICK s : s = Append(a, <<>>)
    OBVIOUS
  <2>2. r = [stack |-> s, pairs |-> b]
    <3>1. Opened(st, n, a, b)
      BY <1>2, <1>4, <1>5, <1>6, ShadowStepIs
    <3> QED
      BY <1>3, <2>1, <3>1, Zenon DEF Opened
  <2>3. NamesOnStack(fn, h, s)
    BY <1>1, <1>2, <1>5, <1>6, <2>1, StackOpens
  <2>4. PairsUpTo(fn, h) = PairsUpTo(fn, k)
    BY <1>1, <1>2, <1>6, NoShadowHere, PairsNext
  <2> QED
    BY <1>3, <1>5, <2>2, <2>3, <2>4, Zenon DEF ShadowsKnown
<1>7. CASE t.k = "close"
  <2>1. PICK s : s = Front(a)
    OBVIOUS
  <2>2. r = [stack |-> s, pairs |-> b]
    BY <1>2, <1>3, <1>4, <1>5, <1>7, <2>1, ShadowStepIs
  <2>3. NamesOnStack(fn, h, s)
    <3>1. Depth(fn, h) >= 1 /\ fn[h].k = "close"
      BY <1>1, <1>2, <1>7 DEF ScopedFn
    <3> QED
      BY <1>2, <1>5, <2>1, <3>1, StackCloses
  <2>4. PairsUpTo(fn, h) = PairsUpTo(fn, k)
    BY <1>1, <1>2, <1>7, NoShadowHere, PairsNext
  <2> QED
    BY <1>3, <1>5, <2>2, <2>3, <2>4, Zenon DEF ShadowsKnown
<1>8. CASE t.k \notin {"open", "close"} /\ (t.k # "let" \/ t.v \in Skipped)
  <2>1. r = st
    BY <1>2, <1>3, <1>4, <1>5, <1>8, ShadowStepIs
  <2>2. NamesOnStack(fn, h, a)
    BY <1>1, <1>2, <1>5, <1>8, StackKeeps
  <2>3. PairsUpTo(fn, h) = PairsUpTo(fn, k)
    <3>1. \A j : ~IsShadow(fn, h, j)
      <4>1. fn[h].k # "let" \/ fn[h].v \in Skipped
        BY <1>1, <1>2, <1>8
      <4> QED
        BY <4>1, NoShadowHere, Zenon
    <3> QED
      BY <1>1, <3>1, PairsNext
  <2> QED
    BY <1>3, <1>5, <2>1, <2>2, <2>3, Zenon DEF ShadowsKnown
<1>9. CASE t.k = "let" /\ t.v \notin Skipped
  <2>1. PICK v, s, d, E : /\ v = t.v /\ s = a /\ d = Len(s)
                          /\ E = {e \in 1..(d - 1) : v \in DOMAIN s[e]}
    OBVIOUS
  <2>2. PICK j : j = s[CHOOSE e \in E : \A f \in E : f <= e][v]
    OBVIOUS
  <2>3. r = AddVariable(st, v, h)
    BY <1>2, <1>3, <1>4, <1>5, <1>9, <2>1, ShadowStepIs
  <2>4. PICK z, q : /\ z = [s EXCEPT ![d] = Declare(s[d], v, h)]
                    /\ q = b \cup (IF E = {} THEN {} ELSE {<<h, j>>})
    OBVIOUS
  <2>4a. r = [stack |-> z, pairs |-> q]
    <3>1. st.stack = s /\ st.pairs = b
      BY <1>5, <2>1
    <3>2. AddVariable(st, v, h) =
            [stack |-> [s EXCEPT ![d] = Declare(s[d], v, h)], pairs |-> b \cup (IF E = {} THEN {} ELSE {<<h, j>>})]
      BY <2>1, <2>2, <3>1, Zenon DEF AddVariable
    <3> QED
      BY <2>3, <2>4, <3>2
  <2>5. fn[h].k = "let" /\ v = fn[h].v /\ v \notin Skipped
    BY <1>1, <1>9, <2>1
  <2>6. NamesOnStack(fn, k, s)
    BY <1>5, <2>1
  <2>7. NamesOnStack(fn, h, z)
    <3>1. Depth(fn, h) >= 1
      BY DEF ScopedFn
    <3> QED
      <4>1. DeclaredOn(s, d, v, h, z)
        BY <2>1, <2>4 DEF DeclaredOn
      <4> QED
        BY <1>2, <2>5, <2>6, <3>1, <4>1, StackDeclares
  <2>8. /\ E = {} <=> OuterOnes(fn, h) = {}
        /\ E # {} => Latest(OuterOnes(fn, h), j)
    <3>1. \A i \in 1..k : Depth(fn, i) >= 1
      BY <1>2
    <3>2. /\ E = {} <=> OuterOnes(fn, h) = {}
          /\ E # {} => Latest(OuterOnes(fn, h), s[CHOOSE e \in E : \A f \in E : f <= e][v])
      <4>1. E = ScopesAround(s, v) /\ fn[h].v \notin Skipped
        BY <2>1, <2>5, Zenon DEF ScopesAround
      <4>2. NearestTells(fn, h, s, ScopesAround(s, fn[h].v), fn[h].v)
        BY <1>2, <2>5, <2>6, <3>1, <4>1, NearestIs
      <4>3. NearestTells(fn, h, s, E, v)
        BY <2>5, <4>1, <4>2
      <4> QED
        BY <4>3 DEF NearestTells
    <3> QED
      BY <2>2, <3>2
  <2>9. PairsUpTo(fn, h) = PairsUpTo(fn, k) \cup (IF E = {} THEN {} ELSE {<<h, j>>})
    <3>1. CASE E = {}
      <4>1. \A m : ~IsShadow(fn, h, m)
        BY <2>8, <3>1 DEF IsShadow, Latest
      <4> QED
        BY <1>2, <3>1, <4>1, PairsNext
    <3>2. CASE E # {}
      <4>1. IsShadow(fn, h, j)
        BY <2>5, <2>8, <3>2 DEF IsShadow
      <4> QED
        BY <1>2, <3>2, <4>1, PairsNext
    <3> QED
      BY <3>1, <3>2
  <2> QED
    BY <1>3, <1>5, <2>4, <2>4a, <2>7, <2>9, Zenon DEF ShadowsKnown
<1> QED
  BY <1>3, <1>6, <1>7, <1>8, <1>9 

\* A function is read through either view.
\* A let stands directly in a block: both views agree on how long its scope is
\* open, and a let further in than it has more scopes around it too.
LetsInBlocks(fn) ==
  \A j \in DOMAIN fn : fn[j].k = "let" =>
    \A i \in j..Len(fn) :
      /\ InScope(Blocks(fn), j, i) <=> InScope(Scopes(fn), j, i)
      /\ fn[i].k = "let" /\ InScope(Scopes(fn), j, i) /\ Depth(Blocks(fn), i) > Depth(Blocks(fn), j)
           => Depth(Scopes(fn), i) > Depth(Scopes(fn), j)
FunctionTyped(fn) == /\ fn \in Seq(ScopeToken) /\ LetsInBlocks(fn)
                     /\ \A i \in DOMAIN fn : Depth(Scopes(fn), i) >= 1 /\ Depth(Blocks(fn), i) >= 1

ScopeKind(k) == IF k = "arm" THEN "open" ELSE IF k = "end" THEN "close"
                ELSE IF k = "named" THEN "let" ELSE k
LEMMA ScopeTokenIs ==
  ASSUME NEW fn, FunctionTyped(fn), NEW i \in DOMAIN fn
  PROVE  /\ Scopes(fn)[i].k = ScopeKind(fn[i].k) /\ Scopes(fn)[i].v = fn[i].v
         /\ Scopes(fn)[i] \in ViewToken
<1>1. fn[i] \in ScopeToken
  BY DEF FunctionTyped
<1>2. PICK t : t = fn[i] /\ t \in ScopeToken
  BY <1>1
<1>3. CASE t.k \in {"arm", "end", "named"}
  <2>1. Scopes(fn)[i] = [k |-> ScopeKind(t.k), v |-> t.v]
    BY <1>2, <1>3 DEF Scopes, Token, ScopeKind
  <2>2. ScopeKind(t.k) \in ViewKinds /\ t.v \in STRING
    BY <1>2, <1>3 DEF ScopeKind, ViewKinds, ScopeToken
  <2> QED
    BY <1>2, <2>1, <2>2 DEF ViewToken
<1>4. CASE t.k \notin {"arm", "end", "named"}
  <2>1. Scopes(fn)[i] = t
    BY <1>2, <1>4 DEF Scopes
  <2>2. ScopeKind(t.k) = t.k /\ t.k \in ViewKinds /\ t.v \in STRING
    BY <1>2, <1>4 DEF ScopeKind, ViewKinds, ScopeToken, TokenKinds
  <2>3. t = [k |-> t.k, v |-> t.v]
    BY <1>2 DEF ScopeToken
  <2> QED
    BY <1>2, <2>1, <2>2, <2>3 DEF ViewToken
<1> QED
  BY <1>3, <1>4

LEMMA ScopesAreBlocks ==
  ASSUME NEW fn, FunctionTyped(fn)
  PROVE  ScopedFn(Scopes(fn)) /\ DOMAIN Scopes(fn) = DOMAIN fn /\ Len(Scopes(fn)) = Len(fn)
<1>1. PICK n \in Nat : n = Len(fn) /\ DOMAIN fn = 1..n
  BY DEF FunctionTyped
<1>2. PICK vw : vw = Scopes(fn)
  OBVIOUS
<1>3. DOMAIN vw = 1..n
  BY <1>1, <1>2 DEF Scopes
<1>4. \A i \in 1..n : vw[i] \in ViewToken
  BY <1>1, <1>2, ScopeTokenIs
<1>5. vw = [i \in 1..n |-> vw[i]]
  BY <1>1, <1>2 DEF Scopes
<1>6. vw \in Seq(ViewToken) /\ Len(vw) = n
  BY <1>4, <1>5
<1>7. \A i \in DOMAIN vw : Depth(vw, i) >= 1
  BY <1>1, <1>2, <1>3 DEF FunctionTyped
<1> QED
  BY <1>1, <1>2, <1>3, <1>6, <1>7 DEF ScopedFn

LEMMA ShadowSeesScopes ==
  ASSUME NEW fn, FunctionTyped(fn), NEW i \in DOMAIN fn, NEW st, NEW h
  PROVE  ShadowStep(st, [at |-> h, token |-> fn[i]]) = ShadowStep(st, [at |-> h, token |-> Scopes(fn)[i]])
<1>1. PICK t, u : t = fn[i] /\ u = Scopes(fn)[i]
  OBVIOUS
<1>2. t.k \in TokenKinds
  <2>1. t \in ScopeToken
    BY <1>1 DEF FunctionTyped
  <2> QED
    BY <2>1 DEF ScopeToken
<1>3. u.k = ScopeKind(t.k) /\ u.v = t.v
  BY <1>1, ScopeTokenIs
<1>4. PICK m, n : m = [at |-> h, token |-> t] /\ n = [at |-> h, token |-> u]
  OBVIOUS
<1>5. m.at = n.at /\ m.token = t /\ n.token = u
  BY <1>4
<1>6. /\ t.k \in {"open", "arm"} <=> u.k \in {"open", "arm"}
      /\ t.k \in {"close", "end"} <=> u.k \in {"close", "end"}
      /\ t.k \in {"let", "named"} <=> u.k \in {"let", "named"}
  BY <1>2, <1>3 DEF ScopeKind, TokenKinds
<1>7. ShadowStep(st, m) = ShadowStep(st, n)
  BY <1>3, <1>5, <1>6, Zenon DEF ShadowStep
<1> QED
  BY <1>1, <1>4, <1>7

LEMMA ShadowsMatch ==
  ASSUME NEW fn, FunctionTyped(fn) PROVE ReportedShadows(fn) = PairsUpTo(Scopes(fn), Len(fn))
<1>1. PICK S : fn \in Seq(S)
  BY DEF FunctionTyped
<1>1a. PICK vw : vw = Scopes(fn)
  OBVIOUS
<1>1b. ScopedFn(vw) /\ DOMAIN vw = DOMAIN fn
  BY <1>1a, ScopesAreBlocks DEF FunctionTyped
<1>2. PICK n, tr : /\ n \in Nat /\ n = Len(fn) /\ DOMAIN fn = 1..n /\ tr[0] = NoShadows
                   /\ \A k \in 1..n : tr[k] = ShadowStep(tr[k - 1], [at |-> k, token |-> fn[k]])
                   /\ ReportedShadows(fn) = tr[n].pairs
  BY <1>1, ShadowsTraced
<1> DEFINE G == {k \in Nat : k <= n => ShadowsKnown(vw, k, tr[k])}
<1>3. 0 \in G
  <2>1. PairsUpTo(vw, 0) = {}
    BY DEF PairsUpTo
  <2>2. tr[0] = [stack |-> <<<<>>>>, pairs |-> {}]
    BY <1>2 DEF NoShadows
  <2>3. ShadowsKnown(vw, 0, tr[0])
    BY <2>1, <2>2, StackStarts, Zenon DEF ShadowsKnown
  <2> QED
    BY <2>3
<1>4. ASSUME NEW k \in Nat, k \in G PROVE k + 1 \in G
  <2> SUFFICES ASSUME k + 1 <= n PROVE ShadowsKnown(vw, k + 1, tr[k + 1])
    OBVIOUS
  <2>1. PICK h \in 1..n : h = k + 1 /\ h - 1 = k
    OBVIOUS
  <2>2. PICK st, x : st = tr[k] /\ x = [at |-> h, token |-> vw[h]]
    OBVIOUS
  <2>3. tr[h] = ShadowStep(st, x)
    <3>1. tr[h] = ShadowStep(st, [at |-> h, token |-> fn[h]])
      BY <1>2, <2>1, <2>2, Zenon
    <3>2. h \in DOMAIN fn
      BY <1>2
    <3>3. ShadowStep(st, [at |-> h, token |-> fn[h]]) = ShadowStep(st, [at |-> h, token |-> vw[h]])
      BY <1>1a, <3>2, ShadowSeesScopes
    <3> QED
      BY <2>2, <3>1, <3>3
  <2>4. ShadowsKnown(vw, k, st)
    <3>1. k <= n
      BY <1>2
    <3> QED
      BY <1>4, <2>2, <3>1, Zenon
  <2>5. h \in DOMAIN vw
    BY <1>1b, <1>2, <2>1
  <2>6. ShadowsKnown(vw, h, ShadowStep(st, x))
    BY <1>1b, <2>1, <2>2, <2>4, <2>5, ShadowStepKeeps
  <2> QED
    BY <2>1, <2>3, <2>6
<1>5. Nat \subseteq G
  <2> HIDE DEF G
  <2> QED
    BY <1>3, <1>4, NumbersByInduction
<1>6. n \in G /\ n <= n
  BY <1>2, <1>5
<1>7. ShadowsKnown(vw, n, tr[n])
  BY <1>6, Zenon
<1>8. PICK a, b : tr[n] = [stack |-> a, pairs |-> b] /\ b = PairsUpTo(vw, n)
  BY <1>7, Zenon DEF ShadowsKnown
<1> QED
  BY <1>1a, <1>2, <1>8

(* ---- what the stack of the unused variable visitor holds ---- *)
UseEntry == [v : STRING, at : Nat, used : BOOLEAN]
Stacks == Seq(Seq(UseEntry))

\* A mark changes one entry, and of it only whether it is used.
Marks(s, t, d, f) ==
  /\ t \in Stacks /\ Len(t) = Len(s)
  /\ \A e \in DOMAIN s : /\ DOMAIN t[e] = DOMAIN s[e]
                         /\ \A x \in DOMAIN s[e] : /\ t[e][x].v = s[e][x].v /\ t[e][x].at = s[e][x].at
                                                   /\ t[e][x].used <=> s[e][x].used \/ (e = d /\ x = f)

LEMMA MarkIs ==
  ASSUME NEW s \in Stacks, NEW d \in DOMAIN s, NEW f \in DOMAIN s[d]
  PROVE  Marks(s, [s EXCEPT ![d][f].used = TRUE], d, f)
<1>1. s[d] \in Seq(UseEntry) /\ s[d][f] \in UseEntry
  BY DEF Stacks
<1>2. PICK c : c = [s[d][f] EXCEPT !.used = TRUE]
  OBVIOUS
<1>3. c \in UseEntry /\ c.v = s[d][f].v /\ c.at = s[d][f].at /\ c.used = TRUE
  BY <1>1, <1>2 DEF UseEntry
<1>4. PICK z : z = [s[d] EXCEPT ![f] = c]
  OBVIOUS
<1>5. z \in Seq(UseEntry) /\ DOMAIN z = DOMAIN s[d] /\ z[f] = c /\ \A x \in DOMAIN s[d] : x # f => z[x] = s[d][x]
  BY <1>1, <1>3, <1>4
<1>6. PICK t : t = [s EXCEPT ![d] = z]
  OBVIOUS
<1>7. t \in Stacks /\ Len(t) = Len(s) /\ t[d] = z /\ \A e \in DOMAIN s : e # d => t[e] = s[e]
  BY <1>5, <1>6 DEF Stacks
<1>8. t = [s EXCEPT ![d][f].used = TRUE]
  BY <1>2, <1>4, <1>6
<1>9. ASSUME NEW e \in DOMAIN s, NEW x \in DOMAIN s[e]
      PROVE  /\ t[e][x].v = s[e][x].v /\ t[e][x].at = s[e][x].at
             /\ t[e][x].used <=> s[e][x].used \/ (e = d /\ x = f)
  <2>1. CASE e = d /\ x = f
    BY <1>3, <1>5, <1>7, <2>1, Zenon
  <2>2. CASE ~(e = d /\ x = f)
    <3>1. t[e][x] = s[e][x]
      BY <1>5, <1>7, <2>2
    <3> QED
      BY <2>2, <3>1, Zenon
  <2> QED
    BY <2>1, <2>2
<1>10. \A e \in DOMAIN s : DOMAIN t[e] = DOMAIN s[e]
  BY <1>5, <1>7
<1>11. Marks(s, t, d, f)
  BY <1>7, <1>9, <1>10, Zenon DEF Marks
<1> QED
  BY <1>8, <1>11

KnowsName(s, v) == {d \in DOMAIN s : \E i \in DOMAIN s[d] : s[d][i].v = v}

FirstOf(s, v, d, f) == \A j \in 1..(f - 1) : s[d][j].v # v

LEMMA MarkUsedIs ==
  ASSUME NEW s \in Stacks, NEW v
  PROVE  /\ KnowsName(s, v) = {} => MarkUsed(s, v) = s
         /\ KnowsName(s, v) # {} =>
              \E d \in KnowsName(s, v) : \E f \in DOMAIN s[d] :
                /\ \A y \in KnowsName(s, v) : y <= d
                /\ s[d][f].v = v /\ FirstOf(s, v, d, f) /\ Marks(s, MarkUsed(s, v), d, f)
<1>1. PICK K, d, f : /\ K = KnowsName(s, v) /\ d = CHOOSE x \in K : \A y \in K : y <= x
                     /\ f = CHOOSE i \in DOMAIN s[d] :
                              s[d][i].v = v /\ \A j \in 1..(i - 1) : s[d][j].v # v
  OBVIOUS
<1>2. MarkUsed(s, v) = IF K = {} THEN s ELSE [s EXCEPT ![d][f].used = TRUE]
  BY <1>1 DEF MarkUsed, KnowsName
<1>3. ASSUME K # {}
      PROVE  /\ d \in K /\ f \in DOMAIN s[d] /\ \A y \in K : y <= d
             /\ s[d][f].v = v /\ FirstOf(s, v, d, f)
  <2>1. d \in K /\ \A y \in K : y <= d
    <3>1. K \subseteq 1..Len(s) /\ Len(s) \in Nat
      BY <1>1 DEF KnowsName, Stacks
    <3>2. IsFiniteSet(1..Len(s)) /\ 1..Len(s) \subseteq Int
      BY <3>1, FS_Interval
    <3>3. \E x \in K : \A y \in K : x >= y
      BY <1>3, <3>1, <3>2, LargestExists
    <3>4. \E x \in K : \A y \in K : y <= x
      BY <3>1, <3>3
    <3> QED
      BY <1>1, <3>4, Zenon
  <2>2. f \in DOMAIN s[d] /\ s[d][f].v = v /\ FirstOf(s, v, d, f)
    <3>1. d \in DOMAIN s /\ \E i \in DOMAIN s[d] : s[d][i].v = v
      <4>1. d \in KnowsName(s, v)
        BY <1>1, <2>1
      <4> QED
        BY <4>1, Zenon DEF KnowsName
    <3>2. PICK m : m \in Nat /\ DOMAIN s[d] = 1..m
      BY <3>1 DEF Stacks
    <3>3. PICK I : I = {i \in 1..m : s[d][i].v = v}
      OBVIOUS
    <3>4. I \subseteq Nat /\ I # {}
      BY <3>1, <3>2, <3>3
    <3>5. PICK i \in I : \A j \in I : i <= j
      BY <3>4, LeastIndex
    <3>6. i \in DOMAIN s[d] /\ s[d][i].v = v /\ \A j \in 1..(i - 1) : s[d][j].v # v
      BY <3>2, <3>3, <3>5
    <3> QED
      BY <1>1, <3>6, Zenon DEF FirstOf
  <2> QED
    BY <2>1, <2>2
<1>4. ASSUME K # {} PROVE Marks(s, MarkUsed(s, v), d, f)
  <2>1. d \in DOMAIN s /\ f \in DOMAIN s[d]
    <3>1. d \in KnowsName(s, v)
      BY <1>1, <1>3, <1>4
    <3> QED
      BY <1>3, <1>4, <3>1, Zenon DEF KnowsName
  <2>2. Marks(s, [s EXCEPT ![d][f].used = TRUE], d, f)
    BY <2>1, MarkIs
  <2>3. MarkUsed(s, v) = [s EXCEPT ![d][f].used = TRUE]
    BY <1>2, <1>4
  <2> QED
    BY <2>2, <2>3
<1>5. K = KnowsName(s, v)
  BY <1>1
<1> HIDE DEF KnowsName
<1>6. ASSUME K # {} PROVE \E e \in K : \E g \in DOMAIN s[e] :
                /\ \A y \in K : y <= e
                /\ s[e][g].v = v /\ FirstOf(s, v, e, g) /\ Marks(s, MarkUsed(s, v), e, g)
  BY <1>3, <1>4, <1>6, Zenon
<1>7. K = {} => MarkUsed(s, v) = s
  BY <1>2
<1> QED
  BY <1>5, <1>6, <1>7

\* Per open scope: one entry for each declaration that is live in it, used when
\* it is one of M.
EntriesKnown(fn, k, d, scope, M) ==
  /\ \A x \in DOMAIN scope : /\ scope[x].at \in Live(fn, k, d, scope[x].v)
                             /\ scope[x].used <=> scope[x].at \in M
  /\ \A v : \A j \in Live(fn, k, d, v) : \E x \in DOMAIN scope : scope[x].at = j
  /\ \A x, y \in DOMAIN scope : x < y => scope[x].at < scope[y].at
EntriesOnStack(fn, k, s, M) ==
  /\ s \in Stacks /\ Len(s) = Depth(fn, k)
  /\ \A d \in 1..Len(s) : EntriesKnown(fn, k, d, s[d], M)

\* The declarations of v that are open at i, and the one a use there is credited
\* to: of the innermost block that has one, the first.
OpenOnes(fn, i, v) == {m \in 1..i : fn[m].k = "let" /\ fn[m].v = v /\ InScope(fn, m, i)}
Credited(fn, i, v) ==
  {j \in OpenOnes(fn, i, v) : \A m \in OpenOnes(fn, i, v) :
     Depth(fn, m) < Depth(fn, j) \/ (Depth(fn, m) = Depth(fn, j) /\ j <= m)}

LEMMA OpenIsLive ==
  ASSUME NEW fn, NEW k \in Nat, NEW n, n = Depth(fn, k), \A i \in 1..k : Depth(fn, i) >= 1, NEW v, NEW j
  PROVE  j \in OpenOnes(fn, k, v) <=> \E e \in 1..n : j \in Live(fn, k, e, v)
<1>1. \A i \in 1..k : InScope(fn, i, k) => Depth(fn, i) \in 1..n
  <2> SUFFICES ASSUME NEW i \in 1..k, InScope(fn, i, k) PROVE Depth(fn, i) \in 1..n
    OBVIOUS
  <2>1. Depth(fn, k) >= Depth(fn, i) /\ Depth(fn, i) \in Int /\ Depth(fn, k) \in Int
    <3>1. k + 1 \in Nat /\ i \in Nat
      OBVIOUS
    <3> QED
      BY <3>1, ScopeNext, DepthInt
  <2> QED
    BY <2>1
<1> QED
  BY <1>1, Zenon DEF OpenOnes, Live

LEMMA KnownIsOpen ==
  ASSUME NEW fn, NEW k \in Nat, NEW M, NEW s, EntriesOnStack(fn, k, s, M), NEW v, NEW d
  PROVE  d \in KnowsName(s, v) <=> d \in 1..Len(s) /\ Live(fn, k, d, v) # {}
<1>1. DOMAIN s = 1..Len(s)
  BY DEF EntriesOnStack, Stacks
<1>2. ASSUME NEW e \in 1..Len(s)
      PROVE  (\E i \in DOMAIN s[e] : s[e][i].v = v) <=> Live(fn, k, e, v) # {}
  <2>1. EntriesKnown(fn, k, e, s[e], M)
    BY DEF EntriesOnStack
  <2>2. \A w : \A j \in Live(fn, k, e, w) : fn[j].v = w
    BY DEF Live
  <2>3. ASSUME NEW i \in DOMAIN s[e], s[e][i].v = v PROVE Live(fn, k, e, v) # {}
    BY <2>1, <2>3, Zenon DEF EntriesKnown
  <2>4. ASSUME NEW j \in Live(fn, k, e, v) PROVE \E i \in DOMAIN s[e] : s[e][i].v = v
    <3>1. PICK i \in DOMAIN s[e] : s[e][i].at = j
      BY <2>1, <2>4, Zenon DEF EntriesKnown
    <3>2. j \in Live(fn, k, e, s[e][i].v)
      BY <2>1, <3>1, Zenon DEF EntriesKnown
    <3>3. fn[j].v = v /\ fn[j].v = s[e][i].v
      BY <2>2, <2>4, <3>2, Zenon
    <3> QED
      BY <3>3
  <2> QED
    BY <2>3, <2>4, Zenon
<1> QED
  BY <1>1, <1>2, Zenon DEF KnowsName

\* The entry a mark falls on is that of the declaration the use is credited to.
EntryFound(s, v, d, f) == /\ d \in KnowsName(s, v) /\ \A y \in KnowsName(s, v) : y <= d
                          /\ f \in DOMAIN s[d] /\ s[d][f].v = v /\ FirstOf(s, v, d, f)
OnlyEntryOf(fn, k, s, v, d, f) ==
  /\ Credited(fn, k, v) = {s[d][f].at}
  /\ \A e \in 1..Len(s) : \A x \in DOMAIN s[e] : s[e][x].at = s[d][f].at => e = d /\ x = f
LEMMA MarkFindsCredited ==
  ASSUME NEW fn, NEW k \in Nat, \A i \in 1..k : Depth(fn, i) >= 1,
         NEW M, NEW s, EntriesOnStack(fn, k, s, M), NEW v, NEW d, NEW f, EntryFound(s, v, d, f)
  PROVE  OnlyEntryOf(fn, k, s, v, d, f)
<1>0. /\ d \in KnowsName(s, v) /\ \A y \in KnowsName(s, v) : y <= d
      /\ f \in DOMAIN s[d] /\ s[d][f].v = v /\ FirstOf(s, v, d, f)
  BY DEF EntryFound
<1>1. PICK j, n : j = s[d][f].at /\ n = Len(s)
  OBVIOUS
<1>2. n \in Nat /\ n = Depth(fn, k) /\ DOMAIN s = 1..n /\ d \in 1..n
  <2>1. n \in Nat /\ n = Depth(fn, k) /\ DOMAIN s = 1..n
    BY <1>1 DEF EntriesOnStack, Stacks
  <2> QED
    BY <1>0, <2>1 DEF KnowsName
<1>3. \A e \in 1..n : EntriesKnown(fn, k, e, s[e], M)
  BY <1>1 DEF EntriesOnStack
<1>4. j \in Live(fn, k, d, v)
  BY <1>0, <1>1, <1>2, <1>3, Zenon DEF EntriesKnown
<1>5. /\ j \in 1..k /\ Depth(fn, j) = d /\ InScope(fn, j, k) /\ fn[j].v = v
  BY <1>4 DEF Live
<1>5a. PICK l \in Nat : DOMAIN s[d] = 1..l
  <2>1. s \in Seq(Seq(UseEntry)) /\ d \in DOMAIN s
    BY <1>2 DEF EntriesOnStack, Stacks
  <2>2. PICK T : T = Seq(UseEntry)
    OBVIOUS
  <2>3. s[d] \in T
    BY <2>1, <2>2
  <2>4. s[d] \in Seq(UseEntry)
    BY <2>2, <2>3
  <2> QED
    BY <2>4
<1>6. ASSUME NEW m \in OpenOnes(fn, k, v)
      PROVE  Depth(fn, m) < d \/ (Depth(fn, m) = d /\ j <= m)
  <2>1. PICK e \in 1..n : m \in Live(fn, k, e, v)
    BY <1>2, <1>6, OpenIsLive
  <2>2. e \in KnowsName(s, v)
    BY <1>1, <2>1, KnownIsOpen
  <2>3. m \in 1..k /\ Depth(fn, m) = e /\ fn[m].v = v
    BY <2>1 DEF Live
  <2>4. CASE e = d
    <3>0. EntriesKnown(fn, k, d, s[d], M) /\ m \in Live(fn, k, d, v)
      BY <1>2, <1>3, <2>1, <2>4
    <3>1. PICK x \in DOMAIN s[d] : s[d][x].at = m
      BY <3>0, Zenon DEF EntriesKnown
    <3>2. m \in Live(fn, k, d, s[d][x].v)
      BY <1>2, <1>3, <3>1, Zenon DEF EntriesKnown
    <3>3. s[d][x].v = v
      BY <2>3, <3>2 DEF Live
    <3>4. x = f \/ f < x
      <4>1. x \in Nat /\ f \in Nat /\ 1 <= x
        BY <1>0, <1>5a, <3>1
      <4>2. ~(x \in 1..(f - 1))
        BY <1>0, <3>3 DEF FirstOf
      <4> QED
        BY <4>1, <4>2
    <3>5. CASE x = f
      <4>1. m = j
        BY <1>1, <3>1, <3>5
      <4> QED
        BY <1>5, <2>3, <2>4, <4>1
    <3>6. CASE f < x
      <4>1. s[d][f].at < s[d][x].at
        BY <1>0, <3>0, <3>1, <3>6, Zenon DEF EntriesKnown
      <4>2. j < m
        BY <1>1, <3>1, <4>1
      <4> QED
        BY <1>5, <2>3, <2>4, <4>2
    <3> QED
      BY <3>4, <3>5, <3>6
  <2>5. CASE e # d
    <3>1. e <= d
      BY <1>0, <2>2
    <3>2. e < d
      BY <1>2, <2>5, <3>1
    <3> QED
      BY <2>3, <3>2
  <2> QED
    BY <2>4, <2>5
<1>7. j \in OpenOnes(fn, k, v)
  BY <1>2, <1>4, OpenIsLive
<1>8. j \in Credited(fn, k, v)
  BY <1>5, <1>6, <1>7, Zenon DEF Credited
<1>9. Credited(fn, k, v) = {j}
  <2>1. ASSUME NEW m \in Credited(fn, k, v) PROVE m = j
    <3>1. m \in OpenOnes(fn, k, v) /\ (Depth(fn, j) < Depth(fn, m) \/ (Depth(fn, j) = Depth(fn, m) /\ m <= j))
      BY <1>7, <2>1, Zenon DEF Credited
    <3>2. Depth(fn, m) < Depth(fn, j) \/ (Depth(fn, m) = Depth(fn, j) /\ j <= m)
      BY <1>5, <1>6, <3>1
    <3>3. m \in Nat /\ j \in Nat /\ Depth(fn, m) \in Int /\ Depth(fn, j) \in Int
      <4>1. m \in 1..k /\ j \in 1..k
        BY <1>5, <3>1 DEF OpenOnes
      <4> QED
        BY <4>1, DepthInt
    <3> QED
      BY <3>1, <3>2, <3>3
  <2> QED
    BY <1>8, <2>1
<1>10. ASSUME NEW e \in 1..n, NEW x \in DOMAIN s[e], s[e][x].at = j PROVE e = d /\ x = f
  <2>1. j \in Live(fn, k, e, s[e][x].v)
    BY <1>3, <1>10, Zenon DEF EntriesKnown
  <2>2. Depth(fn, j) = e /\ fn[j].v = s[e][x].v
    BY <2>1 DEF Live
  <2>3. e = d
    BY <1>5, <2>2
  <2>4. x \in 1..l /\ f \in 1..l /\ s[d][x].at = j /\ s[d][f].at = j /\ j \in Nat
    BY <1>0, <1>1, <1>5, <1>5a, <1>10, <2>3
  <2>5. EntriesKnown(fn, k, d, s[d], M)
    BY <1>2, <1>3
  <2>6. ~(x < f) /\ ~(f < x)
    <3>1. x < f => s[d][x].at < s[d][f].at
      BY <1>5a, <2>4, <2>5, Zenon DEF EntriesKnown
    <3>2. f < x => s[d][f].at < s[d][x].at
      BY <1>5a, <2>4, <2>5, Zenon DEF EntriesKnown
    <3> QED
      BY <2>4, <3>1, <3>2
  <2>7. x = f
    BY <2>4, <2>6
  <2> QED
    BY <2>3, <2>7
<1> QED
  BY <1>1, <1>9, <1>10, Zenon DEF OnlyEntryOf

LEMMA EntriesMarked ==
  ASSUME NEW fn, NEW k, NEW M, NEW s, EntriesOnStack(fn, k, s, M), NEW t, NEW d, NEW f,
         Marks(s, t, d, f), NEW N,
         \A e \in 1..Len(s) : \A x \in DOMAIN s[e] :
           s[e][x].at \in N <=> s[e][x].at \in M \/ (e = d /\ x = f)
  PROVE  EntriesOnStack(fn, k, t, N)
<1>1. DOMAIN s = 1..Len(s)
  BY DEF EntriesOnStack, Stacks
<1>2. ASSUME NEW e \in 1..Len(s) PROVE EntriesKnown(fn, k, e, t[e], N)
  <2>1. EntriesKnown(fn, k, e, s[e], M)
    BY DEF EntriesOnStack
  <2>2. /\ DOMAIN t[e] = DOMAIN s[e]
        /\ \A x \in DOMAIN s[e] : /\ t[e][x].v = s[e][x].v /\ t[e][x].at = s[e][x].at
                                  /\ t[e][x].used <=> s[e][x].used \/ (e = d /\ x = f)
    BY <1>1, Zenon DEF Marks
  <2>3. ASSUME NEW x \in DOMAIN t[e]
        PROVE  /\ t[e][x].at \in Live(fn, k, e, t[e][x].v)
               /\ t[e][x].used <=> t[e][x].at \in N
    <3>1. x \in DOMAIN s[e]
      BY <2>2
    <3>2. /\ s[e][x].at \in Live(fn, k, e, s[e][x].v)
          /\ s[e][x].used <=> s[e][x].at \in M
      BY <2>1, <3>1, Zenon DEF EntriesKnown
    <3>3. t[e][x].v = s[e][x].v /\ t[e][x].at = s[e][x].at
      BY <2>2, <3>1, Zenon
    <3>4. t[e][x].used <=> s[e][x].used \/ (e = d /\ x = f)
      BY <2>2, <3>1, Zenon
    <3>5. s[e][x].at \in N <=> s[e][x].at \in M \/ (e = d /\ x = f)
      BY <3>1, Zenon
    <3>6. t[e][x].at \in Live(fn, k, e, t[e][x].v)
      BY <3>2, <3>3
    <3>7. t[e][x].used <=> t[e][x].at \in N
      BY <3>2, <3>3, <3>4, <3>5, Zenon
    <3> QED
      BY <3>6, <3>7, Zenon
  <2>4. ASSUME NEW v, NEW j \in Live(fn, k, e, v) PROVE \E x \in DOMAIN t[e] : t[e][x].at = j
    <3>1. PICK x \in DOMAIN s[e] : s[e][x].at = j
      BY <2>1, <2>4, Zenon DEF EntriesKnown
    <3> QED
      BY <2>2, <3>1, Zenon
  <2>5. ASSUME NEW x \in DOMAIN t[e], NEW y \in DOMAIN t[e], x < y PROVE t[e][x].at < t[e][y].at
    <3>1. x \in DOMAIN s[e] /\ y \in DOMAIN s[e]
      BY <2>2
    <3>2. t[e][x].at = s[e][x].at /\ t[e][y].at = s[e][y].at
      BY <2>2, <3>1, Zenon
    <3>3. s[e][x].at < s[e][y].at
      BY <2>1, <2>5, <3>1, Zenon DEF EntriesKnown
    <3> QED
      BY <3>2, <3>3
  <2> QED
    BY <2>3, <2>4, <2>5, Zenon DEF EntriesKnown
<1>3. t \in Stacks /\ Len(t) = Len(s) /\ Len(t) = Depth(fn, k)
  BY DEF Marks, EntriesOnStack
<1> QED
  BY <1>2, <1>3, Zenon DEF EntriesOnStack

LEMMA MarkKeeps ==
  ASSUME NEW fn, NEW k \in Nat, \A i \in 1..k : Depth(fn, i) >= 1,
         NEW M, NEW s, EntriesOnStack(fn, k, s, M), NEW v, NEW N, N = M \cup Credited(fn, k, v)
  PROVE  EntriesOnStack(fn, k, MarkUsed(s, v), N)
<1>1. s \in Stacks
  BY DEF EntriesOnStack
<1>2. CASE KnowsName(s, v) = {}
  <2>1. MarkUsed(s, v) = s
    BY <1>1, <1>2, MarkUsedIs
  <2>2. \A j : j \notin OpenOnes(fn, k, v)
    <3>1. Len(s) = Depth(fn, k)
      BY DEF EntriesOnStack
    <3>2. \A e \in 1..Len(s) : Live(fn, k, e, v) = {}
      BY <1>2, KnownIsOpen
    <3> QED
      BY <3>1, <3>2, OpenIsLive
  <2>3. Credited(fn, k, v) = {}
    BY <2>2 DEF Credited
  <2>4. N = M
    BY <2>3
  <2> QED
    BY <2>1, <2>4
<1>3. CASE KnowsName(s, v) # {}
  <2>1. PICK d \in KnowsName(s, v) : \E f \in DOMAIN s[d] :
                /\ \A y \in KnowsName(s, v) : y <= d
                /\ s[d][f].v = v /\ FirstOf(s, v, d, f) /\ Marks(s, MarkUsed(s, v), d, f)
    BY <1>1, <1>3, MarkUsedIs, Zenon
  <2>2. PICK f \in DOMAIN s[d] : /\ \A y \in KnowsName(s, v) : y <= d
                                 /\ s[d][f].v = v /\ FirstOf(s, v, d, f) /\ Marks(s, MarkUsed(s, v), d, f)
    BY <2>1
  <2>3. OnlyEntryOf(fn, k, s, v, d, f)
    <3>1. EntryFound(s, v, d, f)
      BY <2>1, <2>2, Zenon DEF EntryFound
    <3> QED
      BY <3>1, MarkFindsCredited
  <2>4. ASSUME NEW e \in 1..Len(s), NEW x \in DOMAIN s[e]
        PROVE  s[e][x].at \in N <=> s[e][x].at \in M \/ (e = d /\ x = f)
    <3>1. s[e][x].at \in N <=> s[e][x].at \in M \/ s[e][x].at = s[d][f].at
      BY <2>3 DEF OnlyEntryOf
    <3> QED
      BY <2>3, <3>1, Zenon DEF OnlyEntryOf
  <2> QED
    BY <2>2, <2>4, EntriesMarked
<1> QED
  BY <1>2, <1>3

LEMMA ReplacedIn ==
  ASSUME NEW T, NEW s \in Seq(T), NEW d \in 1..Len(s), NEW x \in T
  PROVE  [s EXCEPT ![d] = x] \in Seq(T) /\ Changed(s, d, x, [s EXCEPT ![d] = x])
<1>1. [s EXCEPT ![d] = x] \in Seq(T)
  OBVIOUS
<1>2. IsList(s)
  BY DEF IsList
<1> QED
  BY <1>1, <1>2, Replaced

LEMMA KnownSame ==
  ASSUME NEW fn, NEW k, NEW h, NEW d, NEW scope, NEW M, EntriesKnown(fn, k, d, scope, M),
         \A v : Live(fn, h, d, v) = Live(fn, k, d, v)
  PROVE  EntriesKnown(fn, h, d, scope, M)
  BY Zenon DEF EntriesKnown

LEMMA KnownNothing ==
  ASSUME NEW fn, NEW k, NEW d, NEW M, \A v : Live(fn, k, d, v) = {}
  PROVE  EntriesKnown(fn, k, d, <<>>, M)
<1>1. DOMAIN <<>> = {}
  OBVIOUS
<1> QED
  BY <1>1, Zenon DEF EntriesKnown

EntryOf(v, at) == [v |-> v, at |-> at, used |-> FALSE]

LEMMA KnownDeclared ==
  ASSUME NEW fn, NEW k, NEW h \in Nat, NEW d, NEW M, h \notin M,
         NEW scope \in Seq(UseEntry), EntriesKnown(fn, k, d, scope, M),
         NEW v \in STRING, \A x \in DOMAIN scope : scope[x].at < h,
         \A w : Live(fn, h, d, w) = Live(fn, k, d, w) \cup (IF w = v THEN {h} ELSE {})
  PROVE  EntriesKnown(fn, h, d, Append(scope, EntryOf(v, h)), M)
<1>1. PICK c, new, n : c = EntryOf(v, h) /\ new = Append(scope, c) /\ n = Len(scope)
  OBVIOUS
<1>2. c.v = v /\ c.at = h /\ c.used = FALSE
  BY <1>1 DEF EntryOf
<1>3. c \in UseEntry
  BY <1>1 DEF EntryOf, UseEntry
<1>4. n \in Nat /\ DOMAIN scope = 1..n /\ DOMAIN new = 1..(n + 1)
      /\ new[n + 1] = c /\ \A x \in 1..n : new[x] = scope[x]
  BY <1>1, <1>3
<1>5. PICK m : m = n + 1 /\ m \notin 1..n /\ DOMAIN new = 1..n \cup {m} /\ new[m] = c
  BY <1>4
<1>6. \A w : Live(fn, k, d, w) \subseteq Live(fn, h, d, w)
  OBVIOUS
<1>7. h \in Live(fn, h, d, v)
  OBVIOUS
<1>8. ASSUME NEW x \in DOMAIN new
      PROVE  /\ new[x].at \in Live(fn, h, d, new[x].v)
             /\ new[x].used <=> new[x].at \in M
  <2>1. CASE x = m
    <3>1. new[x] = c
      BY <1>5, <2>1
    <3>2. c.at \in Live(fn, h, d, c.v)
      BY <1>2, <1>7
    <3>3. c.used <=> c.at \in M
      BY <1>2, Zenon
    <3> QED
      BY <3>1, <3>2, <3>3, Zenon
  <2>2. CASE x \in 1..n
    <3>1. new[x] = scope[x] /\ x \in DOMAIN scope
      BY <1>4, <2>2
    <3>2. /\ scope[x].at \in Live(fn, k, d, scope[x].v)
          /\ scope[x].used <=> scope[x].at \in M
      BY <3>1, Zenon DEF EntriesKnown
    <3>3. scope[x].at \in Live(fn, h, d, scope[x].v)
      BY <1>6, <3>2
    <3> QED
      BY <3>1, <3>2, <3>3, Zenon
  <2> QED
    BY <1>5, <2>1, <2>2
<1>9. ASSUME NEW w, NEW j \in Live(fn, h, d, w) PROVE \E x \in DOMAIN new : new[x].at = j
  <2>1. CASE j \in Live(fn, k, d, w)
    <3>1. PICK x \in DOMAIN scope : scope[x].at = j
      BY <2>1, Zenon DEF EntriesKnown
    <3>2. x \in 1..n /\ new[x] = scope[x]
      BY <1>4, <3>1
    <3>3. x \in DOMAIN new /\ new[x].at = j
      BY <1>5, <3>1, <3>2
    <3> QED
      BY <3>3
  <2>2. CASE j \notin Live(fn, k, d, w)
    <3>1. j = h
      BY <1>9, <2>2
    <3> QED
      BY <1>2, <1>5, <3>1
  <2> QED
    BY <2>1, <2>2
<1>10. ASSUME NEW x \in DOMAIN new, NEW y \in DOMAIN new, x < y PROVE new[x].at < new[y].at
  <2>1. \A z \in 1..n : z \in DOMAIN scope /\ new[z] = scope[z] /\ new[z].at < h
    BY <1>4
  <2>2. new[m].at = h
    BY <1>2, <1>5
  <2>3. x \in 1..n /\ (y \in 1..n \/ y = m)
    BY <1>4, <1>5, <1>10
  <2>4. CASE y \in 1..n
    <3>1. x \in DOMAIN scope /\ y \in DOMAIN scope /\ new[x] = scope[x] /\ new[y] = scope[y]
      BY <2>1, <2>3, <2>4
    <3>2. scope[x].at < scope[y].at
      BY <1>10, <3>1, Zenon DEF EntriesKnown
    <3> QED
      BY <3>1, <3>2
  <2>5. CASE y = m
    BY <2>1, <2>2, <2>3, <2>5
  <2> QED
    BY <2>3, <2>4, <2>5
<1>11. EntriesKnown(fn, h, d, new, M)
  BY <1>8, <1>9, <1>10, Zenon DEF EntriesKnown
<1> QED
  BY <1>1, <1>11

LEMMA EntriesOpen ==
  ASSUME NEW fn, NEW k \in Nat, NEW h \in Nat, h = k + 1, fn[h].k = "open",
         NEW M, NEW s, EntriesOnStack(fn, k, s, M), NEW t, t = Append(s, <<>>)
  PROVE  EntriesOnStack(fn, h, t, M)
<1>0. Len(s) \in Nat /\ Len(s) = Depth(fn, k)
  <2>1. s \in Stacks /\ Len(s) = Depth(fn, k)
    BY DEF EntriesOnStack
  <2> QED
    BY <2>1 DEF Stacks
<1>1. PICK n \in Nat : n = Len(s) /\ Depth(fn, k) = n
  BY <1>0
<1>2. s \in Seq(Seq(UseEntry)) /\ <<>> \in Seq(UseEntry) /\ n \in Nat /\ Depth(fn, k) = n
  BY <1>1 DEF EntriesOnStack, Stacks
<1>3. t \in Seq(Seq(UseEntry)) /\ Len(t) = n + 1 /\ t[n + 1] = <<>> /\ \A i \in 1..n : t[i] = s[i]
  BY <1>1, <1>2
<1>4. Depth(fn, h) = n + 1
  BY <1>2, DepthNext
<1>5. ASSUME NEW d \in 1..(n + 1) PROVE EntriesKnown(fn, h, d, t[d], M)
  <2>1. \A v : Live(fn, h, d, v) = Live(fn, k, d, v)
    BY <1>1, <1>4, LiveKept
  <2>2. CASE d \in 1..n
    <3>1. EntriesKnown(fn, k, d, s[d], M)
      BY <1>1, <2>2 DEF EntriesOnStack
    <3> QED
      BY <1>3, <2>1, <2>2, <3>1, KnownSame
  <2>3. CASE d = n + 1
    <3>1. \A v : Live(fn, k, d, v) = {}
      BY <1>1, <2>3, NothingAbove
    <3>2. \A v : Live(fn, h, d, v) = {}
      BY <2>1, <3>1
    <3> QED
      BY <1>3, <2>3, <3>2, KnownNothing
  <2> QED
    BY <1>1, <2>2, <2>3
<1> QED
  BY <1>3, <1>4, <1>5, Zenon DEF EntriesOnStack, Stacks

LEMMA EntriesClose ==
  ASSUME NEW fn, NEW k \in Nat, NEW h \in Nat, h = k + 1, fn[h].k = "close", Depth(fn, h) >= 1,
         NEW M, NEW s, EntriesOnStack(fn, k, s, M), NEW t, t = Front(s)
  PROVE  EntriesOnStack(fn, h, t, M)
<1>1. Depth(fn, h) = Depth(fn, k) - 1 /\ Depth(fn, h) \in Int /\ Depth(fn, k) \in Int
  BY DepthNext
<1>2. PICK n \in Nat : n = Depth(fn, h) /\ n + 1 = Depth(fn, k)
  BY <1>1
<1>3. s \in Seq(Seq(UseEntry)) /\ Len(s) = n + 1
  BY <1>2 DEF EntriesOnStack, Stacks
<1>4. t \in Seq(Seq(UseEntry)) /\ Len(t) = n /\ \A i \in 1..n : t[i] = s[i]
  <2>1. t = SubSeq(s, 1, n)
    BY <1>3 DEF Front
  <2> QED
    BY <1>3, <2>1
<1>5. ASSUME NEW d \in 1..n PROVE EntriesKnown(fn, h, d, t[d], M)
  <2>1. \A v : Live(fn, h, d, v) = Live(fn, k, d, v)
    BY <1>2, LiveKept
  <2>2. EntriesKnown(fn, k, d, s[d], M)
    BY <1>3 DEF EntriesOnStack
  <2> QED
    BY <1>4, <2>1, <2>2, KnownSame
<1> QED
  BY <1>2, <1>4, <1>5, Zenon DEF EntriesOnStack, Stacks

LEMMA EntriesKeep ==
  ASSUME NEW fn, NEW k \in Nat, NEW h \in Nat, h = k + 1, fn[h].k \notin {"open", "close", "let"},
         NEW M, NEW s, EntriesOnStack(fn, k, s, M)
  PROVE  EntriesOnStack(fn, h, s, M)
<1>1. Depth(fn, h) = Depth(fn, k) /\ Depth(fn, h) \in Int
  BY DepthNext
<1>2. s \in Stacks /\ Len(s) = Depth(fn, h)
  BY <1>1 DEF EntriesOnStack
<1>3. ASSUME NEW d \in 1..Len(s) PROVE EntriesKnown(fn, h, d, s[d], M)
  <2>1. \A v : Live(fn, h, d, v) = Live(fn, k, d, v)
    <3>1. d \in Int /\ d <= Depth(fn, h)
      BY <1>1, <1>2
    <3> QED
      BY <3>1, LiveKept
  <2>2. EntriesKnown(fn, k, d, s[d], M)
    BY DEF EntriesOnStack
  <2> QED
    BY <2>1, <2>2, KnownSame
<1> QED
  BY <1>2, <1>3, Zenon DEF EntriesOnStack

EntryOn(s, d, v, h, t) == d = Len(s) /\ t = [s EXCEPT ![d] = Append(s[d], EntryOf(v, h))]
LEMMA EntriesDeclare ==
  ASSUME NEW fn, NEW k \in Nat, NEW h \in Nat, h = k + 1, fn[h].k = "let", NEW v \in STRING, v = fn[h].v,
         Depth(fn, h) >= 1,
         NEW M, h \notin M, NEW s, EntriesOnStack(fn, k, s, M), NEW d, NEW t, EntryOn(s, d, v, h, t)
  PROVE  EntriesOnStack(fn, h, t, M)
<1>0. d = Len(s) /\ t = [s EXCEPT ![d] = Append(s[d], EntryOf(v, h))]
  BY DEF EntryOn
<1>1. Depth(fn, h) = Depth(fn, k) /\ Depth(fn, h) \in Int
  BY DepthNext
<1>2. s \in Seq(Seq(UseEntry)) /\ d = Depth(fn, h) /\ d \in Nat /\ d \in 1..d /\ d \in 1..Len(s)
  BY <1>0, <1>1 DEF EntriesOnStack, Stacks
<1>3. PICK new : new = Append(s[d], EntryOf(v, h))
  OBVIOUS
<1>4. s[d] \in Seq(UseEntry) /\ EntryOf(v, h) \in UseEntry /\ new \in Seq(UseEntry)
  <2>1. s[d] \in Seq(UseEntry) /\ EntryOf(v, h) \in UseEntry
    <3>1. s[d] \in Seq(UseEntry)
      <4>1. PICK T : T = Seq(UseEntry)
        OBVIOUS
      <4>2. s \in Seq(T) /\ d \in 1..Len(s)
        BY <1>2, <4>1
      <4>3. s[d] \in T
        BY <4>2
      <4> QED
        BY <4>1, <4>3
    <3>2. EntryOf(v, h) \in UseEntry
      BY DEF EntryOf, UseEntry
    <3> QED
      BY <3>1, <3>2
  <2> QED
    BY <1>3, <2>1
<1>5. t \in Seq(Seq(UseEntry)) /\ Len(t) = d /\ t[d] = new /\ \A i \in 1..d : i # d => t[i] = s[i]
  <2>1. t = [s EXCEPT ![d] = new] /\ Len(s) = d
    BY <1>0, <1>3
  <2>2. PICK T : T = Seq(UseEntry)
    OBVIOUS
  <2>3. s \in Seq(T) /\ new \in T
    BY <1>2, <1>4, <2>2
  <2>4. t \in Seq(T) /\ Len(t) = Len(s) /\ t[d] = new /\ \A i \in 1..Len(s) : i # d => t[i] = s[i]
    <3>1. d \in 1..Len(s)
      BY <1>2
    <3>2. [s EXCEPT ![d] = new] \in Seq(T) /\ Changed(s, d, new, [s EXCEPT ![d] = new])
      BY <2>3, <3>1, ReplacedIn
    <3>3. t \in Seq(T) /\ Changed(s, d, new, t)
      BY <2>1, <3>2
    <3> QED
      BY <3>3, Zenon DEF Changed
  <2> QED
    BY <2>1, <2>2, <2>4
<1>6. ASSUME NEW e \in 1..d PROVE EntriesKnown(fn, h, e, t[e], M)
  <2>0. EntriesKnown(fn, k, e, s[e], M)
    BY <1>0 DEF EntriesOnStack
  <2>1. e \in Int /\ e <= Depth(fn, h)
    BY <1>1, <1>2
  <2>2. CASE e # d
    <3>0. Depth(fn, h) # e
      BY <1>2, <2>2
    <3>1. ASSUME NEW x PROVE Live(fn, h, e, x) = Live(fn, k, e, x)
      BY <2>1, <3>0, LiveKept
    <3>2. t[e] = s[e]
      BY <1>5, <2>2
    <3> QED
      BY <2>0, <3>1, <3>2, KnownSame
  <2>3. CASE e = d
    <3>1. ASSUME NEW x PROVE Live(fn, h, d, x) = Live(fn, k, d, x) \cup (IF x = v THEN {h} ELSE {})
      BY <1>0, <1>1, <1>2, <2>1, <2>3, LiveNext
    <3>2. ASSUME NEW x \in DOMAIN s[d] PROVE s[d][x].at < h
      <4>1. s[d][x].at \in Live(fn, k, d, s[d][x].v)
        BY <2>0, <2>3, <3>2, Zenon DEF EntriesKnown
      <4>2. s[d][x].at \in 1..k
        BY <4>1 DEF Live
      <4> QED
        BY <4>2
    <3>3. EntriesKnown(fn, k, d, s[d], M)
      BY <2>0, <2>3
    <3>4. EntriesKnown(fn, h, d, Append(s[d], EntryOf(v, h)), M)
      BY <1>4, <3>1, <3>2, <3>3, KnownDeclared
    <3> QED
      BY <1>3, <1>5, <2>3, <3>4
  <2> QED
    BY <2>2, <2>3
<1> QED
  BY <1>2, <1>5, <1>6, Zenon DEF EntriesOnStack, Stacks

NothingUnused == [stack |-> <<<<>>>>, unused |-> {}]
UnusedLoop(seq, n, g) ==
  g = [s \in SUBSET (1..n) |-> IF s = {} THEN NothingUnused
         ELSE LET x == Max(s) IN UnusedStep(g[s \ {x}], seq[x])]

LEMMA UnusedLoopRuns ==
  ASSUME NEW seq PROVE \A n \in Nat : \E g : UnusedLoop(seq, n, g)
<1> DEFINE G == {n \in Nat : \E g : UnusedLoop(seq, n, g)}
<1>1. 0 \in G
  <2>1. SUBSET (1..0) = {{}}
    OBVIOUS
  <2>2. UnusedLoop(seq, 0, [s \in SUBSET (1..0) |-> NothingUnused])
    BY <2>1 DEF UnusedLoop
  <2> QED
    BY <2>2
<1>2. ASSUME NEW n \in Nat, n \in G PROVE n + 1 \in G
  <2>1. PICK g : UnusedLoop(seq, n, g)
    BY <1>2
  <2>2. PICK h : h = [s \in SUBSET (1..(n + 1)) |-> IF n + 1 \in s
                        THEN UnusedStep(g[s \ {n + 1}], seq[n + 1]) ELSE g[s]]
    OBVIOUS
  <2>3. ASSUME NEW s \in SUBSET (1..(n + 1))
        PROVE  h[s] = IF s = {} THEN NothingUnused
                      ELSE LET x == Max(s) IN UnusedStep(h[s \ {x}], seq[x])
    <3>1. CASE n + 1 \in s
      <4>1. /\ s # {} /\ Max(s) = n + 1 /\ s \ {n + 1} \in SUBSET (1..(n + 1))
            /\ n + 1 \notin s \ {n + 1}
        BY <3>1, TopOfInterval
      <4>2. h[s] = UnusedStep(g[s \ {n + 1}], seq[n + 1]) /\ h[s \ {n + 1}] = g[s \ {n + 1}]
        BY <2>2, <3>1, <4>1, Zenon
      <4> QED
        BY <4>1, <4>2, Zenon
    <3>2. CASE n + 1 \notin s
      <4>1. /\ s \in SUBSET (1..n)
            /\ s # {} => s \ {Max(s)} \in SUBSET (1..(n + 1)) /\ n + 1 \notin s \ {Max(s)}
        BY <3>2, TopOfInterval
      <4>2. h[s] = g[s] /\ (s # {} => h[s \ {Max(s)}] = g[s \ {Max(s)}])
        BY <2>2, <3>2, <4>1, Zenon
      <4>3. g[s] = IF s = {} THEN NothingUnused
                   ELSE LET x == Max(s) IN UnusedStep(g[s \ {x}], seq[x])
        BY <2>1, <4>1, Zenon DEF UnusedLoop
      <4> QED
        BY <4>2, <4>3, Zenon
    <3> QED
      BY <3>1, <3>2
  <2>4. UnusedLoop(seq, n + 1, h)
    BY <2>2, <2>3, Zenon DEF UnusedLoop
  <2> QED
    BY <2>4
<1>3. Nat \subseteq G
  <2> HIDE DEF G
  <2> QED
    BY <1>1, <1>2, NumbersByInduction
<1> QED
  BY <1>3

\* What is reported: what closed scopes left, and what the open ones hold unused.
ReportsAfter(fn, end) ==
  ReportedUnused(fn) = end.unused \cup UNION {LeftUnused(end.stack[d]) : d \in DOMAIN end.stack}
LEMMA UnusedTraced ==
  ASSUME NEW S, NEW fn \in Seq(S)
  PROVE  \E tr : /\ tr[0] = NothingUnused
                 /\ \A k \in 1..Len(fn) :
                      tr[k] = UnusedStep(tr[k - 1], [at |-> k, token |-> fn[k]])
                 /\ ReportsAfter(fn, tr[Len(fn)])
<1>1. PICK n \in Nat : n = Len(fn) /\ DOMAIN fn = 1..n
  OBVIOUS
<1>2. PICK seq : seq = NumberedTokens(fn)
  OBVIOUS
<1>3. DOMAIN seq = 1..n /\ \A k \in 1..n : seq[k] = [at |-> k, token |-> fn[k]]
  BY <1>1, <1>2 DEF NumberedTokens
<1>4. PICK g : UnusedLoop(seq, n, g)
  BY UnusedLoopRuns
<1>5. PICK it : it = CHOOSE f : UnusedLoop(seq, n, f)
  OBVIOUS
<1>6. UnusedLoop(seq, n, it)
  BY <1>4, <1>5
<1>7. ReportsAfter(fn, it[1..n])
  <2>1. PICK end : end = (CHOOSE f : f = [s \in SUBSET DOMAIN seq |-> IF s = {} THEN NothingUnused
           ELSE LET x == Max(s) IN UnusedStep(f[s \ {x}], seq[x])])[DOMAIN seq]
    OBVIOUS
  <2>2. ReportedUnused(fn) = end.unused \cup UNION {LeftUnused(end.stack[d]) : d \in DOMAIN end.stack}
    BY <1>2, <2>1 DEF ReportedUnused, FoldLeft, MapThenFoldSet, NothingUnused
  <2>3. end = it[1..n]
    BY <1>3, <1>5, <2>1 DEF UnusedLoop
  <2> QED
    BY <2>2, <2>3, Zenon DEF ReportsAfter
<1>8. PICK tr : tr = [k \in 0..n |-> it[1..k]]
  OBVIOUS
<1>9. tr[0] = NothingUnused
  <2>1. 1..0 = {} /\ {} \in SUBSET (1..n) /\ 0 \in 0..n
    OBVIOUS
  <2>2. it[{}] = NothingUnused
    BY <1>6, <2>1, Zenon DEF UnusedLoop
  <2> QED
    BY <1>8, <2>1, <2>2
<1>10. ASSUME NEW k \in 1..n PROVE tr[k] = UnusedStep(tr[k - 1], seq[k])
  <2>1. /\ Max(1..k) = k /\ (1..k) \ {k} = 1..(k - 1) /\ 1..k # {} /\ 1..k \in SUBSET (1..n)
    BY PrefixIs
  <2>2. it[1..k] = UnusedStep(it[1..(k - 1)], seq[k])
    BY <1>6, <2>1, Zenon DEF UnusedLoop
  <2>3. k \in 0..n /\ k - 1 \in 0..n
    OBVIOUS
  <2> QED
    BY <1>8, <2>2, <2>3
<1>11. tr[n] = it[1..n]
  BY <1>8
<1> QED
  BY <1>1, <1>3, <1>7, <1>9, <1>10, <1>11


ScopeOpened(st, n, a, b) == UnusedStep(st, n) = [stack |-> Append(a, <<>>), unused |-> b]
ScopeClosed(st, n, a, b) ==
  UnusedStep(st, n) = [stack |-> Front(a), unused |-> b \cup LeftUnused(a[Len(a)])]
LetAdded(st, n, a, b, t) ==
  UnusedStep(st, n) = [stack |-> [a EXCEPT ![Len(a)] = Append(a[Len(a)], EntryOf(t.v, n.at))],
                       unused |-> b]
LEMMA UnusedStepIs ==
  ASSUME NEW a, NEW b, NEW st, st = [stack |-> a, unused |-> b],
         NEW h, NEW t, NEW n, n = [at |-> h, token |-> t], t.k \in ViewKinds
  PROVE  /\ t.k = "open" => ScopeOpened(st, n, a, b)
         /\ t.k = "close" => ScopeClosed(st, n, a, b)
         /\ t.k = "let" => LetAdded(st, n, a, b, t)
         /\ t.k = "use" => UnusedStep(st, n) = [stack |-> MarkUsed(a, t.v), unused |-> b]
         /\ t.k \in {"bound", "macro", "other"} => UnusedStep(st, n) = st
<1>1. n.at = h /\ n.token = t /\ st.stack = a /\ st.unused = b
  OBVIOUS
<1>2. CASE t.k = "open"
  <2>1. UnusedStep(st, n) = [st EXCEPT !.stack = Append(st.stack, <<>>)]
    BY <1>1, <1>2 DEF UnusedStep
  <2>2. UnusedStep(st, n) = [stack |-> Append(a, <<>>), unused |-> b]
    BY <1>1, <2>1
  <2> QED
    BY <1>2, <2>2, Zenon DEF ScopeOpened
<1>3. CASE t.k = "close"
  <2>1. UnusedStep(st, n) = [stack |-> Front(a), unused |-> b \cup LeftUnused(a[Len(a)])]
    BY <1>1, <1>3 DEF UnusedStep
  <2> QED
    BY <1>3, <2>1, Zenon DEF ScopeClosed
<1>4. CASE t.k = "let"
  <2>1. PICK e : e = [a EXCEPT ![Len(a)] = Append(a[Len(a)], EntryOf(t.v, h))]
    OBVIOUS
  <2>2. UnusedStep(st, n) = [st EXCEPT !.stack = e]
    BY <1>1, <1>4, <2>1 DEF UnusedStep, EntryOf
  <2>3. UnusedStep(st, n) = [stack |-> e, unused |-> b]
    BY <2>2
  <2> QED
    BY <1>1, <1>4, <2>1, <2>3, Zenon DEF LetAdded
<1>5. CASE t.k = "use"
  <2>1. UnusedStep(st, n) = [st EXCEPT !.stack = MarkUsed(a, t.v)]
    BY <1>1, <1>5 DEF UnusedStep
  <2>2. UnusedStep(st, n) = [stack |-> MarkUsed(a, t.v), unused |-> b]
    BY <2>1
  <2> QED
    BY <1>5, <2>2
<1>6. CASE t.k \in {"bound", "macro", "other"}
  <2>1. UnusedStep(st, n) = st
    BY <1>1, <1>6 DEF UnusedStep
  <2> QED
    BY <1>6, <2>1
<1> QED
  BY <1>2, <1>3, <1>4, <1>5, <1>6, Zenon DEF ViewKinds

\* The declarations the rule counts as read by what precedes and follows at k.
ReadBy(fn, i) == IF fn[i].k = "use" THEN Credited(fn, i, fn[i].v) ELSE {}
MarkedAt(fn, k) == UNION {ReadBy(fn, i) : i \in 1..k}
Declared(fn, j) == fn[j].k = "let" /\ fn[j].v \notin Ignored
Unread(fn, k) == {j \in 1..k : Declared(fn, j) /\ ~InScope(fn, j, k) /\ j \notin MarkedAt(fn, k)}

LEMMA ReadIsOpen ==
  ASSUME NEW fn, NEW k, NEW j \in ReadBy(fn, k)
  PROVE  j \in 1..k /\ InScope(fn, j, k)
<1>1. j \in OpenOnes(fn, k, fn[k].v)
  BY DEF ReadBy, Credited
<1> QED
  BY <1>1 DEF OpenOnes

LEMMA MarkedNext ==
  ASSUME NEW fn, NEW k \in Nat, NEW h \in Nat, h = k + 1
  PROVE  /\ MarkedAt(fn, h) = MarkedAt(fn, k) \cup ReadBy(fn, h)
         /\ h \notin MarkedAt(fn, k)
<1>1. 1..h = 1..k \cup {h} /\ \A i \in 1..k : h \notin 1..i
  OBVIOUS
<1>2. MarkedAt(fn, h) = MarkedAt(fn, k) \cup ReadBy(fn, h)
  BY <1>1, Zenon DEF MarkedAt
<1>3. h \notin MarkedAt(fn, k)
  <2> SUFFICES ASSUME h \in MarkedAt(fn, k) PROVE FALSE
    OBVIOUS
  <2>1. PICK i \in 1..k : h \in ReadBy(fn, i)
    BY Zenon DEF MarkedAt
  <2>2. h \in 1..i
    BY <2>1, ReadIsOpen
  <2> QED
    BY <1>1, <2>1, <2>2
<1> QED
  BY <1>2, <1>3

\* While no scope closes, nothing joins the variables left unread.
LEMMA UnreadStays ==
  ASSUME NEW fn, NEW k \in Nat, NEW h \in Nat, h = k + 1, fn[h].k # "close"
  PROVE  Unread(fn, h) = Unread(fn, k)
<1>1. 1..h = 1..k \cup {h}
  OBVIOUS
<1>2. InScope(fn, h, h)
  BY ScopeStarts
<1>3. Depth(fn, h) >= Depth(fn, k) /\ Depth(fn, h) \in Int /\ Depth(fn, k) \in Int
  BY DepthNext
<1>4. ASSUME NEW j \in 1..k PROVE InScope(fn, j, h) <=> InScope(fn, j, k)
  <2>1. Depth(fn, j) \in Int
    BY DepthInt
  <2>2. /\ InScope(fn, j, h) <=> InScope(fn, j, k) /\ Depth(fn, h) >= Depth(fn, j)
        /\ InScope(fn, j, k) => Depth(fn, k) >= Depth(fn, j)
    BY ScopeNext
  <2> QED
    BY <1>3, <2>1, <2>2
<1>5. ASSUME NEW j, ~InScope(fn, j, h) PROVE j \in MarkedAt(fn, h) <=> j \in MarkedAt(fn, k)
  <2>1. j \notin ReadBy(fn, h)
    BY <1>5, ReadIsOpen
  <2> QED
    BY <2>1, MarkedNext
<1>6. ASSUME NEW j PROVE j \in Unread(fn, h) <=> j \in Unread(fn, k)
  BY <1>1, <1>2, <1>4, <1>5, Zenon DEF Unread
<1> QED
  BY <1>6

\* The variables a closing scope leaves: the unmarked ones of the deepest scope.
LEMMA UnreadClosed ==
  ASSUME NEW fn, NEW k \in Nat, NEW h \in Nat, h = k + 1, fn[h].k = "close"
  PROVE  /\ MarkedAt(fn, h) = MarkedAt(fn, k)
         /\ Unread(fn, h) = Unread(fn, k) \cup
              {j \in 1..k : Declared(fn, j) /\ j \in Live(fn, k, Depth(fn, k), fn[j].v) /\ j \notin MarkedAt(fn, k)}
<1>1. 1..h = 1..k \cup {h} /\ InScope(fn, h, h) /\ ~Declared(fn, h)
  BY ScopeStarts DEF Declared
<1>2. Depth(fn, h) = Depth(fn, k) - 1 /\ Depth(fn, k) \in Int
  BY DepthNext
<1>3. MarkedAt(fn, h) = MarkedAt(fn, k)
  <2>2. ReadBy(fn, h) = {}
    BY DEF ReadBy
  <2>3. MarkedAt(fn, h) = MarkedAt(fn, k) \cup ReadBy(fn, h)
    BY MarkedNext
  <2> QED
    BY <2>2, <2>3
<1>4. ASSUME NEW j \in 1..k, Declared(fn, j)
      PROVE  ~InScope(fn, j, h) <=> ~InScope(fn, j, k) \/ j \in Live(fn, k, Depth(fn, k), fn[j].v)
  <2>1. Depth(fn, j) \in Int
    BY DepthInt
  <2>2. /\ InScope(fn, j, h) <=> InScope(fn, j, k) /\ Depth(fn, h) >= Depth(fn, j)
        /\ InScope(fn, j, k) => Depth(fn, k) >= Depth(fn, j)
    BY ScopeNext
  <2>3. j \in Live(fn, k, Depth(fn, k), fn[j].v) <=> Depth(fn, j) = Depth(fn, k) /\ InScope(fn, j, k)
    BY <1>4 DEF Live, Declared
  <2> QED
    BY <1>2, <2>1, <2>2, <2>3
<1>5. ASSUME NEW j
      PROVE  j \in Unread(fn, h) <=> \/ j \in Unread(fn, k)
               \/ /\ j \in 1..k /\ Declared(fn, j) /\ j \in Live(fn, k, Depth(fn, k), fn[j].v)
                  /\ j \notin MarkedAt(fn, k)
  BY <1>1, <1>3, <1>4, Zenon DEF Unread
<1> QED
  BY <1>3, <1>5

LEMMA LeftIs ==
  ASSUME NEW fn, NEW k, NEW d, NEW M, NEW scope, EntriesKnown(fn, k, d, scope, M), NEW j
  PROVE  j \in LeftUnused(scope) <=> Declared(fn, j) /\ j \in Live(fn, k, d, fn[j].v) /\ j \notin M
<1>1. \A v : \A i \in Live(fn, k, d, v) : fn[i].k = "let" /\ fn[i].v = v
  BY DEF Live
<1>2. ASSUME j \in LeftUnused(scope)
      PROVE  Declared(fn, j) /\ j \in Live(fn, k, d, fn[j].v) /\ j \notin M
  <2>1. PICK x \in DOMAIN scope : j = scope[x].at /\ ~scope[x].used /\ scope[x].v \notin Ignored
    BY <1>2, Zenon DEF LeftUnused
  <2>2. scope[x].at \in Live(fn, k, d, scope[x].v) /\ scope[x].at \notin M
    BY <2>1, Zenon DEF EntriesKnown
  <2>3. j \in Live(fn, k, d, scope[x].v) /\ j \notin M
    BY <2>1, <2>2
  <2>4. fn[j].k = "let" /\ fn[j].v = scope[x].v
    BY <1>1, <2>3
  <2> QED
    BY <2>1, <2>3, <2>4 DEF Declared
<1>3. ASSUME Declared(fn, j), j \in Live(fn, k, d, fn[j].v), j \notin M PROVE j \in LeftUnused(scope)
  <2>1. PICK x \in DOMAIN scope : scope[x].at = j
    BY <1>3, Zenon DEF EntriesKnown
  <2>2. scope[x].at \in Live(fn, k, d, scope[x].v)
    BY <2>1, Zenon DEF EntriesKnown
  <2>3. scope[x].v = fn[j].v
    BY <1>1, <2>1, <2>2
  <2>4. scope[x].used <=> scope[x].at \in M
    BY <2>1, Zenon DEF EntriesKnown
  <2>5. ~scope[x].used
    BY <1>3, <2>1, <2>4, Zenon
  <2>6. scope[x].v \notin Ignored
    BY <1>3, <2>3 DEF Declared
  <2> QED
    BY <2>1, <2>5, <2>6, Zenon DEF LeftUnused
<1> QED
  BY <1>2, <1>3

UnusedKnown(fn, k, st) ==
  \E a, b : /\ st = [stack |-> a, unused |-> b]
            /\ EntriesOnStack(fn, k, a, MarkedAt(fn, k)) /\ b = Unread(fn, k)

LEMMA UnusedStepKeeps ==
  ASSUME NEW fn, ScopedFn(fn), NEW k \in Nat, NEW h \in DOMAIN fn, h = k + 1,
         NEW st, UnusedKnown(fn, k, st), NEW n, n = [at |-> h, token |-> fn[h]]
  PROVE  UnusedKnown(fn, h, UnusedStep(st, n))
<1>1. PICK t : t = fn[h]
  OBVIOUS
<1>2. t.k \in ViewKinds /\ t.v \in STRING /\ h \in Nat /\ \A i \in 1..h : Depth(fn, i) >= 1
  <2>1. t \in ViewToken /\ h \in 1..Len(fn) /\ DOMAIN fn = 1..Len(fn) /\ Len(fn) \in Nat
    BY <1>1 DEF ScopedFn
  <2>2. \A i \in 1..h : i \in DOMAIN fn
    BY <2>1
  <2> QED
    BY <2>1, <2>2 DEF ScopedFn, ViewToken
<1>3. PICK r : r = UnusedStep(st, n)
  OBVIOUS
<1>4. n = [at |-> h, token |-> t] /\ n.at = h
  BY <1>1
<1>5. PICK a, b, M : /\ st = [stack |-> a, unused |-> b] /\ M = MarkedAt(fn, k)
                     /\ EntriesOnStack(fn, k, a, M) /\ b = Unread(fn, k)
  BY Zenon DEF UnusedKnown
<1>6. Depth(fn, h) >= 1
  BY DEF ScopedFn
<1>8. MarkedAt(fn, h) = M \cup ReadBy(fn, h) /\ h \notin M
  BY <1>2, <1>5, MarkedNext
<1>9. CASE t.k = "open"
  <2>1. PICK s : s = Append(a, <<>>)
    OBVIOUS
  <2>2. r = [stack |-> s, unused |-> b]
    <3>1. ScopeOpened(st, n, a, b)
      BY <1>2, <1>4, <1>5, <1>9, UnusedStepIs
    <3> QED
      BY <1>3, <2>1, <3>1, Zenon DEF ScopeOpened
  <2>3. EntriesOnStack(fn, h, s, M)
    BY <1>1, <1>2, <1>5, <1>9, <2>1, EntriesOpen
  <2>4. MarkedAt(fn, h) = M
    <3>1. ReadBy(fn, h) = {}
      BY <1>1, <1>9 DEF ReadBy
    <3> QED
      BY <1>8, <3>1
  <2>5. Unread(fn, h) = b
    BY <1>1, <1>2, <1>5, <1>9, UnreadStays
  <2> QED
    BY <1>3, <2>2, <2>3, <2>4, <2>5, Zenon DEF UnusedKnown
<1>10. CASE t.k = "close"
  <2>1. PICK s, q : s = Front(a) /\ q = b \cup LeftUnused(a[Len(a)])
    OBVIOUS
  <2>2. r = [stack |-> s, unused |-> q]
    <3>1. ScopeClosed(st, n, a, b)
      BY <1>2, <1>4, <1>5, <1>10, UnusedStepIs
    <3> QED
      BY <1>3, <2>1, <3>1, Zenon DEF ScopeClosed
  <2>3. EntriesOnStack(fn, h, s, M)
    BY <1>1, <1>2, <1>5, <1>6, <1>10, <2>1, EntriesClose
  <2>4. fn[h].k = "close"
    BY <1>1, <1>10
  <2>5. /\ MarkedAt(fn, h) = M
        /\ Unread(fn, h) = b \cup
              {j \in 1..k : Declared(fn, j) /\ j \in Live(fn, k, Depth(fn, k), fn[j].v) /\ j \notin M}
    BY <1>2, <1>5, <2>4, UnreadClosed
  <2>6. Len(a) = Depth(fn, k) /\ Len(a) \in 1..Len(a)
    <3>1. Len(a) = Depth(fn, k)
      BY <1>5 DEF EntriesOnStack
    <3>2. Depth(fn, h) = Depth(fn, k) - 1 /\ Depth(fn, k) \in Int
      BY <1>2, <2>4, DepthNext
    <3> QED
      BY <1>6, <3>1, <3>2
  <2>7. EntriesKnown(fn, k, Depth(fn, k), a[Len(a)], M)
    BY <1>5, <2>6 DEF EntriesOnStack
  <2>8. \A j : j \in LeftUnused(a[Len(a)])
                 <=> j \in 1..k /\ Declared(fn, j) /\ j \in Live(fn, k, Depth(fn, k), fn[j].v) /\ j \notin M
    <3>1. \A j : j \in Live(fn, k, Depth(fn, k), fn[j].v) => j \in 1..k
      BY DEF Live
    <3>2. \A j : j \in LeftUnused(a[Len(a)])
                   <=> Declared(fn, j) /\ j \in Live(fn, k, Depth(fn, k), fn[j].v) /\ j \notin M
      BY <2>7, LeftIs
    <3> QED
      BY <3>1, <3>2, Zenon
  <2>9. Unread(fn, h) = q
    <3>1. LeftUnused(a[Len(a)]) =
            {j \in 1..k : Declared(fn, j) /\ j \in Live(fn, k, Depth(fn, k), fn[j].v) /\ j \notin M}
      BY <2>8, Zenon
    <3> QED
      BY <2>1, <2>5, <3>1, Zenon
  <2> QED
    BY <1>3, <2>2, <2>3, <2>5, <2>9, Zenon DEF UnusedKnown
<1>11. CASE t.k = "let"
  <2>1. PICK d, e : d = Len(a) /\ e = [a EXCEPT ![d] = Append(a[d], EntryOf(t.v, h))]
    OBVIOUS
  <2>2. r = [stack |-> e, unused |-> b]
    <3>1. LetAdded(st, n, a, b, t)
      BY <1>2, <1>4, <1>5, <1>11, UnusedStepIs
    <3> QED
      BY <1>3, <1>4, <2>1, <3>1, Zenon DEF LetAdded
  <2>3. EntriesOnStack(fn, h, e, M)
    <3>1. EntryOn(a, d, t.v, h, e)
      BY <2>1 DEF EntryOn
    <3>2. PICK v \in STRING : v = t.v /\ v = fn[h].v
      BY <1>1, <1>2
    <3>3. fn[h].k = "let"
      BY <1>1, <1>11
    <3> QED
      BY <1>2, <1>5, <1>6, <1>8, <3>1, <3>2, <3>3, EntriesDeclare
  <2>4. MarkedAt(fn, h) = M
    <3>1. ReadBy(fn, h) = {}
      BY <1>1, <1>11 DEF ReadBy
    <3> QED
      BY <1>8, <3>1
  <2>5. Unread(fn, h) = b
    BY <1>1, <1>2, <1>5, <1>11, UnreadStays
  <2> QED
    BY <1>3, <2>2, <2>3, <2>4, <2>5, Zenon DEF UnusedKnown
<1>12. CASE t.k \in {"use", "bound", "macro", "other"}
  <2>1. EntriesOnStack(fn, h, a, M)
    BY <1>1, <1>2, <1>5, <1>12, EntriesKeep
  <2>2. Unread(fn, h) = b
    BY <1>1, <1>2, <1>5, <1>12, UnreadStays
  <2>3. CASE t.k = "use"
    <3>1. r = [stack |-> MarkUsed(a, t.v), unused |-> b]
      BY <1>2, <1>3, <1>4, <1>5, <2>3, UnusedStepIs
    <3>2. MarkedAt(fn, h) = M \cup Credited(fn, h, t.v)
      BY <1>1, <1>8, <2>3 DEF ReadBy
    <3>3. EntriesOnStack(fn, h, MarkUsed(a, t.v), MarkedAt(fn, h))
      BY <1>2, <2>1, <3>2, MarkKeeps
    <3> QED
      BY <1>3, <2>2, <3>1, <3>3, Zenon DEF UnusedKnown
  <2>4. CASE t.k # "use"
    <3>1. r = st
      BY <1>2, <1>3, <1>4, <1>5, <1>12, <2>4, UnusedStepIs
    <3>2. MarkedAt(fn, h) = M
      <4>1. ReadBy(fn, h) = {}
        BY <1>1, <2>4 DEF ReadBy
      <4> QED
        BY <1>8, <4>1
    <3> QED
      BY <1>3, <1>5, <2>1, <2>2, <3>1, <3>2, Zenon DEF UnusedKnown
  <2> QED
    BY <2>3, <2>4
<1> QED
  BY <1>2, <1>3, <1>9, <1>10, <1>11, <1>12 DEF ViewKinds

LEMMA UnusedStarts == ASSUME NEW fn PROVE UnusedKnown(fn, 0, NothingUnused)
<1>1. PICK s : s = <<<<>>>>
  OBVIOUS
<1>2. <<>> \in Seq(UseEntry) /\ s \in Seq(Seq(UseEntry)) /\ Len(s) = 1 /\ s[1] = <<>>
  BY <1>1
<1>3. Depth(fn, 0) = 1
  BY DepthStarts
<1>4. \A d : \A v : Live(fn, 0, d, v) = {}
  BY DEF Live
<1>5. MarkedAt(fn, 0) = {} /\ Unread(fn, 0) = {}
  BY DEF MarkedAt, Unread
<1>6. ASSUME NEW d \in 1..1 PROVE EntriesKnown(fn, 0, d, s[d], {})
  <2>1. d = 1
    OBVIOUS
  <2> QED
    BY <1>2, <1>4, <2>1, KnownNothing
<1>7. EntriesOnStack(fn, 0, s, {})
  BY <1>2, <1>3, <1>6, Zenon DEF EntriesOnStack, Stacks
<1> QED
  BY <1>1, <1>5, <1>7, Zenon DEF UnusedKnown, NothingUnused

LEMMA BlockTokenIs ==
  ASSUME NEW fn, FunctionTyped(fn), NEW i \in DOMAIN fn
  PROVE  /\ Blocks(fn)[i].k = (IF fn[i].k \in {"arm", "end", "named"} THEN "other" ELSE fn[i].k)
         /\ Blocks(fn)[i].v = fn[i].v /\ Blocks(fn)[i] \in ViewToken
<1>1. fn[i] \in ScopeToken
  BY DEF FunctionTyped
<1>2. PICK t : t = fn[i] /\ t \in ScopeToken
  BY <1>1
<1>3. CASE t.k \in {"arm", "end", "named"}
  <2>1. Blocks(fn)[i] = [k |-> "other", v |-> t.v]
    BY <1>2, <1>3 DEF Blocks, Token
  <2>2. "other" \in ViewKinds /\ t.v \in STRING
    BY <1>2 DEF ViewKinds, ScopeToken
  <2> QED
    BY <1>2, <1>3, <2>1, <2>2 DEF ViewToken
<1>4. CASE t.k \notin {"arm", "end", "named"}
  <2>1. Blocks(fn)[i] = t
    BY <1>2, <1>4 DEF Blocks
  <2>2. t.k \in ViewKinds /\ t.v \in STRING
    BY <1>2, <1>4 DEF ViewKinds, ScopeToken, TokenKinds
  <2>3. t = [k |-> t.k, v |-> t.v]
    BY <1>2 DEF ScopeToken
  <2> QED
    BY <1>2, <1>4, <2>1, <2>2, <2>3 DEF ViewToken
<1> QED
  BY <1>3, <1>4

LEMMA BlocksAreBlocks ==
  ASSUME NEW fn, FunctionTyped(fn)
  PROVE  ScopedFn(Blocks(fn)) /\ DOMAIN Blocks(fn) = DOMAIN fn /\ Len(Blocks(fn)) = Len(fn)
<1>1. PICK n \in Nat : n = Len(fn) /\ DOMAIN fn = 1..n
  BY DEF FunctionTyped
<1>2. PICK vw : vw = Blocks(fn)
  OBVIOUS
<1>3. DOMAIN vw = 1..n
  BY <1>1, <1>2 DEF Blocks
<1>4. \A i \in 1..n : vw[i] \in ViewToken
  BY <1>1, <1>2, BlockTokenIs
<1>5. vw = [i \in 1..n |-> vw[i]]
  BY <1>1, <1>2 DEF Blocks
<1>6. vw \in Seq(ViewToken) /\ Len(vw) = n
  BY <1>4, <1>5
<1>7. \A i \in DOMAIN vw : Depth(vw, i) >= 1
  BY <1>1, <1>2, <1>3 DEF FunctionTyped
<1> QED
  BY <1>1, <1>2, <1>3, <1>6, <1>7 DEF ScopedFn

LEMMA UnusedSeesBlocks ==
  ASSUME NEW fn, FunctionTyped(fn), NEW i \in DOMAIN fn, NEW st, NEW h
  PROVE  UnusedStep(st, [at |-> h, token |-> fn[i]]) = UnusedStep(st, [at |-> h, token |-> Blocks(fn)[i]])
<1>1. PICK t, u : t = fn[i] /\ u = Blocks(fn)[i]
  OBVIOUS
<1>2. u.k = (IF t.k \in {"arm", "end", "named"} THEN "other" ELSE t.k) /\ u.v = t.v
  BY <1>1, BlockTokenIs
<1>3. PICK m, n : m = [at |-> h, token |-> t] /\ n = [at |-> h, token |-> u]
  OBVIOUS
<1>4. m.at = n.at /\ m.token = t /\ n.token = u
  BY <1>3
<1>5. /\ t.k = "open" <=> u.k = "open"
      /\ t.k = "close" <=> u.k = "close"
      /\ t.k = "let" <=> u.k = "let"
      /\ t.k = "use" <=> u.k = "use"
  BY <1>2
<1>6. UnusedStep(st, m) = UnusedStep(st, n)
  BY <1>2, <1>4, <1>5, Zenon DEF UnusedStep
<1> QED
  BY <1>1, <1>3, <1>6

LEMMA UnusedIs ==
  ASSUME NEW fn, FunctionTyped(fn), NEW vw, vw = Blocks(fn), NEW j
  PROVE  j \in ReportedUnused(fn) <=> j \in DOMAIN fn /\ Declared(vw, j) /\ j \notin MarkedAt(vw, Len(fn))
<1>1. PICK S : fn \in Seq(S)
  BY DEF FunctionTyped
<1>1b. ScopedFn(vw) /\ DOMAIN vw = DOMAIN fn
  BY BlocksAreBlocks
<1>2. PICK n, tr : /\ n \in Nat /\ n = Len(fn) /\ DOMAIN fn = 1..n /\ tr[0] = NothingUnused
                   /\ \A k \in 1..n : tr[k] = UnusedStep(tr[k - 1], [at |-> k, token |-> fn[k]])
                   /\ ReportsAfter(fn, tr[n])
  BY <1>1, UnusedTraced
<1> DEFINE G == {k \in Nat : k <= n => UnusedKnown(vw, k, tr[k])}
<1>3. 0 \in G
  BY <1>2, UnusedStarts
<1>4. ASSUME NEW k \in Nat, k \in G PROVE k + 1 \in G
  <2> SUFFICES ASSUME k + 1 <= n PROVE UnusedKnown(vw, k + 1, tr[k + 1])
    OBVIOUS
  <2>1. PICK h \in 1..n : h = k + 1 /\ h - 1 = k
    OBVIOUS
  <2>2. PICK st, x : st = tr[k] /\ x = [at |-> h, token |-> vw[h]]
    OBVIOUS
  <2>3. tr[h] = UnusedStep(st, x)
    <3>1. tr[h] = UnusedStep(st, [at |-> h, token |-> fn[h]])
      BY <1>2, <2>1, <2>2, Zenon
    <3>2. h \in DOMAIN fn
      BY <1>2
    <3>3. UnusedStep(st, [at |-> h, token |-> fn[h]]) = UnusedStep(st, [at |-> h, token |-> vw[h]])
      BY <3>2, UnusedSeesBlocks
    <3> QED
      BY <2>2, <3>1, <3>3
  <2>4. UnusedKnown(vw, k, st)
    <3>1. k <= n
      BY <1>2
    <3> QED
      BY <1>4, <2>2, <3>1, Zenon
  <2>5. h \in DOMAIN vw
    BY <1>1b, <1>2, <2>1
  <2>6. UnusedKnown(vw, h, UnusedStep(st, x))
    BY <1>1b, <2>1, <2>2, <2>4, <2>5, UnusedStepKeeps
  <2> QED
    BY <2>1, <2>3, <2>6
<1>5. Nat \subseteq G
  <2> HIDE DEF G
  <2> QED
    BY <1>3, <1>4, NumbersByInduction
<1>6. n \in G /\ n <= n
  BY <1>2, <1>5
<1>7. UnusedKnown(vw, n, tr[n])
  BY <1>6, Zenon
<1>8. PICK a, b, M : /\ tr[n] = [stack |-> a, unused |-> b] /\ M = MarkedAt(vw, n)
                     /\ EntriesOnStack(vw, n, a, M) /\ b = Unread(vw, n)
  BY <1>7, Zenon DEF UnusedKnown
<1>9. tr[n].stack = a /\ tr[n].unused = b
  BY <1>8
<1>10. ReportedUnused(fn) = b \cup UNION {LeftUnused(a[d]) : d \in DOMAIN a}
  BY <1>2, <1>9, Zenon DEF ReportsAfter
<1>11. DOMAIN a = 1..Len(a) /\ Len(a) = Depth(vw, n) /\ \A d \in 1..Len(a) : EntriesKnown(vw, n, d, a[d], M)
  BY <1>8 DEF EntriesOnStack, Stacks
<1>12. j \in UNION {LeftUnused(a[d]) : d \in DOMAIN a}
         <=> \E d \in 1..Len(a) : Declared(vw, j) /\ j \in Live(vw, n, d, vw[j].v) /\ j \notin M
  <2>1. \A d \in 1..Len(a) : j \in LeftUnused(a[d])
                               <=> Declared(vw, j) /\ j \in Live(vw, n, d, vw[j].v) /\ j \notin M
    BY <1>11, LeftIs
  <2> QED
    BY <1>11, <2>1, Zenon
<1>13. (\E d \in 1..Len(a) : j \in Live(vw, n, d, vw[j].v)) <=> j \in OpenOnes(vw, n, vw[j].v)
  <2>1. \A i \in 1..n : Depth(vw, i) >= 1
    BY <1>1b, <1>2 DEF ScopedFn
  <2> QED
    BY <1>2, <1>11, <2>1, OpenIsLive
<1>14. Declared(vw, j) => (j \in OpenOnes(vw, n, vw[j].v) <=> j \in 1..n /\ InScope(vw, j, n))
  BY DEF OpenOnes, Declared
<1>15. j \in b <=> j \in 1..n /\ Declared(vw, j) /\ ~InScope(vw, j, n) /\ j \notin M
  BY <1>8, Zenon DEF Unread
<1>16. j \in ReportedUnused(fn) <=> j \in b \/ j \in UNION {LeftUnused(a[d]) : d \in DOMAIN a}
  BY <1>10
<1>17. j \in ReportedUnused(fn) <=> j \in 1..n /\ Declared(vw, j) /\ j \notin M
  BY <1>12, <1>13, <1>14, <1>15, <1>16, Zenon
<1> QED
  BY <1>2, <1>8, <1>17

(* ---- the unused variables against the language ---- *)
\* The bindings of its name a use at i may refer to.
BoundAt(fn, i) == {b \in 1..(i - 1) : fn[b].k = "bound" /\ fn[b].v = fn[i].v /\ InScope(Scopes(fn), b, i)}

LEMMA RefersToLatest ==
  ASSUME NEW fn, NEW i \in Nat, NEW r, r = Refers(fn, i)
  PROVE  /\ r # 0 => r \in BoundAt(fn, i)
         /\ \A m \in BoundAt(fn, i) : r \in BoundAt(fn, i) /\ m <= r
<1>1. PICK B : B = BoundAt(fn, i)
  OBVIOUS
<1>2. r = IF B = {} THEN 0 ELSE CHOOSE b \in B : \A m \in B : m <= b
  BY <1>1 DEF Refers, BoundAt
<1>3. CASE B = {}
  BY <1>1, <1>2, <1>3
<1>4. CASE B # {}
  <2>1. IsFiniteSet(1..(i - 1)) /\ 1..(i - 1) \subseteq Int /\ B \in SUBSET (1..(i - 1))
    <3>1. 1 \in Int /\ i - 1 \in Int
      OBVIOUS
    <3>2. IsFiniteSet(1..(i - 1))
      BY <3>1, FS_Interval
    <3> QED
      BY <1>1, <3>2 DEF BoundAt
  <2>2. \E x \in B : \A y \in B : x >= y
    BY <1>4, <2>1, LargestExists
  <2>3. \E x \in B : \A y \in B : y <= x
    BY <2>1, <2>2
  <2>4. r \in B /\ \A y \in B : y <= r
    BY <1>2, <1>4, <2>3, Zenon
  <2> QED
    BY <1>1, <2>4
<1> QED
  BY <1>3, <1>4

LEMMA CreditedExists ==
  ASSUME NEW vw, NEW i \in Nat, \A j \in 1..i : Depth(vw, j) >= 1, NEW v, OpenOnes(vw, i, v) # {}
  PROVE  \E c : c \in Credited(vw, i, v)
<1>1. PICK O, D, n : O = OpenOnes(vw, i, v) /\ D = {Depth(vw, m) : m \in O} /\ n = Depth(vw, i)
  OBVIOUS
<1>2. \A m \in O : m \in 1..i /\ InScope(vw, m, i)
  BY <1>1 DEF OpenOnes
<1>3. n \in Int
  BY <1>1, DepthInt
<1>4. ASSUME NEW m \in O PROVE Depth(vw, m) \in 1..n
  <2>1. m \in 1..i /\ m \in Nat /\ InScope(vw, m, i)
    BY <1>2
  <2>2. Depth(vw, i) >= Depth(vw, m)
    <3>1. i \in m..i
      BY <2>1
    <3> QED
      BY <2>1, <3>1, Zenon DEF InScope
  <2>3. Depth(vw, m) \in Int /\ Depth(vw, m) >= 1
    BY <2>1, DepthInt
  <2> QED
    BY <1>1, <1>3, <2>2, <2>3
<1>5. D \in SUBSET (1..n) /\ D # {} /\ IsFiniteSet(1..n) /\ 1..n \subseteq Int
  <2>1. D \in SUBSET (1..n) /\ D # {}
    BY <1>1, <1>4, Zenon
  <2>2. 1 \in Int
    OBVIOUS
  <2>3. IsFiniteSet(1..n)
    BY <1>3, <2>2, FS_Interval
  <2> QED
    BY <2>1, <2>3
<1>6. PICK d \in D : \A y \in D : d >= y
  BY <1>5, LargestExists
<1>7. PICK T : T = {m \in O : Depth(vw, m) = d}
  OBVIOUS
<1>8. T \in SUBSET Nat /\ T # {}
  <2>1. T # {}
    BY <1>1, <1>6, <1>7, Zenon
  <2> QED
    BY <1>2, <1>7, <2>1
<1>9. PICK c \in T : \A m \in T : c <= m
  BY <1>8, LeastExists
<1>10. c \in O /\ Depth(vw, c) = d
  BY <1>7, <1>9
<1>11. ASSUME NEW m \in O PROVE Depth(vw, m) < Depth(vw, c) \/ (Depth(vw, m) = Depth(vw, c) /\ c <= m)
  <2>1. Depth(vw, m) \in Int /\ d \in Int /\ d >= Depth(vw, m)
    <3>1. Depth(vw, m) \in D
      BY <1>1, Zenon
    <3> QED
      BY <1>5, <1>6, <3>1
  <2>2. Depth(vw, m) = d => c <= m
    BY <1>7, <1>9
  <2> QED
    BY <1>10, <2>1, <2>2
<1>12. c \in Credited(vw, i, v)
  BY <1>1, <1>10, <1>11, Zenon DEF Credited
<1> QED
  BY <1>12

\* A scope that is open up to b is open up to i when the scope of b is, and b is
\* as deep.
LEMMA ScopeContinues ==
  ASSUME NEW vw, NEW j \in Nat, NEW b \in Nat, NEW i \in Nat, j <= b, b <= i,
         InScope(vw, j, b), InScope(vw, b, i), Depth(vw, b) = Depth(vw, j)
  PROVE  InScope(vw, j, i)
<1> SUFFICES ASSUME NEW m \in j..i PROVE Depth(vw, m) >= Depth(vw, j)
  BY DEF InScope
<1>1. m \in j..b \/ m \in b..i
  OBVIOUS
<1> QED
  BY <1>1 DEF InScope

\* It was open before, and the scope of a later token as deep in it is open too.
LEMMA ScopeNarrows ==
  ASSUME NEW vw, NEW j \in Nat, NEW b \in Nat, NEW i \in Nat, j <= b, b <= i, InScope(vw, j, i)
  PROVE  /\ InScope(vw, j, b) /\ Depth(vw, b) >= Depth(vw, j)
         /\ Depth(vw, b) = Depth(vw, j) => InScope(vw, b, i)
<1>1. b \in j..i /\ (\A m \in j..b : m \in j..i) /\ (\A m \in b..i : m \in j..i)
  OBVIOUS
<1> QED
  BY <1>1, Zenon DEF InScope

Plain(fn) == {j \in DOMAIN fn : fn[j].k = "let" /\ fn[j].v \notin Ignored}

\* What the rule reports: the plain locals no use is credited to.
LEMMA ReportedIsPlain ==
  ASSUME NEW fn, FunctionTyped(fn), NEW j
  PROVE  j \in ReportedUnused(fn) <=>
           /\ j \in Plain(fn)
           /\ \A i \in DOMAIN fn : fn[i].k = "use" => j \notin Credited(Blocks(fn), i, fn[i].v)
<1>1. PICK vw : vw = Blocks(fn)
  OBVIOUS
<1>2. DOMAIN fn = 1..Len(fn)
  BY DEF FunctionTyped
<1>3. ASSUME NEW i \in DOMAIN fn
      PROVE  /\ vw[i].k = "let" <=> fn[i].k = "let"
             /\ vw[i].k = "use" <=> fn[i].k = "use"
             /\ vw[i].v = fn[i].v
  BY <1>1, BlockTokenIs
<1>4. j \in MarkedAt(vw, Len(fn)) <=> \E i \in DOMAIN fn : fn[i].k = "use" /\ j \in Credited(vw, i, fn[i].v)
  BY <1>2, <1>3, Zenon DEF MarkedAt, ReadBy
<1>5. j \in DOMAIN fn => (Declared(vw, j) <=> fn[j].k = "let" /\ fn[j].v \notin Ignored)
  BY <1>3 DEF Declared
<1>6. j \in ReportedUnused(fn) <=> j \in DOMAIN fn /\ Declared(vw, j) /\ j \notin MarkedAt(vw, Len(fn))
  BY <1>1, UnusedIs
<1> QED
  BY <1>1, <1>4, <1>5, <1>6, Zenon DEF Plain

\* The let a use at i is open to: of the block view, and of every scope.
LEMMA OpenToUse ==
  ASSUME NEW fn, FunctionTyped(fn), NEW i \in DOMAIN fn, fn[i].k = "use", NEW v, NEW m
  PROVE  /\ m \in OpenOnes(Blocks(fn), i, v) <=>
              /\ m \in DOMAIN fn /\ m < i /\ fn[m].k = "let" /\ fn[m].v = v /\ InScope(Scopes(fn), m, i)
         /\ m \in OpenOnes(Blocks(fn), i, v) => m \in Nat /\ InScope(Blocks(fn), m, i)
<1>1. PICK vw, n : vw = Blocks(fn) /\ n = Len(fn)
  OBVIOUS
<1>2. n \in Nat /\ DOMAIN fn = 1..n /\ i \in 1..n
  BY <1>1 DEF FunctionTyped
<1>3. ASSUME NEW x \in DOMAIN fn PROVE (vw[x].k = "let" <=> fn[x].k = "let") /\ vw[x].v = fn[x].v
  BY <1>1, BlockTokenIs
<1>4. m \in 1..i <=> m \in 1..n /\ m <= i
  BY <1>2
<1>5. m \in 1..i /\ fn[m].k = "let" => m < i
  <2> SUFFICES ASSUME m \in 1..i, fn[m].k = "let" PROVE m < i
    OBVIOUS
  <2>1. m # i
    OBVIOUS
  <2> QED
    BY <1>2, <2>1
<1>6. m \in 1..i /\ fn[m].k = "let" => (InScope(vw, m, i) <=> InScope(Scopes(fn), m, i))
  <2> SUFFICES ASSUME m \in 1..i, fn[m].k = "let" PROVE InScope(vw, m, i) <=> InScope(Scopes(fn), m, i)
    OBVIOUS
  <2>1. m \in DOMAIN fn /\ i \in m..Len(fn)
    BY <1>1, <1>2
  <2>2. LetsInBlocks(fn)
    BY DEF FunctionTyped
  <2> QED
    BY <1>1, <2>1, <2>2 DEF LetsInBlocks
<1>7. m \in OpenOnes(vw, i, v) <=> m \in 1..i /\ vw[m].k = "let" /\ vw[m].v = v /\ InScope(vw, m, i)
  BY DEF OpenOnes
<1>8. m \in 1..i => m \in DOMAIN fn /\ m \in Nat
  BY <1>2
<1>9. m \in DOMAIN fn /\ m < i => m \in 1..i
  BY <1>2
<1>10. m \in OpenOnes(vw, i, v) <=>
              /\ m \in DOMAIN fn /\ m < i /\ fn[m].k = "let" /\ fn[m].v = v /\ InScope(Scopes(fn), m, i)
  BY <1>3, <1>5, <1>6, <1>7, <1>8, <1>9, Zenon
<1> QED
  BY <1>1, <1>7, <1>8, <1>10, Zenon

\* What a binding of the let at l is, and how far the scope of l is open there.
BindingOf(fn, l, b) == /\ l < b /\ fn[b].k = "bound" /\ fn[b].v = fn[l].v
                       /\ InScope(Scopes(fn), l, b) /\ Depth(Scopes(fn), b) = Depth(Scopes(fn), l)
LEMMA BindsMeans == ASSUME NEW fn, NEW l, NEW b, Binds(fn, l, b) PROVE BindingOf(fn, l, b)
  BY DEF Binds, BindingOf

Deeper(fn, l, j) == Depth(Blocks(fn), l) > Depth(Blocks(fn), j)
SameBlock(fn, d, j) == /\ fn[d].v = fn[j].v /\ InScope(Scopes(fn), d, j)
                       /\ Depth(Blocks(fn), d) = Depth(Blocks(fn), j)
TakenInstead(fn, c, j, i) == \/ c < j /\ SameBlock(fn, c, j)
                             \/ fn[c].v = fn[j].v /\ Deeper(fn, c, j) /\ Initialises(fn, c, i)

\* A local that is read and reported lost the read to another one.
LEMMA ReadIsTaken ==
  ASSUME NEW fn, FunctionTyped(fn), NEW j \in ReportedUnused(fn), NEW i \in DOMAIN fn,
         fn[i].k = "use", fn[i].v = fn[j].v, Binds(fn, j, Refers(fn, i))
  PROVE  \E c \in Plain(fn) \ ReportedUnused(fn) : TakenInstead(fn, c, j, i)
<1>1. PICK vw, all, b, v : vw = Blocks(fn) /\ all = Scopes(fn) /\ b = Refers(fn, i) /\ v = fn[i].v
  OBVIOUS
<1>2. PICK n \in Nat : n = Len(fn) /\ DOMAIN fn = 1..n
  BY DEF FunctionTyped
<1>3. j \in Plain(fn) /\ j \in Nat /\ i \in Nat /\ fn[j].k = "let" /\ fn[j].v = v /\ j \in DOMAIN fn
  BY <1>1, <1>2, ReportedIsPlain DEF Plain
<1>4. BindingOf(fn, j, b)
  BY <1>1, BindsMeans
<1>5. /\ j < b /\ InScope(all, j, b) /\ Depth(all, b) = Depth(all, j)
  BY <1>1, <1>4, Zenon DEF BindingOf
<1>6. b \in BoundAt(fn, i)
  <2>1. b # 0
    <3>1. j < b
      BY <1>5
    <3> QED
      BY <1>3, <3>1
  <2> QED
    BY <1>1, <1>3, <2>1, RefersToLatest
<1>7. b \in Nat /\ b < i /\ InScope(all, b, i)
  BY <1>1, <1>3, <1>6 DEF BoundAt
<1>8. InScope(all, j, i)
  BY <1>3, <1>5, <1>7, ScopeContinues
<1>9. j \in OpenOnes(vw, i, v)
  <2>1. j < i
    BY <1>3, <1>5, <1>7
  <2> QED
    BY <1>1, <1>3, <1>8, <2>1, OpenToUse
<1>10. PICK c : c \in Credited(vw, i, v)
  <2>1. \A m \in 1..i : Depth(vw, m) >= 1
    <3>1. \A m \in 1..i : m \in DOMAIN fn
      BY <1>2
    <3> QED
      BY <1>1, <3>1 DEF FunctionTyped
  <2> QED
    BY <1>3, <1>9, <2>1, CreditedExists
<1>11. /\ c \in OpenOnes(vw, i, v)
       /\ Depth(vw, j) < Depth(vw, c) \/ (Depth(vw, j) = Depth(vw, c) /\ c <= j)
  BY <1>9, <1>10, Zenon DEF Credited
<1>12. /\ c \in DOMAIN fn /\ c < i /\ fn[c].k = "let" /\ fn[c].v = v /\ InScope(all, c, i)
       /\ c \in Nat /\ InScope(vw, c, i)
  BY <1>1, <1>11, OpenToUse
<1>13. c \in Plain(fn) /\ c \notin ReportedUnused(fn)
  <2>1. v \notin Ignored
    BY <1>3 DEF Plain
  <2>2. c \in Plain(fn)
    BY <1>12, <2>1 DEF Plain
  <2>3. c \notin ReportedUnused(fn)
    BY <1>1, <1>10, ReportedIsPlain
  <2> QED
    BY <2>2, <2>3
<1>14. Depth(vw, j) \in Int /\ Depth(vw, c) \in Int /\ Depth(all, j) \in Int /\ Depth(all, c) \in Int
  BY <1>3, <1>12, DepthInt
<1>15. CASE Depth(vw, j) = Depth(vw, c) /\ c <= j
  <2>1. c # j
    BY <1>13
  <2>2. c < j
    BY <1>3, <1>12, <1>15, <2>1
  <2>3. InScope(all, c, j)
    <3>1. j <= i
      BY <1>3, <1>5, <1>7
    <3> QED
      BY <1>3, <1>12, <1>15, <3>1, ScopeNarrows
  <2>4. SameBlock(fn, c, j)
    BY <1>1, <1>3, <1>12, <1>15, <2>3 DEF SameBlock
  <2> QED
    BY <1>13, <2>2, <2>4 DEF TakenInstead
<1>16. CASE Depth(vw, j) < Depth(vw, c)
  <2>1. j < c
    <3>1. c \in 1..i /\ j \in 1..i
      BY <1>2, <1>3, <1>5, <1>7, <1>12
    <3> QED
      BY <1>3, <1>12, <1>16, <3>1, DeeperIsLater
  <2>2. Depth(all, c) > Depth(all, j)
    <3>1. InScope(all, j, c)
      BY <1>3, <1>8, <1>12, <2>1, ScopeNarrows
    <3>2. LetsInBlocks(fn) /\ c \in j..Len(fn)
      BY <1>2, <1>3, <1>12, <2>1 DEF FunctionTyped
    <3>3. Depth(vw, c) > Depth(vw, j)
      BY <1>14, <1>16
    <3> QED
      BY <1>1, <1>3, <1>12, <3>1, <3>2, <3>3, Zenon DEF LetsInBlocks
  <2>3. ~(c <= b)
    <3> SUFFICES ASSUME c <= b PROVE FALSE
      OBVIOUS
    <3>1. b <= i
      BY <1>3, <1>7
    <3>2. Depth(all, b) >= Depth(all, c)
      BY <1>3, <1>7, <1>12, <3>1, ScopeNarrows
    <3> QED
      BY <1>5, <1>14, <2>2, <3>2
  <2>4. ASSUME NEW x \in 1..i, Binds(fn, c, x) PROVE FALSE
    <3>1. BindingOf(fn, c, x)
      BY <2>4, BindsMeans
    <3>2. c < x /\ fn[x].k = "bound" /\ fn[x].v = v /\ InScope(all, c, x) /\ Depth(all, x) = Depth(all, c)
      BY <1>1, <1>12, <3>1 DEF BindingOf
    <3>3. x # i
      BY <3>2
    <3>4. InScope(all, x, i)
      <4>1. c <= x /\ x <= i /\ x \in Nat
        BY <1>12, <3>2
      <4> QED
        BY <1>3, <1>12, <3>2, <4>1, ScopeNarrows
    <3>5. x \in 1..(i - 1)
      BY <1>3, <3>3
    <3>6. x \in BoundAt(fn, i)
      BY <1>1, <3>2, <3>4, <3>5 DEF BoundAt
    <3>7. x <= b
      BY <1>1, <1>3, <3>6, RefersToLatest
    <3> QED
      BY <1>7, <1>12, <2>3, <3>2, <3>5, <3>7
  <2>5. Initialises(fn, c, i)
    BY <1>1, <1>12, <2>4 DEF Initialises
  <2>6. Deeper(fn, c, j)
    BY <1>1, <1>14, <1>16 DEF Deeper
  <2> QED
    BY <1>3, <1>12, <1>13, <2>5, <2>6 DEF TakenInstead
<1> QED
  BY <1>11, <1>15, <1>16

MeantForLater(fn, j, i) == /\ InScope(Scopes(fn), j, i) /\ j < Refers(fn, i)
                           /\ \A l \in Plain(fn) : Binds(fn, l, Refers(fn, i)) => ~Deeper(fn, l, j)

\* A local that is not reported is read, or took a read in its scope.
LEMMA UnreportedIsRead ==
  ASSUME NEW fn, FunctionTyped(fn), NEW j \in Plain(fn), j \notin ReportedUnused(fn)
  PROVE  \E i \in DOMAIN fn : /\ fn[i].k = "use" /\ fn[i].v = fn[j].v
                              /\ Initialises(fn, j, i) \/ MeantForLater(fn, j, i)
<1>1. PICK i \in DOMAIN fn : fn[i].k = "use" /\ j \in Credited(Blocks(fn), i, fn[i].v)
  BY ReportedIsPlain
<1>2. PICK vw, all, r, v : vw = Blocks(fn) /\ all = Scopes(fn) /\ r = Refers(fn, i) /\ v = fn[i].v
  OBVIOUS
<1>3. PICK n \in Nat : n = Len(fn) /\ DOMAIN fn = 1..n
  BY DEF FunctionTyped
<1>4. j \in OpenOnes(vw, i, v) /\ \A m \in OpenOnes(vw, i, v) : Depth(vw, m) < Depth(vw, j) \/ Depth(vw, m) = Depth(vw, j)
  BY <1>1, <1>2, Zenon DEF Credited
<1>5. j \in DOMAIN fn /\ j < i /\ fn[j].v = v /\ InScope(all, j, i) /\ j \in Nat /\ i \in Nat
  BY <1>1, <1>2, <1>3, <1>4, OpenToUse
<1>6. CASE Initialises(fn, j, i)
  BY <1>1, <1>2, <1>5, <1>6
<1>7. CASE ~Initialises(fn, j, i)
  <2>1. PICK x \in 1..i : Binds(fn, j, x)
    BY <1>2, <1>5, <1>7 DEF Initialises
  <2>2. j < x /\ fn[x].k = "bound" /\ fn[x].v = v /\ InScope(all, j, x) /\ Depth(all, x) = Depth(all, j)
    <3>1. BindingOf(fn, j, x)
      BY <2>1, BindsMeans
    <3> QED
      BY <1>2, <1>5, <3>1 DEF BindingOf
  <2>3. x \in BoundAt(fn, i)
    <3>1. x # i
      BY <1>1, <2>2
    <3>2. x \in 1..(i - 1)
      BY <1>5, <3>1
    <3>3. InScope(all, x, i)
      <4>1. j <= x /\ x <= i /\ x \in Nat
        BY <1>5, <2>2
      <4> QED
        BY <1>5, <2>2, <4>1, ScopeNarrows
    <3> QED
      BY <1>2, <2>2, <3>2, <3>3 DEF BoundAt
  <2>4. r \in BoundAt(fn, i) /\ x <= r
    BY <1>2, <1>5, <2>3, RefersToLatest
  <2>5. r \in Nat /\ r < i /\ fn[r].v = v /\ InScope(all, r, i)
    BY <1>2, <1>5, <2>4 DEF BoundAt
  <2>6. j < r
    BY <1>5, <2>2, <2>4, <2>5
  <2>7. ASSUME NEW l \in Plain(fn), Binds(fn, l, r) PROVE ~Deeper(fn, l, j)
    <3>1. BindingOf(fn, l, r)
      BY <2>7, BindsMeans
    <3>2. /\ l < r /\ fn[l].v = v /\ InScope(all, l, r) /\ Depth(all, r) = Depth(all, l)
          /\ l \in DOMAIN fn /\ fn[l].k = "let" /\ l \in Nat
      BY <1>2, <1>3, <2>5, <3>1 DEF BindingOf, Plain
    <3>3. InScope(all, l, i)
      <4>1. l <= r /\ r <= i
        BY <1>5, <2>5, <3>2
      <4> QED
        BY <1>5, <2>5, <3>2, <4>1, ScopeContinues
    <3>4. l \in OpenOnes(vw, i, v)
      <4>1. l < i
        BY <1>5, <2>5, <3>2
      <4> QED
        BY <1>1, <1>2, <3>2, <3>3, <4>1, OpenToUse
    <3>5. Depth(vw, l) \in Int /\ Depth(vw, j) \in Int
      BY <1>5, <3>2, DepthInt
    <3>6. Depth(vw, l) < Depth(vw, j) \/ Depth(vw, l) = Depth(vw, j)
      BY <1>4, <3>4
    <3> QED
      BY <1>2, <3>5, <3>6 DEF Deeper
  <2>8. MeantForLater(fn, j, i)
    BY <1>2, <1>5, <2>6, <2>7, Zenon DEF MeantForLater
  <2> QED
    BY <1>1, <1>2, <1>5, <2>8
<1> QED
  BY <1>6, <1>7

\* The declarations of its name around the one at i, in the scopes of a function.
OuterIn(fn, i) == {j \in 1..(i - 1) : /\ Scopes(fn)[j].k = "let" /\ fn[j].v = fn[i].v
                                      /\ InScope(Scopes(fn), j, i)
                                      /\ Depth(Scopes(fn), j) < Depth(Scopes(fn), i)}

\* The rules keep to the language on one function.
RulesKeepTo(fn, reported) ==
  /\ reported \subseteq {j \in DOMAIN fn : fn[j].k = "let" /\ fn[j].v \notin Ignored}
  /\ \A j \in reported : \A i \in {x \in DOMAIN fn : fn[x].k = "use" /\ fn[x].v = fn[j].v} :
       Binds(fn, j, Refers(fn, i)) =>
         \/ \E d \in Plain(fn) \ reported : d < j /\ SameBlock(fn, d, j)
         \/ \E c \in Plain(fn) : fn[c].v = fn[j].v /\ Deeper(fn, c, j) /\ Initialises(fn, c, i)
  /\ \A j \in Plain(fn) \ reported : \E i \in {x \in DOMAIN fn : fn[x].k = "use" /\ fn[x].v = fn[j].v} :
       \/ Binds(fn, j, Refers(fn, i)) \/ Initialises(fn, j, i)
       \/ /\ InScope(Scopes(fn), j, i) /\ j < Refers(fn, i)
          /\ \A l \in Plain(fn) : Binds(fn, l, Refers(fn, i)) => ~Deeper(fn, l, j)
  /\ ReportedShadows(fn) =
        {p \in (DOMAIN fn) \X (DOMAIN fn) : Scopes(fn)[p[1]].k = "let" /\ fn[p[1]].v \notin Skipped
           /\ p[2] \in OuterIn(fn, p[1]) /\ \A m \in OuterIn(fn, p[1]) : m <= p[2]}

LEMMA RulesKeep == ASSUME NEW fn, FunctionTyped(fn) PROVE RulesKeepTo(fn, ReportedUnused(fn))
<1>1. PICK all, n, R : all = Scopes(fn) /\ n = Len(fn) /\ R = ReportedUnused(fn)
  OBVIOUS
<1>2. FunctionTyped(fn) /\ DOMAIN fn = 1..n
  BY <1>1 DEF FunctionTyped
<1>3. R \subseteq Plain(fn)
  BY <1>1, <1>2, ReportedIsPlain
<1>4. ASSUME NEW j \in R, NEW i \in DOMAIN fn, fn[i].k = "use" /\ fn[i].v = fn[j].v, Binds(fn, j, Refers(fn, i))
      PROVE  \/ \E d \in Plain(fn) \ R : d < j /\ SameBlock(fn, d, j)
             \/ \E c \in Plain(fn) : fn[c].v = fn[j].v /\ Deeper(fn, c, j) /\ Initialises(fn, c, i)
  <2>1. PICK c \in Plain(fn) \ R : TakenInstead(fn, c, j, i)
    BY <1>1, <1>2, <1>4, ReadIsTaken
  <2> QED
    BY <2>1, Zenon DEF TakenInstead
<1>5. ASSUME NEW j \in Plain(fn) \ R
      PROVE  \E i \in DOMAIN fn : /\ fn[i].k = "use" /\ fn[i].v = fn[j].v
                                  /\ Initialises(fn, j, i) \/ MeantForLater(fn, j, i)
  BY <1>1, <1>2, <1>5, UnreportedIsRead
<1>6. ReportedShadows(fn) = PairsUpTo(all, n)
  BY <1>1, <1>2, ShadowsMatch
<1>7. ReportedShadows(fn) =
        {p \in (1..n) \X (1..n) : all[p[1]].k = "let" /\ all[p[1]].v \notin Skipped
           /\ p[2] \in OuterOnes(all, p[1]) /\ \A m \in OuterOnes(all, p[1]) : m <= p[2]}
  BY <1>6, Zenon DEF PairsUpTo, IsShadow, Latest
<1>8. \A x \in 1..n : all[x].v = fn[x].v
  BY <1>1, <1>2, ScopeTokenIs
<1>9. \A i \in 1..n : OuterOnes(all, i) = OuterIn(fn, i)
  <2> SUFFICES ASSUME NEW i \in 1..n PROVE OuterOnes(all, i) = OuterIn(fn, i)
    OBVIOUS
  <2>1. \A j \in 1..(i - 1) : j \in 1..n
    BY <1>1, <1>2
  <2> QED
    BY <1>1, <1>8, <2>1, Zenon DEF OuterOnes, OuterIn
<1>10. ReportedShadows(fn) =
        {p \in (DOMAIN fn) \X (DOMAIN fn) : Scopes(fn)[p[1]].k = "let" /\ fn[p[1]].v \notin Skipped
           /\ p[2] \in OuterIn(fn, p[1]) /\ \A m \in OuterIn(fn, p[1]) : m <= p[2]}
  <2>1. ASSUME NEW p \in (1..n) \X (1..n)
        PROVE  /\ Scopes(fn)[p[1]] = all[p[1]] /\ all[p[1]].v = fn[p[1]].v
               /\ OuterOnes(all, p[1]) = OuterIn(fn, p[1])
    <3>1. p[1] \in 1..n
      OBVIOUS
    <3> QED
      BY <1>1, <1>8, <1>9, <3>1
  <2>2. \A p \in (1..n) \X (1..n) :
          (/\ all[p[1]].k = "let" /\ all[p[1]].v \notin Skipped
           /\ p[2] \in OuterOnes(all, p[1]) /\ \A m \in OuterOnes(all, p[1]) : m <= p[2])
          <=> (/\ Scopes(fn)[p[1]].k = "let" /\ fn[p[1]].v \notin Skipped
               /\ p[2] \in OuterIn(fn, p[1]) /\ \A m \in OuterIn(fn, p[1]) : m <= p[2])
    BY <2>1, Zenon
  <2>3. PICK P : P = (1..n) \X (1..n) /\ P = (DOMAIN fn) \X (DOMAIN fn)
    BY <1>2
  <2> QED
    BY <1>7, <2>2, <2>3, Zenon
<1>11. R \subseteq {j \in DOMAIN fn : fn[j].k = "let" /\ fn[j].v \notin Ignored}
  BY <1>3 DEF Plain
<1>12. \A j \in R : \A i \in {x \in DOMAIN fn : fn[x].k = "use" /\ fn[x].v = fn[j].v} :
         Binds(fn, j, Refers(fn, i)) =>
           \/ \E d \in Plain(fn) \ R : d < j /\ SameBlock(fn, d, j)
           \/ \E c \in Plain(fn) : fn[c].v = fn[j].v /\ Deeper(fn, c, j) /\ Initialises(fn, c, i)
  BY <1>4, Zenon
<1>13. \A j \in Plain(fn) \ R : \E i \in {x \in DOMAIN fn : fn[x].k = "use" /\ fn[x].v = fn[j].v} :
         \/ Binds(fn, j, Refers(fn, i)) \/ Initialises(fn, j, i)
         \/ /\ InScope(all, j, i) /\ j < Refers(fn, i)
            /\ \A l \in Plain(fn) : Binds(fn, l, Refers(fn, i)) => ~Deeper(fn, l, j)
  <2> SUFFICES ASSUME NEW j \in Plain(fn) \ R
               PROVE  \E i \in {x \in DOMAIN fn : fn[x].k = "use" /\ fn[x].v = fn[j].v} :
                        Initialises(fn, j, i) \/ MeantForLater(fn, j, i)
    BY <1>1, Zenon DEF MeantForLater
  <2> QED
    BY <1>5
<1> QED
  BY <1>1, <1>10, <1>11, <1>12, <1>13, Zenon DEF RulesKeepTo

\* What a visitor is given: a function whose scopes close only when open and
\* whose lets stand in blocks.
ScopesTyped == part = "scopes" => FunctionTyped(subject)

\* The two scope rules keep to the language on every function, of any length and
\* any depth of scopes, as ScopesMatchLanguage says it for each local.
THEOREM ScopesMatchAnywhere == ASSUME ScopesTyped PROVE ScopesMatchLanguage
<1> SUFFICES ASSUME part = "scopes" PROVE ScopesMatchLanguage
  BY DEF ScopesMatchLanguage
<1>1. RulesKeepTo(subject, ReportedUnused(subject))
  BY RulesKeep DEF ScopesTyped
<1> QED
  BY <1>1, Zenon DEF RulesKeepTo, ScopesMatchLanguage, Plain, Deeper, SameBlock, OuterIn

(* ---- the checks that are written twice ---- *)
LEMMA StatementAt ==
  ASSUME NEW c \in Contract, NEW p \in Places(c)
  PROVE  /\ p[1] \in DOMAIN c /\ p[2] \in DOMAIN c[p[1]].body
         /\ c[p[1]].body[p[2]] \in Statement /\ p = <<p[1], p[2]>>
<1>1. PICK i \in DOMAIN c : \E s \in DOMAIN c[i].body : p = <<i, s>>
  BY PlacesAre
<1>2. PICK s \in DOMAIN c[i].body : p = <<i, s>>
  BY <1>1
<1>3. c[i] \in SourceFn
  BY DEF Contract
<1>4. c[i].body \in Seq(Statement)
  BY <1>3 DEF SourceFn
<1>5. c[i].body[s] \in Statement
  BY <1>4
<1> QED
  BY <1>2, <1>5

\* The two auth scans.
LEMMA AuthScansAgree ==
  ASSUME NEW c \in Contract
  PROVE  /\ ScanAuthGaps(c) \subseteq AuthGapRule(c)
         /\ \A i \in AuthGapRule(c) \ ScanAuthGaps(c) :
              ~SeesEvent(c[i].body, ExprWalker, StorageWrites \cup ExternalCalls)
<1>1. ASSUME NEW b, NEW E, NEW G, E \subseteq G, SeesEvent(b, ExprWalker, E)
      PROVE  SeesEvent(b, ExprWalker, G)
  BY <1>1 DEF SeesEvent
<1>2. StorageWrites \subseteq MutatesForScan /\ MutatesForScan \subseteq MutatesForRule
  BY DEF MutatesForScan, MutatesForRule
<1>3. ASSUME NEW f, Gap(f, MutatesForScan) PROVE Gap(f, MutatesForRule)
  BY <1>1, <1>2, <1>3 DEF Gap, SecuritySummary
<1>4. ASSUME NEW f, Gap(f, MutatesForRule), SeesEvent(f.body, ExprWalker, StorageWrites \cup ExternalCalls)
      PROVE  Gap(f, MutatesForScan)
  <2>1. SeesEvent(f.body, ExprWalker, StorageWrites) \/ SeesEvent(f.body, ExprWalker, ExternalCalls)
    BY <1>4 DEF SeesEvent
  <2>2. SeesEvent(f.body, ExprWalker, MutatesForScan) \/ SeesEvent(f.body, ExprWalker, ExternalCalls)
    BY <1>1, <1>2, <2>1
  <2> QED
    BY <1>4, <2>2 DEF Gap, SecuritySummary
<1> QED
  BY <1>3, <1>4 DEF ScanAuthGaps, AuthGapRule

LEMMA PanicScansAgree ==
  ASSUME NEW c \in Contract
  PROVE  PanicRule(c) = ScanPanics(c) /\ PanicRule(c) \subseteq UnsafePatterns(c)
<1>1. PanicRule(c) = ScanPanics(c)
  <2>1. \A f : CheckFnPanics(f) = AnalyzerFnPanics(f)
    BY DEF CheckFnPanics, AnalyzerFnPanics
  <2> QED
    BY <2>1 DEF PanicRule, ScanPanics, PanicScope
<1>2. ExprWalker \subseteq SynVisitor
  BY DEF ExprWalker, SynVisitor, Statements, Calls, Syntax
<1>3. ASSUME NEW p \in PanicRule(c) PROVE p \in UnsafePatterns(c)
  <2>1. p \in Places(c) /\ p[2] \in CheckFnPanics(c[p[1]])
    BY DEF PanicRule
  <2>2. Sees(ExprWalker, c[p[1]].body[p[2]]) /\ c[p[1]].body[p[2]].ev \in PanicEvents
    BY <2>1 DEF CheckFnPanics
  <2>3. Sees(SynVisitor, c[p[1]].body[p[2]])
    BY <1>2, <2>2 DEF Sees
  <2> QED
    BY <2>1, <2>2, <2>3 DEF UnsafePatterns
<1> QED
  BY <1>1, <1>3

LEMMA ResultScansDiffer ==
  ASSUME NEW c \in Contract
  PROVE  /\ \A p \in UnhandledResultRule(c) \ ScanUnhandledResults(c) : "harg" \in UnderAt(c, p)
         /\ \A p \in ScanUnhandledResults(c) \ UnhandledResultRule(c) :
              UnderAt(c, p) \cap {"closure", "op", "index"} # {}
<1>1. /\ RuleResultWalker \ ScanResultWalker \subseteq {"harg"}
      /\ ScanResultWalker \ RuleResultWalker \subseteq {"closure", "op", "index"}
  BY DEF RuleResultWalker, ScanResultWalker
<1>2. ASSUME NEW V, NEW W, NEW p \in Unhandled(c, V) \ Unhandled(c, W)
      PROVE  UnderAt(c, p) \subseteq V /\ ~(UnderAt(c, p) \subseteq W)
  BY DEF Unhandled, UnderAt, Sees
<1>3. ASSUME NEW p \in UnhandledResultRule(c) \ ScanUnhandledResults(c)
      PROVE  "harg" \in UnderAt(c, p)
  <2>1. UnderAt(c, p) \subseteq RuleResultWalker /\ ~(UnderAt(c, p) \subseteq ScanResultWalker)
    BY <1>2 DEF UnhandledResultRule, ScanUnhandledResults
  <2> QED
    BY <1>1, <2>1
<1>4. ASSUME NEW p \in ScanUnhandledResults(c) \ UnhandledResultRule(c)
      PROVE  UnderAt(c, p) \cap {"closure", "op", "index"} # {}
  <2>1. UnderAt(c, p) \subseteq ScanResultWalker /\ ~(UnderAt(c, p) \subseteq RuleResultWalker)
    BY <1>2 DEF UnhandledResultRule, ScanUnhandledResults
  <2> QED
    BY <1>1, <2>1
<1> QED
  BY <1>3, <1>4

LEMMA YamlRulesNest ==
  ASSUME NEW c
  PROVE  /\ StorageOperationRule(c, "set") \subseteq MethodCallRule(c, {"set", "set_all"})
         /\ MethodCallRule(c, {"set"}) \subseteq RegexRule(c, {e \in DOMAIN MethodOf : MethodOf[e] = "set"})
         /\ FunctionCallRule(c) \cap MethodCallRule(c, {"set"}) = {}
<1>1. StorageEvents \subseteq DOMAIN MethodOf /\ "call" \notin DOMAIN MethodOf
  BY DEF StorageEvents, MethodOf
<1>2. StorageOperationRule(c, "set") \subseteq MethodCallRule(c, {"set", "set_all"})
  BY <1>1 DEF StorageOperationRule, MethodCallRule, ImplStatements
<1>3. MethodCallRule(c, {"set"}) \subseteq RegexRule(c, {e \in DOMAIN MethodOf : MethodOf[e] = "set"})
  BY DEF MethodCallRule, RegexRule, ImplStatements
<1>4. FunctionCallRule(c) \cap MethodCallRule(c, {"set"}) = {}
  BY <1>1 DEF FunctionCallRule, MethodCallRule, ImplStatements, FunctionEvents
<1> QED
  BY <1>2, <1>3, <1>4

LEMMA RulesByName ==
  ASSUME NEW c PROVE \A n \in RuleNames : RunByName(c, n) = {v \in RunAll(c) : v[1] = n}
<1>1. \A n \in RuleNames : RunByName(c, n) = {n} \X CheckRule(n, c)
  BY DEF RunByName
<1>2. \A n \in RuleNames : \A v : v \in RunByName(c, n) => v[1] = n
  BY <1>1
<1>3. \A v : v \in RunAll(c) <=> \E n \in RuleNames : v \in RunByName(c, n)
  BY DEF RunAll
<1> QED
  BY <1>2, <1>3

LEMMA BoundaryCovered ==
  ASSUME NEW c
  PROVE  ScanSmtBoundary(c) \cap {i \in DOMAIN c : c[i].item \in {"impl", "testimpl"}}
           \subseteq AuthGapRule(c) \cup {i \in DOMAIN c : IsReservedEntrypoint(c[i])}
                     \cup {i \in DOMAIN c : SeesEvent(c[i].body, ExprWalker, {"auth"})}
<1>1. ASSUME NEW i \in ScanSmtBoundary(c), c[i].item \in {"impl", "testimpl"},
             ~IsReservedEntrypoint(c[i]), ~SeesEvent(c[i].body, ExprWalker, {"auth"})
      PROVE  i \in AuthGapRule(c)
  BY <1>1 DEF ScanSmtBoundary, AuthGapRule, Gap, SecuritySummary
<1> QED
  BY <1>1 DEF ScanSmtBoundary

LEMMA SummaryAddsUp ==
  ASSUME NEW c \in Contract, NEW w, w = WasmSummary(c)
  PROVE  /\ w.total <= CliCount(c) /\ (w.has_high <=> ScanAuthGaps(c) # {})
         /\ build_progress_events(w.total)[5] = w.total
         /\ \A k \in 1..4 : build_progress_events(w.total)[k] <= build_progress_events(w.total)[k + 1]
<1>1. IsFiniteSet(Places(c))
  BY PlacesFinite
<1>2. ASSUME NEW P \in SUBSET Places(c) PROVE IsFiniteSet(P) /\ Cardinality(P) \in Nat
  BY <1>1, FS_Subset, FS_CardinalityType
<1>3. /\ ScanPanics(c) \in SUBSET Places(c) /\ UnsafePatterns(c) \in SUBSET Places(c)
      /\ ScanUnhandledResults(c) \in SUBSET Places(c)
  BY DEF ScanPanics, UnsafePatterns, ScanUnhandledResults, Unhandled
<1>4. ArithVisitor(c) \in SUBSET Places(c) /\ TruncationVisitor(c) \in SUBSET Places(c)
  <2>1. \A P : P \subseteq Places(c) => FirstOfKey(c, P) \subseteq Places(c)
    BY DEF FirstOfKey
  <2> QED
    BY <2>1 DEF ArithVisitor, TruncationVisitor
<1>5. IsFiniteSet(ScanAuthGaps(c)) /\ Cardinality(ScanAuthGaps(c)) \in Nat
  <2>1. PICK n \in Nat : DOMAIN c = 1..n
    BY DEF Contract
  <2>2. IsFiniteSet(1..n) /\ ScanAuthGaps(c) \in SUBSET (1..n)
    BY <2>1, FS_Interval DEF ScanAuthGaps
  <2> QED
    BY <2>2, FS_Subset, FS_CardinalityType
<1>6. PICK a, b, d, e, u, t :
        /\ a = Cardinality(ScanAuthGaps(c)) /\ b = Cardinality(ScanPanics(c))
        /\ d = Cardinality(ArithVisitor(c)) /\ e = Cardinality(UnsafePatterns(c))
        /\ u = Cardinality(ScanUnhandledResults(c)) /\ t = Cardinality(TruncationVisitor(c))
  OBVIOUS
<1>7. a \in Nat /\ b \in Nat /\ d \in Nat /\ e \in Nat /\ u \in Nat /\ t \in Nat
  BY <1>2, <1>3, <1>4, <1>5, <1>6
<1>8. w.total = a + b + d + e + u /\ (w.has_high <=> a > 0) /\ CliCount(c) = w.total + t
  BY <1>6 DEF WasmSummary, CliCount
<1>9. w.has_high <=> ScanAuthGaps(c) # {}
  <2>1. a = 0 <=> ScanAuthGaps(c) = {}
    BY <1>5, <1>6, FS_EmptySet
  <2> QED
    BY <1>7, <1>8, <2>1
<1>10. PICK n \in Nat : n = w.total
  BY <1>7, <1>8
<1>11. n <= CliCount(c)
  BY <1>7, <1>8, <1>10
<1>12. \A k \in 1..5 : build_progress_events(n)[k] = (k * n) \div 5
  BY DEF build_progress_events
<1>13. (5 * n) \div 5 = n
  OBVIOUS
<1>14. /\ (1 * n) \div 5 <= (2 * n) \div 5 /\ (2 * n) \div 5 <= (3 * n) \div 5
       /\ (3 * n) \div 5 <= (4 * n) \div 5 /\ (4 * n) \div 5 <= (5 * n) \div 5
  OBVIOUS
<1>15. \A k \in 1..4 : build_progress_events(n)[k] <= build_progress_events(n)[k + 1]
  <2> TAKE k \in 1..4
  <2>1. k = 1 \/ k = 2 \/ k = 3 \/ k = 4
    OBVIOUS
  <2> QED
    BY <1>12, <1>14, <2>1
<1> QED
  BY <1>9, <1>10, <1>11, <1>12, <1>13, <1>15

LEMMA BindingsAgree ==
  ASSUME NEW len \in Nat
  PROVE  /\ analyzeAdmits(len) = validate_for_target(len, "browser")
         /\ validate_for_target(len, "browser") = "ok" => validate_for_target(len, "node") = "ok"
         /\ progressAdmits(len) # analyzeAdmits(len) => analyzeAdmits(len) = "memory"
<1>1. /\ MaxSource["browser"] = 10 /\ MaxSource["node"] = 25 /\ Overhead = 8
      /\ MemoryBudget["browser"] = 32 /\ MemoryBudget["node"] = 128
  BY DEF MaxSource, MemoryBudget, Overhead
<1>2. analyzeAdmits(len) = validate_for_target(len, "browser")
  BY <1>1 DEF analyzeAdmits, validate_source, check_memory_budget, validate_for_target
<1>3. validate_for_target(len, "browser") = "ok" => validate_for_target(len, "node") = "ok"
  <2>1. len * 8 > 128 => len * 8 > 32
    OBVIOUS
  <2>2. len > 25 => len > 10
    OBVIOUS
  <2> QED
    BY <1>1, <2>1, <2>2 DEF validate_for_target
<1>4. progressAdmits(len) # analyzeAdmits(len) => analyzeAdmits(len) = "memory"
  BY DEF progressAdmits, analyzeAdmits, check_memory_budget
<1> QED
  BY <1>2, <1>3, <1>4

(* ---- a pattern and the text it is looked for in ---- *)
LEMMA PrefixMeans ==
  ASSUME NEW S, NEW s \in Seq(S), NEW t \in Seq(S), IsPrefix(s, t)
  PROVE  \A i \in 1..Len(s) : i \in 1..Len(t) /\ s[i] = t[i]
<1>0. Len(s) \in Nat /\ Len(t) \in Nat
  OBVIOUS
<1>1. PICK m, n : m = Len(s) /\ n = Len(t) /\ m \in Nat /\ n \in Nat
  BY <1>0
<1>2. m <= n /\ SubSeq(s, 1, m) = SubSeq(t, 1, m)
  BY <1>1 DEF IsPrefix
<1>3. PICK u, v : u = SubSeq(s, 1, m) /\ v = SubSeq(t, 1, m)
  OBVIOUS
<1>4. \A i \in 1..m : u[i] = s[i] /\ v[i] = t[i]
  BY <1>1, <1>2, <1>3, SubSeqProperties
<1> QED
  BY <1>1, <1>2, <1>3, <1>4

LEMMA SuffixMeans ==
  ASSUME NEW S, NEW s \in Seq(S), NEW t \in Seq(S), IsSuffix(s, t)
  PROVE  \A i \in 1..Len(s) : \E j \in 1..Len(t) : s[i] = t[j]
<1>0. Len(s) \in Nat /\ Len(t) \in Nat
  OBVIOUS
<1>1. PICK m, n : m = Len(s) /\ n = Len(t) /\ m \in Nat /\ n \in Nat
  BY <1>0
<1>a. PICK u, v : u = [i \in 1..m |-> s[(m - i) + 1]] /\ v = [i \in 1..n |-> t[(n - i) + 1]]
  OBVIOUS
<1>2. /\ u = Reverse(s) /\ v = Reverse(t) /\ u \in Seq(S) /\ v \in Seq(S)
      /\ Len(u) = m /\ Len(v) = n
      /\ (\A i \in 1..m : u[i] = s[(m - i) + 1]) /\ (\A i \in 1..n : v[i] = t[(n - i) + 1])
  <2>2. \A i \in 1..m : (m - i) + 1 \in 1..m
    BY <1>1
  <2>3. \A i \in 1..n : (n - i) + 1 \in 1..n
    BY <1>1
  <2>4. u \in Seq(S) /\ Len(u) = m
    BY <1>1, <1>a, <2>2
  <2>5. v \in Seq(S) /\ Len(v) = n
    BY <1>1, <1>a, <2>3
  <2>6. u = Reverse(s) /\ v = Reverse(t)
    BY <1>1, <1>a DEF Reverse
  <2>7. (\A i \in 1..m : u[i] = s[(m - i) + 1]) /\ (\A i \in 1..n : v[i] = t[(n - i) + 1])
    BY <1>a
  <2> QED
    BY <2>4, <2>5, <2>6, <2>7
<1>3. \A i \in 1..m : i \in 1..n /\ u[i] = v[i]
  <2>1. IsPrefix(u, v)
    BY <1>2 DEF IsSuffix
  <2> QED
    <3>1. u \in Seq(S) /\ v \in Seq(S) /\ Len(u) = m /\ Len(v) = n
      BY <1>2
    <3>2. \A i \in 1..Len(u) : i \in 1..Len(v) /\ u[i] = v[i]
      BY <2>1, <3>1, PrefixMeans
    <3> QED
      BY <3>1, <3>2
<1>4. ASSUME NEW i \in 1..m PROVE \E j \in 1..n : s[i] = t[j]
  <2>1. (m - i) + 1 \in 1..m /\ (m - ((m - i) + 1)) + 1 = i
    BY <1>1
  <2>2. PICK k : k = (m - i) + 1
    OBVIOUS
  <2>2a. k \in 1..m /\ (m - k) + 1 = i
    BY <2>1, <2>2
  <2>2b. k \in 1..n /\ u[k] = v[k]
    BY <1>3, <2>2a
  <2>2c. u[k] = s[i]
    BY <1>2, <2>2a
  <2>3. v[k] = t[(n - k) + 1] /\ (n - k) + 1 \in 1..n
    BY <1>1, <1>2, <2>2b
  <2> QED
    BY <2>2b, <2>2c, <2>3
<1> QED
  BY <1>1, <1>4

LEMMA OneStarKeeps ==
  ASSUME NEW S, NEW text \in Seq(S), NEW pattern \in Seq(S), Cardinality(Stars(pattern)) = 1,
         MatchesPattern(text, pattern), NEW i \in DOMAIN pattern, pattern[i] # Star
  PROVE  pattern[i] \in ToSet(text)
<1>1. PICK n, l : n = Len(pattern) /\ n \in Nat /\ DOMAIN pattern = 1..n /\ l = Len(text) /\ l \in Nat
                  /\ DOMAIN text = 1..l
  <2>1. Len(pattern) \in Nat /\ DOMAIN pattern = 1..Len(pattern)
    OBVIOUS
  <2>2. Len(text) \in Nat /\ DOMAIN text = 1..Len(text)
    OBVIOUS
  <2> QED
    BY <2>1, <2>2
<1>2. Stars(pattern) # {}
  <2>1. Cardinality({}) = 0
    BY FS_EmptySet
  <2>2. Stars(pattern) = {} => Cardinality(Stars(pattern)) = 0
    BY <2>1
  <2>3. Cardinality(Stars(pattern)) = 1
    OBVIOUS
  <2> QED
    BY <2>2, <2>3
<1>3. PICK at : at = (CHOOSE k \in Stars(pattern) : TRUE) /\ at \in Stars(pattern)
  BY <1>2
<1>4. at \in 1..n /\ pattern[at] = Star
  BY <1>1, <1>3 DEF Stars
<1>5. /\ IsPrefix(SubSeq(pattern, 1, at - 1), text)
      /\ IsSuffix(SubSeq(pattern, at + 1, Len(pattern)), text)
  BY <1>2, <1>3 DEF MatchesPattern
<1>6. i # at
  BY <1>4
<1>7. \E j \in 1..l : pattern[i] = text[j]
  <2>1. CASE i < at
    <3>1. PICK u : u = SubSeq(pattern, 1, at - 1) /\ u \in Seq(S) /\ Len(u) = at - 1
                   /\ \A k \in 1..(at - 1) : u[k] = pattern[k]
      <4>1. PICK u : u = SubSeq(pattern, 1, at - 1)
        OBVIOUS
      <4>2. 1 \in 1..(Len(pattern) + 1) /\ at - 1 \in (1 - 1)..Len(pattern)
        BY <1>1, <1>4
      <4>3. /\ u \in Seq(S) /\ Len(u) = (at - 1) - 1 + 1
            /\ \A k \in 1..((at - 1) - 1 + 1) : u[k] = pattern[1 + k - 1]
        BY <4>1, <4>2, CutIs
      <4>4. (at - 1) - 1 + 1 = at - 1 /\ \A k \in 1..(at - 1) : 1 + k - 1 = k
        BY <1>1, <1>4
      <4>5. \A k \in 1..(at - 1) : u[k] = pattern[k]
        BY <4>3, <4>4
      <4> QED
        BY <4>1, <4>3, <4>4, <4>5
    <3>2. IsPrefix(u, text)
      BY <1>5, <3>1
    <3>3. i \in 1..Len(u)
      BY <1>1, <1>4, <2>1, <3>1
    <3>4. i \in 1..Len(text) /\ u[i] = text[i]
      <4>1. u \in Seq(S)
        BY <3>1
      <4> QED
        BY <3>2, <3>3, <4>1, PrefixMeans
    <3> QED
      BY <1>1, <3>1, <3>3, <3>4
  <2>2. CASE i > at
    <3>1. PICK u : u = SubSeq(pattern, at + 1, n) /\ u \in Seq(S) /\ Len(u) = n - at
                   /\ \A k \in 1..(n - at) : u[k] = pattern[at + k]
      <4>1. PICK u : u = SubSeq(pattern, at + 1, n)
        OBVIOUS
      <4>2. at + 1 \in 1..(Len(pattern) + 1) /\ n \in ((at + 1) - 1)..Len(pattern)
        BY <1>1, <1>4
      <4>3. /\ u \in Seq(S) /\ Len(u) = n - (at + 1) + 1
            /\ \A k \in 1..(n - (at + 1) + 1) : u[k] = pattern[(at + 1) + k - 1]
        BY <4>1, <4>2, CutIs
      <4>4. n - (at + 1) + 1 = n - at /\ \A k \in 1..(n - at) : (at + 1) + k - 1 = at + k
        BY <1>1, <1>4
      <4>5. \A k \in 1..(n - at) : u[k] = pattern[at + k]
        BY <4>3, <4>4
      <4> QED
        BY <4>1, <4>3, <4>4, <4>5
    <3>2. IsSuffix(u, text)
      BY <1>1, <1>5, <3>1
    <3>3. i - at \in 1..Len(u) /\ at + (i - at) = i
      <4>1. i - at \in 1..(n - at) /\ at + (i - at) = i
        BY <1>1, <1>4, <2>2
      <4> QED
        BY <3>1, <4>1
    <3>4. \E j \in 1..Len(text) : u[i - at] = text[j]
      <4>1. u \in Seq(S)
        BY <3>1
      <4> QED
        BY <3>2, <3>3, <4>1, SuffixMeans
    <3> QED
      BY <1>1, <3>1, <3>3, <3>4
  <2> QED
    BY <1>1, <1>4, <1>6, <2>1, <2>2
<1> QED
  BY <1>1, <1>7 DEF ToSet

LEMMA BetweenStars ==
  ASSUME NEW S, NEW pattern \in Seq(S), Stars(pattern) = {}, Star \in S
  PROVE  LET starred == <<Star>> \o pattern \o <<Star>> IN
         /\ Cardinality(Stars(starred)) = 2 /\ Stars(starred) # {} /\ TrimStars(starred) = pattern
<1>1. PICK n : n = Len(pattern) /\ n \in Nat /\ DOMAIN pattern = 1..n
  OBVIOUS
<1>2. PICK w : /\ w = <<Star>> \o pattern \o <<Star>> /\ w \in Seq(S) /\ Len(w) = n + 2
               /\ DOMAIN w = 1..(n + 2)
               /\ w[1] = Star /\ w[n + 2] = Star /\ \A i \in 1..n : w[i + 1] = pattern[i]
  <2>1. PICK a : a = <<Star>> /\ a \in Seq(S) /\ Len(a) = 1 /\ a[1] = Star
    <3>1. <<Star>> \in Seq(S)
      OBVIOUS
    <3>2. Len(<<Star>>) = 1 /\ <<Star>>[1] = Star
      OBVIOUS
    <3> QED
      BY <3>1, <3>2
  <2>2. PICK u : u = a \o pattern
    OBVIOUS
  <2>3. /\ u \in Seq(S) /\ Len(u) = Len(a) + Len(pattern)
        /\ \A i \in 1..Len(a) : u[i] = a[i]
        /\ \A i \in 1..Len(pattern) : u[Len(a) + i] = pattern[i]
    BY <2>1, <2>2, JoinIs
  <2>4. PICK v : v = u \o a
    OBVIOUS
  <2>5. /\ v \in Seq(S) /\ Len(v) = Len(u) + Len(a)
        /\ \A i \in 1..Len(u) : v[i] = u[i]
        /\ \A i \in 1..Len(a) : v[Len(u) + i] = a[i]
    BY <2>1, <2>3, <2>4, JoinIs
  <2>6. /\ Len(u) = n + 1 /\ u[1] = Star /\ \A i \in 1..n : u[i + 1] = pattern[i]
    <3>1. Len(u) = n + 1
      BY <1>1, <2>1, <2>3
    <3>2. u[1] = Star
      BY <2>1, <2>3
    <3>3. \A i \in 1..n : 1 + i = i + 1 /\ u[1 + i] = pattern[i]
      BY <1>1, <2>1, <2>3
    <3> QED
      BY <3>1, <3>2, <3>3
  <2>7. Len(v) = n + 2 /\ v[n + 2] = Star
    <3>1. (n + 1) + 1 = n + 2
      BY <1>1
    <3>2. Len(v) = (n + 1) + 1
      BY <2>1, <2>5, <2>6
    <3>3. v[(n + 1) + 1] = Star
      BY <2>1, <2>5, <2>6
    <3> QED
      BY <3>1, <3>2, <3>3
  <2>8. v[1] = Star /\ \A i \in 1..n : v[i + 1] = pattern[i]
    <3>1. 1 \in 1..(n + 1) /\ \A i \in 1..n : i + 1 \in 1..(n + 1)
      BY <1>1
    <3> QED
      BY <2>5, <2>6, <3>1
  <2>9. DOMAIN v = 1..(n + 2)
    BY <2>5, <2>7
  <2> QED
    BY <2>1, <2>2, <2>4, <2>5, <2>7, <2>8, <2>9
<1>3. w[1] = Star /\ w[n + 2] = Star /\ \A i \in 1..n : w[i + 1] = pattern[i]
  BY <1>2
<1>4. \A i \in 1..n : pattern[i] # Star
  BY <1>1 DEF Stars
<1>5. Stars(w) = {1, n + 2}
  <2>1. \A i \in 1..(n + 2) : i = 1 \/ i = n + 2 \/ (i - 1 \in 1..n /\ (i - 1) + 1 = i)
    BY <1>1
  <2>2. \A i \in 1..(n + 2) : w[i] = Star <=> i = 1 \/ i = n + 2
    BY <1>3, <1>4, <2>1
  <2>3. 1 \in 1..(n + 2) /\ n + 2 \in 1..(n + 2)
    BY <1>1
  <2> QED
    BY <1>2, <2>2, <2>3 DEF Stars
<1>6. Cardinality({1, n + 2}) = 2
  <2>1. 1 # n + 2
    BY <1>1
  <2>2. IsFiniteSet({1}) /\ Cardinality({1}) = 1
    BY FS_Singleton
  <2>3. Cardinality({1} \cup {n + 2}) = Cardinality({1}) + 1
    BY <2>1, <2>2, FS_AddElement
  <2>4. {1} \cup {n + 2} = {1, n + 2}
    OBVIOUS
  <2> QED
    BY <2>2, <2>3, <2>4
<1>7. (DOMAIN w) \ Stars(w) = 2..(n + 1)
  BY <1>1, <1>2, <1>5
<1>8. TrimStars(w) = pattern
  <2>1. CASE n = 0
    <3>1. 2..(n + 1) = {} /\ pattern = <<>>
      BY <1>1, <2>1
    <3> QED
      BY <1>7, <3>1 DEF TrimStars
  <2>2. CASE n # 0
    <3>1. 2..(n + 1) # {} /\ Min(2..(n + 1)) = 2 /\ Max(2..(n + 1)) = n + 1
      <4>1. 2 \in 2..(n + 1) /\ n + 1 \in 2..(n + 1)
        BY <1>1, <2>2
      <4>2. \A x \in 2..(n + 1) : (\A y \in 2..(n + 1) : x <= y) <=> x = 2
        BY <1>1, <4>1
      <4>3. \A x \in 2..(n + 1) : (\A y \in 2..(n + 1) : x >= y) <=> x = n + 1
        BY <1>1, <4>1
      <4>4. Min(2..(n + 1)) = 2
        BY <4>1, <4>2 DEF Min
      <4>5. Max(2..(n + 1)) = n + 1
        BY <4>1, <4>3 DEF Max
      <4> QED
        BY <4>1, <4>4, <4>5
    <3>2. TrimStars(w) = SubSeq(w, 2, n + 1)
      BY <1>7, <3>1 DEF TrimStars
    <3>3. PICK u : u = SubSeq(w, 2, n + 1) /\ u \in Seq(S) /\ Len(u) = n
                   /\ \A k \in 1..n : u[k] = w[k + 1]
      BY <1>1, <1>2, <2>2, SubSeqProperties
    <3>4. \A k \in 1..n : u[k] = pattern[k]
      BY <1>3, <3>3
    <3> QED
      BY <1>1, <3>2, <3>3, <3>4, SeqEqual
  <2> QED
    BY <2>1, <2>2
<1> QED
  BY <1>2, <1>5, <1>6, <1>8

LEMMA StarsAround ==
  ASSUME NEW S, Star \in S, NEW text \in Seq(S), NEW pattern \in Seq(S), Stars(pattern) = {}
  PROVE  MatchesPattern(text, pattern) = MatchesPattern(text, <<Star>> \o pattern \o <<Star>>)
<1>1. PICK w : w = <<Star>> \o pattern \o <<Star>>
  OBVIOUS
<1>2. Cardinality(Stars(w)) = 2 /\ Stars(w) # {} /\ TrimStars(w) = pattern
  BY <1>1, BetweenStars
<1>3. MatchesPattern(text, w) = ContainsText(text, pattern)
  BY <1>2 DEF MatchesPattern
<1>4. MatchesPattern(text, pattern) = ContainsText(text, pattern)
  BY DEF MatchesPattern
<1> QED
  BY <1>1, <1>3, <1>4

(* ---- the workspace: sums over files and over contracts ---- *)
\* Counting contract by contract and counting file by file come to the same.
Holders(s, R, f) == {i \in s : f \in R[i]}

LEMMA SumsSwap ==
  ASSUME NEW C, IsFiniteSet(C), NEW A, IsFiniteSet(A), NEW R \in [C -> SUBSET A],
         NEW w, \A f \in A : w[f] \in Nat,
         NEW k, \A i \in C : k[i] = SumFunctionOnSet(w, R[i])
  PROVE  \A s \in SUBSET C : \A d :
           (\A f \in A : d[f] = Cardinality(Holders(s, R, f)) * w[f])
             => SumFunctionOnSet(k, s) = SumFunctionOnSet(d, A)
<1> DEFINE G == {s \in SUBSET C : \A d :
           (\A f \in A : d[f] = Cardinality(Holders(s, R, f)) * w[f])
             => SumFunctionOnSet(k, s) = SumFunctionOnSet(d, A)}
<1>0. \A i \in C : IsFiniteSet(R[i]) /\ k[i] \in Int
  <2> TAKE i \in C
  <2>1. IsFiniteSet(R[i]) /\ \A f \in R[i] : w[f] \in Int
    BY FS_Subset
  <2>2. SumFunctionOnSet(w, R[i]) \in Int
    BY <2>1, SumIsInt
  <2> QED
    BY <2>1, <2>2
<1>1. ASSUME NEW s \in SUBSET C, \A t \in SUBSET s : t # s => t \in G PROVE s \in G
  <2> SUFFICES ASSUME NEW d, \A f \in A : d[f] = Cardinality(Holders(s, R, f)) * w[f]
               PROVE  SumFunctionOnSet(k, s) = SumFunctionOnSet(d, A)
    OBVIOUS
  <2>1. CASE s = {}
    <3>1. \A f \in A : Holders(s, R, f) = {}
      BY <2>1 DEF Holders
    <3>2. \A f \in A : d[f] = 0 * w[f]
      BY <3>1, FS_EmptySet
    <3>3. \A f \in A : d[f] = 0
      BY <3>2
    <3> QED
      BY <2>1, <3>3, SumOfNothing, SumOfZeros
  <2>2. CASE s # {}
    <3>1. PICK x : x \in s
      BY <2>2
    <3>2a. IsFiniteSet(s) /\ IsFiniteSet(s \ {x})
      BY FS_Subset
    <3>2. PICK r : r = s \ {x} /\ r \in SUBSET s /\ r # s /\ IsFiniteSet(s) /\ IsFiniteSet(r)
      BY <3>1, <3>2a
    <3>3. PICK e : e = [f \in A |-> Cardinality(Holders(r, R, f)) * w[f]]
      OBVIOUS
    <3>4. SumFunctionOnSet(k, r) = SumFunctionOnSet(e, A)
      <4>1. r \in G
        BY <1>1, <3>2
      <4> QED
        BY <3>3, <4>1
    <3>5. SumFunctionOnSet(k, s) = k[x] + SumFunctionOnSet(k, r)
      <4>1. \A i \in s : k[i] \in Int
        BY <1>0
      <4> QED
        BY <3>1, <3>2, <4>1, SumRemoves
    <3>6. PICK c : c = [f \in A |-> IF f \in R[x] THEN w[f] ELSE 0]
      OBVIOUS
    <3>7. SumFunctionOnSet(c, A) = k[x]
      <4>1. R[x] \in SUBSET A /\ (\A f \in R[x] : w[f] \in Int) /\ k[x] = SumFunctionOnSet(w, R[x])
        BY <3>1
      <4>2. \A f \in A : c[f] = IF f \in R[x] THEN w[f] ELSE 0
        BY <3>6
      <4>3. SumFunctionOnSet(c, A) = SumFunctionOnSet(w, R[x])
        BY <4>1, <4>2, SumRestricts
      <4> QED
        BY <4>1, <4>3
    <3>8. ASSUME NEW f \in A PROVE e[f] \in Int /\ c[f] \in Int /\ d[f] = e[f] + c[f]
      <4>1. PICK H, m : H = Holders(r, R, f) /\ m = Cardinality(H) /\ IsFiniteSet(H) /\ m \in Nat /\ x \notin H
        <5>1. Holders(r, R, f) \in SUBSET r /\ x \notin Holders(r, R, f)
          BY <3>2 DEF Holders
        <5> QED
          BY <3>2, <5>1, FS_Subset, FS_CardinalityType
      <4>2. PICK v : v = w[f] /\ v \in Nat /\ e[f] = m * v
        BY <3>3, <4>1
      <4>3. CASE f \in R[x]
        <5>1. Holders(s, R, f) = H \cup {x}
          BY <3>1, <3>2, <4>1, <4>3 DEF Holders
        <5>2. Cardinality(Holders(s, R, f)) = m + 1
          BY <4>1, <5>1, FS_AddElement
        <5>3. d[f] = (m + 1) * v /\ c[f] = v
          BY <3>6, <4>2, <4>3, <5>2
        <5>4. (m + 1) * v = m * v + v /\ m * v \in Int
          BY <4>1, <4>2
        <5> QED
          BY <4>2, <5>3, <5>4
      <4>4. CASE f \notin R[x]
        <5>1. Holders(s, R, f) = H
          BY <3>1, <3>2, <4>1, <4>4 DEF Holders
        <5>2. d[f] = m * v /\ c[f] = 0 /\ m * v \in Int
          BY <3>6, <4>1, <4>2, <4>4, <5>1
        <5> QED
          BY <4>2, <5>2
      <4> QED
        BY <4>3, <4>4
    <3>9. SumFunctionOnSet(d, A) = SumFunctionOnSet(e, A) + SumFunctionOnSet(c, A)
      BY <3>8, SumAdds
    <3>10. SumFunctionOnSet(e, A) \in Int /\ k[x] \in Int
      BY <1>0, <3>1, <3>8, SumIsInt
    <3> QED
      BY <3>4, <3>5, <3>7, <3>9, <3>10
  <2> QED
    BY <2>1, <2>2
<1>2. SUBSET C \subseteq G
  <2> HIDE DEF G
  <2> QED
    BY <1>1, SubsetsByInduction
<1> QED
  BY <1>2

\* What a file adds to a contract's count.
FoundIn == [f \in ScannedFiles |-> IF f.readable /\ f.inTime THEN f.finds ELSE 0]

LEMMA FoundIs ==
  ASSUME NEW f \in ScannedFiles
  PROVE  /\ FoundIn[f] \in Nat /\ FoundIn[f] = (IF f.readable /\ f.inTime THEN f.finds ELSE 0)
         /\ count_findings(WorkspaceResult(f)) = FoundIn[f]
<1>1. f.finds \in Nat
  BY DEF ScannedFiles
<1>2. FoundIn[f] = IF f.readable /\ f.inTime THEN f.finds ELSE 0
  BY DEF FoundIn
<1>3. FoundIn[f] \in Nat
  BY <1>1, <1>2
<1>4. CASE f.readable /\ f.inTime
  <2>1. WorkspaceResult(f) = [found |-> f.finds, timed_out |-> FALSE]
    BY <1>4 DEF WorkspaceResult, ScanOf
  <2>2. count_findings(WorkspaceResult(f)) = f.finds + 0
    BY <2>1 DEF count_findings
  <2> QED
    BY <1>1, <1>2, <1>3, <1>4, <2>2
<1>5. CASE ~(f.readable /\ f.inTime)
  <2>1. WorkspaceResult(f) = [found |-> 0, timed_out |-> FALSE]
    BY <1>5 DEF WorkspaceResult, DefaultScan
  <2>2. count_findings(WorkspaceResult(f)) = 0 + 0
    BY <2>1 DEF count_findings
  <2> QED
    BY <1>2, <1>3, <1>5, <2>2
<1> QED
  BY <1>4, <1>5

\* The sums the command takes are sums of functions.
CountsUp(D, it) ==
  it = [s \in SUBSET D |-> IF s = {} THEN 0
                           ELSE count_findings(WorkspaceResult(AnyOf(s))) + it[s \ {AnyOf(s)}]]

LEMMA AnyOfIn == ASSUME NEW D, NEW s \in SUBSET D, s # {} PROVE AnyOf(s) \in D
  BY DEF AnyOf

LEMMA CountIsSum ==
  ASSUME NEW ws, NEW i, rs_files(ws, i) \subseteq ScannedFiles
  PROVE  ContractCount(ws, i) = SumFunctionOnSet(FoundIn, rs_files(ws, i))
<1>1. PICK D : D = rs_files(ws, i) /\ D \subseteq ScannedFiles
  OBVIOUS
<1>2. ContractCount(ws, i) = (CHOOSE it : CountsUp(D, it))[D]
  BY <1>1 DEF ContractCount, MapThenSumSet, MapThenFoldSet, CountsUp, AnyOf
<1>3. ASSUME NEW s \in SUBSET D, s # {}
      PROVE  count_findings(WorkspaceResult(AnyOf(s))) = FoundIn[AnyOf(s)]
  <2>1. AnyOf(s) \in ScannedFiles
    BY <1>1, <1>3, AnyOfIn
  <2> QED
    BY <2>1, FoundIs
<1>4. \A it : CountsUp(D, it) <=> SumsUp(FoundIn, D, it)
  <2> TAKE it
  <2>1. PICK f : f = [s \in SUBSET D |-> IF s = {} THEN 0
                        ELSE count_findings(WorkspaceResult(AnyOf(s))) + it[s \ {AnyOf(s)}]]
    OBVIOUS
  <2>2. PICK g : g = [s \in SUBSET D |-> IF s = {} THEN 0
                        ELSE FoundIn[AnyOf(s)] + it[s \ {AnyOf(s)}]]
    OBVIOUS
  <2>3. \A s \in SUBSET D : f[s] = g[s]
    <3> TAKE s \in SUBSET D
    <3>1. CASE s = {}
      BY <2>1, <2>2, <3>1
    <3>2. CASE s # {}
      BY <1>3, <2>1, <2>2, <3>2
    <3> QED
      BY <3>1, <3>2
  <2>4. f = g
    BY <2>1, <2>2, <2>3
  <2>5. CountsUp(D, it) <=> it = f
    BY <2>1 DEF CountsUp
  <2>6. SumsUp(FoundIn, D, it) <=> it = g
    BY <2>2 DEF SumsUp, AnyOf
  <2> QED
    BY <2>4, <2>5, <2>6
<1>5. (CHOOSE it : CountsUp(D, it)) = (CHOOSE it : SumsUp(FoundIn, D, it))
  BY <1>4
<1> QED
  BY <1>1, <1>2, <1>5, SumIsIterated

TotalsUp(ws, D, it) ==
  it = [s \in SUBSET D |-> IF s = {} THEN 0 ELSE ContractCount(ws, AnyOf(s)) + it[s \ {AnyOf(s)}]]

LEMMA TotalIsSumOfCounts ==
  ASSUME NEW ws, NEW k, \A i \in Contracts(ws) : k[i] = ContractCount(ws, i)
  PROVE  grand_total(ws) = SumFunctionOnSet(k, Contracts(ws))
<1>1. PICK D : D = Contracts(ws)
  OBVIOUS
<1>2. grand_total(ws) = (CHOOSE it : TotalsUp(ws, D, it))[D]
  BY <1>1 DEF grand_total, MapThenSumSet, MapThenFoldSet, TotalsUp, AnyOf
<1>3. ASSUME NEW s \in SUBSET D, s # {} PROVE ContractCount(ws, AnyOf(s)) = k[AnyOf(s)]
  BY <1>1, <1>3, AnyOfIn
<1>4. \A it : TotalsUp(ws, D, it) <=> SumsUp(k, D, it)
  <2> TAKE it
  <2>1. PICK f : f = [s \in SUBSET D |-> IF s = {} THEN 0
                        ELSE ContractCount(ws, AnyOf(s)) + it[s \ {AnyOf(s)}]]
    OBVIOUS
  <2>2. PICK g : g = [s \in SUBSET D |-> IF s = {} THEN 0
                        ELSE k[AnyOf(s)] + it[s \ {AnyOf(s)}]]
    OBVIOUS
  <2>3. \A s \in SUBSET D : f[s] = g[s]
    <3> TAKE s \in SUBSET D
    <3>1. CASE s = {}
      BY <2>1, <2>2, <3>1
    <3>2. CASE s # {}
      BY <1>3, <2>1, <2>2, <3>2
    <3> QED
      BY <3>1, <3>2
  <2>4. f = g
    BY <2>1, <2>2, <2>3
  <2>5. TotalsUp(ws, D, it) <=> it = f
    BY <2>1 DEF TotalsUp
  <2>6. SumsUp(k, D, it) <=> it = g
    BY <2>2 DEF SumsUp, AnyOf
  <2> QED
    BY <2>4, <2>5, <2>6
<1>5. (CHOOSE it : TotalsUp(ws, D, it)) = (CHOOSE it : SumsUp(k, D, it))
  BY <1>4
<1> QED
  BY <1>1, <1>2, <1>5, SumIsIterated

ScansTimes(ws, f) == Cardinality({i \in Contracts(ws) : f \in rs_files(ws, i)})
                       * (IF f.readable /\ f.inTime THEN f.finds ELSE 0)
ScansUp(ws, D, it) ==
  it = [s \in SUBSET D |-> IF s = {} THEN 0 ELSE ScansTimes(ws, AnyOf(s)) + it[s \ {AnyOf(s)}]]

LEMMA ScansAreSum ==
  ASSUME NEW ws, NEW D, NEW d, \A f \in D : d[f] = ScansTimes(ws, f)
  PROVE  MapThenSumSet(LAMBDA f : Cardinality({i \in Contracts(ws) : f \in rs_files(ws, i)})
                                    * (IF f.readable /\ f.inTime THEN f.finds ELSE 0), D)
           = SumFunctionOnSet(d, D)
<1>2. MapThenSumSet(LAMBDA f : Cardinality({i \in Contracts(ws) : f \in rs_files(ws, i)})
                                 * (IF f.readable /\ f.inTime THEN f.finds ELSE 0), D)
        = (CHOOSE it : ScansUp(ws, D, it))[D]
  BY DEF MapThenSumSet, MapThenFoldSet, ScansUp, ScansTimes, AnyOf
<1>3. ASSUME NEW s \in SUBSET D, s # {} PROVE ScansTimes(ws, AnyOf(s)) = d[AnyOf(s)]
  BY <1>3, AnyOfIn
<1>4. \A it : ScansUp(ws, D, it) <=> SumsUp(d, D, it)
  <2> TAKE it
  <2>1. PICK f : f = [s \in SUBSET D |-> IF s = {} THEN 0
                        ELSE ScansTimes(ws, AnyOf(s)) + it[s \ {AnyOf(s)}]]
    OBVIOUS
  <2>2. PICK g : g = [s \in SUBSET D |-> IF s = {} THEN 0
                        ELSE d[AnyOf(s)] + it[s \ {AnyOf(s)}]]
    OBVIOUS
  <2>3. \A s \in SUBSET D : f[s] = g[s]
    <3> TAKE s \in SUBSET D
    <3>1. CASE s = {}
      BY <2>1, <2>2, <3>1
    <3>2. CASE s # {}
      BY <1>3, <2>1, <2>2, <3>2
    <3> QED
      BY <3>1, <3>2
  <2>4. f = g
    BY <2>1, <2>2, <2>3
  <2>5. ScansUp(ws, D, it) <=> it = f
    BY <2>1 DEF ScansUp
  <2>6. SumsUp(d, D, it) <=> it = g
    BY <2>2 DEF SumsUp, AnyOf
  <2> QED
    BY <2>4, <2>5, <2>6
<1>5. (CHOOSE it : ScansUp(ws, D, it)) = (CHOOSE it : SumsUp(d, D, it))
  BY <1>4
<1> QED
  BY <1>2, <1>5, SumIsIterated

\* The members of a workspace, and every file of theirs.
WorkspaceTyped(ws) ==
  /\ \E S : ws \in Seq(S)
  /\ \A i \in DOMAIN ws : IsFiniteSet(ws[i].files) /\ ws[i].files \subseteq ScannedFiles
FilesOf(ws) == UNION {ws[i].files : i \in DOMAIN ws}

LEMMA WorkspaceFinite ==
  ASSUME NEW ws, WorkspaceTyped(ws)
  PROVE  /\ IsFiniteSet(DOMAIN ws) /\ IsFiniteSet(Contracts(ws)) /\ IsFiniteSet(FilesOf(ws))
         /\ FilesOf(ws) \subseteq ScannedFiles /\ Contracts(ws) \subseteq DOMAIN ws
         /\ \A i \in DOMAIN ws : rs_files(ws, i) \subseteq FilesOf(ws)
<1>1. PICK D : D = DOMAIN ws /\ IsFiniteSet(D)
  <2>1. PICK S : ws \in Seq(S)
    BY DEF WorkspaceTyped
  <2>2. PICK n \in Nat : DOMAIN ws = 1..n
    BY <2>1
  <2> QED
    BY <2>2, FS_Interval
<1>2. Contracts(ws) \subseteq D /\ IsFiniteSet(Contracts(ws))
  <2>1. Contracts(ws) \subseteq D
    BY <1>1 DEF Contracts
  <2> QED
    BY <1>1, <2>1, FS_Subset
<1>3. PICK h : h = [i \in D |-> ws[i].files]
  OBVIOUS
<1>4. \A i \in D : IsFiniteSet(h[i])
  BY <1>1, <1>3 DEF WorkspaceTyped
<1>5. PICK R : R = Range(h)
  OBVIOUS
<1>6. IsFiniteSet(R) /\ \A T \in R : IsFiniteSet(T)
  <2>1. h \in [D -> R]
    BY <1>3, <1>5 DEF Range
  <2>2. IsFiniteSet(R)
    BY <1>1, <1>5, <2>1, RangeIsFinite, Zenon
  <2> QED
    BY <1>3, <1>4, <1>5, <2>2 DEF Range
<1>7. FilesOf(ws) = UNION R
  BY <1>1, <1>3, <1>5 DEF FilesOf, Range
<1>8. IsFiniteSet(FilesOf(ws))
  BY <1>6, <1>7, FS_UNION
<1>9. FilesOf(ws) \subseteq ScannedFiles
  BY DEF FilesOf, WorkspaceTyped
<1>10. \A i \in DOMAIN ws : rs_files(ws, i) \subseteq FilesOf(ws)
  BY DEF rs_files, shared_lib_files, FilesOf, Contracts
<1> QED
  BY <1>1, <1>2, <1>8, <1>9, <1>10

LEMMA CountTyped ==
  ASSUME NEW ws, WorkspaceTyped(ws), NEW i \in DOMAIN ws
  PROVE  /\ IsFiniteSet(rs_files(ws, i)) /\ rs_files(ws, i) \subseteq ScannedFiles
         /\ ContractCount(ws, i) = SumFunctionOnSet(FoundIn, rs_files(ws, i))
         /\ ContractCount(ws, i) \in Int
<1>1. PICK F : F = rs_files(ws, i) /\ F \subseteq FilesOf(ws)
  BY WorkspaceFinite
<1>2. IsFiniteSet(F) /\ F \subseteq ScannedFiles
  <2>1. IsFiniteSet(FilesOf(ws)) /\ FilesOf(ws) \subseteq ScannedFiles
    BY WorkspaceFinite
  <2> QED
    BY <1>1, <2>1, FS_Subset
<1>3. ContractCount(ws, i) = SumFunctionOnSet(FoundIn, F)
  BY <1>1, <1>2, CountIsSum
<1>4. \A f \in F : FoundIn[f] \in Int
  BY <1>2, FoundIs
<1>5. SumFunctionOnSet(FoundIn, F) \in Int
  BY <1>2, <1>4, SumIsInt
<1> QED
  BY <1>1, <1>2, <1>3, <1>5

\* What the workspace command finds is what each file holds, as often as it is
\* scanned.
LEMMA TotalByFile ==
  ASSUME NEW ws, WorkspaceTyped(ws)
  PROVE  grand_total(ws) =
           MapThenSumSet(LAMBDA f : Cardinality({i \in Contracts(ws) : f \in rs_files(ws, i)})
                                      * (IF f.readable /\ f.inTime THEN f.finds ELSE 0), FilesOf(ws))
<1>1. PICK C, A : C = Contracts(ws) /\ A = FilesOf(ws)
  OBVIOUS
<1>2. IsFiniteSet(C) /\ IsFiniteSet(A) /\ C \subseteq DOMAIN ws /\ A \subseteq ScannedFiles
  BY <1>1, WorkspaceFinite
<1>3. PICK R : R = [i \in C |-> rs_files(ws, i)]
  OBVIOUS
<1>4. R \in [C -> SUBSET A]
  <2>1. \A i \in C : rs_files(ws, i) \in SUBSET A
    BY <1>1, <1>2, WorkspaceFinite
  <2> QED
    BY <1>3, <2>1
<1>5. PICK k : k = [i \in C |-> ContractCount(ws, i)]
  OBVIOUS
<1>6. \A i \in C : k[i] = SumFunctionOnSet(FoundIn, R[i])
  <2> TAKE i \in C
  <2>1. ContractCount(ws, i) = SumFunctionOnSet(FoundIn, rs_files(ws, i))
    BY <1>2, CountTyped
  <2> QED
    BY <1>3, <1>5, <2>1
<1>7. grand_total(ws) = SumFunctionOnSet(k, C)
  BY <1>1, <1>5, TotalIsSumOfCounts
<1>8. PICK d : d = [f \in A |-> ScansTimes(ws, f)]
  OBVIOUS
<1>9. \A f \in A : FoundIn[f] \in Nat
  BY <1>2, FoundIs
<1>10. \A f \in A : d[f] = Cardinality(Holders(C, R, f)) * FoundIn[f]
  <2> TAKE f \in A
  <2>1. Holders(C, R, f) = {i \in Contracts(ws) : f \in rs_files(ws, i)}
    BY <1>1, <1>3 DEF Holders
  <2>2. FoundIn[f] = IF f.readable /\ f.inTime THEN f.finds ELSE 0
    BY <1>2, FoundIs
  <2>3. d[f] = ScansTimes(ws, f)
    BY <1>8
  <2> QED
    BY <2>1, <2>2, <2>3 DEF ScansTimes
<1>11. SumFunctionOnSet(k, C) = SumFunctionOnSet(d, A)
  <2>1. \A s \in SUBSET C : \A e :
           (\A f \in A : e[f] = Cardinality(Holders(s, R, f)) * FoundIn[f])
             => SumFunctionOnSet(k, s) = SumFunctionOnSet(e, A)
    BY <1>2, <1>4, <1>6, <1>9, SumsSwap
  <2>2. C \in SUBSET C
    OBVIOUS
  <2> QED
    BY <1>10, <2>1, <2>2
<1>12. \A f \in A : d[f] = ScansTimes(ws, f)
  BY <1>8
<1>13. MapThenSumSet(LAMBDA f : Cardinality({i \in Contracts(ws) : f \in rs_files(ws, i)})
                                  * (IF f.readable /\ f.inTime THEN f.finds ELSE 0), A)
         = SumFunctionOnSet(d, A)
  BY <1>12, ScansAreSum
<1> QED
  BY <1>1, <1>7, <1>11, <1>13

LEMMA SharedScanned ==
  ASSUME NEW ws, NEW f \in shared_lib_files(ws)
  PROVE  {i \in Contracts(ws) : f \in rs_files(ws, i)} = Contracts(ws)
  BY DEF rs_files

\* A member more is never a finding less.
LEMMA MembersAdd ==
  ASSUME NEW ws, WorkspaceTyped(ws), NEW m, IsFiniteSet(m.files), m.files \subseteq ScannedFiles
  PROVE  grand_total(ws) <= grand_total(Append(ws, m))
<1>1. PICK S : ws \in Seq(S)
  BY DEF WorkspaceTyped
<1>2. PICK T : T = S \cup {m}
  OBVIOUS
<1>3. PICK n \in Nat : n = Len(ws) /\ DOMAIN ws = 1..n
  BY <1>1
<1>4. ws \in Seq(T)
  BY <1>1, <1>2
<1>5. PICK v : v = Append(ws, m)
  OBVIOUS
<1>6. /\ v \in Seq(T) /\ DOMAIN v = 1..(n + 1) /\ v[n + 1] = m
      /\ \A i \in 1..n : v[i] = ws[i]
  <2>0. m \in T
    BY <1>2
  <2>1. v \in Seq(T) /\ Len(v) = Len(ws) + 1 /\ (\A i \in 1..Len(ws) : v[i] = ws[i]) /\ v[Len(ws) + 1] = m
    BY <2>0, <1>4, <1>5, AppendProperties
  <2> QED
    BY <1>3, <2>1
<1>7. DOMAIN ws \subseteq DOMAIN v /\ \A i \in DOMAIN ws : v[i] = ws[i]
  BY <1>3, <1>6
<1>8. WorkspaceTyped(v)
  <2>1. ASSUME NEW i \in DOMAIN v PROVE IsFiniteSet(v[i].files) /\ v[i].files \subseteq ScannedFiles
    <3>1. CASE i = n + 1
      BY <1>6, <3>1
    <3>2. CASE i # n + 1
      <4>1. i \in DOMAIN ws /\ v[i] = ws[i]
        BY <1>3, <1>6, <3>2
      <4> QED
        BY <4>1 DEF WorkspaceTyped
    <3> QED
      BY <3>1, <3>2
  <2> QED
    BY <1>6, <2>1 DEF WorkspaceTyped
<1>9. Contracts(ws) \subseteq Contracts(v)
  BY <1>7 DEF Contracts
<1>10. shared_lib_files(ws) \subseteq shared_lib_files(v)
  BY <1>7 DEF shared_lib_files, Contracts
<1>11. \A i \in DOMAIN ws : rs_files(ws, i) \subseteq rs_files(v, i)
  BY <1>7, <1>10 DEF rs_files
<1>12. PICK b, c : b = [i \in Contracts(ws) |-> ContractCount(ws, i)]
                   /\ c = [i \in Contracts(v) |-> ContractCount(v, i)]
  OBVIOUS
<1>13. grand_total(ws) = SumFunctionOnSet(b, Contracts(ws))
       /\ grand_total(v) = SumFunctionOnSet(c, Contracts(v))
  BY <1>12, TotalIsSumOfCounts
<1>14. ASSUME NEW i \in Contracts(v) PROVE c[i] \in Int /\ 0 <= c[i]
  <2>1. i \in DOMAIN v
    BY DEF Contracts
  <2>2. PICK F : F = rs_files(v, i) /\ IsFiniteSet(F) /\ F \subseteq ScannedFiles
                 /\ ContractCount(v, i) = SumFunctionOnSet(FoundIn, F)
                 /\ ContractCount(v, i) \in Int
    BY <1>8, <2>1, CountTyped
  <2>3. \A f \in F : FoundIn[f] \in Int /\ 0 <= FoundIn[f]
    BY <2>2, FoundIs
  <2>4. SumFunctionOnSet(FoundIn, {}) <= SumFunctionOnSet(FoundIn, F)
    <3>1. {} \in SUBSET F
      OBVIOUS
    <3>2. \A f \in {} : FoundIn[f] \in Int /\ FoundIn[f] <= FoundIn[f]
      OBVIOUS
    <3> QED
      BY <2>2, <2>3, <3>1, <3>2, SumGrows
  <2>5. SumFunctionOnSet(FoundIn, {}) = 0
    BY SumOfNothing
  <2>6. c[i] = ContractCount(v, i)
    BY <1>12
  <2> QED
    BY <2>2, <2>4, <2>5, <2>6
<1>15. ASSUME NEW i \in Contracts(ws) PROVE b[i] \in Int /\ b[i] <= c[i]
  <2>1. i \in DOMAIN ws /\ i \in DOMAIN v /\ i \in Contracts(v)
    BY <1>7, <1>9 DEF Contracts
  <2>2. PICK E : E = rs_files(ws, i) /\ ContractCount(ws, i) = SumFunctionOnSet(FoundIn, E)
                 /\ ContractCount(ws, i) \in Int
    BY <2>1, CountTyped
  <2>3. PICK F : F = rs_files(v, i) /\ IsFiniteSet(F) /\ F \subseteq ScannedFiles
                 /\ ContractCount(v, i) = SumFunctionOnSet(FoundIn, F)
    BY <1>8, <2>1, CountTyped
  <2>4. E \in SUBSET F
    BY <1>11, <2>1, <2>2, <2>3
  <2>5. \A f \in F : FoundIn[f] \in Int /\ 0 <= FoundIn[f]
    BY <2>3, FoundIs
  <2>6. \A f \in E : FoundIn[f] \in Int /\ FoundIn[f] <= FoundIn[f]
    BY <2>4, <2>5
  <2>7. SumFunctionOnSet(FoundIn, E) <= SumFunctionOnSet(FoundIn, F)
    BY <2>3, <2>4, <2>5, <2>6, SumGrows
  <2>8. b[i] = ContractCount(ws, i) /\ c[i] = ContractCount(v, i)
    BY <1>12, <2>1
  <2> QED
    BY <2>2, <2>3, <2>7, <2>8
<1>16. IsFiniteSet(Contracts(v))
  BY <1>8, WorkspaceFinite
<1>17. SumFunctionOnSet(b, Contracts(ws)) <= SumFunctionOnSet(c, Contracts(v))
  BY <1>9, <1>14, <1>15, <1>16, SumGrows
<1> QED
  BY <1>5, <1>13, <1>17

\* What the subject of a state is in the parts that compare checks.
TwinsTyped ==
  /\ part = "rules" => subject \in Contract
  /\ part = "workspace" => WorkspaceTyped(subject)
  /\ part = "pattern" => \E S : subject.text \in Seq(S) /\ subject.pattern \in Seq(S)

(* Whatever the contract, the workspace or the pattern: checks written twice    *)
(* agree, or differ only where TwinsAgree says their walkers do, and the       *)
(* workspace command counts what each file holds once for each scan of it.     *)
THEOREM TwinsAgreeAnywhere ==
  ASSUME TwinsTyped PROVE TwinsAgree
<1>1. ASSUME part = "rules"
      PROVE  LET c == subject IN
       /\ ScanAuthGaps(c) \subseteq AuthGapRule(c)
       /\ \A i \in AuthGapRule(c) \ ScanAuthGaps(c) :
            ~SeesEvent(c[i].body, ExprWalker, StorageWrites \cup ExternalCalls)
       /\ PanicRule(c) = ScanPanics(c) /\ PanicRule(c) \subseteq UnsafePatterns(c)
       /\ LET rule == UnhandledResultRule(c)
              scan == ScanUnhandledResults(c) IN
          /\ \A p \in rule \ scan : "harg" \in UnderAt(c, p)
          /\ \A p \in scan \ rule : UnderAt(c, p) \cap {"closure", "op", "index"} # {}
       /\ StorageOperationRule(c, "set") \subseteq MethodCallRule(c, {"set", "set_all"})
       /\ MethodCallRule(c, {"set"}) \subseteq RegexRule(c, {e \in DOMAIN MethodOf : MethodOf[e] = "set"})
       /\ FunctionCallRule(c) \cap MethodCallRule(c, {"set"}) = {}
       /\ \A n \in RuleNames : RunByName(c, n) = {v \in RunAll(c) : v[1] = n}
       /\ ScanSmtBoundary(c) \cap {i \in DOMAIN c : c[i].item \in {"impl", "testimpl"}}
            \subseteq AuthGapRule(c) \cup {i \in DOMAIN c : IsReservedEntrypoint(c[i])}
                      \cup {i \in DOMAIN c : SeesEvent(c[i].body, ExprWalker, {"auth"})}
       /\ LET w == WasmSummary(c)
              steps == build_progress_events(w.total) IN
          /\ w.total <= CliCount(c) /\ (w.has_high <=> ScanAuthGaps(c) # {})
          /\ steps[5] = w.total /\ \A k \in 1..4 : steps[k] <= steps[k + 1]
  <2>1. PICK c : c = subject /\ c \in Contract
    BY <1>1 DEF TwinsTyped
  <2>2. /\ ScanAuthGaps(c) \subseteq AuthGapRule(c)
        /\ \A i \in AuthGapRule(c) \ ScanAuthGaps(c) :
             ~SeesEvent(c[i].body, ExprWalker, StorageWrites \cup ExternalCalls)
    BY <2>1, AuthScansAgree, Zenon
  <2>3. PanicRule(c) = ScanPanics(c) /\ PanicRule(c) \subseteq UnsafePatterns(c)
    BY <2>1, PanicScansAgree, Zenon
  <2>4. /\ \A p \in UnhandledResultRule(c) \ ScanUnhandledResults(c) : "harg" \in UnderAt(c, p)
        /\ \A p \in ScanUnhandledResults(c) \ UnhandledResultRule(c) :
             UnderAt(c, p) \cap {"closure", "op", "index"} # {}
    BY <2>1, ResultScansDiffer, Zenon
  <2>5. /\ StorageOperationRule(c, "set") \subseteq MethodCallRule(c, {"set", "set_all"})
        /\ MethodCallRule(c, {"set"}) \subseteq RegexRule(c, {e \in DOMAIN MethodOf : MethodOf[e] = "set"})
        /\ FunctionCallRule(c) \cap MethodCallRule(c, {"set"}) = {}
    BY YamlRulesNest, Zenon
  <2>6. \A n \in RuleNames : RunByName(c, n) = {v \in RunAll(c) : v[1] = n}
    BY RulesByName, Zenon
  <2>7. ScanSmtBoundary(c) \cap {i \in DOMAIN c : c[i].item \in {"impl", "testimpl"}}
          \subseteq AuthGapRule(c) \cup {i \in DOMAIN c : IsReservedEntrypoint(c[i])}
                    \cup {i \in DOMAIN c : SeesEvent(c[i].body, ExprWalker, {"auth"})}
    BY BoundaryCovered, Zenon
  <2>8. PICK w : w = WasmSummary(c)
    OBVIOUS
  <2>9. /\ w.total <= CliCount(c) /\ (w.has_high <=> ScanAuthGaps(c) # {})
        /\ build_progress_events(w.total)[5] = w.total
        /\ \A k \in 1..4 : build_progress_events(w.total)[k] <= build_progress_events(w.total)[k + 1]
    BY <2>1, <2>8, SummaryAddsUp, Zenon
  <2> QED
    BY <2>1, <2>2, <2>3, <2>4, <2>5, <2>6, <2>7, <2>8, <2>9, Zenon
<1>2. ASSUME part = "input"
      PROVE  \A len \in 0..30 :
         /\ analyzeAdmits(len) = validate_for_target(len, "browser")
         /\ validate_for_target(len, "browser") = "ok" => validate_for_target(len, "node") = "ok"
         /\ progressAdmits(len) # analyzeAdmits(len) => analyzeAdmits(len) = "memory"
  <2>1. \A len \in 0..30 : len \in Nat
    OBVIOUS
  <2> QED
    BY <2>1, BindingsAgree, Zenon
<1>3. ASSUME part = "workspace"
      PROVE  LET scans(f) == Cardinality({i \in Contracts(subject) : f \in rs_files(subject, i)})
                 finds(f) == IF f.readable /\ f.inTime THEN f.finds ELSE 0
                 shared == shared_lib_files(subject)
                 files == UNION {subject[i].files : i \in DOMAIN subject}
             IN /\ grand_total(subject) = MapThenSumSet(LAMBDA f : scans(f) * finds(f), files)
                /\ \A f \in shared : scans(f) = Cardinality(Contracts(subject))
                /\ \A m \in MembersTried : grand_total(subject) <= grand_total(Append(subject, m))
  <2>1. WorkspaceTyped(subject)
    BY <1>3 DEF TwinsTyped
  <2>2. grand_total(subject) =
           MapThenSumSet(LAMBDA f : Cardinality({i \in Contracts(subject) : f \in rs_files(subject, i)})
                                      * (IF f.readable /\ f.inTime THEN f.finds ELSE 0), FilesOf(subject))
    BY <2>1, TotalByFile
  <2>3. FilesOf(subject) = UNION {subject[i].files : i \in DOMAIN subject}
    BY DEF FilesOf
  <2>4. ASSUME NEW f \in shared_lib_files(subject)
        PROVE  Cardinality({i \in Contracts(subject) : f \in rs_files(subject, i)}) = Cardinality(Contracts(subject))
    <3>1. {i \in Contracts(subject) : f \in rs_files(subject, i)} = Contracts(subject)
      BY SharedScanned
    <3> QED
      BY <3>1
  <2>5. ASSUME NEW m \in MembersTried PROVE grand_total(subject) <= grand_total(Append(subject, m))
    BY <2>1, MembersAdd, MembersAssumption
  <2> QED
    BY <2>2, <2>3, <2>4, <2>5
<1>4. ASSUME part = "pattern"
      PROVE  LET stars == Cardinality(Stars(subject.pattern)) IN
       /\ stars = 1 => (MatchesPattern(subject.text, subject.pattern)
                          => \A i \in DOMAIN subject.pattern :
                               subject.pattern[i] \notin {Star} => subject.pattern[i] \in ToSet(subject.text))
       /\ stars = 0 => MatchesPattern(subject.text, subject.pattern)
                         = MatchesPattern(subject.text, <<Star>> \o subject.pattern \o <<Star>>)
  <2>0. PICK T : subject.text \in Seq(T) /\ subject.pattern \in Seq(T)
    BY <1>4 DEF TwinsTyped
  <2>2. PICK S : S = T \cup {Star}
    OBVIOUS
  <2>2a. Star \in S /\ T \subseteq S
    BY <2>2
  <2>1. PICK x, p : x = subject.text /\ p = subject.pattern /\ x \in Seq(S) /\ p \in Seq(S)
    BY <2>0, <2>2a
  <2>3. ASSUME Cardinality(Stars(p)) = 1, MatchesPattern(x, p), NEW i \in DOMAIN p, p[i] \notin {Star}
        PROVE  p[i] \in ToSet(x)
    BY <2>1, <2>3, OneStarKeeps
  <2>4. ASSUME Cardinality(Stars(p)) = 0
        PROVE  MatchesPattern(x, p) = MatchesPattern(x, <<Star>> \o p \o <<Star>>)
    <3>1. Stars(p) = {}
      <4>1. PICK n \in Nat : DOMAIN p = 1..n
        BY <2>1
      <4>2. IsFiniteSet(Stars(p))
        <5>1. IsFiniteSet(1..n) /\ Stars(p) \subseteq 1..n
          BY <4>1, FS_Interval DEF Stars
        <5> QED
          BY <5>1, FS_Subset
      <4> QED
        BY <2>4, <4>2, FS_EmptySet
    <3> QED
      BY <2>1, <2>2a, <3>1, StarsAround
  <2> QED
    BY <2>1, <2>3, <2>4
<1> QED
  BY <1>1, <1>2, <1>3, <1>4 DEF TwinsAgree
=============================================================================
