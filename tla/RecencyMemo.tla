---------------------------- MODULE RecencyMemo -----------------------------
(***************************************************************************)
(* What a memo of bounded size that forgets the least recently asked       *)
(* promises: it knows in which order the keys it remembers were last       *)
(* asked about; only a question about a key it does not remember, asked    *)
(* when it is full, makes it forget another key, and then the one that     *)
(* was asked about before all others.                                      *)
(***************************************************************************)
EXTENDS Integers, FiniteSets

CONSTANTS Keys, Texts, Hash, Size, Nothing

VARIABLES
  before,  \* the pairs of remembered keys of which the first was last asked earlier
  memo,    \* what each key is remembered with
  reply    \* the last question and what it was answered

vars == <<before, memo, reply>>

Init == before = {} /\ memo = [k \in Keys |-> Nothing] /\ reply = Nothing

remembered == {k \in Keys : memo[k] # Nothing}

others(k) == remembered \ {k}

Known(k, t) == k \in remembered /\ Hash[memo[k]] = Hash[t]

Answer(k, t, u) == reply' = [key |-> k, source |-> t, value |-> u]

\* Of the keys K the order of before, and then k.
InOrder(K) == before \cap (K \X K)
ThenAsked(K, k) == InOrder(K) \cup (K \X {k})

Recall(k, t) ==
  /\ Known(k, t)
  /\ Answer(k, t, memo[k])
  /\ before' = ThenAsked(others(k), k)
  /\ UNCHANGED memo

Learn(k, t) ==
  /\ ~Known(k, t)
  /\ Answer(k, t, t)
  /\ \/ /\ Cardinality(others(k)) < Size
        /\ before' = ThenAsked(others(k), k)
        /\ memo' = [memo EXCEPT ![k] = t]
     \/ /\ Cardinality(others(k)) >= Size
        /\ \E first \in others(k) :
             /\ \A j \in others(k) \ {first} : <<first, j>> \in before
             /\ before' = ThenAsked(others(k) \ {first}, k)
             /\ memo' = [memo EXCEPT ![k] = t, ![first] = Nothing]

Forgotten(k) ==
  /\ before' = InOrder(others(k))
  /\ memo' = [memo EXCEPT ![k] = Nothing]

(* A question that is not known and is not answered either.                *)
Fail(k, t) == ~Known(k, t) /\ Answer(k, t, Nothing) /\ Forgotten(k)

Forget(k) == k \in remembered /\ Forgotten(k) /\ UNCHANGED reply

ForgetAll == before' = {} /\ memo' = [k \in Keys |-> Nothing] /\ UNCHANGED reply

Next ==
  \/ \E k \in Keys, t \in Texts : Recall(k, t) \/ Learn(k, t) \/ Fail(k, t)
  \/ \E k \in Keys : Forget(k)
  \/ ForgetAll

Spec == Init /\ [][Next]_vars
=============================================================================
