---------------------------- MODULE SignerCount ----------------------------
(* The loop with which the oracle and the bridge count who approves a call:    *)
(* a listed address counts once, when the contract trusts it; the host ends    *)
(* the call at the first one that did not sign it.                             *)
EXTENDS Naturals, Sequences, FiniteSets, SequencesExt

CONSTANTS Address,  \* those a list may name and those that sign
          MaxList   \* bound: the length of a list of addresses

ASSUME SignerAssumption == MaxList \in Nat

\* Lists of addresses, as init stores them and callers pass them: a list may
\* repeat an address.
Lists(A, n) == UNION {[1..k -> A] : k \in 0..n}

\* The loop without its list of addresses already counted.
CountStepRepeats(st, trusted, a, signed) ==
  IF a \notin Range(trusted) THEN st
  ELSE [processed |-> st.processed, count |-> st.count + 1,
        authorised |-> st.authorised /\ a \in signed]

CountStep(st, trusted, a, signed) ==
  IF a \notin Range(trusted) \/ a \in st.processed THEN st
  ELSE [processed |-> st.processed \cup {a}, count |-> st.count + 1,
        authorised |-> st.authorised /\ a \in signed]

\* listed: the addresses the caller names; signed: those that signed the call.
Count(trusted, listed, signed) ==
  FoldLeft(LAMBDA st, a : CountStep(st, trusted, a, signed),
           [processed |-> {}, count |-> 0, authorised |-> TRUE], listed)

Approved(trusted, threshold, listed, signed) ==
  LET c == Count(trusted, listed, signed) IN c.authorised /\ c.count >= threshold
=============================================================================
