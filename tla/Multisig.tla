------------------------------ MODULE Multisig ------------------------------
(***************************************************************************)
(* contracts/multisig: an M-of-N wallet.                                   *)
(*                                                                         *)
(* A proposal stands for its hash, SHA-256 of (target, function, args,     *)
(* salt); call[h] is what executing it does. A contract call is one        *)
(* transaction, a panic undoes it, and the host refuses to re-enter a      *)
(* contract on the call stack: so a failing call is no step, and the       *)
(* public cancel, add_signer, remove_signer and set_threshold, which need  *)
(* the wallet's own authorization, are reached through `execute` only.     *)
(***************************************************************************)
EXTENDS Integers, Sequences, FiniteSets, Functions

CONSTANTS
  Addresses,
  Hashes,       \* proposals that may be made
  call,         \* [function, arg] of each; "invoke" calls another contract
  SignerLists   \* the lists that init may be given

ASSUME AddressesAssumption ==
  IsFiniteSet(Addresses) /\ SignerLists \subseteq Seq(Addresses)

ASSUME CallAssumption ==
  \A h \in Hashes :
    \/ call[h].function = "invoke"
    \/ call[h].function \in {"add_signer", "remove_signer"} /\ call[h].arg \in Addresses
    \/ call[h].function = "set_threshold" /\ call[h].arg \in Nat
    \* A hash is not among the arguments it is computed from.
    \/ call[h].function = "cancel" /\ call[h].arg \in Hashes \ {h}

ProposalInfo == [approval_count : Nat, executed : BOOLEAN, cancelled : BOOLEAN]

VARIABLES
  signers,    \* DataKey::Signers
  threshold,  \* DataKey::Threshold
  proposed,   \* the hashes that have a DataKey::Proposal
  info,       \* DataKey::Proposal(hash), for those
  approval,   \* the <<hash, signer>> that have a DataKey::Approval
  initial     \* history: the list that init was given

vars == <<signers, threshold, proposed, info, approval, initial>>

approvers(h) == {a \in Addresses : <<h, a>> \in approval}

MultisigTypeOK ==
  /\ signers \in Seq(Addresses)
  /\ threshold \in Nat
  /\ proposed \subseteq Hashes
  /\ info \in [Hashes -> ProposalInfo]
  /\ approval \subseteq proposed \X Addresses
  /\ initial \in SignerLists

Blank == [approval_count |-> 0, executed |-> FALSE, cancelled |-> FALSE]

Init ==
  /\ signers \in SignerLists
  /\ threshold \in 1..Len(signers)
  /\ proposed = {}
  /\ info = [h \in Hashes |-> Blank]
  /\ approval = {}
  /\ initial = signers

-----------------------------------------------------------------------------
(* `propose`, by anyone; a proposal that exists is left alone.             *)
Propose(h) ==
  /\ h \notin proposed
  /\ proposed' = proposed \cup {h}
  /\ info' = [info EXCEPT ![h] = Blank]
  /\ UNCHANGED <<signers, threshold, approval, initial>>

pending(h) == h \in proposed /\ ~info[h].executed /\ ~info[h].cancelled

\* Fault: DataKey::Approval is not read.
neverApproved(h, a) == TRUE

notApproved(h, a) == <<h, a>> \notin approval

(* `approve`.                                                              *)
Approve(a, h) ==
  /\ a \in Range(signers)
  /\ pending(h)
  /\ notApproved(h, a)
  /\ info' = [info EXCEPT ![h].approval_count = @ + 1]
  /\ approval' = approval \cup {<<h, a>>}
  /\ UNCHANGED <<signers, threshold, proposed, initial>>

-----------------------------------------------------------------------------
(* `internal_add_signer`.                                                  *)
AddSigner(a) ==
  /\ signers' = IF a \in Range(signers) THEN signers ELSE Append(signers, a)
  /\ UNCHANGED threshold

\* Fault: the comparison is off by one.
mayShrinkToFewer == Len(signers) >= threshold

mayShrink == Len(signers) > threshold

without(i) == SubSeq(signers, 1, i - 1) \o SubSeq(signers, i + 1, Len(signers))

(* `internal_remove_signer`: the first of its occurrences.                 *)
RemoveSigner(a) ==
  /\ \/ a \notin Range(signers) /\ UNCHANGED signers
     \/ /\ mayShrink
        /\ \E i \in DOMAIN signers :
             /\ signers[i] = a
             /\ \A j \in 1..(i - 1) : signers[j] # a
             /\ signers' = without(i)
  /\ UNCHANGED threshold

(* `internal_set_threshold`.                                               *)
SetThreshold(n) ==
  /\ n \in 1..Len(signers)
  /\ threshold' = n
  /\ UNCHANGED signers

\* Fault: the executed flag is not read.
existsOnly(k) == k \in proposed

cancellable(k) == k \in proposed /\ ~info[k].executed

executed(h) == [info EXCEPT ![h].executed = TRUE]

(* What the executed call does: a failure here undoes the execution.       *)
Effect(h, fn, arg) ==
  \/ fn = "invoke" /\ info' = executed(h) /\ UNCHANGED <<signers, threshold>>
  \/ fn = "add_signer" /\ info' = executed(h) /\ AddSigner(arg)
  \/ fn = "remove_signer" /\ info' = executed(h) /\ RemoveSigner(arg)
  \/ fn = "set_threshold" /\ info' = executed(h) /\ SetThreshold(arg)
  \/ /\ fn = "cancel"
     /\ cancellable(arg)
     /\ info' = [executed(h) EXCEPT ![arg].cancelled = TRUE]
     /\ UNCHANGED <<signers, threshold>>

(* `execute`, by anyone.                                                   *)
Execute(h) ==
  /\ pending(h)
  /\ info[h].approval_count >= threshold
  /\ Effect(h, call[h].function, call[h].arg)
  /\ UNCHANGED <<proposed, approval, initial>>

Next ==
  \E h \in Hashes :
    \/ Propose(h)
    \/ \E a \in Addresses : Approve(a, h)
    \/ Execute(h)

Spec == Init /\ [][Next]_vars

-----------------------------------------------------------------------------
(* The counter is the number of different addresses that have approved,    *)
(* however often signers are removed, added again or listed twice.         *)
ApprovalsAreCounted ==
  \A h \in Hashes : info[h].approval_count = Cardinality(approvers(h))

(* The threshold can be met: it never exceeds the signers, and when init   *)
(* listed no address twice they remain different addresses.                *)
ThresholdReachable ==
  /\ threshold \in 1..Len(signers)
  /\ IsInjective(initial) => IsInjective(signers)

-----------------------------------------------------------------------------
status == [h \in Hashes |->
  IF h \notin proposed THEN "absent"
  ELSE IF info[h].cancelled THEN "cancelled"
  ELSE IF info[h].executed THEN "executed" ELSE "pending"]

Wallet == INSTANCE ApprovalWallet WITH
  eligible <- Range(signers),
  needs <- threshold,
  backers <- [h \in Hashes |-> approvers(h)]

(* The counter, the two flags and the list of the contract keep the        *)
(* promise of ApprovalWallet. When init listed an address twice, removing  *)
(* it once leaves it eligible, which the promise does not exclude.         *)
KeepsPromise == Wallet!Spec
=============================================================================
