--------------------------- MODULE MultisigProofs ---------------------------
(***************************************************************************)
(* The multisig wallet for every finite set of addresses, every set of     *)
(* proposals and every list of signers: its types, the count of approvals, *)
(* the reachable threshold, and that the contract implements               *)
(* ApprovalWallet under the refinement mapping `Wallet`.                   *)
(***************************************************************************)
EXTENDS Multisig, FiniteSetTheorems, SequenceTheorems, TLAPS

IInv ==
  /\ MultisigTypeOK
  /\ ApprovalsAreCounted
  /\ ThresholdReachable

(* ApprovalWallet counts with the same operator.                           *)
LEMMA SameCardinality ==
  ASSUME NEW S
  PROVE  Wallet!Cardinality(S) = Cardinality(S)
  BY DEF Wallet!Cardinality, Cardinality

LEMMA ApproversFinite ==
  ASSUME NEW h
  PROVE  IsFiniteSet(approvers(h)) /\ Cardinality(approvers(h)) \in Nat
  <1>1. approvers(h) \in SUBSET Addresses
    BY DEF approvers
  <1>2. IsFiniteSet(approvers(h))
    BY <1>1, AddressesAssumption, FS_Subset
  <1>. QED  BY <1>2, FS_CardinalityType

(* Taking one element out of a list shortens it by one, adds no member and *)
(* makes no member appear twice.                                           *)
LEMMA WithoutOne ==
  ASSUME signers \in Seq(Addresses), NEW i \in DOMAIN signers
  PROVE  /\ without(i) \in Seq(Addresses)
         /\ Len(without(i)) = Len(signers) - 1
         /\ \A j \in 1..(Len(signers) - 1) :
              without(i)[j] = IF j < i THEN signers[j] ELSE signers[j + 1]
  <1>. DEFINE front == SubSeq(signers, 1, i - 1)
              back == SubSeq(signers, i + 1, Len(signers))
  <1>1. i \in 1..Len(signers) /\ Len(signers) \in Nat /\ i \in Int
    OBVIOUS
  <1>2. \A j \in 1..Len(signers) : signers[j] \in Addresses
    OBVIOUS
  <1>3. /\ front \in Seq(Addresses)
        /\ Len(front) = i - 1
        /\ \A j \in 1..(i - 1) : front[j] = signers[j]
    <2>1. 1 \in Int /\ i - 1 \in Int /\ \A j \in 1..(i - 1) : signers[j] \in Addresses
      BY <1>1, <1>2
    <2>2. /\ front \in Seq(Addresses)
          /\ Len(front) = IF 1 <= i - 1 THEN (i - 1) - 1 + 1 ELSE 0
          /\ \A j \in 1..((i - 1) - 1 + 1) : front[j] = signers[1 + j - 1]
      BY <2>1, SubSeqProperties
    <2>. QED  BY <1>1, <2>2
  <1>4. /\ back \in Seq(Addresses)
        /\ Len(back) = Len(signers) - i
        /\ \A j \in 1..(Len(signers) - i) : back[j] = signers[i + j]
    <2>1. /\ i + 1 \in Int /\ Len(signers) \in Int
          /\ \A j \in (i + 1)..Len(signers) : signers[j] \in Addresses
      BY <1>1, <1>2
    <2>2. /\ back \in Seq(Addresses)
          /\ Len(back) = IF i + 1 <= Len(signers) THEN Len(signers) - (i + 1) + 1 ELSE 0
          /\ \A j \in 1..(Len(signers) - (i + 1) + 1) : back[j] = signers[(i + 1) + j - 1]
      BY <2>1, SubSeqProperties
    <2>. QED  BY <1>1, <2>2
  <1>5. /\ front \o back \in Seq(Addresses)
        /\ Len(front \o back) = Len(front) + Len(back)
        /\ \A j \in 1..(Len(front) + Len(back)) :
             (front \o back)[j] = IF j <= Len(front) THEN front[j] ELSE back[j - Len(front)]
    BY <1>3, <1>4, ConcatProperties
  <1>6. without(i) = front \o back
    BY DEF without
  <1>. HIDE DEF front, back
  <1>7. ASSUME NEW j \in 1..(Len(signers) - 1)
        PROVE  without(i)[j] = IF j < i THEN signers[j] ELSE signers[j + 1]
    <2>0. /\ j \in 1..(Len(front) + Len(back))
          /\ Len(front) = i - 1
      BY <1>1, <1>3, <1>4
    <2>a. without(i)[j] = IF j <= i - 1 THEN front[j] ELSE back[j - (i - 1)]
      BY <1>5, <1>6, <2>0
    <2>1. CASE j < i
      <3>1. j <= i - 1 /\ j \in 1..(i - 1)
        BY <1>1, <2>1
      <3>. QED  BY <1>3, <2>a, <2>1, <3>1
    <2>2. CASE ~(j < i)
      <3>1. j - (i - 1) \in 1..(Len(signers) - i)
        BY <1>1, <2>2
      <3>2. without(i)[j] = back[j - (i - 1)]
        BY <1>1, <2>a, <2>2
      <3>3. back[j - (i - 1)] = signers[i + (j - (i - 1))]
        BY <1>4, <3>1
      <3>4. i + (j - (i - 1)) = j + 1
        BY <1>1
      <3>. QED  BY <2>2, <3>2, <3>3, <3>4
    <2>. QED  BY <2>1, <2>2
  <1>8. without(i) \in Seq(Addresses)
    BY <1>5, <1>6
  <1>9. Len(without(i)) = Len(signers) - 1
    BY <1>1, <1>3, <1>4, <1>5, <1>6
  <1>. QED  BY <1>7, <1>8, <1>9

(* What an executed proposal may do to the list and the threshold.         *)
LEMMA SignersStep ==
  ASSUME MultisigTypeOK, ThresholdReachable, NEW a \in Addresses, NEW n,
         \/ UNCHANGED <<signers, threshold>>
         \/ AddSigner(a)
         \/ RemoveSigner(a)
         \/ SetThreshold(n)
  PROVE  /\ signers' \in Seq(Addresses)
         /\ threshold' \in 1..Len(signers')
         /\ IsInjective(signers) => IsInjective(signers')
  <1>. USE DEF MultisigTypeOK, ThresholdReachable
  <1>0. Len(signers) \in Nat /\ DOMAIN signers = 1..Len(signers)
    OBVIOUS
  <1>1. CASE UNCHANGED <<signers, threshold>>
    BY <1>1
  <1>2. CASE AddSigner(a)
    <2>1. CASE a \in Range(signers)
      BY <1>2, <2>1 DEF AddSigner
    <2>2. CASE a \notin Range(signers)
      <3>1. signers' = Append(signers, a) /\ threshold' = threshold
        BY <1>2, <2>2 DEF AddSigner
      <3>2. /\ signers' \in Seq(Addresses)
            /\ Len(signers') = Len(signers) + 1
            /\ \A j \in 1..Len(signers) : signers'[j] = signers[j]
            /\ signers'[Len(signers) + 1] = a
        <4>1. signers \in Seq(Addresses)
          OBVIOUS
        <4>. QED  BY <3>1, <4>1, AppendProperties
      <3>3. ASSUME IsInjective(signers), NEW j \in DOMAIN signers', NEW k \in DOMAIN signers',
                   signers'[j] = signers'[k]
            PROVE  j = k
        <4>1. j \in 1..(Len(signers) + 1) /\ k \in 1..(Len(signers) + 1)
          BY <3>2
        <4>2. \A l \in 1..Len(signers) : signers[l] # a
          BY <1>0, <2>2 DEF Range
        <4>3. CASE j \in 1..Len(signers) /\ k \in 1..Len(signers)
          BY <1>0, <3>2, <3>3, <4>3 DEF IsInjective
        <4>4. CASE j = Len(signers) + 1 \/ k = Len(signers) + 1
          BY <1>0, <3>2, <3>3, <4>1, <4>2, <4>4
        <4>. QED  BY <1>0, <4>1, <4>3, <4>4
      <3>4. IsInjective(signers) => IsInjective(signers')
        BY <3>3 DEF IsInjective
      <3>5. threshold' \in 1..Len(signers')
        <4>1. Len(signers') = Len(signers) + 1 /\ threshold' = threshold
          BY <3>1, <3>2
        <4>2. threshold \in 1..Len(signers)
          OBVIOUS
        <4>. QED  BY <1>0, <4>1, <4>2
      <3>. QED  BY <3>2, <3>4, <3>5
    <2>. QED  BY <2>1, <2>2
  <1>3. CASE RemoveSigner(a)
    <2>1. CASE UNCHANGED signers
      BY <1>3, <2>1 DEF RemoveSigner
    <2>2. ASSUME NEW i \in DOMAIN signers, mayShrink, signers' = without(i)
          PROVE  /\ signers' \in Seq(Addresses)
                 /\ threshold' \in 1..Len(signers')
                 /\ IsInjective(signers) => IsInjective(signers')
      <3>1. /\ signers' \in Seq(Addresses)
            /\ Len(signers') = Len(signers) - 1
            /\ \A j \in 1..(Len(signers) - 1) :
                 signers'[j] = IF j < i THEN signers[j] ELSE signers[j + 1]
        BY <2>2, WithoutOne
      <3>2. threshold' = threshold /\ threshold < Len(signers)
        BY <1>0, <1>3, <2>2 DEF RemoveSigner, mayShrink
      <3>3. DOMAIN signers' = 1..(Len(signers) - 1)
        BY <3>1
      <3>4. ASSUME IsInjective(signers), NEW j \in DOMAIN signers', NEW k \in DOMAIN signers',
                   signers'[j] = signers'[k]
            PROVE  j = k
        <4>. DEFINE at(x) == IF x < i THEN x ELSE x + 1
        <4>1. at(j) \in DOMAIN signers /\ at(k) \in DOMAIN signers
          BY <1>0, <3>3
        <4>2. signers[at(j)] = signers[at(k)]
          BY <3>1, <3>3, <3>4
        <4>3. at(j) = at(k)
          BY <3>4, <4>1, <4>2 DEF IsInjective
        <4>. QED  BY <1>0, <3>3, <4>3
      <3>5. IsInjective(signers) => IsInjective(signers')
        BY <3>4 DEF IsInjective
      <3>6. threshold' \in 1..Len(signers')
        <4>1. threshold \in 1..Len(signers)
          OBVIOUS
        <4>. QED  BY <1>0, <3>1, <3>2, <4>1
      <3>. QED  BY <3>1, <3>5, <3>6
    <2>. QED  BY <1>3, <2>1, <2>2 DEF RemoveSigner
  <1>4. CASE SetThreshold(n)
    BY <1>4 DEF SetThreshold
  <1>. QED  BY <1>1, <1>2, <1>3, <1>4

(* Who can approve after it.                                               *)
LEMMA RangeStep ==
  ASSUME signers \in Seq(Addresses), NEW a \in Addresses
  PROVE  /\ AddSigner(a) => Range(signers') = Range(signers) \cup {a}
         /\ RemoveSigner(a) => Range(signers') \in {Range(signers), Range(signers) \ {a}}
  <1>0. Len(signers) \in Nat /\ DOMAIN signers = 1..Len(signers)
    OBVIOUS
  <1>1. ASSUME AddSigner(a)
        PROVE  Range(signers') = Range(signers) \cup {a}
    <2>1. CASE a \in Range(signers)
      BY <1>1, <2>1 DEF AddSigner
    <2>2. CASE a \notin Range(signers)
      <3>1. signers' = Append(signers, a)
        BY <1>1, <2>2 DEF AddSigner
      <3>2. /\ DOMAIN signers' = 1..(Len(signers) + 1)
            /\ \A j \in 1..Len(signers) : signers'[j] = signers[j]
            /\ signers'[Len(signers) + 1] = a
        BY <3>1, AppendProperties
      <3>3. 1..(Len(signers) + 1) = 1..Len(signers) \cup {Len(signers) + 1}
        BY <1>0
      <3>. QED  BY <1>0, <3>2, <3>3 DEF Range
    <2>. QED  BY <2>1, <2>2
  <1>2. ASSUME RemoveSigner(a)
        PROVE  Range(signers') \in {Range(signers), Range(signers) \ {a}}
    <2>1. CASE UNCHANGED signers
      BY <2>1
    <2>2. ASSUME NEW i \in DOMAIN signers, signers[i] = a, signers' = without(i)
          PROVE  Range(signers') \in {Range(signers), Range(signers) \ {a}}
      <3>0. /\ signers' \in Seq(Addresses)
            /\ Len(signers') = Len(signers) - 1
            /\ \A j \in 1..(Len(signers) - 1) :
                 signers'[j] = IF j < i THEN signers[j] ELSE signers[j + 1]
        BY <2>2, WithoutOne
      <3>1. /\ DOMAIN signers' = 1..(Len(signers) - 1)
            /\ \A j \in 1..(Len(signers) - 1) :
                 signers'[j] = IF j < i THEN signers[j] ELSE signers[j + 1]
        BY <3>0
      <3>2. Range(signers') \subseteq Range(signers)
        BY <1>0, <3>1 DEF Range
      <3>3. ASSUME NEW k \in DOMAIN signers, signers[k] # a
            PROVE  signers[k] \in Range(signers')
        <4>1. CASE k < i
          <5>1. k \in 1..(Len(signers) - 1)
            BY <1>0, <2>2, <4>1
          <5>. QED  BY <3>1, <4>1, <5>1 DEF Range
        <4>2. CASE k > i
          <5>1. k - 1 \in 1..(Len(signers) - 1) /\ ~(k - 1 < i) /\ (k - 1) + 1 = k
            BY <1>0, <2>2, <4>2
          <5>. QED  BY <3>1, <5>1 DEF Range
        <4>. QED  BY <1>0, <2>2, <3>3, <4>1, <4>2
      <3>4. Range(signers) \ {a} \subseteq Range(signers')
        BY <3>3 DEF Range
      <3>. QED  BY <3>2, <3>4
    <2>. QED  BY <1>2, <2>1, <2>2 DEF RemoveSigner
  <1>. QED  BY <1>1, <1>2

-----------------------------------------------------------------------------
LEMMA ProposeStep ==
  ASSUME IInv, NEW h \in Hashes, Propose(h)
  PROVE  IInv' /\ Wallet!Next
  <1>1. MultisigTypeOK'
    BY DEF Propose, Blank, IInv, MultisigTypeOK, ProposalInfo
  <1>2. approvers(h) = {} /\ \A k \in Hashes : approvers(k)' = approvers(k)
    BY DEF Propose, IInv, MultisigTypeOK, approvers
  <1>3. /\ \A k \in Hashes \ {h} : info'[k] = info[k]
        /\ info'[h] = Blank
        /\ proposed' = proposed \cup {h} /\ h \notin proposed
        /\ UNCHANGED <<signers, threshold, initial>>
    BY DEF Propose, IInv, MultisigTypeOK
  <1>4. ApprovalsAreCounted'
    BY <1>2, <1>3, FS_EmptySet DEF IInv, ApprovalsAreCounted, Blank
  <1>5. ThresholdReachable'
    BY <1>3 DEF IInv, ThresholdReachable
  <1>6. status[h] = "absent" /\ status' = [status EXCEPT ![h] = "pending"]
    <2>1. status[h] = "absent"
      BY <1>3 DEF status
    <2>2. status'[h] = "pending"
      BY <1>3 DEF status, Blank
    <2>3. \A k \in Hashes \ {h} : status'[k] = status[k]
      BY <1>3 DEF status
    <2>4. status' = [k \in Hashes |-> status'[k]]
      BY DEF status
    <2>5. [status EXCEPT ![h] = "pending"] =
             [k \in Hashes |-> IF k = h THEN "pending" ELSE status[k]]
      BY DEF status
    <2>. QED  BY <2>1, <2>2, <2>3, <2>4, <2>5
  <1>7. Wallet!Propose(h)
    BY <1>2, <1>3, <1>6 DEF Wallet!Propose
  <1>. QED  BY <1>1, <1>4, <1>5, <1>7 DEF IInv, Wallet!Next

LEMMA ApproveStep ==
  ASSUME IInv, NEW h \in Hashes, NEW a \in Addresses, Approve(a, h)
  PROVE  IInv' /\ Wallet!Next
  <1>1. info[h] \in ProposalInfo /\ info[h].approval_count \in Nat
    BY DEF IInv, MultisigTypeOK, ProposalInfo
  <1>2. MultisigTypeOK'
    BY <1>1 DEF Approve, pending, IInv, MultisigTypeOK, ProposalInfo
  <1>3. /\ a \notin approvers(h)
        /\ approvers(h)' = approvers(h) \cup {a}
        /\ \A k \in Hashes \ {h} : approvers(k)' = approvers(k)
    BY DEF Approve, notApproved, approvers
  <1>4. /\ \A k \in Hashes \ {h} : info'[k] = info[k]
        /\ info'[h].approval_count = info[h].approval_count + 1
        /\ info'[h].executed = info[h].executed
        /\ info'[h].cancelled = info[h].cancelled
        /\ UNCHANGED <<signers, threshold, proposed, initial>>
    BY <1>1 DEF Approve, IInv, MultisigTypeOK, ProposalInfo
  <1>5. ApprovalsAreCounted'
    <2>1. Cardinality(approvers(h)') = info'[h].approval_count
      BY <1>3, <1>4, ApproversFinite, FS_AddElement DEF IInv, ApprovalsAreCounted
    <2>. QED  BY <1>3, <1>4, <2>1 DEF IInv, ApprovalsAreCounted
  <1>6. ThresholdReachable'
    BY <1>4 DEF IInv, ThresholdReachable
  <1>7. status' = status
    BY <1>4 DEF status
  <1>8. status[h] = "pending"
    BY DEF Approve, pending, status
  <1>9. [k \in Hashes |-> approvers(k)]' = [[k \in Hashes |-> approvers(k)] EXCEPT ![h] = @ \cup {a}]
    BY <1>3
  <1>10. Wallet!Approve(a, h)
    BY <1>3, <1>4, <1>7, <1>8, <1>9 DEF Wallet!Approve, Approve
  <1>. QED  BY <1>2, <1>5, <1>6, <1>10 DEF IInv, Wallet!Next

LEMMA ExecuteStep ==
  ASSUME IInv, NEW h \in Hashes, Execute(h)
  PROVE  IInv' /\ Wallet!Next
  <1>. DEFINE fn == call[h].function
              arg == call[h].arg
  <1>0. /\ MultisigTypeOK /\ ApprovalsAreCounted /\ ThresholdReachable
        /\ pending(h) /\ info[h].approval_count >= threshold
        /\ Effect(h, fn, arg)
        /\ UNCHANGED <<proposed, approval, initial>>
    BY DEF IInv, Execute
  <1>1. \A k \in Hashes : info[k] \in ProposalInfo /\ approvers(k)' = approvers(k)
    BY <1>0 DEF MultisigTypeOK, approvers
  <1>2. \/ info' = executed(h)
        \/ fn = "cancel" /\ cancellable(arg) /\ info' = [executed(h) EXCEPT ![arg].cancelled = TRUE]
    BY <1>0 DEF Effect
  <1>3. /\ info' \in [Hashes -> ProposalInfo]
        /\ \A k \in Hashes : info'[k].approval_count = info[k].approval_count
    <2>1. /\ executed(h) \in [Hashes -> ProposalInfo]
          /\ \A k \in Hashes : executed(h)[k].approval_count = info[k].approval_count
      BY <1>0, <1>1 DEF executed, MultisigTypeOK, ProposalInfo
    <2>2. CASE info' = executed(h)
      BY <2>1, <2>2
    <2>3. CASE fn = "cancel" /\ info' = [executed(h) EXCEPT ![arg].cancelled = TRUE]
      <3>1. arg \in Hashes
        BY <2>3, CallAssumption
      <3>. HIDE DEF arg, fn
      <3>2. executed(h)[arg] \in ProposalInfo
        BY <2>1, <3>1
      <3>. QED  BY <2>1, <2>3, <3>1, <3>2 DEF ProposalInfo
    <2>. QED  BY <1>2, <2>2, <2>3
  <1>5. ApprovalsAreCounted'
    BY <1>0, <1>1, <1>3 DEF ApprovalsAreCounted
  <1>6. \/ UNCHANGED <<signers, threshold>>
        \/ arg \in Addresses /\ (AddSigner(arg) \/ RemoveSigner(arg))
        \/ SetThreshold(arg)
    BY <1>0, CallAssumption DEF Effect
  <1>7. /\ signers' \in Seq(Addresses)
        /\ threshold' \in 1..Len(signers')
        /\ IsInjective(signers) => IsInjective(signers')
    <2>1. CASE arg \in Addresses /\ (AddSigner(arg) \/ RemoveSigner(arg))
      BY <1>0, <2>1, SignersStep
    <2>2. CASE SetThreshold(arg)
      BY <1>0, <2>2 DEF SetThreshold, MultisigTypeOK
    <2>3. CASE UNCHANGED <<signers, threshold>>
      BY <1>0, <2>3 DEF ThresholdReachable, MultisigTypeOK
    <2>. QED  BY <1>6, <2>1, <2>2, <2>3
  <1>8. MultisigTypeOK' /\ ThresholdReachable'
    <2>1. threshold' \in Nat
      BY <1>7
    <2>. QED  BY <1>0, <1>3, <1>7, <2>1 DEF MultisigTypeOK, ThresholdReachable
  <1>9. Wallet!Carried(h)
    <2>1. Cardinality(approvers(h)) >= threshold
      BY <1>0 DEF ApprovalsAreCounted
    <2>2. status[h] = "pending"
      BY <1>0 DEF pending, status
    <2>3. [k \in Hashes |-> approvers(k)][h] = approvers(h)
      OBVIOUS
    <2>. QED  BY <2>1, <2>2, <2>3, SameCardinality DEF Wallet!Carried
  <1>10. UNCHANGED [k \in Hashes |-> approvers(k)]
    BY <1>1
  <1>11. CASE info' = executed(h) /\ fn # "cancel"
    <2>1. status' = [status EXCEPT ![h] = "executed"]
      BY <1>0, <1>1, <1>11 DEF executed, status, pending, MultisigTypeOK, ProposalInfo
    <2>2. \/ UNCHANGED <<Range(signers), threshold>>
          \/ /\ \E a \in Addresses :
                  Range(signers') \in {Range(signers) \cup {a}, Range(signers) \ {a}}
             /\ UNCHANGED threshold
          \/ threshold' \in Nat \ {0} /\ UNCHANGED Range(signers)
      <3>1. CASE arg \in Addresses /\ AddSigner(arg)
        BY <1>0, <3>1, RangeStep DEF AddSigner, MultisigTypeOK
      <3>2. CASE arg \in Addresses /\ RemoveSigner(arg)
        <4>1. /\ Range(signers') = Range(signers) \/ Range(signers') = Range(signers) \ {arg}
              /\ UNCHANGED threshold
          BY <1>0, <3>2, RangeStep DEF RemoveSigner, MultisigTypeOK
        <4>. QED  BY <3>2, <4>1
      <3>3. CASE SetThreshold(arg)
        BY <3>3 DEF SetThreshold
      <3>4. CASE UNCHANGED <<signers, threshold>>
        BY <3>4
      <3>. QED  BY <1>6, <3>1, <3>2, <3>3, <3>4
    <2>3. Wallet!Execute(h)
      BY <1>9, <1>10, <2>1, <2>2 DEF Wallet!Execute
    <2>. QED  BY <1>5, <1>8, <2>3 DEF IInv, Wallet!Next
  <1>12. CASE fn = "cancel"
    <2>1. /\ cancellable(arg) /\ info' = [executed(h) EXCEPT ![arg].cancelled = TRUE]
          /\ UNCHANGED <<signers, threshold>>
      BY <1>0, <1>12 DEF Effect
    <2>2. arg \in Hashes \ {h}
      BY <1>12, CallAssumption
    <2>3. status[arg] \in {"pending", "cancelled"}
      BY <1>0, <2>1, <2>2 DEF cancellable, status
    <2>4. status' = [status EXCEPT ![h] = "executed", ![arg] = "cancelled"]
      <3>1. /\ info'[h].executed /\ ~info'[h].cancelled
            /\ info'[arg].cancelled
            /\ \A k \in Hashes \ {h, arg} : info'[k] = info[k]
        BY <1>0, <1>1, <2>1, <2>2 DEF executed, pending, MultisigTypeOK, ProposalInfo
      <3>2. h \in proposed' /\ arg \in proposed' /\ proposed' = proposed
        BY <1>0, <2>1 DEF pending, cancellable
      <3>. QED  BY <2>2, <3>1, <3>2 DEF status
    <2>5. Wallet!Execute(h)
      BY <1>9, <1>10, <2>1, <2>2, <2>3, <2>4 DEF Wallet!Execute
    <2>. QED  BY <1>5, <1>8, <2>5 DEF IInv, Wallet!Next
  <1>13. info' = executed(h) \/ fn = "cancel"
    BY <1>2
  <1>. QED  BY <1>11, <1>12, <1>13

-----------------------------------------------------------------------------
LEMMA InitStep == Init => IInv /\ Wallet!Init
  <1>. SUFFICES ASSUME Init PROVE IInv /\ Wallet!Init
    OBVIOUS
  <1>1. signers \in Seq(Addresses) /\ threshold \in 1..Len(signers) /\ threshold \in Nat \ {0}
    BY AddressesAssumption DEF Init
  <1>2. MultisigTypeOK
    BY <1>1 DEF Init, Blank, MultisigTypeOK, ProposalInfo
  <1>3. \A h \in Hashes : approvers(h) = {}
    BY DEF Init, approvers
  <1>4. ApprovalsAreCounted
    BY <1>3, FS_EmptySet DEF Init, Blank, ApprovalsAreCounted
  <1>5. ThresholdReachable
    BY <1>1 DEF Init, ThresholdReachable
  <1>6. Range(signers) \in SUBSET Addresses
    BY <1>1 DEF Range
  <1>7. status = [h \in Hashes |-> "absent"]
    BY DEF Init, status
  <1>. QED  BY <1>1, <1>2, <1>3, <1>4, <1>5, <1>6, <1>7 DEF IInv, Wallet!Init

LEMMA NextStep ==
  ASSUME IInv, Next
  PROVE  IInv' /\ Wallet!Next
  <1>1. ASSUME NEW h \in Hashes, NEW a \in Addresses, Approve(a, h)
        PROVE  IInv' /\ Wallet!Next
    BY <1>1, ApproveStep
  <1>. QED  BY <1>1, ProposeStep, ExecuteStep DEF Next

LEMMA Stutter ==
  ASSUME IInv, UNCHANGED vars
  PROVE  IInv' /\ UNCHANGED Wallet!vars
  <1>1. MultisigTypeOK' /\ ThresholdReachable'
    BY DEF IInv, vars, MultisigTypeOK, ThresholdReachable
  <1>2. ApprovalsAreCounted'
    BY DEF IInv, vars, ApprovalsAreCounted, approvers
  <1>3. UNCHANGED Wallet!vars
    BY DEF vars, Wallet!vars, status, approvers
  <1>. QED  BY <1>1, <1>2, <1>3 DEF IInv

LEMMA Invariance == Spec => []IInv
  <1>1. IInv /\ [Next]_vars => IInv'
    BY NextStep, Stutter
  <1>. QED  BY <1>1, InitStep, PTL DEF Spec

(* The types of the wallet's storage.                                      *)
THEOREM MultisigTypes == Spec => []MultisigTypeOK
  BY Invariance, PTL DEF IInv

(* approval_count is the number of different addresses that approved.      *)
THEOREM CountIsApprovers == Spec => []ApprovalsAreCounted
  BY Invariance, PTL DEF IInv

(* The threshold stays within the number of signers, and a list without    *)
(* repetition stays one, so the threshold can always be met.               *)
THEOREM ThresholdCanBeMet == Spec => []ThresholdReachable
  BY Invariance, PTL DEF IInv

(* The contract implements the approval wallet.                            *)
THEOREM WalletKeepsPromise == Spec => KeepsPromise
  <1>1. IInv /\ [Next]_vars => [Wallet!Next]_(Wallet!vars)
    BY NextStep, Stutter
  <1>. QED  BY <1>1, InitStep, Invariance, PTL DEF Spec, KeepsPromise, Wallet!Spec
=============================================================================
