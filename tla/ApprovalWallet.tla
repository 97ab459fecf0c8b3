--------------------------- MODULE ApprovalWallet ---------------------------
(***************************************************************************)
(* What an M-of-N wallet promises: a proposal is executed at most once,    *)
(* when as many different addresses have approved it as are needed at that *)
(* moment, each of which was eligible when it approved; what is executed   *)
(* or cancelled stays so; and who is eligible, how many are needed and     *)
(* what is cancelled change only as the effect of an executed proposal,    *)
(* one change each.                                                        *)
(***************************************************************************)
EXTENDS Integers, FiniteSets

CONSTANTS Addresses, Hashes

VARIABLES
  eligible,   \* the addresses that may approve
  needs,      \* how many approvals a proposal needs
  status,     \* of each proposal
  backers     \* of each proposal, the addresses that have approved it

vars == <<eligible, needs, status, backers>>

Init ==
  /\ eligible \in SUBSET Addresses
  /\ needs \in Nat \ {0}
  /\ status = [h \in Hashes |-> "absent"]
  /\ backers = [h \in Hashes |-> {}]

Propose(h) ==
  /\ status[h] = "absent"
  /\ status' = [status EXCEPT ![h] = "pending"]
  /\ UNCHANGED <<eligible, needs, backers>>

Approve(a, h) ==
  /\ a \in eligible
  /\ status[h] = "pending"
  /\ a \notin backers[h]
  /\ backers' = [backers EXCEPT ![h] = @ \cup {a}]
  /\ UNCHANGED <<eligible, needs, status>>

Carried(h) == status[h] = "pending" /\ Cardinality(backers[h]) >= needs

(* Executed with no effect on the wallet itself, or with one.              *)
Execute(h) ==
  /\ Carried(h)
  /\ UNCHANGED backers
  /\ \/ /\ status' = [status EXCEPT ![h] = "executed"]
        /\ \/ UNCHANGED <<eligible, needs>>
           \/ /\ \E a \in Addresses : eligible' \in {eligible \cup {a}, eligible \ {a}}
              /\ UNCHANGED needs
           \/ needs' \in Nat \ {0} /\ UNCHANGED eligible
     \/ /\ \E k \in Hashes \ {h} :
             /\ status[k] \in {"pending", "cancelled"}
             /\ status' = [status EXCEPT ![h] = "executed", ![k] = "cancelled"]
        /\ UNCHANGED <<eligible, needs>>

Next ==
  \E h \in Hashes :
    \/ Propose(h)
    \/ \E a \in Addresses : Approve(a, h)
    \/ Execute(h)

Spec == Init /\ [][Next]_vars
=============================================================================
