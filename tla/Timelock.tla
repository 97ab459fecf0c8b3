------------------------------ MODULE Timelock ------------------------------
(***************************************************************************)
(* contracts/timelock: a role-based timelock controller.                   *)
(*                                                                         *)
(* An operation stands for (target, fn_name, args, salt): compute_hash is  *)
(* SHA-256 of the four, and the contract keys its storage by that hash. A  *)
(* contract call is one transaction: a panic undoes it, so a call that     *)
(* fails is no step. The host refuses to re-enter a contract that is on    *)
(* the call stack, so the call an operation makes cannot reach this        *)
(* contract again.                                                         *)
(***************************************************************************)
EXTENDS Integers

CONSTANTS
  Accounts,   \* addresses that may call
  Operations, \* (target, fn_name, args, salt)
  Delays,     \* values of delay and of update_delay
  Grants,     \* the <<role, address, active>> the admin sets
  Initial,    \* [role |-> addresses] that init was given
  MaxTime     \* bound: the last ledger timestamp considered

ASSUME DelaysAssumption == Delays \subseteq Nat
ASSUME MaxTimeAssumption == MaxTime \in Nat

NotScheduled == -1

Roles == {"proposer", "executor", "canceller"}

ASSUME RolesAssumption == Initial \in [Roles -> SUBSET Accounts]

VARIABLES
  now,        \* env.ledger().timestamp()
  min_delay,  \* DataKey::MinDelay
  has_role,   \* the addresses with DataKey::Proposer, Executor, Canceller true
  ready,      \* DataKey::Proposal: ready timestamp, or NotScheduled
  ran         \* history: the operations that were invoked

roleVars == <<min_delay, has_role>>
timelockVars == <<now, roleVars, ready, ran>>

TimelockTypeOK ==
  /\ now \in 0..MaxTime
  /\ min_delay \in Delays
  /\ has_role \in [Roles -> SUBSET Accounts]
  /\ ready \in [Operations -> Nat \cup {NotScheduled}]
  /\ ran \subseteq Operations

Scheduled == {op \in Operations : ready[op] # NotScheduled}

(* The contract after its one successful init.                             *)
TimelockInit ==
  /\ now = 0
  /\ min_delay \in Delays
  /\ has_role = Initial
  /\ ready = [op \in Operations |-> NotScheduled]
  /\ ran = {}

-----------------------------------------------------------------------------
(* set_proposer, set_executor and set_canceller, by the admin.             *)
SetRole(role, a, active) ==
  /\ <<role, a, active>> \in Grants
  /\ has_role' = [has_role EXCEPT ![role] = IF active THEN @ \cup {a} ELSE @ \ {a}]
  /\ UNCHANGED <<now, min_delay, ready, ran>>

UpdateDelay(d) ==
  /\ min_delay' = d
  /\ UNCHANGED <<now, has_role, ready, ran>>

(* `schedule`, once for each of ops in one transaction: all are scheduled  *)
(* or, if one of them is waiting already, none.                            *)
Schedule(a, ops, delay) ==
  /\ ops # {} => a \in has_role["proposer"]
  /\ delay >= min_delay
  /\ ops \cap Scheduled = {}
  /\ ready' = [op \in Operations |-> IF op \in ops THEN now + delay ELSE ready[op]]
  /\ UNCHANGED <<now, roleVars, ran>>

\* Fault: the ready timestamp is not compared.
ExecuteEarly(a, ops) ==
  /\ ops # {} => a \in has_role["executor"]
  /\ ops \subseteq Scheduled
  /\ ready' = [op \in Operations |-> IF op \in ops THEN NotScheduled ELSE ready[op]]
  /\ ran' = ran \cup ops
  /\ UNCHANGED <<now, roleVars>>

(* `execute`, once for each of ops in one transaction: removed from        *)
(* storage, then invoked.                                                  *)
Execute(a, ops) ==
  /\ ops # {} => a \in has_role["executor"]
  /\ \A op \in ops : op \in Scheduled /\ now >= ready[op]
  /\ ready' = [op \in Operations |-> IF op \in ops THEN NotScheduled ELSE ready[op]]
  /\ ran' = ran \cup ops
  /\ UNCHANGED <<now, roleVars>>

(* `cancel`: a proposer may cancel too, whoever scheduled the operation.   *)
Cancel(a, op) ==
  /\ a \in has_role["canceller"] \cup has_role["proposer"]
  /\ op \in Scheduled
  /\ ready' = [ready EXCEPT ![op] = NotScheduled]
  /\ UNCHANGED <<now, roleVars, ran>>

(* The ledger closes with a later timestamp.                               *)
Tick ==
  /\ now < MaxTime
  /\ now' = now + 1
  /\ UNCHANGED <<roleVars, ready, ran>>
=============================================================================
