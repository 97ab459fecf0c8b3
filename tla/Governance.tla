----------------------------- MODULE Governance -----------------------------
(***************************************************************************)
(* contracts/governance over contracts/timelock and a token: an on-chain   *)
(* governor. Proposals are voted on with token balances, queued in the     *)
(* timelock when they have succeeded, and executed through it.             *)
(*                                                                         *)
(* The token is another contract: balance(a) and total_supply() are read   *)
(* at the moment of the call, and its holders move, receive and burn       *)
(* tokens at any time. Other accounts call the timelock directly.          *)
(***************************************************************************)
EXTENDS Timelock, FiniteSets, Sequences, Functions

CONSTANTS
  Holders,            \* token holders
  Governor,           \* the governor contract's own address
  Calls,              \* (target, function, args) of a proposal
  Descriptions,       \* the description; its SHA-256 is the salt
  Actions,            \* the sequences of calls that are proposed
  MaxProposals,       \* bound: proposals made
  MaxSupply,          \* bound: tokens in circulation
  quorum_bps, threshold_bps, voting_period, voting_delay, proposal_threshold

ASSUME ConfigAssumption ==
  /\ {quorum_bps, threshold_bps, voting_period, voting_delay,
      proposal_threshold, MaxProposals, MaxSupply} \subseteq Nat
  /\ IsFiniteSet(Holders) \* an address is 32 bytes
  /\ Governor \in Accounts
  /\ Governor \notin Holders
  /\ Actions \subseteq Seq(Calls)
  /\ Operations = Calls \X Descriptions

Ids == 1..MaxProposals

ProposalStates == {"Pending", "Active", "Canceled", "Defeated", "Succeeded",
                   "Queued", "Executed"}

Support == {"against", "for", "abstain"}

Proposal == [calls : Actions, description : Descriptions,
             start_time : Nat, end_time : Nat, votes : [Support -> Nat],
             executed : BOOLEAN, canceled : BOOLEAN, queued : BOOLEAN]

VARIABLES
  balance,    \* of the token
  supply,     \* total_supply() of the token
  latest,     \* DataKey::LatestId
  proposal,   \* DataKey::Proposal(id), for id in 1..latest
  voted,      \* DataKey::Votes: the (id, voter) that have voted
  cast,       \* history: the weight each voter had when it voted
  due,        \* history: when a queued proposal's calls were to be ready
  direct      \* history: the operations others scheduled in the timelock

tokenVars == <<balance, supply>>
governorVars == <<latest, proposal, voted, cast, due, direct>>
vars == <<timelockVars, tokenVars, governorVars>>

GovernanceTypeOK ==
  /\ TimelockTypeOK
  /\ balance \in [Holders -> Nat]
  /\ supply \in Int
  /\ latest \in 0..MaxProposals
  /\ proposal \in [1..latest -> Proposal]
  /\ voted \subseteq Ids \X Holders
  /\ cast \in [Ids \X Holders -> Nat]
  /\ due \in [Ids -> Nat]
  /\ direct \subseteq Operations

-----------------------------------------------------------------------------
ops(p) == {<<p.calls[i], p.description>> : i \in DOMAIN p.calls}

(* The loop of `queue` schedules a repeated call twice, which fails.       *)
repeats(p) == Cardinality(ops(p)) # Len(p.calls)

total_votes(p) == p.votes["for"] + p.votes["against"] + p.votes["abstain"]

quorumMissed(p) == (total_votes(p) * 10000) \div supply < quorum_bps

majorityMissed(p) ==
  LET support_votes == p.votes["for"] + p.votes["against"]
  IN \/ support_votes = 0
     \/ (p.votes["for"] * 10000) \div support_votes < threshold_bps

(* `state`. Past the vote it reads the supply of the moment and divides by *)
(* it: with no supply the call fails, which `readable` says.               *)
state(p) ==
  CASE p.canceled -> "Canceled"
    [] p.executed -> "Executed"
    [] now < p.start_time -> "Pending"
    [] now <= p.end_time -> "Active"
    [] quorumMissed(p) -> "Defeated"
    [] majorityMissed(p) -> "Defeated"
    [] p.queued -> "Queued"
    [] OTHER -> "Succeeded"

readable(p) == p.canceled \/ p.executed \/ now <= p.end_time \/ supply > 0

-----------------------------------------------------------------------------
total(b) == FoldFunction(+, 0, b)

Init ==
  /\ TimelockInit
  /\ balance \in [Holders -> 0..MaxSupply]
  /\ supply = total(balance)
  /\ supply \in 0..MaxSupply
  /\ latest = 0
  /\ proposal = <<>>
  /\ voted = {}
  /\ cast = [v \in Ids \X Holders |-> 0]
  /\ due = [id \in Ids |-> 0]
  /\ direct = {}

-----------------------------------------------------------------------------
newLatest(id) == id

(* `propose`.                                                              *)
Propose(h, calls, d) ==
  /\ latest < MaxProposals
  /\ balance[h] >= proposal_threshold
  /\ LET new == latest + 1
         start == now + voting_delay
         p == [calls |-> calls, description |-> d, start_time |-> start,
               end_time |-> start + voting_period, votes |-> [s \in Support |-> 0],
               executed |-> FALSE, canceled |-> FALSE, queued |-> FALSE]
     IN /\ latest' = newLatest(new)
        /\ proposal' = [id \in 1..new |-> IF id = new THEN p ELSE proposal[id]]
  /\ UNCHANGED <<timelockVars, tokenVars, voted, cast, due, direct>>

\* Fault: the end of the vote is not compared.
openFrom(p) == p.start_time <= now

open(p) == p.start_time <= now /\ now <= p.end_time

\* Fault: DataKey::Votes is not read.
neverVoted(id, h) == TRUE

firstVote(id, h) == <<id, h>> \notin voted

(* `cast_vote`: the weight is the balance of the moment.                   *)
CastVote(h, id, s) ==
  /\ open(proposal[id])
  /\ firstVote(id, h)
  /\ balance[h] # 0
  /\ proposal' = [proposal EXCEPT ![id].votes[s] = @ + balance[h]]
  /\ voted' = voted \cup {<<id, h>>}
  /\ cast' = [cast EXCEPT ![<<id, h>>] = balance[h]]
  /\ UNCHANGED <<timelockVars, tokenVars, latest, due, direct>>

succeeded(p) == readable(p) /\ state(p) = "Succeeded"

\* Fault: the proposal is not stored.
notMarked(id) == proposal

markedQueued(id) == [proposal EXCEPT ![id].queued = TRUE]

(* `queue`, by anyone: one transaction with the timelock's `schedule` of   *)
(* every call.                                                             *)
Queue(id) ==
  LET p == proposal[id]
  IN /\ succeeded(p)
     /\ ~repeats(p)
     /\ Schedule(Governor, ops(p), min_delay)
     /\ proposal' = markedQueued(id)
     /\ due' = [due EXCEPT ![id] = now + min_delay]
     /\ UNCHANGED <<tokenVars, latest, voted, cast, direct>>

\* Fault: the state is not read, only the executed flag.
notExecuted(p) == ~p.executed

executable(p) == readable(p) /\ ~p.executed /\ state(p) = "Queued"

(* `execute`, by anyone: one transaction with the timelock's `execute` of  *)
(* every call.                                                             *)
ExecuteProposal(id) ==
  LET p == proposal[id]
  IN /\ executable(p)
     /\ Execute(Governor, ops(p))
     /\ proposal' = [proposal EXCEPT ![id].executed = TRUE]
     /\ UNCHANGED <<tokenVars, latest, voted, cast, due, direct>>

-----------------------------------------------------------------------------
(* Others call the timelock themselves.                                    *)
DirectSchedule(a, op, d) ==
  /\ a # Governor
  /\ Schedule(a, {op}, d)
  /\ direct' = direct \cup {op}
  /\ UNCHANGED <<tokenVars, latest, proposal, voted, cast, due>>

DirectExecute(a, op) ==
  /\ a # Governor
  /\ Execute(a, {op})
  /\ UNCHANGED <<tokenVars, governorVars>>

DirectCancel(a, op) ==
  /\ a # Governor
  /\ Cancel(a, op)
  /\ UNCHANGED <<tokenVars, governorVars>>

Administer ==
  /\ \/ \E role \in Roles, a \in Accounts, active \in BOOLEAN : SetRole(role, a, active)
     \/ \E d \in Delays : UpdateDelay(d)
  /\ UNCHANGED <<tokenVars, governorVars>>

Close == Tick /\ UNCHANGED <<tokenVars, governorVars>>

(* The token's own calls: transfer, mint and burn.                         *)
Transfer(h, g, n) ==
  /\ h # g /\ n <= balance[h]
  /\ balance' = [balance EXCEPT ![h] = @ - n, ![g] = @ + n]
  /\ UNCHANGED <<timelockVars, supply, governorVars>>

Mint(h, n) ==
  /\ supply + n <= MaxSupply
  /\ balance' = [balance EXCEPT ![h] = @ + n]
  /\ supply' = supply + n
  /\ UNCHANGED <<timelockVars, governorVars>>

Burn(h, n) ==
  /\ n <= balance[h]
  /\ balance' = [balance EXCEPT ![h] = @ - n]
  /\ supply' = supply - n
  /\ UNCHANGED <<timelockVars, governorVars>>

Next ==
  \/ \E h \in Holders, calls \in Actions, d \in Descriptions : Propose(h, calls, d)
  \/ \E h \in Holders, id \in 1..latest, s \in Support : CastVote(h, id, s)
  \/ \E id \in 1..latest : Queue(id) \/ ExecuteProposal(id)
  \/ \E a \in Accounts, op \in Operations :
       \/ \E d \in Delays : DirectSchedule(a, op, d)
       \/ DirectExecute(a, op)
       \/ DirectCancel(a, op)
  \/ Administer
  \/ Close
  \/ \E h \in Holders, n \in 1..MaxSupply :
       \/ \E g \in Holders : Transfer(h, g, n)
       \/ Mint(h, n)
       \/ Burn(h, n)

Spec == Init /\ [][Next]_vars

-----------------------------------------------------------------------------
(* A queued proposal was carried: its vote is over and its final tally has *)
(* the majority. The tally that `queue` judged is final because no vote is *)
(* taken after the end, in whatever order votes, transfers and queue come. *)
QueuedWasCarried ==
  \A id \in 1..latest : proposal[id].queued =>
    now > proposal[id].end_time /\ ~majorityMissed(proposal[id])

Carries(id, op) == proposal[id].queued /\ op \in ops(proposal[id])

(* Nothing waits in the timelock and nothing has been invoked by it that a *)
(* carried proposal does not name, except what others scheduled themselves.*)
OnlyCarriedCallsRun ==
  \A op \in Scheduled \cup ran :
    op \in direct \/ \E id \in 1..latest : Carries(id, op)

(* What has been invoked had waited: a proposal that carries it was queued *)
(* and the delay of that moment has passed since, whatever was canceled,   *)
(* scheduled again by a twin proposal, or set by update_delay in between.  *)
CarriedCallsWait ==
  \A op \in ran :
    op \in direct \/ \E id \in 1..latest : Carries(id, op) /\ due[id] <= now

(* A proposal marked executed was queued, and each of its calls has been   *)
(* invoked.                                                                *)
ExecutedHasRun ==
  \A id \in 1..latest : proposal[id].executed =>
    proposal[id].queued /\ ops(proposal[id]) \subseteq ran

Weights(id) == [h \in {x \in Holders : <<id, x>> \in voted} |-> cast[<<id, h>>]]

(* The tally is the sum of one weight per voter: no balance is counted     *)
(* twice for the same address.                                             *)
TallyIsOneVoteEach ==
  \A id \in 1..latest : total_votes(proposal[id]) = total(Weights(id))
=============================================================================
