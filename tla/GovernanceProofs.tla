-------------------------- MODULE GovernanceProofs --------------------------
(***************************************************************************)
(* The governor and the timelock, for every set of accounts, calls, delays *)
(* and every configuration: the safety invariants that Governance.cfg      *)
(* checks on a small instance. The argument is in three parts: the types;  *)
(* what no step ever takes back (StepKeeps); and the inductive invariant,  *)
(* which adds to the stated properties that an operation which still waits *)
(* in the timelock is not ready before its proposal is due.                *)
(***************************************************************************)
EXTENDS Governance, FoldLemmas, TLAPS

Queued(id) == proposal[id].queued

ScheduledWait ==
  \A op \in Scheduled :
    op \in direct \/ \E id \in 1..latest : Carries(id, op) /\ due[id] <= ready[op]

IInv ==
  /\ GovernanceTypeOK
  /\ QueuedWasCarried
  /\ ScheduledWait
  /\ CarriedCallsWait
  /\ ExecutedHasRun

(* The identity and the call list of a proposal never change, and what was *)
(* queued or executed stays so, with the tally and the due time it had.    *)
Keeps(id) ==
  /\ id \in 1..latest'
  /\ proposal'[id].calls = proposal[id].calls
  /\ proposal'[id].description = proposal[id].description
  /\ proposal'[id].end_time = proposal[id].end_time
  /\ proposal[id].executed => proposal'[id].executed
  /\ Queued(id) =>
       /\ Queued(id)'
       /\ proposal'[id].votes = proposal[id].votes
       /\ due'[id] = due[id]

LEMMA ProposalTyped ==
  ASSUME GovernanceTypeOK, NEW id \in 1..latest
  PROVE  /\ proposal[id] \in Proposal
         /\ id \in Ids
         /\ latest \in Nat
         /\ DOMAIN proposal = 1..latest
  BY ConfigAssumption DEF GovernanceTypeOK, Ids

(* `schedule`, `execute` and `cancel` keep the timelock's types.           *)
LEMMA TimelockStepTyped ==
  ASSUME GovernanceTypeOK,
         NEW a \in Accounts, NEW S \in SUBSET Operations, NEW d \in Delays,
         NEW op \in Operations,
         Schedule(a, S, d) \/ Execute(a, S) \/ Cancel(a, op)
  PROVE  TimelockTypeOK'
  <1>1. d \in Nat /\ now \in Nat
    BY DelaysAssumption, MaxTimeAssumption DEF GovernanceTypeOK, TimelockTypeOK
  <1>2. CASE Schedule(a, S, d)
    BY <1>1, <1>2 DEF Schedule, GovernanceTypeOK, TimelockTypeOK, roleVars
  <1>3. CASE Execute(a, S)
    BY <1>3 DEF Execute, GovernanceTypeOK, TimelockTypeOK, roleVars, NotScheduled
  <1>4. CASE Cancel(a, op)
    BY <1>4 DEF Cancel, GovernanceTypeOK, TimelockTypeOK, roleVars, NotScheduled
  <1>. QED  BY <1>2, <1>3, <1>4

LEMMA OpsTyped ==
  ASSUME NEW p \in Proposal
  PROVE  ops(p) \in SUBSET Operations
  <1>1. p.calls \in Seq(Calls) /\ p.description \in Descriptions
    BY ConfigAssumption DEF Proposal
  <1>. QED  BY <1>1, ConfigAssumption DEF ops

(* Every step keeps the types.                                             *)
LEMMA TypeStep ==
  ASSUME GovernanceTypeOK, Next
  PROVE  GovernanceTypeOK'
  <1>. USE ConfigAssumption DEF Ids
  <1>1. ASSUME NEW h \in Holders, NEW calls \in Actions, NEW d \in Descriptions,
               Propose(h, calls, d)
        PROVE  GovernanceTypeOK'
    <2>. DEFINE start == now + voting_delay
                p == [calls |-> calls, description |-> d, start_time |-> start,
                      end_time |-> start + voting_period,
                      votes |-> [s \in Support |-> 0],
                      executed |-> FALSE, canceled |-> FALSE, queued |-> FALSE]
    <2>1. latest \in Nat /\ now \in Nat
      BY MaxTimeAssumption DEF GovernanceTypeOK, TimelockTypeOK
    <2>2. p \in Proposal
      BY <2>1 DEF Proposal
    <2>3. /\ latest' = latest + 1
          /\ proposal' = [id \in 1..latest + 1 |-> IF id = latest + 1 THEN p ELSE proposal[id]]
      BY <1>1 DEF Propose, newLatest
    <2>4. latest' \in 0..MaxProposals
      BY <1>1, <2>1, <2>3 DEF Propose, GovernanceTypeOK
    <2>5. proposal' \in [1..latest' -> Proposal]
      BY <2>1, <2>2, <2>3 DEF GovernanceTypeOK
    <2>6. TimelockTypeOK'
      BY <1>1 DEF Propose, GovernanceTypeOK, TimelockTypeOK, timelockVars, roleVars
    <2>. QED  BY <1>1, <2>4, <2>5, <2>6 DEF Propose, GovernanceTypeOK, tokenVars
  <1>2. ASSUME NEW h \in Holders, NEW id \in 1..latest, NEW s \in Support,
               CastVote(h, id, s)
        PROVE  GovernanceTypeOK'
    <2>1. proposal[id] \in Proposal /\ id \in Ids
      BY ProposalTyped
    <2>2. balance[h] \in Nat
      BY DEF GovernanceTypeOK
    <2>3. [proposal[id] EXCEPT !.votes[s] = @ + balance[h]] \in Proposal
      <3>. DEFINE v == [proposal[id].votes EXCEPT ![s] = @ + balance[h]]
      <3>0. proposal[id].votes \in [Support -> Nat]
        BY <2>1 DEF Proposal
      <3>1. v \in [Support -> Nat]
        <4>1. proposal[id].votes[s] + balance[h] \in Nat
          BY <3>0, <2>2
        <4>. QED  BY <3>0, <4>1
      <3>2. [proposal[id] EXCEPT !.votes = v] \in Proposal
        BY <2>1, <3>1 DEF Proposal
      <3>. QED  BY <3>2
    <2>4. proposal' \in [1..latest' -> Proposal]
      BY <1>2, <2>3 DEF CastVote, GovernanceTypeOK
    <2>5. voted' \subseteq Ids \X Holders /\ cast' \in [Ids \X Holders -> Nat]
      BY <1>2, <2>1, <2>2 DEF CastVote, GovernanceTypeOK
    <2>6. TimelockTypeOK'
      BY <1>2 DEF CastVote, GovernanceTypeOK, TimelockTypeOK, timelockVars, roleVars
    <2>. QED  BY <1>2, <2>4, <2>5, <2>6 DEF CastVote, GovernanceTypeOK, tokenVars
  <1>3. ASSUME NEW id \in 1..latest, Queue(id)
        PROVE  GovernanceTypeOK'
    <2>1. proposal[id] \in Proposal /\ id \in Ids
      BY ProposalTyped
    <2>2. TimelockTypeOK'
      <3>1. ops(proposal[id]) \in SUBSET Operations
        BY <2>1, OpsTyped
      <3>2. Schedule(Governor, ops(proposal[id]), min_delay)
        BY <1>3 DEF Queue
      <3>3. min_delay \in Delays /\ now \in Nat
        BY MaxTimeAssumption DEF GovernanceTypeOK, TimelockTypeOK
      <3>. QED
        BY <3>1, <3>2, <3>3, DelaysAssumption
        DEF Schedule, GovernanceTypeOK, TimelockTypeOK, roleVars
    <2>3. proposal' \in [1..latest' -> Proposal]
      BY <1>3, <2>1 DEF Queue, markedQueued, GovernanceTypeOK, Proposal
    <2>4. now + min_delay \in Nat
      BY MaxTimeAssumption, DelaysAssumption DEF GovernanceTypeOK, TimelockTypeOK
    <2>5. due' \in [Ids -> Nat]
      BY <1>3, <2>1, <2>4 DEF Queue, GovernanceTypeOK
    <2>. QED  BY <1>3, <2>2, <2>3, <2>5 DEF Queue, GovernanceTypeOK, tokenVars
  <1>4. ASSUME NEW id \in 1..latest, ExecuteProposal(id)
        PROVE  GovernanceTypeOK'
    <2>1. proposal[id] \in Proposal
      BY ProposalTyped
    <2>2. TimelockTypeOK'
      <3>1. ops(proposal[id]) \in SUBSET Operations
        BY <2>1, OpsTyped
      <3>2. Execute(Governor, ops(proposal[id]))
        BY <1>4 DEF ExecuteProposal
      <3>. QED
        BY <3>1, <3>2
        DEF Execute, GovernanceTypeOK, TimelockTypeOK, roleVars, NotScheduled
    <2>3. proposal' \in [1..latest' -> Proposal]
      BY <1>4, <2>1 DEF ExecuteProposal, GovernanceTypeOK, Proposal
    <2>. QED  BY <1>4, <2>2, <2>3 DEF ExecuteProposal, GovernanceTypeOK, tokenVars
  <1>5. ASSUME NEW a \in Accounts, NEW op \in Operations, NEW d \in Delays,
               \/ DirectSchedule(a, op, d)
               \/ DirectExecute(a, op)
               \/ DirectCancel(a, op)
        PROVE  GovernanceTypeOK'
    <2>1. TimelockTypeOK'
      BY <1>5, TimelockStepTyped DEF DirectSchedule, DirectExecute, DirectCancel
    <2>. QED
      BY <1>5, <2>1
      DEF DirectSchedule, DirectExecute, DirectCancel, GovernanceTypeOK,
          tokenVars, governorVars
  <1>6. ASSUME Administer
        PROVE  GovernanceTypeOK'
    <2>1. ASSUME NEW r \in Roles, NEW a \in Accounts, NEW active \in BOOLEAN,
                 SetRole(r, a, active)
          PROVE  TimelockTypeOK'
      BY <2>1 DEF SetRole, GovernanceTypeOK, TimelockTypeOK
    <2>2. ASSUME NEW d \in Delays, UpdateDelay(d)
          PROVE  TimelockTypeOK'
      BY <2>2 DEF UpdateDelay, GovernanceTypeOK, TimelockTypeOK
    <2>3. TimelockTypeOK'
      BY <1>6, <2>1, <2>2 DEF Administer
    <2>. QED
      BY <1>6, <2>3 DEF Administer, GovernanceTypeOK, tokenVars, governorVars
  <1>7. ASSUME Close
        PROVE  GovernanceTypeOK'
    <2>1. TimelockTypeOK'
      BY <1>7, MaxTimeAssumption
      DEF Close, Tick, GovernanceTypeOK, TimelockTypeOK, roleVars
    <2>. QED  BY <1>7, <2>1 DEF Close, GovernanceTypeOK, tokenVars, governorVars
  <1>8. ASSUME NEW h \in Holders, NEW n \in 1..MaxSupply, NEW g \in Holders,
               Transfer(h, g, n) \/ Mint(h, n) \/ Burn(h, n)
        PROVE  GovernanceTypeOK'
    <2>1. balance[h] \in Nat /\ balance[g] \in Nat /\ n \in Nat /\ supply \in Int
      BY DEF GovernanceTypeOK
    <2>2. balance' \in [Holders -> Nat] /\ supply' \in Int
      <3>1. CASE Transfer(h, g, n)
        BY <3>1, <2>1 DEF Transfer, GovernanceTypeOK
      <3>2. CASE Mint(h, n)
        BY <3>2, <2>1 DEF Mint, GovernanceTypeOK
      <3>3. CASE Burn(h, n)
        BY <3>3, <2>1 DEF Burn, GovernanceTypeOK
      <3>. QED  BY <1>8, <3>1, <3>2, <3>3
    <2>3. TimelockTypeOK'
      BY <1>8
      DEF Transfer, Mint, Burn, GovernanceTypeOK, TimelockTypeOK, timelockVars, roleVars
    <2>. QED
      BY <1>8, <2>2, <2>3 DEF Transfer, Mint, Burn, GovernanceTypeOK, governorVars
  <1>9. \A a \in Accounts, op \in Operations :
          DirectExecute(a, op) \/ DirectCancel(a, op) => GovernanceTypeOK'
    <2>1. min_delay \in Delays
      BY DEF GovernanceTypeOK, TimelockTypeOK
    <2>. QED  BY <1>5, <2>1
  <1>. QED
    BY <1>1, <1>2, <1>3, <1>4, <1>5, <1>6, <1>7, <1>8, <1>9 DEF Next

-----------------------------------------------------------------------------
(* What no step takes back.                                                *)
LEMMA StepKeeps ==
  ASSUME GovernanceTypeOK, QueuedWasCarried, Next
  PROVE  /\ \A id \in 1..latest : Keeps(id)
         /\ now <= now'
         /\ direct \subseteq direct'
         /\ ran \subseteq ran'
  <1>. USE DEF Keeps, Queued
  <1>0. now \in Nat /\ latest \in Nat
    BY ConfigAssumption, MaxTimeAssumption DEF GovernanceTypeOK, TimelockTypeOK
  <1>1. ASSUME NEW h \in Holders, NEW calls \in Actions, NEW d \in Descriptions,
               Propose(h, calls, d)
        PROVE  /\ \A id \in 1..latest : Keeps(id)
               /\ UNCHANGED <<now, direct, ran>>
    <2>1. \A id \in 1..latest : id \in 1..latest' /\ proposal'[id] = proposal[id]
      BY <1>0, <1>1 DEF Propose, newLatest
    <2>. QED  BY <1>1, <2>1 DEF Propose, timelockVars
  <1>2. ASSUME NEW h \in Holders, NEW i \in 1..latest, NEW s \in Support,
               CastVote(h, i, s)
        PROVE  /\ \A id \in 1..latest : Keeps(id)
               /\ UNCHANGED <<now, direct, ran>>
    <2>1. proposal[i] \in Proposal /\ DOMAIN proposal = 1..latest
      BY ProposalTyped
    <2>2. ~Queued(i)
      BY <1>0, <1>2, <2>1 DEF CastVote, open, QueuedWasCarried, Proposal
    <2>. QED  BY <1>2, <2>1, <2>2 DEF CastVote, timelockVars, Proposal
  <1>3. ASSUME NEW i \in 1..latest, Queue(i)
        PROVE  /\ \A id \in 1..latest : Keeps(id)
               /\ UNCHANGED <<now, direct, ran>>
    <2>1. proposal[i] \in Proposal /\ DOMAIN proposal = 1..latest /\ i \in Ids
      BY ProposalTyped
    <2>2. ~Queued(i)
      BY <1>3 DEF Queue, succeeded, state
    <2>3. /\ proposal' = [proposal EXCEPT ![i].queued = TRUE]
          /\ \A id \in Ids : id # i => due'[id] = due[id]
      BY <1>3 DEF Queue, markedQueued, GovernanceTypeOK
    <2>4. UNCHANGED <<latest, now, direct, ran>>
      BY <1>3 DEF Queue, Schedule
    <2>5. 1..latest \subseteq Ids
      BY ProposalTyped
    <2>. QED  BY <2>1, <2>2, <2>3, <2>4, <2>5 DEF Proposal
  <1>4. ASSUME NEW i \in 1..latest, ExecuteProposal(i)
        PROVE  /\ \A id \in 1..latest : Keeps(id)
               /\ UNCHANGED <<now, direct>>
               /\ ran \subseteq ran'
    <2>1. proposal[i] \in Proposal /\ DOMAIN proposal = 1..latest
      BY ProposalTyped
    <2>. QED  BY <1>4, <2>1 DEF ExecuteProposal, Execute, Proposal
  <1>5. ASSUME NEW a \in Accounts, NEW op \in Operations, NEW d,
               \/ DirectSchedule(a, op, d)
               \/ DirectExecute(a, op)
               \/ DirectCancel(a, op)
        PROVE  /\ UNCHANGED <<latest, proposal, due, now>>
               /\ direct \subseteq direct'
               /\ ran \subseteq ran'
    BY <1>5
    DEF DirectSchedule, DirectExecute, DirectCancel, Schedule, Execute, Cancel, governorVars
  <1>6. ASSUME \/ Administer
               \/ Close
               \/ \E h \in Holders, n \in 1..MaxSupply :
                    \/ \E g \in Holders : Transfer(h, g, n)
                    \/ Mint(h, n)
                    \/ Burn(h, n)
        PROVE  /\ UNCHANGED <<latest, proposal, due, direct, ran>>
               /\ now <= now'
    <2>1. CASE Administer
      <3>1. UNCHANGED governorVars
        BY <2>1 DEF Administer
      <3>2. UNCHANGED <<now, ran>>
        BY <2>1 DEF Administer, SetRole, UpdateDelay
      <3>. QED  BY <1>0, <3>1, <3>2 DEF governorVars
    <2>2. CASE Close
      BY <1>0, <2>2 DEF Close, Tick, governorVars
    <2>3. ASSUME NEW h \in Holders, NEW n \in 1..MaxSupply, NEW g \in Holders,
                 Transfer(h, g, n) \/ Mint(h, n) \/ Burn(h, n)
          PROVE  UNCHANGED <<latest, proposal, due, direct, ran, now>>
      BY <2>3 DEF Transfer, Mint, Burn, timelockVars, governorVars
    <2>. QED  BY <1>0, <1>6, <2>1, <2>2, <2>3
  <1>. QED
    BY <1>0, <1>1, <1>2, <1>3, <1>4, <1>5, <1>6 DEF Next

(* The tally decides: equal votes, equal majority.                         *)
LEMMA MajorityOfTally ==
  ASSUME NEW p, NEW q, p.votes = q.votes
  PROVE  majorityMissed(p) <=> majorityMissed(q)
  BY DEF majorityMissed

(* A proposal that is queued goes on carrying its calls.                   *)
LEMMA StillCarried ==
  ASSUME NEW id \in 1..latest, Keeps(id), NEW op, Carries(id, op)
  PROVE  Carries(id, op)' /\ due'[id] = due[id] /\ id \in 1..latest'
  BY DEF Keeps, Queued, Carries, ops

(* `schedule`, `execute` and `cancel`, in terms of what waits and has run: *)
(* only what the governor or a direct caller schedules begins to wait, and *)
(* only what waited and is ready is invoked.                               *)
LEMMA TimelockStep ==
  ASSUME GovernanceTypeOK, Next, NEW op \in Operations
  PROVE  /\ op \in Scheduled' =>
              \/ op \in Scheduled /\ ready'[op] = ready[op]
              \/ op \in direct'
              \/ \E id \in 1..latest :
                   Queue(id) /\ op \in ops(proposal[id]) /\ ready'[op] = now + min_delay
         /\ op \in ran' => op \in ran \/ (op \in Scheduled /\ ready[op] <= now)
  <1>. USE DEF Scheduled
  <1>1. ASSUME NEW id \in 1..latest, Queue(id)
        PROVE  /\ ready' = [o \in Operations |->
                              IF o \in ops(proposal[id]) THEN now + min_delay ELSE ready[o]]
               /\ ran' = ran
    BY <1>1 DEF Queue, Schedule
  <1>2. ASSUME NEW id \in 1..latest, ExecuteProposal(id)
        PROVE  /\ op \in Scheduled' => ready'[op] = ready[op]
               /\ op \in ran' => op \in ran \/ (op \in Scheduled /\ ready[op] <= now)
    <2>1. Execute(Governor, ops(proposal[id]))
      BY <1>2 DEF ExecuteProposal
    <2>2. now \in Nat /\ ready[op] \in Int
      BY MaxTimeAssumption DEF GovernanceTypeOK, TimelockTypeOK, NotScheduled
    <2>. QED  BY <2>1, <2>2 DEF Execute
  <1>3. ASSUME NEW a \in Accounts, NEW o \in Operations, NEW d \in Delays,
               DirectSchedule(a, o, d)
        PROVE  /\ op \in Scheduled' => ready'[op] = ready[op] \/ op \in direct'
               /\ ran' = ran
    BY <1>3 DEF DirectSchedule, Schedule
  <1>4. ASSUME NEW a \in Accounts, NEW o \in Operations,
               DirectExecute(a, o) \/ DirectCancel(a, o)
        PROVE  /\ op \in Scheduled' => ready'[op] = ready[op]
               /\ op \in ran' => op \in ran \/ (op \in Scheduled /\ ready[op] <= now)
    <2>1. now \in Nat /\ ready[op] \in Int /\ ready \in [Operations -> Int]
      BY MaxTimeAssumption DEF GovernanceTypeOK, TimelockTypeOK, NotScheduled
    <2>. QED  BY <1>4, <2>1 DEF DirectExecute, DirectCancel, Execute, Cancel
  <1>5. ASSUME \/ \E h \in Holders, calls \in Actions, d \in Descriptions :
                    Propose(h, calls, d)
               \/ \E h \in Holders, id \in 1..latest, s \in Support : CastVote(h, id, s)
               \/ Administer
               \/ Close
               \/ \E h \in Holders, n \in 1..MaxSupply :
                    \/ \E g \in Holders : Transfer(h, g, n)
                    \/ Mint(h, n)
                    \/ Burn(h, n)
        PROVE  UNCHANGED <<ready, ran>>
    BY <1>5
    DEF Propose, CastVote, Administer, SetRole, UpdateDelay, Close, Tick, Transfer,
        Mint, Burn, timelockVars
  <1>. QED  BY <1>1, <1>2, <1>3, <1>4, <1>5 DEF Next

-----------------------------------------------------------------------------
(* One conjunct of the invariant at a time.                                *)
LEMMA CarriedStep ==
  ASSUME IInv, Next
  PROVE  QueuedWasCarried'
  <1>. SUFFICES ASSUME NEW id \in 1..latest', Queued(id)'
                PROVE  (now > proposal[id].end_time /\ ~majorityMissed(proposal[id]))'
    BY DEF QueuedWasCarried, Queued
  <1>0. GovernanceTypeOK /\ QueuedWasCarried /\ GovernanceTypeOK' /\ now \in Nat /\ now' \in Nat
    <2>1. GovernanceTypeOK /\ QueuedWasCarried /\ GovernanceTypeOK'
      BY TypeStep DEF IInv
    <2>2. now \in Nat
      BY <2>1, MaxTimeAssumption DEF GovernanceTypeOK, TimelockTypeOK
    <2>3. now' \in Nat
      BY <2>1, MaxTimeAssumption DEF GovernanceTypeOK, TimelockTypeOK
    <2>. QED  BY <2>1, <2>2, <2>3
  <1>1. CASE id \in 1..latest /\ Queued(id)
    <2>1. Keeps(id) /\ now <= now'
      BY <1>0, <1>1, StepKeeps
    <2>2. proposal[id].end_time \in Nat /\ now > proposal[id].end_time
      BY <1>0, <1>1, ProposalTyped DEF QueuedWasCarried, Queued, Proposal
    <2>3. proposal'[id].votes = proposal[id].votes
      BY <1>1, <2>1 DEF Keeps
    <2>4. majorityMissed(proposal'[id]) <=> majorityMissed(proposal[id])
      BY <2>3, MajorityOfTally
    <2>. QED
      BY <1>0, <1>1, <2>1, <2>2, <2>4 DEF Keeps, QueuedWasCarried, Queued, majorityMissed
  <1>2. CASE id \in 1..latest /\ ~Queued(id)
    <2>1. Queue(id)
      <3>1. proposal[id] \in Proposal /\ DOMAIN proposal = 1..latest
        BY <1>0, <1>2, ProposalTyped
      <3>2. proposal'[id].queued
        BY DEF Queued
      <3>3. ~proposal[id].queued
        BY <1>2 DEF Queued
      <3>4. ASSUME NEW h \in Holders, NEW i \in 1..latest, NEW s \in Support,
                   CastVote(h, i, s)
            PROVE  FALSE
        BY <1>2, <3>1, <3>2, <3>3, <3>4 DEF CastVote, Proposal
      <3>5. ASSUME NEW i \in 1..latest, ExecuteProposal(i)
            PROVE  FALSE
        BY <1>2, <3>1, <3>2, <3>3, <3>5 DEF ExecuteProposal, Proposal
      <3>6. ASSUME NEW i \in 1..latest, Queue(i), i # id
            PROVE  FALSE
        BY <1>2, <3>1, <3>2, <3>3, <3>6 DEF Queue, markedQueued, Proposal
      <3>7. ASSUME NEW h \in Holders, NEW calls \in Actions, NEW d \in Descriptions,
                   Propose(h, calls, d)
            PROVE  FALSE
        <4>1. latest \in Nat
          BY <1>0, ConfigAssumption DEF GovernanceTypeOK
        <4>2. id # latest + 1 /\ id \in 1..latest + 1
          BY <1>2, <4>1
        <4>3. proposal'[id] = proposal[id]
          BY <3>7, <4>2 DEF Propose
        <4>. QED  BY <3>2, <3>3, <4>3
      <3>8. CASE UNCHANGED proposal
        BY <3>2, <3>3, <3>8
      <3>9. Queue(id) \/ UNCHANGED proposal
        BY <3>4, <3>5, <3>6, <3>7
        DEF Next, DirectSchedule, DirectExecute, DirectCancel, Administer, Close,
            Transfer, Mint, Burn, governorVars
      <3>. QED  BY <3>8, <3>9
    <2>2. now > proposal[id].end_time /\ ~majorityMissed(proposal[id])
      <3>1. proposal[id].start_time \in Nat /\ proposal[id].end_time \in Nat
        BY <1>0, <1>2, ProposalTyped DEF Proposal
      <3>2. state(proposal[id]) = "Succeeded"
        BY <2>1 DEF Queue, succeeded
      <3>. QED  BY <1>0, <3>1, <3>2 DEF state
    <2>3. /\ proposal'[id].votes = proposal[id].votes
          /\ proposal'[id].end_time = proposal[id].end_time
          /\ now' = now
      <3>1. proposal[id] \in Proposal /\ DOMAIN proposal = 1..latest
        BY <1>0, <1>2, ProposalTyped
      <3>. QED  BY <1>2, <2>1, <3>1 DEF Queue, Schedule, markedQueued, Proposal
    <2>4. majorityMissed(proposal'[id]) <=> majorityMissed(proposal[id])
      BY <2>3, MajorityOfTally
    <2>. QED  BY <2>2, <2>3, <2>4 DEF majorityMissed
  <1>3. CASE id \notin 1..latest
    \* A new proposal is not queued.
    <2>1. UNCHANGED latest => FALSE
      BY <1>3
    <2>2. PICK h \in Holders, calls \in Actions, d \in Descriptions : Propose(h, calls, d)
      BY <2>1
      DEF Next, CastVote, Queue, ExecuteProposal, DirectSchedule, DirectExecute,
          DirectCancel, Administer, Close, Transfer, Mint, Burn, governorVars
    <2>3. latest \in Nat
      BY <1>0, ConfigAssumption DEF GovernanceTypeOK
    <2>4. latest' = latest + 1
      BY <2>2 DEF Propose, newLatest
    <2>5. id = latest + 1 /\ id \in 1..latest + 1
      BY <1>3, <2>3, <2>4
    <2>6. proposal'[id].queued = FALSE
      BY <2>2, <2>5 DEF Propose
    <2>. QED  BY <2>6 DEF Queued
  <1>. QED  BY <1>1, <1>2, <1>3

LEMMA ScheduledStep ==
  ASSUME IInv, Next
  PROVE  ScheduledWait'
  <1>. SUFFICES ASSUME NEW op \in Scheduled', op \notin direct'
                PROVE  \E id \in 1..latest' : Carries(id, op)' /\ due'[id] <= ready'[op]
    BY DEF ScheduledWait
  <1>0. GovernanceTypeOK /\ QueuedWasCarried /\ op \in Operations
    BY DEF IInv, Scheduled
  <1>1. CASE op \in Scheduled /\ ready'[op] = ready[op]
    <2>1. op \notin direct
      BY <1>0, StepKeeps
    <2>2. PICK id \in 1..latest : Carries(id, op) /\ due[id] <= ready[op]
      BY <1>1, <2>1 DEF IInv, ScheduledWait
    <2>3. Keeps(id)
      BY <1>0, StepKeeps
    <2>. QED  BY <1>1, <2>2, <2>3, StillCarried
  <1>2. ASSUME NEW id \in 1..latest, Queue(id), op \in ops(proposal[id]),
               ready'[op] = now + min_delay
        PROVE  id \in 1..latest' /\ Carries(id, op)' /\ due'[id] <= ready'[op]
    <2>1. proposal[id] \in Proposal /\ id \in Ids /\ DOMAIN proposal = 1..latest
      BY <1>0, ProposalTyped
    <2>2. due'[id] = now + min_delay /\ now \in Nat /\ min_delay \in Nat
      BY <1>0, <1>2, <2>1, MaxTimeAssumption, DelaysAssumption
      DEF Queue, GovernanceTypeOK, TimelockTypeOK
    <2>3. /\ proposal'[id].calls = proposal[id].calls
          /\ proposal'[id].description = proposal[id].description
          /\ proposal'[id].queued
          /\ latest' = latest
      BY <1>2, <2>1 DEF Queue, markedQueued, Proposal
    <2>. QED  BY <1>2, <2>2, <2>3 DEF Carries, ops
  <1>. QED  BY <1>0, <1>1, <1>2, TimelockStep

LEMMA RanStep ==
  ASSUME IInv, Next
  PROVE  CarriedCallsWait'
  <1>. SUFFICES ASSUME NEW op \in ran', op \notin direct'
                PROVE  \E id \in 1..latest' : Carries(id, op)' /\ due'[id] <= now'
    BY DEF CarriedCallsWait
  <1>0. GovernanceTypeOK /\ QueuedWasCarried /\ GovernanceTypeOK'
    BY TypeStep DEF IInv
  <1>1. op \in Operations
    BY <1>0 DEF GovernanceTypeOK, TimelockTypeOK
  <1>2. now \in Nat /\ now' \in Nat /\ now <= now' /\ op \notin direct
    BY <1>0, StepKeeps, MaxTimeAssumption DEF GovernanceTypeOK, TimelockTypeOK
  <1>3. ready[op] \in Int
    BY <1>0, <1>1 DEF GovernanceTypeOK, TimelockTypeOK, NotScheduled
  <1>4. \E id \in 1..latest : Carries(id, op) /\ due[id] <= now
    <2>1. CASE op \in ran
      BY <1>2, <2>1 DEF IInv, CarriedCallsWait
    <2>2. CASE op \in Scheduled /\ ready[op] <= now
      <3>1. PICK id \in 1..latest : Carries(id, op) /\ due[id] <= ready[op]
        BY <1>2, <2>2 DEF IInv, ScheduledWait
      <3>2. due[id] \in Nat
        BY <1>0, ProposalTyped DEF GovernanceTypeOK
      <3>. QED  BY <1>2, <1>3, <2>2, <3>1, <3>2
    <2>. QED  BY <1>0, <1>1, <2>1, <2>2, TimelockStep
  <1>5. PICK id \in 1..latest : Carries(id, op) /\ due[id] <= now
    BY <1>4
  <1>6. Keeps(id) /\ due[id] \in Nat
    BY <1>0, StepKeeps, ProposalTyped DEF GovernanceTypeOK
  <1>. QED  BY <1>2, <1>5, <1>6, StillCarried

LEMMA ExecutedStep ==
  ASSUME IInv, Next
  PROVE  ExecutedHasRun'
  <1>. SUFFICES ASSUME NEW id \in 1..latest', proposal'[id].executed
                PROVE  Queued(id)' /\ ops(proposal'[id]) \subseteq ran'
    BY DEF ExecutedHasRun, Queued, ops
  <1>0. GovernanceTypeOK /\ QueuedWasCarried /\ ExecutedHasRun
    BY DEF IInv
  <1>1. CASE id \in 1..latest
    <2>1. Keeps(id) /\ ran \subseteq ran'
      BY <1>0, <1>1, StepKeeps
    <2>2. ops(proposal'[id]) = ops(proposal[id])
      BY <2>1 DEF Keeps, ops
    <2>3. CASE proposal[id].executed
      BY <1>0, <1>1, <2>1, <2>2, <2>3 DEF ExecutedHasRun, Keeps, Queued
    <2>4. CASE ~proposal[id].executed
      <3>1. proposal[id] \in Proposal /\ DOMAIN proposal = 1..latest
        BY <1>0, <1>1, ProposalTyped
      <3>2. ASSUME NEW h \in Holders, NEW i \in 1..latest, NEW s \in Support,
                   CastVote(h, i, s)
            PROVE  FALSE
        BY <1>1, <2>4, <3>1, <3>2 DEF CastVote, Proposal
      <3>3. ASSUME NEW i \in 1..latest, Queue(i)
            PROVE  FALSE
        BY <1>1, <2>4, <3>1, <3>3 DEF Queue, markedQueued, Proposal
      <3>4. ASSUME NEW h \in Holders, NEW calls \in Actions, NEW d \in Descriptions,
                   Propose(h, calls, d)
            PROVE  FALSE
        <4>1. latest \in Nat
          BY <1>0, ConfigAssumption DEF GovernanceTypeOK
        <4>2. id # latest + 1 /\ id \in 1..latest + 1
          BY <1>1, <4>1
        <4>3. proposal'[id] = proposal[id]
          BY <3>4, <4>2 DEF Propose
        <4>. QED  BY <2>4, <4>3
      <3>5. ASSUME NEW i \in 1..latest, ExecuteProposal(i)
            PROVE  i = id
        BY <1>1, <2>4, <3>1, <3>5 DEF ExecuteProposal, Proposal
      <3>6. UNCHANGED proposal => FALSE
        BY <2>4
      <3>7. ExecuteProposal(id)
        BY <3>2, <3>3, <3>4, <3>5, <3>6
        DEF Next, DirectSchedule, DirectExecute, DirectCancel, Administer, Close,
            Transfer, Mint, Burn, governorVars
      <3>8. state(proposal[id]) = "Queued"
        BY <3>7 DEF ExecuteProposal, executable
      <3>9. Queued(id)
        BY <3>8 DEF state, Queued
      <3>10. ops(proposal[id]) \subseteq ran'
        BY <3>7 DEF ExecuteProposal, Execute
      <3>. QED  BY <2>1, <2>2, <3>9, <3>10 DEF Keeps
    <2>. QED  BY <2>3, <2>4
  <1>2. CASE id \notin 1..latest
    <2>1. UNCHANGED latest => FALSE
      BY <1>2
    <2>2. PICK h \in Holders, calls \in Actions, d \in Descriptions : Propose(h, calls, d)
      BY <2>1
      DEF Next, CastVote, Queue, ExecuteProposal, DirectSchedule, DirectExecute,
          DirectCancel, Administer, Close, Transfer, Mint, Burn, governorVars
    <2>3. latest \in Nat
      BY <1>0, ConfigAssumption DEF GovernanceTypeOK
    <2>4. latest' = latest + 1
      BY <2>2 DEF Propose, newLatest
    <2>5. id = latest + 1 /\ id \in 1..latest + 1
      BY <1>2, <2>3, <2>4
    <2>6. proposal'[id].executed = FALSE
      BY <2>2, <2>5 DEF Propose
    <2>. QED  BY <2>6
  <1>. QED  BY <1>1, <1>2

-----------------------------------------------------------------------------
LEMMA InitIInv == Init => IInv
  <1>. SUFFICES ASSUME Init PROVE IInv
    OBVIOUS
  <1>. USE DEF Init, TimelockInit
  <1>1. TimelockTypeOK
    BY MaxTimeAssumption, RolesAssumption DEF TimelockTypeOK
  <1>2. balance \in [Holders -> Nat] /\ supply \in Int
    OBVIOUS
  <1>3. latest = 0 /\ 1..latest = {} /\ Scheduled = {} /\ ran = {}
    BY DEF Scheduled
  <1>4. proposal \in [1..latest -> Proposal]
    BY <1>3
  <1>5. GovernanceTypeOK
    BY <1>1, <1>2, <1>3, <1>4, ConfigAssumption DEF GovernanceTypeOK, Ids
  <1>. QED
    BY <1>3, <1>5
    DEF IInv, QueuedWasCarried, ScheduledWait, CarriedCallsWait, ExecutedHasRun

LEMMA Stutter ==
  ASSUME IInv, UNCHANGED vars
  PROVE  IInv'
  <1>. USE DEF vars, timelockVars, roleVars, tokenVars, governorVars
  <1>1. GovernanceTypeOK'
    BY DEF IInv, GovernanceTypeOK, TimelockTypeOK
  <1>2. QueuedWasCarried'
    BY DEF IInv, QueuedWasCarried, majorityMissed
  <1>3. ScheduledWait' /\ CarriedCallsWait' /\ ExecutedHasRun'
    BY DEF IInv, ScheduledWait, CarriedCallsWait, ExecutedHasRun, Scheduled, Carries, ops
  <1>. QED  BY <1>1, <1>2, <1>3 DEF IInv

LEMMA Invariance == Spec => []IInv
  <1>1. IInv /\ [Next]_vars => IInv'
    <2>1. ASSUME IInv, Next PROVE IInv'
      <3>1. GovernanceTypeOK'
        BY <2>1, TypeStep DEF IInv
      <3>. QED
        BY <2>1, <3>1, CarriedStep, ScheduledStep, RanStep, ExecutedStep DEF IInv
    <2>. QED  BY <2>1, Stutter
  <1>. QED  BY <1>1, InitIInv, PTL DEF Spec

(* The types of the timelock, the governor and the token it reads.         *)
THEOREM GovernanceTypes == Spec => []GovernanceTypeOK
  BY Invariance, PTL DEF IInv

(* Whatever the order of votes, transfers, mints, burns and ledger closes, *)
(* a queued proposal is one whose vote is over with the majority in its    *)
(* final tally.                                                            *)
THEOREM QueuedIsCarried == Spec => []QueuedWasCarried
  BY Invariance, PTL DEF IInv

(* Nothing waits in or leaves the timelock that no carried proposal names, *)
(* except what another account scheduled itself.                           *)
THEOREM OnlyCarriedRun == Spec => []OnlyCarriedCallsRun
  <1>1. IInv => OnlyCarriedCallsRun
    BY DEF IInv, OnlyCarriedCallsRun, ScheduledWait, CarriedCallsWait
  <1>. QED  BY <1>1, Invariance, PTL

(* What the timelock invoked for the governor had waited out the delay of  *)
(* the moment its proposal was queued.                                     *)
THEOREM CarriedWait == Spec => []CarriedCallsWait
  BY Invariance, PTL DEF IInv

(* An executed proposal was queued and every call of it was invoked.       *)
THEOREM ExecutedRan == Spec => []ExecutedHasRun
  BY Invariance, PTL DEF IInv

-----------------------------------------------------------------------------
(* The tally of a proposal is a sum over those who voted on it. The        *)
(* inductive invariant adds that nobody has voted on a proposal that is    *)
(* not made yet: the next one starts from an empty sum.                    *)
VotesOnMade == \A v \in voted : v[1] \in 1..latest

Voters(id) == {x \in Holders : <<id, x>> \in voted}

LEMMA VoterAdds ==
  ASSUME NEW V \in SUBSET Holders, NEW h \in Holders, h \notin V,
         NEW f, \A x \in V : f[x] \in Int,
         NEW g, g[h] \in Int, \A x \in V : g[x] = f[x],
         DOMAIN f = V, DOMAIN g = V \cup {h}
  PROVE  total(g) = total(f) + g[h]
  <1>1. PICK W : W = V \cup {h}
    OBVIOUS
  <1>2. IsFiniteSet(V) /\ IsFiniteSet(W)
    BY <1>1, ConfigAssumption, FS_Subset
  <1>3. \A x \in W : g[x] \in Int
    BY <1>1
  <1>4. W \ {h} = V /\ h \in W
    BY <1>1
  <1>5. SumFunctionOnSet(g, W) = g[h] + SumFunctionOnSet(g, W \ {h})
    BY <1>2, <1>3, <1>4, SumRemoves
  <1>6. SumFunctionOnSet(f, V) = SumFunctionOnSet(g, V) /\ SumFunctionOnSet(f, V) \in Int
    BY <1>2, SumAgrees, SumIsInt
  <1>7. total(f) = SumFunctionOnSet(f, V) /\ total(g) = SumFunctionOnSet(g, W)
    BY <1>1, TotalIsSum DEF total
  <1>8. PICK j \in Int, k \in Int : j = g[h] /\ k = SumFunctionOnSet(f, V)
    BY <1>6
  <1>9. total(g) = j + k /\ total(f) = k
    BY <1>4, <1>5, <1>6, <1>7, <1>8
  <1>. QED  BY <1>8, <1>9

(* The vote of an account that has not voted adds its balance.             *)
LEMMA VoteTallied ==
  ASSUME GovernanceTypeOK, TallyIsOneVoteEach,
         NEW h \in Holders, NEW id \in 1..latest, NEW s \in Support, CastVote(h, id, s)
  PROVE  TallyIsOneVoteEach'
  <1>. SUFFICES ASSUME NEW i \in 1..latest'
                PROVE  (total_votes(proposal[i]) = total(Weights(i)))'
    BY DEF TallyIsOneVoteEach
  <1>1. /\ i \in 1..latest /\ DOMAIN proposal = 1..latest
        /\ proposal[i] \in Proposal /\ proposal[id] \in Proposal
        /\ i \in Ids /\ id \in Ids
    BY ProposalTyped DEF CastVote
  <1>2. /\ balance[h] \in Nat
        /\ cast \in [Ids \X Holders -> Nat]
    BY DEF GovernanceTypeOK
  <1>3. /\ proposal' = [proposal EXCEPT ![id].votes[s] = @ + balance[h]]
        /\ voted' = voted \cup {<<id, h>>} /\ <<id, h>> \notin voted
        /\ cast' = [cast EXCEPT ![<<id, h>>] = balance[h]]
    BY DEF CastVote, firstVote
  <1>4. total_votes(proposal[i]) = total(Weights(i))
    BY <1>1 DEF TallyIsOneVoteEach
  <1>5. PICK f : f = Weights(i)
    OBVIOUS
  <1>6. PICK g : g = Weights(i)'
    OBVIOUS
  <1>7. PICK V : V = Voters(i)
    OBVIOUS
  <1>8. /\ V \in SUBSET Holders /\ DOMAIN f = V
        /\ \A x \in V : f[x] = cast[<<i, x>>] /\ f[x] \in Int
    <2>1. V \in SUBSET Holders /\ DOMAIN f = V /\ \A x \in V : f[x] = cast[<<i, x>>]
      BY <1>5, <1>7 DEF Voters, Weights
    <2>2. ASSUME NEW x \in V PROVE f[x] \in Int
      <3>1. cast[<<i, x>>] \in Nat
        BY <1>1, <1>2, <2>1
      <3>. QED  BY <2>1, <3>1
    <2>. QED  BY <2>1, <2>2
  <1>9. ASSUME i # id PROVE (total_votes(proposal[i]) = total(Weights(i)))'
    <2>1. proposal'[i] = proposal[i]
      BY <1>1, <1>3, <1>9
    <2>2. Weights(i)' = Weights(i)
      <3>1. \A x \in Holders : <<i, x>> \in voted' <=> <<i, x>> \in voted
        BY <1>3, <1>9
      <3>2. \A x \in Holders : cast'[<<i, x>>] = cast[<<i, x>>]
        BY <1>1, <1>2, <1>3, <1>9
      <3>. QED  BY <3>1, <3>2 DEF Weights
    <2>. QED  BY <1>4, <2>1, <2>2 DEF total_votes
  <1>10. ASSUME i = id PROVE (total_votes(proposal[i]) = total(Weights(i)))'
    <2>1. h \notin V
      BY <1>3, <1>7, <1>10 DEF Voters
    <2>2. /\ DOMAIN g = V \cup {h}
          /\ g[h] = balance[h] /\ \A x \in V : g[x] = f[x]
      <3>1. \A x \in Holders : <<i, x>> \in voted' <=> x \in V \cup {h}
        BY <1>3, <1>7, <1>10 DEF Voters
      <3>2. cast'[<<i, h>>] = balance[h]
        BY <1>1, <1>2, <1>3, <1>10
      <3>3. \A x \in Holders : x # h => cast'[<<i, x>>] = cast[<<i, x>>]
        BY <1>1, <1>2, <1>3
      <3>4. g = [x \in V \cup {h} |-> cast'[<<i, x>>]]
        BY <1>6, <1>8, <3>1 DEF Weights
      <3>. QED  BY <1>8, <2>1, <3>2, <3>3, <3>4
    <2>3. total(g) = total(f) + g[h]
      <3>1. g[h] \in Int
        BY <1>2, <2>2
      <3>2. \A x \in V : f[x] \in Int
        BY <1>8
      <3>. QED  BY <1>8, <2>1, <2>2, <3>1, <3>2, VoterAdds
    <2>4. total_votes(proposal'[i]) = total_votes(proposal[i]) + balance[h]
      <3>1. PICK v \in [Support -> Nat] : v = proposal[i].votes
        BY <1>1 DEF Proposal
      <3>2. proposal'[i].votes = [v EXCEPT ![s] = v[s] + balance[h]]
        BY <1>1, <1>3, <1>10, <3>1 DEF Proposal
      <3>3. PICK w : w = proposal'[i].votes
        OBVIOUS
      <3>4. w["for"] + w["against"] + w["abstain"]
              = v["for"] + v["against"] + v["abstain"] + balance[h]
        BY <1>2, <3>1, <3>2, <3>3 DEF Support
      <3>. QED  BY <3>1, <3>3, <3>4 DEF total_votes
    <2>5. total(Weights(i)') = total(g)
      BY <1>6
    <2>6. total_votes(proposal'[i]) = total(Weights(i)')
      BY <1>4, <1>5, <2>2, <2>3, <2>4, <2>5
    <2>. QED  BY <2>6 DEF total_votes
  <1>. QED  BY <1>9, <1>10

(* A new proposal has no votes and no voters.                              *)
LEMMA ProposeTallied ==
  ASSUME GovernanceTypeOK, TallyIsOneVoteEach, VotesOnMade,
         NEW h \in Holders, NEW calls \in Actions, NEW d \in Descriptions,
         Propose(h, calls, d)
  PROVE  TallyIsOneVoteEach' /\ VotesOnMade'
  <1>1. latest \in Nat /\ latest' = latest + 1 /\ UNCHANGED <<voted, cast>>
    BY ConfigAssumption DEF Propose, newLatest, GovernanceTypeOK
  <1>2. VotesOnMade'
    BY <1>1 DEF VotesOnMade
  <1>3. ASSUME NEW i \in 1..latest PROVE (total_votes(proposal[i]) = total(Weights(i)))'
    <2>1. proposal'[i] = proposal[i]
      BY <1>1 DEF Propose
    <2>2. Weights(i)' = Weights(i)
      BY <1>1 DEF Weights
    <2>. QED  BY <2>1, <2>2 DEF TallyIsOneVoteEach, total_votes
  <1>4. (total_votes(proposal[latest]) = total(Weights(latest)))'
    <2>1. proposal'[latest'].votes = [s \in Support |-> 0]
      BY <1>1 DEF Propose
    <2>2. PICK v : v = proposal'[latest'].votes
      OBVIOUS
    <2>3. v["for"] + v["against"] + v["abstain"] = 0
      BY <2>1, <2>2 DEF Support
    <2>4. PICK n : n = latest + 1
      OBVIOUS
    <2>5. PICK e : e = [x \in {y \in Holders : <<n, y>> \in voted} |-> cast[<<n, x>>]]
      OBVIOUS
    <2>6. PICK D : D = DOMAIN e
      OBVIOUS
    <2>7. D = {}
      <3>1. \A x \in Holders : <<n, x>> \notin voted
        <4>. SUFFICES ASSUME NEW x \in Holders, <<n, x>> \in voted PROVE FALSE
          OBVIOUS
        <4>1. <<n, x>>[1] \in 1..latest
          BY DEF VotesOnMade
        <4>. QED  BY <1>1, <2>4, <4>1
      <3>. QED  BY <2>5, <2>6, <3>1
    <2>8. total(e) = 0
      BY <2>6, <2>7, SumOfNothing, TotalIsSum DEF total
    <2>9. Weights(n)' = e
      BY <1>1, <2>5 DEF Weights
    <2>10. total_votes(proposal'[n]) = total(Weights(n)')
      BY <1>1, <2>2, <2>3, <2>4, <2>8, <2>9 DEF total_votes
    <2>. QED  BY <1>1, <2>4, <2>10 DEF total_votes
  <1>5. \A i \in 1..latest' : i \in 1..latest \/ i = latest'
    BY <1>1
  <1>. QED  BY <1>2, <1>3, <1>4, <1>5 DEF TallyIsOneVoteEach

LEMMA SameTally ==
  ASSUME GovernanceTypeOK, TallyIsOneVoteEach, VotesOnMade,
         UNCHANGED <<latest, voted, cast>>,
         \A i \in 1..latest : proposal'[i].votes = proposal[i].votes
  PROVE  TallyIsOneVoteEach' /\ VotesOnMade'
  BY DEF TallyIsOneVoteEach, VotesOnMade, total_votes, Weights

LEMMA TallyStep ==
  ASSUME GovernanceTypeOK, TallyIsOneVoteEach, VotesOnMade, [Next]_vars
  PROVE  TallyIsOneVoteEach' /\ VotesOnMade'
  <1>1. ASSUME NEW h \in Holders, NEW id \in 1..latest, NEW s \in Support,
               CastVote(h, id, s)
        PROVE  TallyIsOneVoteEach' /\ VotesOnMade'
    <2>1. VotesOnMade'
      BY <1>1 DEF CastVote, VotesOnMade
    <2>. QED  BY <1>1, <2>1, VoteTallied
  <1>2. ASSUME NEW id \in 1..latest, Queue(id)
        PROVE  TallyIsOneVoteEach' /\ VotesOnMade'
    <2>1. DOMAIN proposal = 1..latest /\ \A i \in 1..latest : proposal[i] \in Proposal
      BY ProposalTyped
    <2>2. \A i \in 1..latest : proposal'[i].votes = proposal[i].votes
      BY <1>2, <2>1 DEF Queue, markedQueued, Proposal
    <2>3. UNCHANGED <<latest, voted, cast>>
      BY <1>2 DEF Queue
    <2>. QED  BY <2>2, <2>3, SameTally
  <1>3. ASSUME NEW id \in 1..latest, ExecuteProposal(id)
        PROVE  TallyIsOneVoteEach' /\ VotesOnMade'
    <2>1. DOMAIN proposal = 1..latest /\ \A i \in 1..latest : proposal[i] \in Proposal
      BY ProposalTyped
    <2>2. \A i \in 1..latest : proposal'[i].votes = proposal[i].votes
      BY <1>3, <2>1 DEF ExecuteProposal, Proposal
    <2>3. UNCHANGED <<latest, voted, cast>>
      BY <1>3 DEF ExecuteProposal
    <2>. QED  BY <2>2, <2>3, SameTally
  <1>4. ASSUME UNCHANGED <<latest, proposal, voted, cast>>
        PROVE  TallyIsOneVoteEach' /\ VotesOnMade'
    BY <1>4, SameTally
  <1>5. UNCHANGED vars => UNCHANGED <<latest, proposal, voted, cast>>
    BY DEF vars, governorVars
  <1>6. ASSUME NEW a \in Accounts, NEW op \in Operations, NEW d,
               DirectSchedule(a, op, d) \/ DirectExecute(a, op) \/ DirectCancel(a, op)
        PROVE  UNCHANGED <<latest, proposal, voted, cast>>
    BY <1>6 DEF DirectSchedule, DirectExecute, DirectCancel, governorVars
  <1>7. Administer \/ Close => UNCHANGED <<latest, proposal, voted, cast>>
    BY DEF Administer, Close, governorVars
  <1>8. ASSUME NEW h \in Holders, NEW n \in 1..MaxSupply, NEW g \in Holders,
               Transfer(h, g, n) \/ Mint(h, n) \/ Burn(h, n)
        PROVE  UNCHANGED <<latest, proposal, voted, cast>>
    BY <1>8 DEF Transfer, Mint, Burn, governorVars
  <1>. QED
    BY <1>1, <1>2, <1>3, <1>4, <1>5, <1>6, <1>7, <1>8, ProposeTallied DEF Next

(* TallyIsOneVoteEach for every instance: moved or re-minted tokens do not *)
(* vote again, in whatever order proposals are made and votes are cast.    *)
THEOREM TallyHolds == Spec => []TallyIsOneVoteEach
  <1>1. Init => TallyIsOneVoteEach /\ VotesOnMade
    <2>1. Init => 1..latest = {} /\ voted = {}
      BY DEF Init
    <2>. QED  BY <2>1 DEF TallyIsOneVoteEach, VotesOnMade
  <1>2. GovernanceTypeOK /\ TallyIsOneVoteEach /\ VotesOnMade /\ [Next]_vars
          => TallyIsOneVoteEach' /\ VotesOnMade'
    BY TallyStep
  <1>. QED  BY <1>1, <1>2, GovernanceTypes, PTL DEF Spec
=============================================================================
