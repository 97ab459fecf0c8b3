SPECIFICATION Spec
CONSTANTS
  Accounts = {"governor", "keeper"}
  Governor = "governor"
  Holders = {ann, bob}
  Calls <- MCCalls
  Descriptions <- MCDescriptions
  Operations <- MCOperations
  Actions <- MCActions
  Grants <- MCGrants
  Initial <- MCInitial
  Delays = {0, 1}
  MaxTime = 2
  MaxProposals = 2
  MaxSupply = 1
  quorum_bps = 5000
  threshold_bps = 5001
  voting_period = 0
  voting_delay = 0
  proposal_threshold = 1
INVARIANTS QueuedWasCarried OnlyCarriedCallsRun CarriedCallsWait ExecutedHasRun TallyIsOneVoteEach
SYMMETRY MCSymmetry
CHECK_DEADLOCK FALSE
