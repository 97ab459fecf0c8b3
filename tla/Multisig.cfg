SPECIFICATION Spec
CONSTANTS
  Addresses = {"a", "b"}
  Hashes <- MCHashes
  call <- MCCall
  SignerLists <- MCSignerLists
INVARIANTS ApprovalsAreCounted ThresholdReachable
PROPERTY KeepsPromise
CHECK_DEADLOCK FALSE
