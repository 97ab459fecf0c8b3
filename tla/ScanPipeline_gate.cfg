SPECIFICATION Spec
CONSTANTS
  Procs = {p1}
  Files = {"lib.rs"}
  Contents <- TwoTexts
  Digests = {1, 2, 3}
  Sha256 <- TwoSha256
  Settings <- MCSettings
  Analyse <- TwoAnalyse
  Hanging = {}
  Panicking = {}
  Gone = Gone
  Unreadable = Unreadable
  Workers = 2
  Urls = 1
  Invocations <- GateAtHigh
INVARIANT ExitCodeMeetsThreshold
