\* Two processes on one project: the cache file is read, written and torn
\* in every order, and an unlimited process may panic.
SPECIFICATION Spec
CONSTANTS
  Procs = {p1, p2}
  Files = {"lib.rs"}
  Contents <- TwoTexts
  Digests = {1, 2}
  Sha256 <- TwoSha256
  Settings <- MCSettings
  Analyse <- TwoAnalyse
  Hanging = {}
  Panicking = {"risky"}
  Gone = Gone
  Unreadable = Unreadable
  Workers = 1
  Urls = 0
  Invocations <- TwoUsers
INVARIANTS CacheSound ReportAnswersTextsRead
