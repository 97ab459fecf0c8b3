\* One process, two files, one worker and a text whose analysis never ends.
SPECIFICATION FairSpec
CONSTANTS
  Procs = {p1}
  Files <- MCFiles
  Contents <- SlowTexts
  Digests = {1, 3}
  Sha256 <- SlowSha256
  Settings <- MCSettings
  Analyse <- SlowAnalyse
  Hanging = {"bomb"}
  Panicking = {}
  Gone = Gone
  Unreadable = Unreadable
  Workers = 1
  Urls = 1
  Invocations <- OneUser
INVARIANTS TypeOK NoCacheScansAfresh GreenGateClearsTexts
PROPERTY LimitedScanEnds
