\* Six small contracts and three clients side by side. A list of validators or signers may repeat
\* an address; the flash loan's caps and denominator are scaled so that fees are
\* both zero and more than zero; the wrapper's caps are 100, 1000 and 64 in the
\* code and keep their order here. Every contract can refuse every further call.
SPECIFICATION SideSpec
CONSTANTS
  Address = {a1, a2, a3}
  Account = {a1, a2, a3}
  Nobody = nobody
  MaxList = 2
  NoPrice = noPrice
  MaxPrice = 1
  MaxTime = 2
  Transfer = {t1, t2}
  Wasm = {w1, w2}
  NoWasm = noWasm
  MaxVersion = 3
  BpsDenom = 4
  MaxFeeBps = 2
  DefaultFeeBps = 1
  MaxTokens = 4
  MaxLoans = 2
  LogCap = 3
  MetricsCap = 4
  HealthyLimit = 2
  MaxCalls = 5
  Caller = {a1, a2, a3}
  BreakerAdmin = a1
  MaxBalance = 3
  MaxEdits = 3
  Doc = {d1, d2}
  Never = never
  MaxText = 3
  MaxJobs = 3
  MaxSettings = 1
  MaxManifests = 1
  Requests = 4
  Client = {a1}
  RateLimit = 1
  Window = 1
  MaxLogSize = 2
  MaxClock = 2
INVARIANTS
  ServedPriceApproved
  BridgedOnceByQuorum
  ProxyOwned
  FeesAreTheGains
  BookTellsTheCalls
  DocumentsShowTheirText
  ScansAccountedFor
PROPERTIES
  StaysUnhealthy
  ShutdownHolds
  WatchedEditsScanned
CHECK_DEADLOCK FALSE
