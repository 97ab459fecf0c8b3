\* The analysers of the core library and the patcher, one subject at a time,
\* and the diff command over two files and two kinds of each fingerprint.
CONSTANTS
  Usize = 1048576
  File = {f1, f2}
  Function = {"a"}
  Kinds = {"arithmetic", "sep41", "event", "custom"}
  MaxLine = 2
  MaxFindings = 2
  VulnSeverity <- AnyRank
  MethodsTried <- TokenMethods
  SdkTried <- SdkLines
  MembersTried <- AnyMember
  SourceText <- ThreeLines
  BodyBound = 3
  TokenBound = 6
  ListBound = 3
  PatchBound = 2
  MeasureBound = 7
  Thresholds = {1, 3}
  NestingBound = 3
  TextBound = 3
  MaxU64 = 6
  MaxU128 = 6
SPECIFICATION AnalysisSpec
INVARIANTS
  TwinsAgree
  FixesSettle
  
  InterfacesJudgedRight
  PatchesAreIndependent
  MeasuresAreStructural
  BaselineSilencesItself
CHECK_DEADLOCK FALSE
