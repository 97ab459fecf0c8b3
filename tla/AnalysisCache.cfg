SPECIFICATION Spec
CONSTANTS
  Keys = {"k1", "k2", "k3"}
  Texts <- MCTexts
  Hash <- MCHash
  requested = 2
  MaxClock = 8
  Nothing = Nothing
INVARIANTS AnswersTheText EvictionDetermined
PROPERTY ForgetsLeastRecent
CHECK_DEADLOCK FALSE
