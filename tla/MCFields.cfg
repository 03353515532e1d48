CONSTANTS
  Schema <- SmallSchema
  NoSubscribe = {"plain"}
  BadTopic = "bad"
  MaxDefs = 2
  MaxSelections = 2

SPECIFICATION Spec
INVARIANTS
  MatchesSelected
  TopicsAreExact
CHECK_DEADLOCK FALSE
