CONSTANTS
  Schema <- SmallSchema
  NoSubscribe = {"plain"}
  BadTopic = "bad"
  MaxDefs = 2
  MaxSelections = 2

SPECIFICATION Spec
INVARIANT EverySubscribableStarts
CHECK_DEADLOCK FALSE
