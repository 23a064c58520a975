SPECIFICATION FairSpec
CONSTANTS
  Node <- Three
  QueueSlots = 3
  HighBytes = {0}
  Sinks = {3}
  Terminals = {1}
  Commands <- Several
  Button = {1}
  Light = {2}
  Reporters = {1}
  NewId = 9
  Leftovers = {"set_active", "get_config", "get_status", "get_connections", "reset"}
  MaxRequests = 2
INVARIANTS TypeOK OneAnswer EveryRequestAnswered AnswerMeansStored LightFollows
PROPERTY FloodsEnd
CHECK_DEADLOCK FALSE
