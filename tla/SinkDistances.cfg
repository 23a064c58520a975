SPECIFICATION Spec
CONSTANTS
  Node <- Three
  QueueSlots = 4
  HighBytes = {0}
  Sinks = {1}
  Terminals = {}
  Commands = {}
  Button = {}
  Light = {}
  Reporters = {}
  NewId = 9
  Leftovers = {}
  MaxRequests = 0
INVARIANTS SinkDistances
CHECK_DEADLOCK FALSE
