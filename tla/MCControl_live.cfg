\* One client of the socket; the second of two commands is a quit or restart.
SPECIFICATION Spec
CONSTANTS
  Client = {bar}
  SendCap = 2
  Early = {2}
  MaxCommands = 2
  MaxVersion = 2
CHECK_DEADLOCK FALSE
INVARIANTS
  TypeOK
  CommandsRunInOrder
  NothingForgotten
PROPERTIES
  EveryCommandRuns
  SubscribersCatchUp
  RequestsAreAnswered
