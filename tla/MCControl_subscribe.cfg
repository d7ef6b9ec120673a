\* One client that subscribes while the model changes.
SPECIFICATION Spec
CONSTANTS
  Client = {bar}
  SendCap = 3
  Early = {}
  MaxCommands = 1
  MaxVersion = 2
CHECK_DEADLOCK FALSE
INVARIANT
  SubscribersAreCurrent
