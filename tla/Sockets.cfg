SPECIFICATION Spec
CONSTANTS
  MaxConns = 2
  MaxBytes = 2
  MaxMsgs = 2
  Lengths = {1, 3}
  IDS = 2
  FIFO = 1
  WIFI_BUFF_SIZE = 2
  Modes = {0, 1}
  Allow = {}
VIEW Live
INVARIANTS
  ReceivedInOrder
  ConnectionsKnown
  SendsMessages
