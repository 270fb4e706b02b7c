SPECIFICATION AppSpec
CONSTANTS
  p1 = p1
  p2 = p2
  blank = blank
  s1 = s1
  big = big
  Press <- MCEvents
  Screen <- MCScreens
  BlankScreen = blank
  MessageUnits <- MCMessageUnits
  MaxLineUnits = 2
  QueueDepth = 1
  RetryInterval = 1
  MaxElapsed = 1
  PacketUnits = 2
  Inbound <- MCAcceptance
  CounterModulus = 1
  Inputs <- MCOneKey
  InputDepth = 3
  CodePages = {s1, big}
  Encodable = {s1}
  NdefOf <- MCNdefOf
  Epochs = 4
CHECK_DEADLOCK FALSE
PROPERTIES
  NoStalePressIsReported
