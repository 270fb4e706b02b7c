SPECIFICATION FairAppSpec
CONSTANTS
  p1 = p1
  p2 = p2
  blank = blank
  s1 = s1
  big = big
  Press <- MCEvents
  Screen <- MCScreens
  BlankScreen = blank
  MessageUnits <- MCMessageUnits
  MaxLineUnits = 2
  QueueDepth = 1
  RetryInterval = 1
  MaxElapsed = 1
  PacketUnits = 2
  Inbound <- MCRecords
  CounterModulus = 2
  Inputs <- MCExit
  InputDepth = 2
  CodePages = {s1, big}
  Encodable = {s1}
  NdefOf <- MCNdefOf
  Epochs = 1
CHECK_DEADLOCK FALSE
INVARIANTS
  CredentialFollowsTheLink
  LocksAgree
PROPERTIES
  ApplicationDrivesSession
  ExitIsHonoured
