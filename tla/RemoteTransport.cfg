SPECIFICATION FairLinkSpec
CONSTANTS
  p1 = p1
  p2 = p2
  blank = blank
  s1 = s1
  Press <- MCOnePress
  Screen <- MCScreen
  BlankScreen = blank
  MessageUnits <- MCMessageUnits
  MaxLineUnits = 2
  QueueDepth = 2
  RetryInterval = 1
  MaxElapsed = 1
  PacketUnits = 2
  Inbound <- MCAcceptance
  CounterModulus = 1
  RxUnits = 2
  Allowed = {"close", "silent"}
INVARIANTS
  SlotIsNotLost
  OpenIsCaught
PROPERTIES
  SessionIsDrivenProperly
  SendBufferIsLeftAlone
  StaleBytesAreDropped
  HelloAnswersARealOpen
  PortFollowsTheHost
  PullIsNoticed
