SPECIFICATION FairTraceSpec
CONSTANTS
  p1 = p1
  p2 = p2
  blank = blank
  s1 = s1
  Press <- MCOnePress
  Screen <- MCScreen
  BlankScreen = blank
  MessageUnits <- MCMessageUnits
  MaxLineUnits = 2
  QueueDepth = 4
  RetryInterval = 2
  MaxElapsed = 2
  PacketUnits = 3
  Inbound <- MCInbound
  CounterModulus = 1
INVARIANTS
  TypeOK
  HonestCount
  BackstopNeverBinds
  OnlyHelloWhileHandshaking
  NoPressWaitsForALink
  WholeLines
PROPERTIES
  OnlyAnOpenOrADropEndsAConnection
  ImplementsMirror
  HandshakeIsRetried
