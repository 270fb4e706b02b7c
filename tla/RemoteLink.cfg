SPECIFICATION LinkSpec
CONSTANTS
  p1 = p1
  p2 = p2
  blank = blank
  s1 = s1
  s2 = s2
  Press <- MCTwoPresses
  Screen <- MCScreen
  BlankScreen = blank
  MessageUnits <- MCMessageUnits
  MaxLineUnits = 2
  QueueDepth = 2
  RetryInterval = 1
  MaxElapsed = 1
  PacketUnits = 3
  Inbound = {}
  CounterModulus = 1
  PeerCapacity = 4
  EventOf <- MCEventOf
  Guarded <- MCTwoPresses
  Ready = {blank}
  Active = {s1}
  Started = s1
  Turned <- MCStill
  EncodableRecords <- MCEncodableRecords
  Behaviours <- MCBehaviours
  Lines = {}
  PacketSurvivesClose = TRUE
  NextPress <- MCNextPress
  HostUnits = 3
  OperatorRoom = 0
PROPERTIES
  PressesActOnTheirOwnConnection
