SPECIFICATION FairLinkSpec
CONSTANTS
  p1 = p1
  p2 = p2
  blank = blank
  s1 = s1
  s2 = s2
  Press <- MCTwoPresses
  Screen <- MCThreeScreens
  BlankScreen = blank
  MessageUnits <- MCMessageUnits
  MaxLineUnits = 2
  QueueDepth = 2
  RetryInterval = 1
  MaxElapsed = 1
  PacketUnits = 3
  Inbound = {}
  CounterModulus = 1
  PeerCapacity = 4
  EventOf <- MCTurningEventOf
  Guarded <- MCTwoPresses
  Ready = {blank}
  Active = {s1, s2}
  Started = s1
  Turned <- MCTurned
  EncodableRecords <- MCEncodableRecords
  Behaviours <- MCBehaviours
  Lines = {}
  PacketSurvivesClose = FALSE
  NextPress <- MCNextPress
  HostUnits = 5
  OperatorRoom = 0
INVARIANTS
  TrustIsMutual
PROPERTIES
  LinkRecovers
