SPECIFICATION PeerSpec
CONSTANTS
  p1 = p1
  p2 = p2
  blank = blank
  s1 = s1
  center = center
  long = long
  left = left
  right = right
  stale = stale
  guest = guest
  Press <- MCPress
  Screen <- MCScreens
  BlankScreen = blank
  MessageUnits <- MCMessageUnits
  MaxLineUnits = 2
  PeerCapacity = 4
  EventOf <- MCEventOf
  Guarded <- MCPresses
  Ready = {blank}
  Active = {s1, guest}
  Started = s1
  Turned <- MCTurned
  EncodableRecords <- MCEncodableRecords
  Behaviours <- MCBehaviours
  Lines <- MCLines
INVARIANTS
  PeerTypeOK
  LastWordIsCurrent
  RecordsAreSentWhole
