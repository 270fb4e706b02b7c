\* The device opens its link late, and the peer searches for it.
SPECIFICATION FairStartupSpec

CONSTANTS
  TickValues = 7
  OpenRetryInterval = 3
  TickFrequency = 2
  Milliseconds = 3
  MaxPass = 2
  Nodes = 3
  ProbeReads = 2

INVARIANTS
  AttemptsAreTimely
  PumpsTheApplication

PROPERTIES
  AttemptsArePaced
  ElapsedIsReal
  PeerFindsTheDevice
