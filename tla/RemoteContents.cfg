\* What a record says on the wire, on the tag, in the code and on the screen.
SPECIFICATION Spec

CONSTANTS
  MaxMessageLength = 134
  MaxTextLength = 32
  MaxTokenLength = 3
  MaxProtocolVersion = 65535
  MaxDeliveredCount = 9999
  UintMax = 1048575
  MaxIntegerDigits = 7
  MaxSecurityTypeLength = 7
  MaxSsidLength = 3
  MaxNetworkKeyLength = 4
  ShortRecordMaxPayload = 255
  MessageCapacity = 256
  MaxEdits = 1
  Meanings <- MCMeanings
  Drafts <- MCDrafts
  Garbage <- MCGarbage
  Fragile <- MCFragile
  EditBytes <- MCEditBytes
  PayloadSizes <- MCPayloadSizes

INVARIANTS
  LinesHaveOneMeaning
  MessagesGetThrough
  PhoneReadsWhatWasMeant
  WifiScanAgrees
  CodeIsTheSmallest
  NothingCoversTheCode
  ScreenIsLegible
  TheScreenTellsTheTag

