SPECIFICATION RtspSpec
CONSTANTS
  mMax = 3
  Versions = {"v0.1", "v0.2", "v0.3", "v0.4", "v0.5"}
  MaxPackets = 7
  MaxTriggers = 2
  queueMax = 2
  CurrentPackets = 5
  CurrentTriggers = 2
  bufSize = 2
  Sizes <- MCSizes
INVARIANTS RingsSound TriggerSafe ClipInOrder OneOwner UploadInOrder
CHECK_DEADLOCK FALSE
