SPECIFICATION Spec
CONSTANTS
  ByteBase = 3
  Width <- SmallWidth
  Samples <- SmallSamples
  HeaderLen = 2
  MaxPayload = 2
  SequenceMod = 3
  Cap <- SmallCap
  Types = {"FileTransferData", "ChatMessage"}
  Lengths = {0, 2, 3, 4, 5}
  MaxSent = 2
  NumChunks = 2
  Size <- SmallSize
  Jobs <- SmallJobs
  MaxVersions = 2
  MaxAbandoned = 3
  Window = 2
  MaxUpsets = 1
  OpenMayFail = TRUE
CHECK_DEADLOCK FALSE
INVARIANT EndsAreExpected
