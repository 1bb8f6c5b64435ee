CONSTANTS
  pk1 = pk1
  pk2 = pk2
  pk3 = pk3
  Packets <- MCPackets
  Streams = {0, 1}
  DeviceReplies = {"SUCCESS", "NAK", "STALL", "ASYNC", "ADD_TO_QUEUE"}
SPECIFICATION Spec
INVARIANTS TypeOK QueueMatchesInflight
PROPERTIES CompletionInSubmissionOrder
