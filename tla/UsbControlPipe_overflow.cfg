\* Any host: wLength may exceed data_buf and tokens may follow a STALL.
CONSTANTS
  DataBufSize = 3
  MaxWLength = 5
  HandlerMax = 2
  HostRestartsAfterStall = FALSE
  PacketSizes <- MCPacketSizes
  SetupPacketSizes <- MCSetupPacketSizes
SPECIFICATION Spec
INVARIANT DataCursorInBuffer
