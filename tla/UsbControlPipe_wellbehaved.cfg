\* A conforming host: wLength never exceeds data_buf, and after a STALL the
\* next token is a SETUP.  The pipe also refines ControlTransfer.
CONSTANTS
  DataBufSize = 3
  MaxWLength = 3
  HandlerMax = 2
  HostRestartsAfterStall = TRUE
  PacketSizes <- MCPacketSizes
  SetupPacketSizes <- MCSetupPacketSizes
SPECIFICATION Spec
INVARIANT TypeOK
INVARIANT StatusStageAfterFullDataStage
INVARIANT DataStageBelongsToAcceptedRequest
PROPERTY RefinesControlTransfer
