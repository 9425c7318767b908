CONSTANTS
  MaxClients = 2
  MsgLimit = 2
  SizeMax = 3
  Priority = {0}
  Clients <- MCClients
  Server = Server
  Msg <- MCMsg
  NoMsg = NoMsg
  NoThread = NoThread
SPECIFICATION Spec
INVARIANTS
  ProgramTypeOK
  NoUseAfterRelease
  NeverPopsInVain
  DoneMeansAllIssued
  DoneMeansAllReceived
  BreakStopsSoon
  ProgramInv
PROPERTIES
  NoPushAfterShutDown
  UsesChannel
