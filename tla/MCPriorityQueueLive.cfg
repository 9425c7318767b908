CONSTANTS
  MaxClients = 2
  MsgLimit = 1
  SizeMax = 2
  Priority = {0}
  Clients <- MCClients
  Server = Server
  Msg <- MCMsg
  NoMsg = NoMsg
  NoThread = NoThread
SPECIFICATION FairSpec
PROPERTIES
  Terminates
  PacketsReceived
