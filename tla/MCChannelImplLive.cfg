CONSTANTS
  Clients = {c1, c2}
  Server = Server
  Msg <- MCMsg
  NoMsg = NoMsg
  NoThread = NoThread
SPECIFICATION FairChannelSpec
PROPERTY
  WaitReturns
