CONSTANTS
  Test = Test
  Clients <- MCClients
  Server = Server
  Msg <- MCMsg
  NoMsg = NoMsg
  NoThread = NoThread
SPECIFICATION FairFlowSpec
INVARIANTS
  IdleOnceAtTheEnd
  CountIsPushed
PROPERTY
  TestEnds
