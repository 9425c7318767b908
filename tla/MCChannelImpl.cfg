CONSTANTS
  Clients = {c1, c2, c3}
  Server = Server
  Msg <- MCMsg
  NoMsg = NoMsg
  NoThread = NoThread
SYMMETRY ClientSymmetry
SPECIFICATION ChannelSpec
INVARIANTS
  TypeOK
  MutualExclusion
  TrueAnswerHolds
  NotifiedFindsPacket
  BatchInPriorityOrder
  ChannelInv
PROPERTIES
  PopAfterWaitFinds
  IsMailbox
