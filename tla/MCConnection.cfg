SPECIFICATION Spec
CONSTANTS
  ServerSends = 2
  ClientSends = 1
  EarlySend = FALSE
INVARIANTS
  TypeOK
  FramingInSync
  DeliveredInOrder
  OneWriteChain
PROPERTIES
  ChannelSpec
  MessagesArrive
CHECK_DEADLOCK FALSE
