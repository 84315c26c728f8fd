SPECIFICATION LoopSpec
CONSTANTS
  Producers = {asio}
  Consumer = main
  Item = {m1}
  None = None
  QueueBound = 1
PROPERTIES
  MessagesAreHandled
