SPECIFICATION TrafficSpec
CONSTANTS
  Producers = {asio}
  Consumer = main
  Item = {m1, m2}
  None = None
  QueueBound = 2
PROPERTIES
  HandlingGoesOn
  PushesFinish
