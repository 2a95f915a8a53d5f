\* Three producers with two messages each against one consumer.
SPECIFICATION FairSpec
CONSTANTS
  Producers = {p1, p2, p3}
  Consumer  = consumer
  Nobody    = nobody
  NoMessage = null
  MaxSent   = 2
INVARIANTS
  TypeOK
  FrontExists
  SemaphoreCounts
PROPERTIES
  IsChannel
  EveryMessageArrives
