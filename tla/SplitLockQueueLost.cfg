\* One producer and one consumer, as in test_multi_producer_consumer.
SPECIFICATION FairSpec
CONSTANTS
  Producers = {p1}
  Consumers = {c1}
  Messages = 2
  Capacity = 1
  Nobody = Nobody
  Nothing = Nothing
PROPERTY AllPoppedUnlessStopped
CHECK_DEADLOCK FALSE
