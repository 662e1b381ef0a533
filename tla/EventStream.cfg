\* Three subscriptions in turn, four events through a channel of two, three faults.
SPECIFICATION FairSpec
CONSTANTS
  Cap = 2
  Mounts = 3
  Events = 4
  Faults = 3
INVARIANTS TypeOK OneStream
PROPERTIES HandledInOrder NewestIsHandled StreamComesBack ImplementsFeed
CHECK_DEADLOCK FALSE
