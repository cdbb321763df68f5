CONSTANT MaxImages = 5
SPECIFICATION FairSpec
INVARIANTS TypeOK WorkerOwnsBuffer ShownInOrder NoSleepOnReadyBuffer NotBothAsleep QuietWhenDestroyed
PROPERTIES ImplementsHandoff OnlyFirstStartFails ReceivedIsShown ReaderComesBack
CHECK_DEADLOCK FALSE
