SPECIFICATION FairSpec
CONSTANT MaxReconnector = 2
INVARIANT OneWantedReconnector
PROPERTIES ReplacedReconnectorEnds StartedReconnectorConnects
CHECK_DEADLOCK FALSE
