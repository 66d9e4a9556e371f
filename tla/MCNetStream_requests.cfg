CONSTANTS
  Jitter = 1
  MaxRequests = 3
  MaxArrivals = 2
  Endpoint <- TwoEndpoints
SPECIFICATION FairSpec
INVARIANTS TypeOK ServedInTime OwnBuffers PolledGetFinds
PROPERTIES SentBeforeReturn ReceiverLeavesFirst Handover SendReturns
CHECK_DEADLOCK FALSE
