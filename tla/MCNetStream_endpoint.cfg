CONSTANTS
  Jitter = 0
  MaxRequests = 3
  MaxArrivals = 0
  Endpoint <- TwoEndpoints
SPECIFICATION Spec
PROPERTY EndpointReady
CHECK_DEADLOCK FALSE
