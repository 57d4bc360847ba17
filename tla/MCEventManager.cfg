SPECIFICATION Spec
CONSTANTS
  Files = {"f"}
  Blocks <- MCBlocks
  Sizes = {1}
  Updates <- MCUpdates
  ServerSubs <- MCServerSubs
  Cancelled <- MCCancelled
  Workloads <- MCWorkloads
  MaxQueue = 2
  MaxExpired = 1
INVARIANTS EventsConserved WritesReported SubscriptionsAreKept
PROPERTIES BufferedIsEmitted
CHECK_DEADLOCK FALSE
