SPECIFICATION Spec
CONSTANTS
  Thread = {1, 2}
  Path = {"p", "q", "r"}
  Uuid = {"u", "v", "w"}
  Files <- MCFiles
  Workloads <- MCWorkloads
INVARIANTS OwnWritesKept PathsLeadToTheirFiles LookupsNeverDeadlock
CHECK_DEADLOCK FALSE
