SPECIFICATION FairSpec
CONSTANTS
  Job = {j1}
  NoJob = NoJob
  Worker = {w1}
  MaxRetries = 1
  RedisClients = {"api"}
  MaxFaults = 0
INVARIANT SettledIsAnnounced
CHECK_DEADLOCK FALSE
