CONSTANTS
  cmd = cmd
  gps = gps
  w1 = w1
  w2 = w2
  g1 = g1
  None = None
  Services = {sim1, sim2}
  Daemons <- MCDaemons
  Threads <- MCTwoThreads
  DaemonOf <- MCTwoDaemonOf
  BusFaults = TRUE
  DiskFaults = FALSE
  UserActs = TRUE
  MaxCrashes = 0
SPECIFICATION Spec
INVARIANTS LeftOnIsRecorded
