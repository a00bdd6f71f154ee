CONSTANTS
  cmd = cmd
  gps = gps
  w1 = w1
  w2 = w2
  g1 = g1
  None = None
  Services = {sim1, sim2}
  Daemons <- MCDaemons
  Threads <- MCThreads
  DaemonOf <- MCDaemonOf
  BusFaults = TRUE
  DiskFaults = TRUE
  UserActs = TRUE
  MaxCrashes = 1
SYMMETRY MCWorkers
SPECIFICATION Spec
PROPERTIES NotUnderFeet
