SPECIFICATION ServiceSpec
CONSTANTS
  s1 = s1
  s2 = s2
  t1 = t1
  t2 = t2
  mail = mail
  run = run
  other = other
  Senders <- OneSender
  Threads <- TwoThreads
  Class <- OneClass
  Command <- OneCommand
  MaxTx = 1
  MaxKey = 1
  MaxGen = 1
  MaxFaults = 1
  MaxCrashes = 0
PROPERTIES
  OrphanIsFreed
  CallsReturn
