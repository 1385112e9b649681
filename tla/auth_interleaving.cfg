SPECIFICATION Spec
CONSTANTS
  s1 = s1
  s2 = s2
  t1 = t1
  t2 = t2
  mail = mail
  run = run
  other = other
  Senders <- TwoSenders
  Threads <- TwoThreads
  Class <- OneClass
  Command <- OneCommand
  MaxTx = 2
  MaxKey = 1
  MaxGen = 3
  MaxFaults = 0
  MaxCrashes = 0
SYMMETRY ThreadSymmetry
INVARIANTS
  ApprovedOnce
  OrphanIsNoticed
  EveryLaunchWasReviewed
PROPERTIES
  KeepsPromise
