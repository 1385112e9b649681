SPECIFICATION Spec
CONSTANTS
  s1 = s1
  s2 = s2
  t1 = t1
  t2 = t2
  mail = mail
  run = run
  other = other
  Senders <- OneSender
  Threads <- OneThread
  Class <- OneClass
  Command <- TwoCommands
  MaxTx = 2
  MaxKey = 2
  MaxGen = 2
  MaxFaults = 1
  MaxCrashes = 2
INVARIANTS
  OneDocPerGeneration
  NoRollback
  PurgedIsGone
