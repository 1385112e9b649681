SPECIFICATION FairSpec
CONSTANTS
  a = a
  b = b
  c1 = c1
  c2 = c2
  odd = odd
  Absent = Absent
  Ids = {a, b}
  Contents = {c1, c2, odd}
  Odd = {odd}
  Lists <- FewLists
  MaxDocs = 2
  MaxFaults = 1
  MaxPower = 1
  MaxCommands = 1
  MaxLogins = 1
  Names = {"c", "d", "e", "f", "l", "n", "new"}
  Trees <- SmallTrees
  Paths <- FewPaths
  Private <- ConfigDir
  Artifact = "f"
  MaxLinks = 4
INVARIANTS
  InstalledIsWhole
  LoginRunsOneList
  WritesLandWhereRead
PROPERTIES
  ListLands
CHECK_DEADLOCK FALSE
