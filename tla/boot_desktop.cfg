SPECIFICATION FairSpec
CONSTANTS
  brave = brave
  foot = foot
  Rows <- TwoRows
  WindowClass <- ClassOfTwo
  Workspace <- PlaceOfTwo
  GroupKeys <- KeysOfTwo
  Names <- Two
  OldNames <- One
  Workspaces <- TwoRows
  MaxAddr = 3
  MaxWaits = 1
  Timings <- Either
  MaxMeddling = 1
  MaxBlind = 1
INVARIANTS
  OneLaunchPerWindow
  OldWindowsAreLeftAlone
  LandedIsTrue
  EachGetsItsOwn
PROPERTIES
  BootEnds
