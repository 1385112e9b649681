SPECIFICATION Spec
CONSTANTS
  brave = brave
  foot = foot
  Rows <- TwoRows
  WindowClass <- ClassOfTwo
  Workspace <- PlaceOfTwo
  GroupKeys <- KeysOfTwo
  Names <- Two
  OldNames <- Two
  Workspaces <- TwoRows
  MaxAddr = 3
  MaxWaits = 0
  Timings <- Loose
  MaxMeddling = 0
  MaxBlind = 1
INVARIANTS
  OnlyNewWindows
