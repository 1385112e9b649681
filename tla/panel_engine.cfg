SPECIFICATION Spec
CONSTANTS
  Marker = "marker"
  Hook = "hook"
  Legacy <- OldHooks
  ConfLines <- OldConf
  Holds <- HoldsHook
  Luas <- TwoLuas
  LuaLines <- Lines
  MaxLines = 4
  MaxRequests = 3
  MaxOps = 2
  MaxChanges = 2
  MaxActs = 3
INVARIANTS
  RequestsAreKept
  EveryWaitHasAnAnswer
  ReadyIsWired
  HooksComeAndGo
PROPERTIES
  PanelComesToRest
CHECK_DEADLOCK FALSE
