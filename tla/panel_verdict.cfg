SPECIFICATION Spec
CONSTANTS
  Machines <- Five
  Working <- Fifth
  Typed <- OneTyped
  Samples = {}
  Dashed <- FlagWords
  Slashed <- Paths
  Names <- NameRuns
  Executable <- Runnable
  Named <- TwoNames
  Targets <- OneTarget
  Delays <- Zero
  Spelled <- SpelledWord
  FirstWord <- ClassWord
  AsciiLowerOf <- AsciiLowers
  ForeignLowerOf <- ForeignLowers
  Wrapping <- WrappingWords
  Flags <- FlagWords
  FieldCodes <- Codes
  FileCodes <- NoFileCodes
  WordOpens <- WordsAsk
  LowerOf <- LowerCase
  IdChars <- IdLetters
  Foreign <- ForeignChars
  Wrappers <- WrapperWords
  Shells <- ShellNames
  ScriptLeaf <- ScriptWord
  Helper <- HelperWord
  Service <- ServiceWord
  Smashed <- SmashedWord
  BaseOf <- BaseOfWord
  KeyOf <- KeyOfName
  IdentOf <- IdentOfClass
  MaxEntries = 3
  MaxPath = 6
  MaxChanged = 2
  MaxChanges = 2
INVARIANTS
  OneVerdict
CHECK_DEADLOCK FALSE
