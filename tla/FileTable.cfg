CONSTANTS
  ToolFiles = 4
  MAX_USER_APP_FILE = 2
  MaxExits = 2
  MaxDiskErrors = 1
  MaxCommands = 4
SPECIFICATION Spec
INVARIANTS ClosedAtPrompt WrittenIsKept HandlesValid ProgramFindsSlot
