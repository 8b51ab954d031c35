SPECIFICATION Spec
CONSTANTS
  WordBits = 8
  CharBits = 4
  MAX_TEMP_REGS = 1
  Expr3Max = 3
  Expr3Room = 8
  CharCells = {144, 164}
  StackTop = 136
  DataBase = 212
  MaxSteps = 200
  MaxRounds = 6
  Symbols <- MCSymbols
  Parameters <- MCParameters
  Forms <- MCForms
  Compiled <- MCCompiled
  Bodies <- MCBodies
  Mains <- MCMains
  Memories <- MCMemories
PROPERTIES CodeMeansSource RefusedIsIllTyped
