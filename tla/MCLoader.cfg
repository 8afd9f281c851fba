CONSTANTS
  PageWords = 2
  Zero = "0"
  Stale = "?"
  Modulus = 32
  UserBottom = 2
  UserTop = 24
  HeaderWords = 2
  PhdrWords = 1
  StdoutWords = 2
  StackWords = 2
  HeapBase = 10
  HeapWords = 2
  Args <- MCArgs
  Files <- MCFiles
  Inputs <- MCInputs
SPECIFICATION LoadSpec
INVARIANTS LoadContained ImageInPlace
CHECK_DEADLOCK FALSE
