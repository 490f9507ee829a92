CONSTANTS
  Char = {"a", "."}
  Dot = "."
  EchoOn <- MCEchoOn
  EchoOff <- MCEchoOff
  BufferSize = 4
  HistorySize = 2
  MaxLines = 3
SPECIFICATION Spec
INVARIANTS TypeOK ShownIsHeld HistoryIsLog
