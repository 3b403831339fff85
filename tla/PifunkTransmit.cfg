SPECIFICATION Spec
CONSTANTS
  BufferInstructions = 2048
  SetUpInstructions = 1024
  PerPage = 128
  StringLengths = {0, 1, 9, 10}
INVARIANTS
  TypeOK
  SlotInBuffer
  PlayedInputHasEnded
  InstructionsSetUpOnce
PROPERTIES
  AskLeavesCarrierOff
  ShortStringEnds
