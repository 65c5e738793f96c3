SPECIFICATION Spec
CONSTANTS
  Requests <- Usual
  Mps = 2
  BufferLen = 4
  ReplyLen <- Lengths
  Wrap = 16
  Prompt = TRUE
  DescriptorFirst = FALSE
  Abandonable <- ButAddress
  MaxAbandons = 1
INVARIANT ConfiguredHears
