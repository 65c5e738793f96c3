SPECIFICATION Spec
CONSTANTS
  Requests <- Usual
  Mps = 2
  BufferLen = 4
  ReplyLen <- Lengths
  Wrap = 16
  Prompt = FALSE
  DescriptorFirst = TRUE
  Abandonable <- ButAddress
  MaxAbandons = 0
INVARIANT ReadAsAsked
