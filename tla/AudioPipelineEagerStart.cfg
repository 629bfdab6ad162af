SPECIFICATION Spec
CONSTANTS
  ChainLength = 3
  MaxChainDepth = 16
  Formats = {f1}
  NoFormat = NoFormat
  QueueDepth = 2
  RestartsAfterError = FALSE
INVARIANT ClosedOnce
