SPECIFICATION FairSpec
CONSTANTS
  ChainLength = 3
  MaxChainDepth = 16
  Formats = {f1, f2}
  NoFormat = NoFormat
  QueueDepth = 2
  RestartsAfterError = TRUE
INVARIANTS ChainMatchesState NodeCallsBalanced OneFormat ErrorMeansQuiesced WorkerMatchesState NoLostWakeup
PROPERTIES OldestEventsStay ImplementsContract JoinReturns PlayReachesFrame FrameEndIsTold
