SPECIFICATION LinkSpec
CONSTANTS
  Turn = 24
  PointSize = 2
  Channels = 2
  InputShift = 256
  WindowLimit = 12
  Definitions <- MCDefinitions
  Rate = 24
  SineTable <- MCTable
  FullScale = 1
  ProducedWrap = 32
  BufferSizes = {1, 7}
  Periods <- MCPeriods
  Expected <- MCExpected
  Window = 12
  MinWindow = 12
  Formats <- MCFormats
  TwiceSine <- MCTable
  Unity = 32768
  PassLimit = 16384
  TonalLimit = 1638
  SilenceRms = 1
  InputMax = 4
  SumMax = 768
  RootBits <- MCRootBits
  WindowsWrap = 2
  Setups <- MCSetups
  ClickPeriod <- MCClicks
  Cuts = {3, 5}
INVARIANTS StreamKeepsTime VerdictTellsLink SumsFit
PROPERTIES ResultIsWhole VerdictComes
