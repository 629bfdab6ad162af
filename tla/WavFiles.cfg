SPECIFICATION VolumeSpec
CONSTANTS
  MaxData = 5
  MaxChunks = 3
  FrameBytes = 4
  Capacities = {1, 2, 5}
  ScanSize = 64
  SizeLimit = 128
  ChunkBytes = 8
  Foreign <- MCForeign
INVARIANTS HeaderNeverOverstates ReportedFileIsExact PayloadIsAppended
  PlaysWholeTrack RecordingPlaysBack ParserFindsHeader
