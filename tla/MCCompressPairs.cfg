SPECIFICATION Spec
CONSTANTS
  Reqs <- MCReqs
  RingSize = 3
  DraftLen = 2
  Wrong = Wrong
  Modes <- MCModes
  MaxLen <- MCMaxLen
  ChunkLen = 4
  Paddings <- MCPaddings
INVARIANTS PairsExact AttendedExact RaceFree ReplaySame
