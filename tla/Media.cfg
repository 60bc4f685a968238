SPECIFICATION MediaSpec
CONSTANTS
  Senders = {s1, s2, s3}
  Closers = {k1, k2}
  MaxPackets = 2
  Nobody = Nobody
  Frames <- VideoFrames
  Mtu = 10
  MaxFrames = 3
  Ahead = 1
  MaxFaults = 2
  MaxBuf = 10
  Numbers = 256
  MaxUnits = 3
  MaxLen = 20
  Video = Video
  Audio = Audio
  Opus = Opus
  CellSize = 2
  MaxFrame = 2
  MaxCells = 6
  ProbeSize = 10
  PeekSize = 1
  Small = 1
  Big = 2
  Sizes = {1, 3}
  Ext = 9
  MaxTags = 3
  ProbeTags = 6
  Sources = {a, b}
  Controllers = {k}
  Readers = {g, h}
  Kinds = 2
  MaxSent = 3
  MaxChunk = 3
  KeepSize = 8
SYMMETRY Alike
INVARIANTS
  GoneForGood
  UnitsWhole
  FramesWhole
  MessagesWhole
  Served

  
CHECK_DEADLOCK FALSE
