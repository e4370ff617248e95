SPECIFICATION FairSpec
CONSTANTS
  Buffers = {b1, b2, b3}
  NoBuffer = NoBuffer
  MaxFrames = 4
INVARIANT
  TypeOK
PROPERTIES
  ImplementsFrameFeed
  StoredFrameShown
  TeardownCompletes
