SPECIFICATION Spec
CONSTANTS
  Infos <- MCInfos
  Noise <- MCNoise
  MaxFrameLen = 60
INVARIANT FoundFrameIsKept
CHECK_DEADLOCK FALSE
