SPECIFICATION Spec
CONSTANTS
  MinExposure = 2
  MaxExposure = 3
  MinGain = 1
  MaxGain = 2
  MaxDigital = 100
  Nodes <- MCNodes
  Buffers = {1, 2}
  Numbers = 3
  Timeout = 2
  Default = 1
INVARIANTS FrameIsWhole SettingsHold
PROPERTY CallReturns
