SPECIFICATION Spec
CONSTANTS
  Lsps = {l1, l2}
  DtxRefresh = 2
  Handlers = {0, 2, 7, 8}
  VbrModes = {0, 5}
  Qualities = {0, 8}
  Ceilings = {0, 6000}
  Gains = {0}
  Extras <- MCExtras
  Reaches = {4}
  MaxFrames = 2
  MaxBlocks = 2
  MaxLost = 2
SYMMETRY MCSymmetry
INVARIANTS
  InStep QuantisersAgree InterpolatesAlike SilenceIsComfortNoise ComfortNoiseIsRefreshed CeilingHolds
