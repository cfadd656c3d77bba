SPECIFICATION Spec
CONSTANTS
  b1 = b1
  b2 = b2
  NoBuffer = NoBuffer
  Buffers = {b1, b2}
  Sizes = {2, 3}
  MaxOutput = 2
  Decimation = 1
  SampleBytes = 2
  EmptyRefills = TRUE
  Timeouts = TRUE
  SpuriousWakeups = TRUE
  Resizes = "any"
INVARIANTS
  NoLostWakeup
  UsesLiveBuffer
