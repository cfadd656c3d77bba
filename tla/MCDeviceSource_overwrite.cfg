SPECIFICATION Spec
CONSTANTS
  b1 = b1
  b2 = b2
  NoBuffer = NoBuffer
  Buffers = {b1, b2}
  Sizes = {2, 3}
  MaxOutput = 2
  Decimation = 0
  SampleBytes = 2
  EmptyRefills = FALSE
  Timeouts = TRUE
  SpuriousWakeups = FALSE
  Resizes = "stopped"
INVARIANTS
  RefillOnlyWhenEmpty
