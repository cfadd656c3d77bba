SPECIFICATION LoopSpec
CONSTANTS
  Attribute = "gain"
  OtherKeys = {"calib", "rssi", "text"}
  Unparsed = {"text"}
  Refused = {"rssi"}
  MaxValue = 1
  MaxQueue = 2
  MaxOthers = 1
  Makes <- BlockKinds
  Limit <- Limits
  Floats <- EvenNumbers
  samples_per_update = 2
  MaxOutput = 2
  MaxFailures = 1
INVARIANTS
  LoopTypeOK
  ItemsWereGiven
  FillsWhatItReturns
PROPERTIES
  LastValueArrives
  NeverGoesBack
  DelEnds
  QuietAfterDel
  EntriesArrive
  LastValueShows
CHECK_DEADLOCK FALSE
