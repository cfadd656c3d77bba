SPECIFICATION TransmitterSpec
CONSTANTS
  Setups <- BoardSetups
  MaxInput = 6
  Receivers = {rx1, rx2}
  Sink = tx
  Requests <- BoardRequests
  Channels <- BoardChannels
  ScanElements <- BoardScanElements
INVARIANTS
  TypeOK
  SentIsConsumed
  AirIsLastPortion
  StreamIsOneReceiver
  HasItsChannels
PROPERTIES
  CyclicPushedOnce
CHECK_DEADLOCK FALSE
