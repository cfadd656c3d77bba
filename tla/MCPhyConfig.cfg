\* A source and a sink configure a board, one refusal or failure of the device
CONSTANTS
  Configs <- Arguments
  Files = {"good"}
  NoFile = ""
  MaxRefused = 1
SPECIFICATION Spec
INVARIANTS ReachesConfig FilterOrThrow ChipsInSync
