SPECIFICATION Spec
CONSTANTS
  OneSecond = 2
  LiveMedia = {l1}
  OnDemandMedia = {v1}
  Lengths = {0, 1, 3}
  Positions = {0, 2}
  MaxPosition = 3
  Brokers = {b1, b2}
  Labels = {}
  CacheModes = {offline, all}
  NoMedia = NoMedia
  NoBroker = NoBroker
  NoLabels = NoLabels
  PauseAtLengthLabels = PauseAtLengthLabels
SYMMETRY MCBrokerSymmetry
INVARIANTS
  TypeOK
  OnlyTheCurrentBrokerRuns
  DelegatesFollowTheClient
  PlayingIsActive
PROPERTIES
  CacheModeFixedOncePlayed
  OnDemandPositionsRespectTheLength
  ImplementsSession
