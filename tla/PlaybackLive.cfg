SPECIFICATION FairSpec
CONSTANTS
  OneSecond = 2
  LiveMedia = {l1, l2}
  OnDemandMedia = {}
  Lengths = {0}
  Positions = {0}
  MaxPosition = 1
  Brokers = {b1, b2}
  Labels = {la}
  CacheModes = {offline}
  NoMedia = NoMedia
  NoBroker = NoBroker
  NoLabels = NoLabels
  PauseAtLengthLabels = PauseAtLengthLabels
INVARIANTS
  LivePlayHasItsBroker
  ReportedPlayWasRequested
  LabelsDescribeTheMedia
PROPERTIES
  PlayCarriesItsLabels
  HeldPlayIsResolved
