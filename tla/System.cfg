SPECIFICATION SystemSpec
CONSTANTS
  ha = ha
  t1 = t1
  HashedIds = {ha}
  Tokens = {t1}
  SignedOut = SignedOut
  PersonalisationOff = PersonalisationOff
  NoToken = NoToken
  NoUser = NoUser
  NoReason = NoReason
  HardwareId = HardwareId
  Configs <- MCTwoConfigs
  Users <- MCUsers
  OneSecond = 2
  LiveMedia = {l1}
  OnDemandMedia = {}
  Lengths = {0}
  Positions = {0}
  MaxPosition = 0
  Brokers = {b1, b2}
  Labels = {}
  CacheModes = {offline}
  NoMedia = NoMedia
  NoBroker = NoBroker
  NoLabels = NoLabels
  PauseAtLengthLabels = PauseAtLengthLabels
VIEW MCView
SYMMETRY MCBrokerSymmetry
INVARIANTS
  EventsCarryTheLatestUser
  NothingPlaysAcrossADisable
