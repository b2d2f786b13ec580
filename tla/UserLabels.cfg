SPECIFICATION Spec
CONSTANTS
  ha = ha
  hb = hb
  t1 = t1
  t2 = t2
  HashedIds = {ha, hb}
  Tokens = {t1, t2}
  SignedOut = SignedOut
  PersonalisationOff = PersonalisationOff
  NoToken = NoToken
  NoUser = NoUser
  NoReason = NoReason
  HardwareId = HardwareId
  Configs <- MCConfigs
  Users <- MCUsers
INVARIANT
  NewUserIsLabelled
