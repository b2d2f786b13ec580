SPECIFICATION Spec
CONSTANTS
  ha = ha
  HashedIds = {ha}
  Tokens = {}
  SignedOut = SignedOut
  PersonalisationOff = PersonalisationOff
  NoToken = NoToken
  NoUser = NoUser
  NoReason = NoReason
  Users <- MCUsers
  NumDelegates = 2
  MaxChanges = 3
  MaxCrashes = 2
INVARIANTS
  TypeOK
  PostponedChangeSurvivesCrashes
  ChangesAreAccountedFor
  RepeatsNeedACrash
