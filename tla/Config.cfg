SPECIFICATION Spec
CONSTANTS
  AppNames = {"app", "", " "}
  BlankNames = {"", " "}
  UserConfigs <- MCUserConfigs
  ComScoreDefaults <- MCComScoreDefaults
  SpringDefaults <- MCSpringDefaults
  ATInternetDefaults <- MCATInternetDefaults
  Profiles <- MCProfiles
  Lowercased <- MCLowercased
  NoClient = NoClient
INVARIANTS
  CollatedByPrecedence
  NoOptionIsMissing
  OptionsMeanWhatTheySay
  OnlyValidClientsStart
  NoCookiesWithoutIdv5
