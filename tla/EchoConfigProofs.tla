-------------------------- MODULE EchoConfigProofs --------------------------
(***************************************************************************)
(* Theorems about EchoConfig, for every configuration the app may give and *)
(* whatever the defaults of the delegates and the profiles are.            *)
(***************************************************************************)
EXTENDS EchoConfig, TLAPS

(* A merge has the keys of both dictionaries, and the later one wins.      *)
LEMMA MergeValue ==
    ASSUME NEW d, NEW e
    PROVE  /\ DOMAIN Merge(d, e) = DOMAIN d \cup DOMAIN e
           /\ \A k \in DOMAIN e : Merge(d, e)[k] = e[k]
           /\ \A k \in DOMAIN d : k \notin DOMAIN e => Merge(d, e)[k] = d[k]
  BY DEF Merge

(* Only the user's values that are not empty count.                        *)
LEMMA GivenValuesValue ==
    ASSUME NEW user
    PROVE  /\ DOMAIN GivenValues(user) = {k \in DOMAIN user : user[k] # ""}
           /\ \A k \in DOMAIN GivenValues(user) : GivenValues(user)[k] = user[k]
  BY DEF GivenValues, Restrict

(* The defaults by precedence.                                             *)
LEMMA DefaultsByPrecedence ==
    /\ DOMAIN CollatedDefaults =
           DOMAIN DefaultConfig \cup DOMAIN ComScoreDefaults
               \cup DOMAIN SpringDefaults \cup DOMAIN ATInternetDefaults
    /\ \A key \in DOMAIN CollatedDefaults :
         CollatedDefaults[key] =
           IF key \in DOMAIN ATInternetDefaults THEN ATInternetDefaults[key]
           ELSE IF key \in DOMAIN SpringDefaults THEN SpringDefaults[key]
           ELSE IF key \in DOMAIN ComScoreDefaults THEN ComScoreDefaults[key]
           ELSE DefaultConfig[key]
<1> DEFINE first == Merge(DefaultConfig, ComScoreDefaults)
           second == Merge(first, SpringDefaults)
<1>1. /\ DOMAIN first = DOMAIN DefaultConfig \cup DOMAIN ComScoreDefaults
      /\ \A k \in DOMAIN ComScoreDefaults : first[k] = ComScoreDefaults[k]
      /\ \A k \in DOMAIN DefaultConfig :
           k \notin DOMAIN ComScoreDefaults => first[k] = DefaultConfig[k]
  BY MergeValue
<1> HIDE DEF first
<1>2. /\ DOMAIN second = DOMAIN first \cup DOMAIN SpringDefaults
      /\ \A k \in DOMAIN SpringDefaults : second[k] = SpringDefaults[k]
      /\ \A k \in DOMAIN first :
           k \notin DOMAIN SpringDefaults => second[k] = first[k]
  BY MergeValue
<1>3. CollatedDefaults = Merge(second, ATInternetDefaults)
  BY DEF CollatedDefaults, first
<1> HIDE DEF second
<1>4. /\ DOMAIN CollatedDefaults = DOMAIN second \cup DOMAIN ATInternetDefaults
      /\ \A k \in DOMAIN ATInternetDefaults :
           CollatedDefaults[k] = ATInternetDefaults[k]
      /\ \A k \in DOMAIN second :
           k \notin DOMAIN ATInternetDefaults => CollatedDefaults[k] = second[k]
  BY <1>3 DEF Merge
<1> QED
  BY <1>1, <1>2, <1>4

(* The whole configuration by precedence.                                  *)
LEMMA ConfigByPrecedence ==
    ASSUME NEW user
    PROVE  /\ DOMAIN CollateConfig(user) =
                DOMAIN CollatedDefaults \cup DOMAIN ProfileConfig(user)
                    \cup DOMAIN GivenValues(user) \cup DOMAIN LibraryConfig
           /\ \A key \in DOMAIN CollateConfig(user) :
                CollateConfig(user)[key] =
                  IF key \in DOMAIN LibraryConfig THEN LibraryConfig[key]
                  ELSE IF key \in DOMAIN GivenValues(user) THEN user[key]
                  ELSE IF key \in DOMAIN ProfileConfig(user)
                       THEN ProfileConfig(user)[key]
                  ELSE CollatedDefaults[key]
<1> DEFINE first == Merge(CollatedDefaults, ProfileConfig(user))
           second == Merge(first, GivenValues(user))
           config == CollateConfig(user)
<1>1. /\ DOMAIN first = DOMAIN CollatedDefaults \cup DOMAIN ProfileConfig(user)
      /\ \A k \in DOMAIN ProfileConfig(user) : first[k] = ProfileConfig(user)[k]
      /\ \A k \in DOMAIN CollatedDefaults :
           k \notin DOMAIN ProfileConfig(user) => first[k] = CollatedDefaults[k]
  BY MergeValue
<1> HIDE DEF first
<1>2. /\ DOMAIN second = DOMAIN first \cup DOMAIN GivenValues(user)
      /\ \A k \in DOMAIN GivenValues(user) : second[k] = GivenValues(user)[k]
      /\ \A k \in DOMAIN first :
           k \notin DOMAIN GivenValues(user) => second[k] = first[k]
  BY MergeValue
<1>3. config = Merge(second, LibraryConfig)
  BY DEF CollateConfig, first
<1> HIDE DEF second, config
<1>4. /\ DOMAIN config = DOMAIN second \cup DOMAIN LibraryConfig
      /\ \A k \in DOMAIN LibraryConfig : config[k] = LibraryConfig[k]
      /\ \A k \in DOMAIN second :
           k \notin DOMAIN LibraryConfig => config[k] = second[k]
  BY <1>3 DEF Merge
<1>5. \A k \in DOMAIN GivenValues(user) : GivenValues(user)[k] = user[k]
  BY GivenValuesValue
<1>6. /\ DOMAIN config =
           DOMAIN CollatedDefaults \cup DOMAIN ProfileConfig(user)
               \cup DOMAIN GivenValues(user) \cup DOMAIN LibraryConfig
      /\ \A key \in DOMAIN config :
           config[key] =
             IF key \in DOMAIN LibraryConfig THEN LibraryConfig[key]
             ELSE IF key \in DOMAIN GivenValues(user) THEN user[key]
             ELSE IF key \in DOMAIN ProfileConfig(user)
                  THEN ProfileConfig(user)[key]
             ELSE CollatedDefaults[key]
  BY <1>1, <1>2, <1>4, <1>5
<1> QED
  BY <1>6 DEF config

(* collateConfig follows the order of precedence, for every dictionary the *)
(* app may give.                                                           *)
LEMMA CollationIsEffective ==
    ASSUME NEW user, NEW key \in DOMAIN CollateConfig(user)
    PROVE  \E i \in DOMAIN Sources(user) :
             /\ key \in DOMAIN Sources(user)[i]
             /\ CollateConfig(user)[key] = Sources(user)[i][key]
             /\ \A j \in DOMAIN Sources(user) :
                  j < i => key \notin DOMAIN Sources(user)[j]
<1> DEFINE from == Sources(user)
           given == [k \in {k \in DOMAIN user : user[k] # ""} |-> user[k]]
           value == CollateConfig(user)[key]
<1>1. /\ DOMAIN from = 1..7
      /\ from[1] = LibraryConfig /\ from[2] = given
      /\ from[3] = ProfileConfig(user) /\ from[4] = ATInternetDefaults
      /\ from[5] = SpringDefaults /\ from[6] = ComScoreDefaults
      /\ from[7] = DefaultConfig
  BY DEF Sources
<1>2. /\ DOMAIN given = DOMAIN GivenValues(user)
      /\ key \in DOMAIN given => given[key] = user[key]
  BY GivenValuesValue
<1> HIDE DEF given
<1>3. /\ key \in DOMAIN LibraryConfig \cup DOMAIN given
                  \cup DOMAIN ProfileConfig(user) \cup DOMAIN CollatedDefaults
      /\ value = IF key \in DOMAIN LibraryConfig THEN LibraryConfig[key]
                 ELSE IF key \in DOMAIN given THEN given[key]
                 ELSE IF key \in DOMAIN ProfileConfig(user)
                      THEN ProfileConfig(user)[key]
                 ELSE CollatedDefaults[key]
  BY <1>2, ConfigByPrecedence
<1> HIDE DEF from, value
<1>4. \E i \in 1..7 : /\ key \in DOMAIN from[i]
                      /\ value = from[i][key]
                      /\ \A j \in 1..7 : j < i => key \notin DOMAIN from[j]
  <2>1. CASE key \in DOMAIN from[1]
    BY <1>1, <1>3, <2>1
  <2>2. CASE key \in DOMAIN from[2] /\ key \notin DOMAIN from[1]
    BY <1>1, <1>3, <2>2
  <2>3. CASE /\ key \in DOMAIN from[3]
             /\ key \notin DOMAIN from[1] /\ key \notin DOMAIN from[2]
    BY <1>1, <1>3, <2>3
  <2>4. CASE /\ key \notin DOMAIN from[1] /\ key \notin DOMAIN from[2]
             /\ key \notin DOMAIN from[3]
    <3>1. /\ key \in DOMAIN from[4] \cup DOMAIN from[5] \cup DOMAIN from[6]
                      \cup DOMAIN from[7]
          /\ value = IF key \in DOMAIN from[4] THEN from[4][key]
                     ELSE IF key \in DOMAIN from[5] THEN from[5][key]
                     ELSE IF key \in DOMAIN from[6] THEN from[6][key]
                     ELSE from[7][key]
      BY <1>1, <1>3, <2>4, DefaultsByPrecedence
    <3>2. CASE key \in DOMAIN from[4]
      BY <2>4, <3>1, <3>2
    <3>3. CASE key \in DOMAIN from[5] /\ key \notin DOMAIN from[4]
      BY <2>4, <3>1, <3>3
    <3>4. CASE /\ key \in DOMAIN from[6]
               /\ key \notin DOMAIN from[4] /\ key \notin DOMAIN from[5]
      BY <2>4, <3>1, <3>4
    <3>5. CASE /\ key \notin DOMAIN from[4] /\ key \notin DOMAIN from[5]
               /\ key \notin DOMAIN from[6]
      BY <2>4, <3>1, <3>5
    <3> QED
      BY <3>2, <3>3, <3>4, <3>5
  <2> QED
    BY <2>1, <2>2, <2>3, <2>4
<1> QED
  BY <1>1, <1>4 DEF from, value

(* No option of the library is missing or empty.                           *)
LEMMA CollationIsComplete ==
    ASSUME NEW user, NEW key \in DOMAIN DefaultConfig \cup DOMAIN LibraryConfig
    PROVE  key \in DOMAIN CollateConfig(user) /\ CollateConfig(user)[key] # ""
<1>1. key \in DOMAIN CollateConfig(user)
  BY ConfigByPrecedence, DefaultsByPrecedence
<1>2. \A k \in DOMAIN LibraryConfig : LibraryConfig[k] # ""
  <2>1. DOMAIN LibraryConfig = {"measurementLibName", "measurementLibVersion"}
    BY DEF LibraryConfig
  <2>2. /\ LibraryConfig["measurementLibName"] # ""
        /\ LibraryConfig["measurementLibVersion"] # ""
    BY DEF LibraryConfig
  <2> QED
    BY <2>1, <2>2
<1>3. \A k \in DOMAIN DefaultConfig : DefaultConfig[k] # ""
  <2>1. DOMAIN DefaultConfig =
          {"echoEnabled", "echoAutoStart", "echoDebug", "essURL", "useESS",
           "essHTTPSEnabled", "echoCacheMode"}
    BY DEF DefaultConfig
  <2>2. /\ DefaultConfig["echoEnabled"] # "" /\ DefaultConfig["echoAutoStart"] # ""
        /\ DefaultConfig["echoDebug"] # "" /\ DefaultConfig["essURL"] # ""
        /\ DefaultConfig["useESS"] # "" /\ DefaultConfig["essHTTPSEnabled"] # ""
        /\ DefaultConfig["echoCacheMode"] # ""
    BY DEF DefaultConfig
  <2> QED
    BY <2>1, <2>2
<1>4. key \in DOMAIN ProfileConfig(user) /\ key \in DOMAIN DefaultConfig
        => ProfileConfig(user)[key] # ""
  BY ConfigAssumption DEF ProfileConfig, NoConfig, Range
<1>5. key \in DOMAIN DefaultConfig /\ key \in DOMAIN CollatedDefaults
        => CollatedDefaults[key] # ""
  BY <1>3, DefaultsByPrecedence, ConfigAssumption
<1>6. \A k \in DOMAIN GivenValues(user) : user[k] # ""
  BY GivenValuesValue
<1> QED
  BY <1>1, <1>2, <1>4, <1>5, <1>6, ConfigByPrecedence, DefaultsByPrecedence

-----------------------------------------------------------------------------
(* The client.                                                             *)

(* A client exists only when its configuration is valid.                   *)
ClientIsValid ==
    client # NoClient => IsValidConfig(client.appName, client.config)

(* The inductive invariant.                                                *)
IInv ==
    /\ cookies \in BOOLEAN
    /\ ClientIsValid
    /\ OnlyValidClientsStart
    /\ NoCookiesWithoutIdv5

(* The invariant holds when the process starts, whatever cookies it finds. *)
LEMMA InitInv == Init => IInv
  BY DEF Init, IInv, ClientIsValid, OnlyValidClientsStart, NoCookiesWithoutIdv5

(* Starting the delegates of a valid client: the web view gets cookies     *)
(* only with ID v5 on.                                                     *)
LEMMA StartDelegatesInv ==
    ASSUME NEW options, IsValidConfig(options.appName, options.config),
           client' = options, StartDelegates(options)
    PROVE  IInv'
<1>1. /\ hasStarted' = TRUE /\ started' = options
      /\ cookies' = ((cookies /\ options.idv5Enabled)
                       \/ (options.idv5Enabled /\ options.webviewCookies))
  BY DEF StartDelegates, CookiesWhenCreated
<1>2. cookies' \in BOOLEAN /\ (cookies' => options.idv5Enabled)
  BY <1>1
<1>3. ClientIsValid'
  BY DEF ClientIsValid, IsValidConfig, ValidateConfigField
<1>4. OnlyValidClientsStart'
  BY <1>1 DEF OnlyValidClientsStart, IsValidConfig, ValidateConfigField
<1>5. NoCookiesWithoutIdv5'
  BY <1>2 DEF NoCookiesWithoutIdv5
<1> QED
  BY <1>2, <1>3, <1>4, <1>5 DEF IInv

(* The whole initialiser, whether it throws, starts the client or not.     *)
LEMMA ValidateThenStartInv ==
    ASSUME IInv, NEW options, ValidateThenStart(options)
    PROVE  IInv'
<1>1. CASE ~IsValidConfig(options.appName, options.config)
  <2>1. /\ cookies' = (cookies /\ options.idv5Enabled)
        /\ UNCHANGED <<client, hasStarted, started>>
    BY <1>1 DEF ValidateThenStart, CookiesWhenCreated
  <2>2. cookies' \in BOOLEAN /\ (cookies' => cookies)
    BY <2>1
  <2>3. ClientIsValid' /\ OnlyValidClientsStart'
    BY <2>1
       DEF IInv, ClientIsValid, OnlyValidClientsStart, IsValidConfig,
           ValidateConfigField
  <2>4. NoCookiesWithoutIdv5'
    BY <2>1, <2>2 DEF IInv, NoCookiesWithoutIdv5
  <2> QED
    BY <2>2, <2>3, <2>4 DEF IInv
<1>2. CASE /\ IsValidConfig(options.appName, options.config)
           /\ client' = options /\ StartDelegates(options)
  BY <1>2, StartDelegatesInv
<1>3. CASE /\ IsValidConfig(options.appName, options.config)
           /\ client' = options /\ hasStarted' = FALSE
           /\ cookies' = CookiesWhenCreated(options) /\ UNCHANGED started
  <2>1. cookies' = (cookies /\ options.idv5Enabled)
    BY <1>3 DEF CookiesWhenCreated
  <2>2. cookies' \in BOOLEAN /\ (cookies' => options.idv5Enabled)
    BY <2>1
  <2>3. ClientIsValid' /\ OnlyValidClientsStart'
    BY <1>3
       DEF IInv, ClientIsValid, OnlyValidClientsStart, IsValidConfig,
           ValidateConfigField
  <2>4. NoCookiesWithoutIdv5'
    BY <1>3, <2>2 DEF NoCookiesWithoutIdv5
  <2> QED
    BY <2>2, <2>3, <2>4 DEF IInv
<1> QED
  BY <1>1, <1>2, <1>3 DEF ValidateThenStart

(* Every step preserves the invariant.                                     *)
LEMMA NextInv == IInv /\ [Next]_vars => IInv'
<1> SUFFICES ASSUME IInv, [Next]_vars PROVE IInv'
  OBVIOUS
<1>1. ASSUME NEW appName \in AppNames, NEW user \in UserConfigs,
             MakeClient(appName, user)
      PROVE  IInv'
  BY <1>1, ValidateThenStartInv DEF MakeClient
<1>2. CASE Start
  BY <1>2, StartDelegatesInv DEF Start, IInv, ClientIsValid
<1>3. CASE UNCHANGED vars
  BY <1>3
     DEF vars, IInv, ClientIsValid, OnlyValidClientsStart, NoCookiesWithoutIdv5,
         IsValidConfig, ValidateConfigField
<1> QED
  BY <1>1, <1>2, <1>3 DEF Next

(* The inductive invariant holds in every reachable state.                 *)
THEOREM ConfigInvariance == Spec => []IInv
  BY InitInv, NextInv, PTL DEF Spec

(* Each option has the value of the first source that has one, in the      *)
(* order of precedence of collateConfig.                                   *)
THEOREM PrecedenceIsKept == Spec => []CollatedByPrecedence
<1>1. CollatedByPrecedence
  BY CollationIsEffective DEF CollatedByPrecedence
<1> QED
  BY <1>1, PTL

(* No option the client relies on is missing or empty, whatever the user   *)
(* gives.                                                                  *)
THEOREM OptionsAreComplete == Spec => []NoOptionIsMissing
<1>1. NoOptionIsMissing
  BY CollationIsComplete DEF NoOptionIsMissing
<1> QED
  BY <1>1, PTL

(* Looking an option up in the sources and reading it from the collated    *)
(* configuration come to the same.                                         *)
LEMMA SaidIsCollated ==
    ASSUME NEW user, NEW key, NEW value
    PROVE  /\ Says(user, key, value) <=>
                key \in DOMAIN CollateConfig(user) /\ CollateConfig(user)[key] = value
           /\ LeftOut(user, key) <=> key \notin DOMAIN CollateConfig(user)
<1> DEFINE from == Sources(user)
           config == CollateConfig(user)
<1>1. DOMAIN from = 1..7
  BY DEF Sources
<1>2. key \in DOMAIN config <=> \E i \in 1..7 : key \in DOMAIN from[i]
  <2>1. /\ from[1] = LibraryConfig
        /\ from[2] = [k \in {k \in DOMAIN user : user[k] # ""} |-> user[k]]
        /\ from[3] = ProfileConfig(user) /\ from[4] = ATInternetDefaults
        /\ from[5] = SpringDefaults /\ from[6] = ComScoreDefaults
        /\ from[7] = DefaultConfig
    BY DEF Sources
  <2>2. DOMAIN from[2] = DOMAIN GivenValues(user)
    BY <2>1, GivenValuesValue
  <2> HIDE DEF from
  <2>3. DOMAIN config = DOMAIN from[1] \cup DOMAIN from[2] \cup DOMAIN from[3]
                          \cup DOMAIN from[4] \cup DOMAIN from[5]
                          \cup DOMAIN from[6] \cup DOMAIN from[7]
    <3>1. DOMAIN config =
            DOMAIN CollatedDefaults \cup DOMAIN ProfileConfig(user)
                \cup DOMAIN GivenValues(user) \cup DOMAIN LibraryConfig
      BY ConfigByPrecedence
    <3>2. DOMAIN CollatedDefaults =
            DOMAIN DefaultConfig \cup DOMAIN ComScoreDefaults
                \cup DOMAIN SpringDefaults \cup DOMAIN ATInternetDefaults
      BY DefaultsByPrecedence
    <3> HIDE DEF config
    <3> QED
      BY <2>1, <2>2, <3>1, <3>2
  <2> HIDE DEF config
  <2>4. key \in DOMAIN config <=>
          \/ key \in DOMAIN from[1] \/ key \in DOMAIN from[2] \/ key \in DOMAIN from[3]
          \/ key \in DOMAIN from[4] \/ key \in DOMAIN from[5] \/ key \in DOMAIN from[6]
          \/ key \in DOMAIN from[7]
    BY <2>3
  <2> QED
    BY <2>4
<1>3. key \in DOMAIN config =>
        \E i \in 1..7 : /\ key \in DOMAIN from[i] /\ config[key] = from[i][key]
                        /\ \A j \in 1..7 : j < i => key \notin DOMAIN from[j]
  BY <1>1, CollationIsEffective
<1>4. Says(user, key, value) <=>
        \E i \in 1..7 : /\ key \in DOMAIN from[i] /\ from[i][key] = value
                        /\ \A j \in 1..7 : j < i => key \notin DOMAIN from[j]
  BY <1>1 DEF Says
<1>5. LeftOut(user, key) <=> \A i \in 1..7 : key \notin DOMAIN from[i]
  BY <1>1 DEF LeftOut
<1> HIDE DEF from, config
<1>6. Says(user, key, value) <=> key \in DOMAIN config /\ config[key] = value
  <2>1. ASSUME Says(user, key, value)
        PROVE  key \in DOMAIN config /\ config[key] = value
    <3>1. PICK i \in 1..7 : /\ key \in DOMAIN from[i] /\ from[i][key] = value
                            /\ \A j \in 1..7 : j < i => key \notin DOMAIN from[j]
      BY <1>4, <2>1
    <3>2. key \in DOMAIN config
      BY <1>2, <3>1
    <3>3. PICK k \in 1..7 : /\ key \in DOMAIN from[k] /\ config[key] = from[k][key]
                            /\ \A j \in 1..7 : j < k => key \notin DOMAIN from[j]
      BY <1>3, <3>2
    <3>4. i = k
      BY <3>1, <3>3
    <3> QED
      BY <3>1, <3>2, <3>3, <3>4
  <2>2. ASSUME key \in DOMAIN config, config[key] = value
        PROVE  Says(user, key, value)
    BY <1>3, <1>4, <2>2
  <2> QED
    BY <2>1, <2>2
<1>7. LeftOut(user, key) <=> key \notin DOMAIN config
  BY <1>2, <1>5
<1> QED
  BY <1>6, <1>7 DEF config

(* The client's fields are what its initialiser read from the collated     *)
(* configuration, and the debug level is that of the latest attempt.       *)
ReadFromConfig ==
    client # NoClient =>
        /\ client = ReadOptions(client.appName, CollateConfig(made))
        /\ debug = DebugLevel(CollateConfig(tried))

(* Every step keeps it: the fields change with the client, and a failed    *)
(* initialiser changes only the debug level.                               *)
LEMMA ReadFromConfigNext == ReadFromConfig /\ [Next]_vars => ReadFromConfig'
<1> SUFFICES ASSUME ReadFromConfig, [Next]_vars PROVE ReadFromConfig'
  OBVIOUS
<1>1. ASSUME NEW appName \in AppNames, NEW user \in UserConfigs,
             MakeClient(appName, user)
      PROVE  ReadFromConfig'
  <2> DEFINE options == ReadOptions(appName, CollateConfig(user))
  <2>1. options.appName = appName /\ options.config = CollateConfig(user)
    BY DEF ReadOptions
  <2>2. /\ debug' = DebugLevel(CollateConfig(user)) /\ tried' = user
        /\ ValidateThenStart(options)
        /\ made' = IF IsValidConfig(appName, CollateConfig(user)) THEN user ELSE made
    BY <1>1 DEF MakeClient
  <2> HIDE DEF options
  <2>3. CASE IsValidConfig(appName, CollateConfig(user))
    <3>1. client' = options /\ made' = user
      BY <2>1, <2>2, <2>3 DEF ValidateThenStart
    <3> QED
      BY <2>1, <2>2, <3>1 DEF ReadFromConfig, options
  <2>4. CASE ~IsValidConfig(appName, CollateConfig(user))
    <3>1. client' = client /\ made' = made
      BY <2>1, <2>2, <2>4 DEF ValidateThenStart
    <3> QED
      BY <2>2, <3>1 DEF ReadFromConfig
  <2> QED
    BY <2>3, <2>4
<1>2. CASE Start \/ UNCHANGED vars
  BY <1>2 DEF Start, vars, ReadFromConfig
<1> QED
  BY <1>1, <1>2 DEF Next

(* From the app's dictionary to the fields of its client: no switch that   *)
(* isValidConfig looks at is off because of a junk value, and for the two  *)
(* options it does not look at junk counts as off.                         *)
THEOREM OptionsAreRead == Spec => []OptionsMeanWhatTheySay
<1>1. ASSUME IInv, ReadFromConfig
      PROVE  OptionsMeanWhatTheySay
  <2> SUFFICES ASSUME client # NoClient
               PROVE  OptionsMeanWhatTheySay
    BY DEF OptionsMeanWhatTheySay
  <2> DEFINE config == CollateConfig(made)
  <2>1. /\ client.config = config
        /\ client.echoEnabled <=> IsTrue(config, "echoEnabled")
        /\ client.autoStart <=> IsTrue(config, "echoAutoStart")
        /\ client.essEnabled <=> IsTrue(config, "useESS")
        /\ client.idv5Enabled <=> IsTrue(config, "idv5Enabled")
        /\ client.webviewCookies <=> IsTrue(config, "webviewCookiesEnabled")
        /\ client.resetData <=> /\ IsTrue(config, "idv5Enabled")
                                /\ IsTrue(config, "comscoreResetDataOnUserStateChange")
    <3>1. client = ReadOptions(client.appName, config)
      BY <1>1 DEF ReadFromConfig
    <3> HIDE DEF config
    <3> QED
      BY <3>1 DEF ReadOptions
  <2> HIDE DEF config
  <2>2. \A key : IsTrue(config, key) <=> Says(made, key, "true")
    BY SaidIsCollated DEF IsTrue, config
  <2>3. ASSUME NEW key \in {"echoEnabled", "echoAutoStart", "useESS",
                            "idv5Enabled", "webviewCookiesEnabled"},
               ~IsTrue(config, key)
        PROVE  Says(made, key, "false") \/ LeftOut(made, key)
    <3>1. key \in DOMAIN config => config[key] \in Bools
      BY <1>1, <2>1 DEF IInv, ClientIsValid, IsValidConfig, ValidateConfigField
    <3>2. key \in DOMAIN config => config[key] = "false"
      BY <2>3, <3>1 DEF Bools, IsTrue
    <3> QED
      BY <3>2, SaidIsCollated DEF config
  <2>4. /\ ReadsAs(client.echoEnabled, "echoEnabled")
        /\ ReadsAs(client.autoStart, "echoAutoStart")
        /\ ReadsAs(client.essEnabled, "useESS")
        /\ ReadsAs(client.idv5Enabled, "idv5Enabled")
        /\ ReadsAs(client.webviewCookies, "webviewCookiesEnabled")
    BY <2>1, <2>2, <2>3 DEF ReadsAs
  <2>5. debug = "off" <=> \A level \in {"true", "info", "warn", "error"} :
                              ~Says(tried, "echoDebug", level)
    <3>1. "echoDebug" \in DOMAIN CollateConfig(tried)
      BY CollationIsComplete DEF DefaultConfig
    <3>2. \A level : Says(tried, "echoDebug", level)
                       <=> CollateConfig(tried)["echoDebug"] = level
      BY <3>1, SaidIsCollated
    <3>3. debug = DebugLevel(CollateConfig(tried))
      BY <1>1 DEF ReadFromConfig
    <3> QED
      BY <3>2, <3>3 DEF DebugLevel
  <2> QED
    BY <2>1, <2>2, <2>4, <2>5 DEF OptionsMeanWhatTheySay
<1>2. Init => ReadFromConfig
  BY DEF Init, ReadFromConfig
<1> QED
  BY <1>1, <1>2, ReadFromConfigNext, ConfigInvariance, PTL DEF Spec

(* The delegates of an initialiser that throws are never started.          *)
THEOREM ValidClientsStart == Spec => []OnlyValidClientsStart
<1>1. IInv => OnlyValidClientsStart
  BY DEF IInv
<1> QED
  BY <1>1, ConfigInvariance, PTL

(* A client without ID v5 works with a web view without cookies.           *)
THEOREM CookiesNeedIdv5 == Spec => []NoCookiesWithoutIdv5
<1>1. IInv => NoCookiesWithoutIdv5
  BY DEF IInv
<1> QED
  BY <1>1, ConfigInvariance, PTL
=============================================================================
