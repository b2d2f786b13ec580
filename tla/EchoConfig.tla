----------------------------- MODULE EchoConfig -----------------------------
(***************************************************************************)
(* The configuration of EchoClient and the part of its initialiser that    *)
(* depends on it: collating the user's options with the defaults of the    *)
(* library, of the delegates and of a reporting profile, reading the       *)
(* options, the side effects that come before the options are validated,   *)
(* and the throw or the start that comes after.  An app may try again      *)
(* after a throw, and may replace its client.                              *)
(*                                                                         *)
(* A configuration is a function from some of the option keys to strings.  *)
(* The defaults of the delegates and the profiles are not part of the      *)
(* repository and are constants.                                           *)
(***************************************************************************)
EXTENDS EchoDictionary, Naturals, Sequences

CONSTANTS AppNames,         \* the application names the app may give
          BlankNames,       \* those of them that are empty or white space
          UserConfigs,      \* the configurations the app may give
          ComScoreDefaults, SpringDefaults, ATInternetDefaults,
          Profiles,         \* lower-case profile name to configuration
          Lowercased,       \* String.lowercased, for profile names
          NoClient

Bools == {"true", "false"}

(* getDefaultConfig                                                        *)
DefaultConfig ==
    [echoEnabled |-> "true", echoAutoStart |-> "true", echoDebug |-> "false",
     essURL |-> "ess.api.bbci.co.uk", useESS |-> "false",
     essHTTPSEnabled |-> "true", echoCacheMode |-> "offline"]

LibraryConfig ==
    [measurementLibName |-> "echo_ios_swift", measurementLibVersion |-> "5.2.1"]

(* No delegate and no profile gives one of the client's own options an     *)
(* empty value.                                                            *)
ASSUME ConfigAssumption ==
    \A config \in {ComScoreDefaults, SpringDefaults, ATInternetDefaults}
                     \cup Range(Profiles) :
        \A key \in DOMAIN config \cap DOMAIN DefaultConfig : config[key] # ""

NoConfig == [k \in {} |-> ""]

(* The profile is looked up by the lower-case form of its name; an unknown *)
(* one counts for nothing.                                                 *)
ProfileConfig(user) ==
    IF /\ "reportingProfile" \in DOMAIN user
       /\ Lowercased[user["reportingProfile"]] \in DOMAIN Profiles
    THEN Profiles[Lowercased[user["reportingProfile"]]]
    ELSE NoConfig

\* Mutant: empty values of the user override too.
GivenValuesWithEmpty(user) == user

(* The user's values, but not the empty ones.                              *)
GivenValues(user) == Restrict(user, {k \in DOMAIN user : user[k] # ""})

(* What the client and its delegates have defaults for.                    *)
CollatedDefaults ==
    Merge(Merge(Merge(DefaultConfig, ComScoreDefaults), SpringDefaults),
          ATInternetDefaults)

\* Mutant: the profile is merged after the user's values.
CollateProfileLast(user) ==
    Merge(Merge(Merge(CollatedDefaults, GivenValues(user)), ProfileConfig(user)),
          LibraryConfig)

(* collateConfig: what is merged later overrides what came before.         *)
CollateConfig(user) ==
    Merge(Merge(Merge(CollatedDefaults, ProfileConfig(user)), GivenValues(user)),
          LibraryConfig)

(* validateConfigField for a key with a list of valid values.              *)
ValidateConfigField(config, key, valid, optional) ==
    IF key \in DOMAIN config THEN config[key] \in valid ELSE optional

\* Mutant: idv5Enabled is not validated.
IsValidWithoutIdv5(appName, config) ==
    /\ appName \notin BlankNames
    /\ \A key \in {"echoEnabled", "echoAutoStart", "useESS", "essHTTPSEnabled"} :
           ValidateConfigField(config, key, Bools, FALSE)
    /\ ValidateConfigField(config, "echoCacheMode", {"offline", "all"}, FALSE)
    /\ \A key \in {"comScoreEnabled", "testServiceEnabled",
                   "webviewCookiesEnabled", "barbEnabled"} :
           ValidateConfigField(config, key, Bools, TRUE)
    /\ ValidateConfigField(config, "comScoreDebugMode", {"0", "1"}, TRUE)

IsValidConfig(appName, config) ==
    /\ appName \notin BlankNames
    /\ \A key \in {"echoEnabled", "echoAutoStart", "useESS", "essHTTPSEnabled"} :
           ValidateConfigField(config, key, Bools, FALSE)
    /\ ValidateConfigField(config, "echoCacheMode", {"offline", "all"}, FALSE)
    /\ \A key \in {"comScoreEnabled", "testServiceEnabled", "idv5Enabled",
                   "webviewCookiesEnabled", "barbEnabled"} :
           ValidateConfigField(config, key, Bools, TRUE)
    /\ ValidateConfigField(config, "comScoreDebugMode", {"0", "1"}, TRUE)

-----------------------------------------------------------------------------
VARIABLES
  debug,       \* EchoDebug, shared by all clients: "off" or a level
  cookies,     \* does the web view hold Echo's cookies?
  client,      \* the options of the app's client, or NoClient
  hasStarted,  \* of that client
  started,     \* history: the options of the delegates started last
  tried,       \* history: the configuration the app gave last
  made         \* history: the configuration the app's client was made with

vars == <<debug, cookies, client, hasStarted, started, tried, made>>

IsTrue(config, key) == key \in DOMAIN config /\ config[key] = "true"

(* The switch on echoDebug: true means warn, anything unknown means off.   *)
DebugLevel(config) ==
    CASE config["echoDebug"] \in {"true", "warn"} -> "warn"
      [] config["echoDebug"] \in {"info", "error"} -> config["echoDebug"]
      [] OTHER -> "off"

(* The stored properties the initialiser reads from the configuration;     *)
(* EchoCacheMode.getEnum takes anything unknown for offline.               *)
ReadOptions(appName, config) ==
    [appName |-> appName,
     config |-> config,
     essURL |-> config["essURL"],
     useHttps |-> TRUE,
     essEnabled |-> IsTrue(config, "useESS"),
     idv5Enabled |-> IsTrue(config, "idv5Enabled"),
     cacheMode |-> IF config["echoCacheMode"] = "all" THEN "all" ELSE "offline",
     echoEnabled |-> IsTrue(config, "echoEnabled"),
     autoStart |-> IsTrue(config, "echoAutoStart"),
     webviewCookies |-> IsTrue(config, "webviewCookiesEnabled"),
     resetData |-> /\ IsTrue(config, "idv5Enabled")
                   /\ IsTrue(config, "comscoreResetDataOnUserStateChange")]

\* Mutant: cookies left by an earlier client with ID v5 on stay.
KeepCookies(options) == cookies

(* With ID v5 off the initialiser clears the cookies.                      *)
CookiesWhenCreated(options) == cookies /\ options.idv5Enabled

(* start: the delegates are started and the user is set; with ID v5 and    *)
(* web view cookies on, the helper gives the web view its cookies.         *)
StartDelegates(options) ==
    /\ hasStarted' = TRUE
    /\ started' = options
    /\ cookies' = \/ CookiesWhenCreated(options)
                  \/ options.idv5Enabled /\ options.webviewCookies

\* Mutant: an enabled client is started before it is validated.
StartThenValidate(options) ==
    IF options.echoEnabled /\ options.autoStart
    THEN /\ StartDelegates(options)
         /\ client' = IF IsValidConfig(options.appName, options.config)
                      THEN options ELSE client
    ELSE /\ hasStarted' = FALSE
         /\ cookies' = CookiesWhenCreated(options)
         /\ client' = IF IsValidConfig(options.appName, options.config)
                      THEN options ELSE client
         /\ UNCHANGED started

(* The end of the initialiser: it throws, and the app keeps the client it  *)
(* had, or the client is made and perhaps started.                         *)
ValidateThenStart(options) ==
    IF ~IsValidConfig(options.appName, options.config)
    THEN /\ cookies' = CookiesWhenCreated(options)
         /\ UNCHANGED <<client, hasStarted, started>>
    ELSE /\ client' = options
         /\ IF options.echoEnabled /\ options.autoStart
            THEN StartDelegates(options)
            ELSE /\ hasStarted' = FALSE
                 /\ cookies' = CookiesWhenCreated(options)
                 /\ UNCHANGED started

(* The whole initialiser.                                                  *)
MakeClient(appName, user) ==
    LET config == CollateConfig(user)
    IN  /\ debug' = DebugLevel(config)
        /\ ValidateThenStart(ReadOptions(appName, config))
        /\ tried' = user
        /\ made' = IF IsValidConfig(appName, config) THEN user ELSE made

Start ==
    /\ client # NoClient
    /\ client.echoEnabled
    /\ ~hasStarted
    /\ StartDelegates(client)
    /\ UNCHANGED <<debug, client, tried, made>>

(* An earlier process may have left cookies in the web view.               *)
Init ==
    /\ debug = "off"
    /\ cookies \in BOOLEAN
    /\ client = NoClient
    /\ hasStarted = FALSE
    /\ started = NoClient
    /\ tried = NoConfig
    /\ made = NoConfig

Next ==
    \/ \E appName \in AppNames, user \in UserConfigs : MakeClient(appName, user)
    \/ Start

Spec == Init /\ [][Next]_vars

-----------------------------------------------------------------------------
(* Properties.                                                             *)

(* Where the options come from, in the order of precedence.                *)
Sources(user) ==
    <<LibraryConfig,
      [k \in {k \in DOMAIN user : user[k] # ""} |-> user[k]],
      ProfileConfig(user),
      ATInternetDefaults, SpringDefaults, ComScoreDefaults,
      DefaultConfig>>

(* Merging seven dictionaries one over the other gives each option the     *)
(* value of the first source in the order of precedence that has one: the  *)
(* user's own value beats the profile's, nothing beats the library's name  *)
(* and version.                                                            *)
CollatedByPrecedence ==
    LET config == CollateConfig(tried)
        from == Sources(tried)
    IN  \A key \in DOMAIN config :
            \E i \in DOMAIN from :
                /\ key \in DOMAIN from[i]
                /\ config[key] = from[i][key]
                /\ \A j \in DOMAIN from : j < i => key \notin DOMAIN from[j]

(* Whatever the user leaves out or leaves empty, no option without which   *)
(* the client cannot work is missing or empty; initBroker relies on it for *)
(* the ESS URL.                                                            *)
NoOptionIsMissing ==
    LET config == CollateConfig(tried)
    IN  \A key \in DOMAIN DefaultConfig \cup DOMAIN LibraryConfig :
            key \in DOMAIN config /\ config[key] # ""

(* The first source that has the option gives it this value.               *)
Says(user, key, value) ==
    \E i \in DOMAIN Sources(user) :
        /\ key \in DOMAIN Sources(user)[i]
        /\ Sources(user)[i][key] = value
        /\ \A j \in DOMAIN Sources(user) : j < i => key \notin DOMAIN Sources(user)[j]

LeftOut(user, key) ==
    \A i \in DOMAIN Sources(user) : key \notin DOMAIN Sources(user)[i]

(* On because somebody said so, off because somebody said so or nobody     *)
(* said anything.                                                          *)
ReadsAs(on, key) ==
    /\ on <=> Says(made, key, "true")
    /\ ~on => Says(made, key, "false") \/ LeftOut(made, key)

(* From the dictionary the app gave to the fields of the client it got,    *)
(* whatever failed or was replaced before: the five switches isValidConfig *)
(* looks at are never off because of a junk value.  The options it does    *)
(* not look at take junk for off: the reset on user state change, which    *)
(* also needs ID v5, and the debug level, which is that of the latest      *)
(* initialiser, even of one that threw.                                    *)
OptionsMeanWhatTheySay ==
    client # NoClient =>
        /\ ReadsAs(client.echoEnabled, "echoEnabled")
        /\ ReadsAs(client.autoStart, "echoAutoStart")
        /\ ReadsAs(client.essEnabled, "useESS")
        /\ ReadsAs(client.idv5Enabled, "idv5Enabled")
        /\ ReadsAs(client.webviewCookies, "webviewCookiesEnabled")
        /\ client.resetData <=>
               /\ Says(made, "idv5Enabled", "true")
               /\ Says(made, "comscoreResetDataOnUserStateChange", "true")
        /\ debug = "off" <=>
               \A level \in {"true", "info", "warn", "error"} :
                   ~Says(tried, "echoDebug", level)

(* The delegates of an initialiser that throws are never started, although *)
(* they were created before the throw: whatever was tried in between, the  *)
(* delegates started last are those of a client with a valid configuration.*)
OnlyValidClientsStart ==
    /\ started # NoClient => IsValidConfig(started.appName, started.config)
    /\ hasStarted => started = client

(* A client without ID v5 works with a web view without cookies, whatever  *)
(* earlier clients or processes left there and whatever failed in between. *)
NoCookiesWithoutIdv5 ==
    client # NoClient /\ ~client.idv5Enabled => ~cookies
=============================================================================
