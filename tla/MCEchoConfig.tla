---------------------------- MODULE MCEchoConfig ----------------------------
(* TLC instance of EchoConfig.                                             *)
EXTENDS EchoConfig, TLC

MCComScoreDefaults ==
    [comScoreEnabled |-> "true", comScoreDebugMode |-> "0", comScoreCustomerID |-> "1"]
MCSpringDefaults == [springEnabled |-> "true"]
MCATInternetDefaults == [barbEnabled |-> "false"]
MCProfiles == [world_service |-> [comScoreCustomerID |-> "2", useESS |-> "true"]]
MCLowercased ==
    [p \in {"", "World_Service", "junk"} |->
        IF p = "World_Service" THEN "world_service" ELSE p]

Flags == {"echoEnabled", "echoAutoStart", "useESS", "essHTTPSEnabled",
          "comScoreEnabled", "testServiceEnabled", "idv5Enabled",
          "webviewCookiesEnabled", "barbEnabled",
          "comscoreResetDataOnUserStateChange"}

(* One option set, to a good value, to junk or to nothing.                 *)
OneOption ==
    {k :> v : k \in Flags, v \in {"true", "false", "junk", ""}}
    \cup {"echoCacheMode" :> v : v \in {"all", "junk", ""}}
    \cup {"comScoreDebugMode" :> v : v \in {"1", "junk"}}
    \cup {"echoDebug" :> v : v \in {"true", "info", "error", "junk"}}
    \cup {"measurementLibName" :> "junk", "essURL" :> "", "essURL" :> "host"}

Identity ==
    {("idv5Enabled" :> v) @@ ("webviewCookiesEnabled" :> w)
        @@ ("comscoreResetDataOnUserStateChange" :> "true") @@ ("echoAutoStart" :> a) :
            v \in {"true", "false"}, w \in {"true", "junk"}, a \in Bools}

(* A profile, with and without a value of the user's for the same option.  *)
Profiled ==
    {("reportingProfile" :> p) @@ c :
        p \in DOMAIN MCLowercased,
        c \in {NoConfig, "comScoreCustomerID" :> "3", "useESS" :> "",
               "useESS" :> "false"}}

MCUserConfigs == {NoConfig} \cup OneOption \cup Identity \cup Profiled
=============================================================================
