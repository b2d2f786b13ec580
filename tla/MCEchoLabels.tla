---------------------------- MODULE MCEchoLabels ----------------------------
(* TLC instances of EchoLabels.                                            *)
EXTENDS EchoLabels, TLC

(* Two spellings of one key, two of no key, two of the client's keys and a *)
(* managed one; one value has a dirty spelling.                            *)
MCKeys == {"page", "PAGE ", "", "  ", "ess_enabled", "ess_error", "managed"}
MCCleanKey ==
    [k \in MCKeys |-> CASE k = "PAGE " -> "page" [] k = "  " -> "" [] OTHER -> k]
MCValues == {"", "y", " y"}
MCCleanValue == [k \in MCKeys |-> [v \in MCValues |-> IF v = " y" THEN "y" ELSE v]]

(* A collision, one key of each kind, and a label under the client's key.  *)
MCDictionaries == {("page" :> "") @@ ("PAGE " :> " y"),
                   "PAGE " :> "y",
                   "  " :> "y",
                   "ess_error" :> "y"}
=============================================================================
