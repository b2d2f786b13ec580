---------------------------- MODULE MCEchoSystem ----------------------------
(* TLC instance of EchoSystem.                                             *)
EXTENDS EchoSystem, TLC

CONSTANTS ha, t1

(* Nobody, and one user with a token.                                      *)
MCUsers == {[identity |-> SignedOut, token |-> NoToken],
            [identity |-> ha, token |-> t1]}

(* Started by hand without the reset on state change, and started at once  *)
(* with it.                                                                *)
MCTwoConfigs ==
    {[enabled |-> TRUE, autoStart |-> FALSE, idv5 |-> TRUE, reset |-> FALSE],
     [enabled |-> TRUE, autoStart |-> TRUE, idv5 |-> TRUE, reset |-> TRUE]}

(* No guard and no property here reads the ESS labels, so states that only *)
(* differ in them are the same.                                            *)
MCView == <<vars, playerDelegate, media, broker, brokers, mediaActive,
            suppressingPlayEvent, suppressedPlayEventLabels, cacheMode, avDlg,
            event, wanted>>

MCBrokerSymmetry == Permutations(Brokers)
=============================================================================
