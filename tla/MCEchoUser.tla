----------------------------- MODULE MCEchoUser -----------------------------
(* TLC instances of EchoUser.                                              *)
EXTENDS EchoUser

CONSTANTS ha, hb, t1, t2

(* Signed out, one user with two tokens and without a timestamp, and a     *)
(* second user who shares one of the tokens.  Which of the transitions a   *)
(* change of user is does not matter here.                                 *)
MCUsers == {[identity |-> SignedOut, token |-> NoToken],
            [identity |-> ha, token |-> NoToken],
            [identity |-> ha, token |-> t1],
            [identity |-> ha, token |-> t2],
            [identity |-> hb, token |-> t2]}

(* Every configuration.                                                    *)
MCConfigs == Config
=============================================================================
