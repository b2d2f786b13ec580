------------------------- MODULE MCEchoUserDelivery -------------------------
(* TLC instances of EchoUserDelivery.                                      *)
EXTENDS EchoUserDelivery

CONSTANT ha

(* Signed out, personalisation off and one personalised user: every kind   *)
(* of transition.                                                          *)
MCUsers == {[identity |-> id, token |-> NoToken] :
                id \in {SignedOut, PersonalisationOff, ha}}
=============================================================================
