---------------------------- MODULE EchoIdentity ----------------------------
(***************************************************************************)
(* BBC users and what the UserPromiseHelper makes of a change of user.     *)
(* Neither class is part of the repository: they are modelled from the     *)
(* calls the client makes and the fields it reads.                         *)
(*                                                                         *)
(* A user is an identity and a token: signed out, signed in without a      *)
(* hashed id (personalisation off), or signed in with one.  A token stands *)
(* for a tokenRefreshTimestamp.                                            *)
(***************************************************************************)
EXTENDS Naturals

CONSTANTS HashedIds,      \* hashed ids of personalised users
          Tokens,         \* token refresh timestamps
          SignedOut, PersonalisationOff, NoToken, NoUser, NoReason,
          Users           \* the users the app may set

Identities == HashedIds \cup {SignedOut, PersonalisationOff}
BBCUser == [identity : Identities, token : Tokens \cup {NoToken}]

Transitions == {"none", "sign_in", "sign_out", "enable_personalisation",
                "disable_personalisation"}
Reasons == {"firstInstall", "echoUpgrade", "userStateChange", "other"}

ASSUME UserAssumption ==
    /\ Users \subseteq BBCUser
    /\ NoUser \notin BBCUser
    /\ NoToken \notin Tokens
    /\ SignedOut # PersonalisationOff
    /\ HashedIds \cap {SignedOut, PersonalisationOff} = {}
    /\ NoReason \notin Reasons

(* BBCUser.getUserStateTransition(user:); nobody counts as signed out.     *)
Transition(old, new) ==
    LET from == IF old = NoUser THEN SignedOut ELSE old.identity
        to == new.identity
    IN  IF from = to THEN "none"
        ELSE IF to = SignedOut THEN "sign_out"
        ELSE IF from = SignedOut THEN "sign_in"
        ELSE IF from = PersonalisationOff THEN "enable_personalisation"
        ELSE IF to = PersonalisationOff THEN "disable_personalisation"
        ELSE "sign_in"

(* Why UserPromiseHelper.setBBCUser resets the device id, if it does: for  *)
(* a change of user, and on its own account (an expired id, new hardware,  *)
(* an upgrade).  The version of the library does not change under a        *)
(* running process, so only the first call of a launch finds an upgrade.   *)
ResetReasons(old, new, first) ==
    IF old = NoUser THEN {"firstInstall"}
    ELSE (IF Transition(old, new) # "none" THEN {"userStateChange"}
          ELSE {NoReason, "other"})
         \cup (IF first THEN {"echoUpgrade"} ELSE {})

(* The three fields of the result the client reads.  A transition          *)
(* postponed earlier may be handed back when the call brings none of its   *)
(* own.                                                                    *)
UserPromiseHelperResult ==
    [transition : Transitions, reason : Reasons \cup {NoReason}, postponed : BOOLEAN]

HelperResult(old, pending, new, first) ==
    LET now == Transition(old, new)
        reasons == ResetReasons(old, new, first)
        fresh == [transition : {now}, reason : reasons, postponed : {FALSE}]
        late == [transition : {pending}, reason : reasons, postponed : {TRUE}]
    IN  IF now = "none" /\ pending # "none" THEN fresh \cup late ELSE fresh
=============================================================================
