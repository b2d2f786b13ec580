------------------------- MODULE EchoIdentityProofs -------------------------
(***************************************************************************)
(* Lemmas about the UserPromiseHelper's answers, for the proofs about      *)
(* EchoUser and EchoUserDelivery.                                          *)
(***************************************************************************)
EXTENDS EchoIdentity, TLAPS

(* getUserStateTransition names one of the transitions.                    *)
LEMMA TransitionType ==
    ASSUME NEW old, NEW new
    PROVE  Transition(old, new) \in Transitions
  BY DEF Transition, Transitions

(* The helper answers with a transition, a reason and a flag.              *)
LEMMA HelperResultType ==
    ASSUME NEW old, NEW pending \in Transitions, NEW new, NEW first,
           NEW r \in HelperResult(old, pending, new, first)
    PROVE  r \in UserPromiseHelperResult
<1>1. ResetReasons(old, new, first) \subseteq Reasons \cup {NoReason}
  BY DEF ResetReasons, Reasons
<1>2. Transition(old, new) \in Transitions
  BY TransitionType
<1> QED
  BY <1>1, <1>2 DEF HelperResult, UserPromiseHelperResult

(* A postponed transition is handed back only when the call brings none of *)
(* its own; a reset for a change of user comes with that change.           *)
LEMMA HelperResultOrigin ==
    ASSUME NEW old, NEW pending \in Transitions, NEW new, NEW first,
           NEW r \in HelperResult(old, pending, new, first)
    PROVE  /\ r.postponed => /\ Transition(old, new) = "none"
                             /\ pending # "none"
                             /\ r.transition = pending
           /\ ~r.postponed => r.transition = Transition(old, new)
           /\ r.reason = "userStateChange" => Transition(old, new) # "none"
<1>1. r.reason \in ResetReasons(old, new, first)
  BY DEF HelperResult
<1>2. r.reason = "userStateChange" => Transition(old, new) # "none"
  BY <1>1, UserAssumption DEF ResetReasons, Reasons
<1> QED
  BY <1>2 DEF HelperResult
=============================================================================
