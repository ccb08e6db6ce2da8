--------------------------- MODULE OneUsePreview ---------------------------
(***************************************************************************)
(* What previews promise: a token stands for one offer, can be spent once  *)
(* and only before it lapses, and what runs for it is what was offered.    *)
(* Attempts is how often the submission itself is repeated when its answer *)
(* does not arrive.                                                        *)
(***************************************************************************)
EXTENDS Integers, Sequences

CONSTANTS Tokens, Offers, Attempts

VARIABLES
    status,     \* [Tokens -> "unseen", "offered", "spent" or "lapsed"]
    offer,      \* [Tokens -> Offers, or anything while unseen]
    ran         \* [Tokens -> what the scheduler was given for it, in order]

vars == <<status, offer, ran>>

Init ==
    /\ status = [t \in Tokens |-> "unseen"]
    /\ offer \in [Tokens -> Offers]
    /\ ran = [t \in Tokens |-> <<>>]

Make(t) ==
    /\ status[t] = "unseen"
    /\ status' = [status EXCEPT ![t] = "offered"]
    /\ \E o \in Offers : offer' = [offer EXCEPT ![t] = o]
    /\ UNCHANGED ran

Lapse(t) ==
    /\ status[t] = "offered"
    /\ status' = [status EXCEPT ![t] = "lapsed"]
    /\ UNCHANGED <<offer, ran>>

Spend(t) ==
    /\ status[t] = "offered"
    /\ status' = [status EXCEPT ![t] = "spent"]
    /\ UNCHANGED <<offer, ran>>

Run(t) ==
    /\ status[t] = "spent"
    /\ Len(ran[t]) < Attempts
    /\ ran' = [ran EXCEPT ![t] = Append(@, offer[t])]
    /\ UNCHANGED <<status, offer>>

(* A restart forgets every offer at once. *)
Forget ==
    /\ status' = [t \in Tokens |-> IF status[t] = "offered" THEN "lapsed" ELSE status[t]]
    /\ UNCHANGED <<offer, ran>>

Next ==
    \/ \E t \in Tokens : Make(t) \/ Lapse(t) \/ Spend(t) \/ Run(t)
    \/ Forget

Spec == Init /\ [][Next]_vars
=============================================================================
