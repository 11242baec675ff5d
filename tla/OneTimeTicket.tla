----------------------------- MODULE OneTimeTicket -----------------------------
(***************************************************************************)
(* What a one-time challenge promises, whatever the machinery behind it: a *)
(* ticket is issued once, is redeemed at most once and only while it is    *)
(* open, and is never opened again once it was redeemed or dropped.        *)
(***************************************************************************)
EXTENDS Integers

CONSTANT Tickets

VARIABLES
    ticket,
    earned      \* redemptions of each ticket

Init ==
    /\ ticket = [t \in Tickets |-> "fresh"]
    /\ earned = [t \in Tickets |-> 0]

Open == {t \in Tickets : ticket[t] = "open"}

\* A ticket is issued; issuing it may replace some that were open.
Issue(t, replaced) ==
    /\ ticket[t] = "fresh"
    /\ ticket' = [u \in Tickets |-> IF u = t THEN "open"
                                    ELSE IF u \in replaced THEN "dropped" ELSE ticket[u]]
    /\ UNCHANGED earned

Redeem(t) ==
    /\ ticket[t] = "open"
    /\ ticket' = [ticket EXCEPT ![t] = "redeemed"]
    /\ earned' = [earned EXCEPT ![t] = @ + 1]

\* Tickets expire, fail or are forgotten.
Drop(gone) ==
    /\ ticket' = [t \in Tickets |-> IF t \in gone THEN "dropped" ELSE ticket[t]]
    /\ UNCHANGED earned

Next ==
    \/ \E t \in Tickets, replaced \in SUBSET Open : Issue(t, replaced)
    \/ \E t \in Tickets : Redeem(t)
    \/ \E gone \in SUBSET Open : Drop(gone)

Spec == Init /\ [][Next]_<<ticket, earned>>
===============================================================================
