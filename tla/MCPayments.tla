----------------------------- MODULE MCPayments -----------------------------
(* A small instance of Payments for TLC, in two scenarios: deliveries of     *)
(* webhooks race with one checkout at a time, or checkouts of what a desk    *)
(* payment has left race with each other, over one more order, and no event  *)
(* is delivered.  The cron is in both.  Every step is one of Payments.       *)
EXTENDS Payments, TLC

VARIABLE scenario    \* "deliveries" or "checkouts"

MCInit == Init /\ scenario \in {"deliveries", "checkouts"}

MCNext ==
    /\ Next
    /\ UNCHANGED scenario
    /\ \/ /\ scenario = "deliveries"
          /\ gateway'[MaxOrders] = "none"
          /\ \E k \in Customers : \A other \in Customers \ {k} : shop'[other] = NoCheckout
       \/ /\ scenario = "checkouts"
          /\ UNCHANGED hook
          /\ \A k \in Customers : shop'[k].amount <= 1

MCSpec == MCInit /\ [][MCNext]_<<scenario, vars>>

\* Checkouts and deliveries are interchangeable.
MCSymmetry == Permutations(Customers) \cup Permutations(Hooks)
=============================================================================
