----------------------------- MODULE MCLiveness -----------------------------
(* What must happen in the end, in Payments and in BookingLifecycle, under   *)
(* the fairness of each.  The two share no state: each behaviour awaits one  *)
(* of them, and nothing of the other is ever started.                        *)
EXTENDS Payments

CONSTANTS Bookings, Drivers, Vehicles, Quotes, Workers, Crons, MaxCrashes

VARIABLES row, req, auditLog, assignmentLog, outbox, deletedVersion, crashes,
          awaited    \* the component this behaviour is of

Booking == INSTANCE BookingLifecycle

bookingVars == <<row, req, auditLog, assignmentLog, outbox, deletedVersion, crashes>>

MCOneQuote == {[base |-> 2, extras |-> 0]}

LiveInit == Init /\ Booking!Init /\ awaited \in {"booking", "payment"}

LiveNext ==
    /\ UNCHANGED awaited
    /\ \/ awaited = "booking" /\ Booking!Next /\ UNCHANGED vars
       \/ awaited = "payment" /\ Next /\ UNCHANGED bookingVars

LiveSpec ==
    /\ LiveInit /\ [][LiveNext]_<<awaited, vars, bookingVars>>
    /\ Fairness /\ Booking!Fairness

\* A HYBRID booking whose claim timeout has passed is opened, taken, cancelled
\* or deleted in the end: the cron retries it whatever races with it or dies.
HybridBookingsOpen == Booking!HybridBookingsOpen
=============================================================================
