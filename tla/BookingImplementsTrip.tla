----------------------- MODULE BookingImplementsTrip -----------------------
(***************************************************************************)
(* The refinement: handlers that read, wait and write behind an optimistic *)
(* lock implement the atomic trip.  A trip is the row with its version,    *)
(* price and bookkeeping forgotten; every commit is one abstract step and  *)
(* every read, refusal, conflict and crash is a stutter.                   *)
(***************************************************************************)
EXTENDS BookingLifecycle

TripOf(r) == [status |-> r.status, claimer |-> r.claimedBy, driver |-> r.driver]

Trip == INSTANCE TripStateMachine WITH trip <- [b \in Bookings |-> TripOf(row[b])]

\* Concurrent handlers on a booking behave as if each transition had read and
\* written in one step (transitionBookingStatus, claimBooking).
ImplementsTrip == Trip!Spec
=============================================================================
