------------------------- MODULE MCBookingLifecycle -------------------------
(* Small instances of BookingLifecycle for TLC. *)
EXTENDS BookingImplementsTrip, TLC

MCQuotes == {[base |-> 2, extras |-> 0], [base |-> 1, extras |-> 2]}
MCOneQuote == {[base |-> 2, extras |-> 0]}

\* Handlers of one kind are interchangeable, and so are drivers.
MCSymmetry == Permutations(Drivers) \cup Permutations(Workers)
=============================================================================
