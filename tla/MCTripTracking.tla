--------------------------- MODULE MCTripTracking ---------------------------
(* Small instances of TripTracking for TLC. *)
EXTENDS TripTracking, TLC

MCOneQuote == {[base |-> 2, extras |-> 0]}
MCSymmetry == Permutations(Drivers) \cup Permutations(Trackers)
=============================================================================
