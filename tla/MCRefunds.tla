----------------------------- MODULE MCRefunds ------------------------------
(* Small instances of Refunds for TLC. *)
EXTENDS Refunds, TLC

\* Handlers, and admins among themselves, are interchangeable.
MCSymmetry == Permutations(Hooks) \cup Permutations(Deciders) \cup Permutations(Admins)
=============================================================================
