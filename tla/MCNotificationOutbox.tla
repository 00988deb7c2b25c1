------------------------ MODULE MCNotificationOutbox ------------------------
(* Small instances of NotificationOutbox for TLC. *)
EXTENDS NotificationOutbox, TLC

MCSymmetry == Permutations(Drains)
=============================================================================
