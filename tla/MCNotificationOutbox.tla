------------------------- MODULE MCNotificationOutbox -------------------------
(* The notification outbox with interchangeable channels and dispatchers. *)
EXTENDS NotificationOutbox, TLC

Symmetry == Permutations(Channels) \cup Permutations(Dispatchers)
=============================================================================
