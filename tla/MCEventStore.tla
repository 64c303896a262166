---------------------------- MODULE MCEventStore -----------------------------
(* EventStore on two days, with a timer to spare. *)
EXTENDS EventStore
=============================================================================
