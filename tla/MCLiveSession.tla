---------------------------- MODULE MCLiveSession ----------------------------
(* LiveSession with two tunings and room for a child too many. *)
EXTENDS LiveSession
=============================================================================
