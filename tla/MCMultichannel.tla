--------------------------- MODULE MCMultichannel ----------------------------
(* A control channel and a traffic channel, on days of two seconds. *)
EXTENDS Multichannel, TLC
=============================================================================
