----------------------------- MODULE MCWebServer -----------------------------
(* A client, the loop and one reset at a time; queries that without the     *)
(* semaphore would take every thread.                                       *)
EXTENDS WebServer, TLC
=============================================================================
