-------------------------- MODULE MCStationThreads --------------------------
(* The main thread, the supervisor and request threads, for TLC.            *)
EXTENDS StationThreads
=============================================================================
