------------------------------ MODULE MCIcecast ------------------------------
(* The output with room for a process in use, one that the relay still      *)
(* refers to, and one being launched.                                       *)
EXTENDS Icecast

MCStreams == 1 .. 2
MCDecoders == 1 .. 2
AllCommands == {"play", "pause", "stop", "volume", "recover"}
PlayCommands == {"play"}
=============================================================================
