--------------------------- MODULE RemoteSessionMC ---------------------------
(* RemoteSession for TLC, with its histories.                              *)
EXTENDS RemoteSessionTrace, RemoteWireMC
=============================================================================
