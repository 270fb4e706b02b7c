-------------------------- MODULE RemoteTransportMC --------------------------
(* RemoteTransport for TLC. *)
EXTENDS RemoteTransport, RemoteWireMC
=============================================================================
