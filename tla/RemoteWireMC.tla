---------------------------- MODULE RemoteWireMC ----------------------------
(***************************************************************************)
(* The small values TLC gives the wire.  HELLO, BUTTON and DISPLAY take    *)
(* two units and STATE one, and a packet holds three, so that like the     *)
(* program's 15 to 129 bytes in packets of 64 the messages straddle        *)
(* packets at every offset, and HELLO, which must, fits one.               *)
(***************************************************************************)
EXTENDS RemoteWire

CONSTANTS p1, p2, blank, s1

MCNoPress   == {}
MCOnePress  == {p1}
MCTwoPresses == {p1, p2}
MCScreen == {blank, s1}

MCMessageUnits ==
  [verb \in Verb |-> IF verb \in {"STATE", "NOISE"} THEN 1 ELSE 2]

(* An acceptance, a rejection, the answer to a refused message, noise, and *)
(* a verb the appliance never sends.                                       *)
MCInbound ==
  {Display(s1, "NONE"), Display(blank, "BAD_VERSION"), Display(blank, "NO_HELLO"),
   Noise, State(TRUE)}

MCAcceptance == {Display(s1, "NONE")}
=============================================================================
