------------------------- MODULE DevelopmentPeerMC -------------------------
(***************************************************************************)
(* DevelopmentPeer for TLC: one press of every event, and one more without *)
(* the guard; a record of READY, and one of an active session on each page:*)
(* the one fits a line with the shorter errors, the other with none;       *)
(* an operator who asks for lines of no meaning, and one who breaks lines. *)
(***************************************************************************)
EXTENDS DevelopmentPeer, RemoteWireMC, TLC

CONSTANTS center, long, left, right, stale, guest

MCPress  == {center, long, left, right, stale}
MCPresses == MCPress \ {stale}
MCScreens == {blank, s1, guest}
MCEventOf == (center :> "CENTER_SHORT") @@ (long :> "CENTER_LONG") @@
             (left :> "LEFT_SHORT") @@ (right :> "RIGHT_SHORT") @@ (stale :> "CENTER_SHORT")
MCTurned  == [screen \in {s1, guest} |-> [WIFI |-> s1, GUEST |-> guest]]
MCEncodableRecords ==
  ({blank} \X Error) \union ({s1} \X {"NONE", "GUARD", "ACTIVE"})
MCBehaviours == {b \in Behaviour : b.mischief \in {{"malformed"}, {"oversized", "partial"}}}
MCLines   == {Hello(TRUE), State(FALSE), BlankRecord, Noise} \union {Button(p) : p \in MCPress}
=============================================================================
