----------------------------- MODULE RemoteLinkMC -----------------------------
(***************************************************************************)
(* RemoteLink for TLC: the presses of one connection and of the next are   *)
(* told apart, every one of them asks for a start, and the demo script     *)
(* answers.  Where the link recovers, they ask by turns for a start and    *)
(* for a page that cannot be sent.                                         *)
(***************************************************************************)
EXTENDS RemoteLink, RemoteWireMC

CONSTANT s2

MCThreeScreens == {blank, s1, s2}

MCEventOf    == [p \in Press |-> "CENTER_SHORT"]
MCTurningEventOf == [p \in Press |-> IF p = p1 THEN "CENTER_SHORT" ELSE "RIGHT_SHORT"]
MCNextPress  == [p \in Press |-> IF p = p1 /\ p2 \in Press THEN p2 ELSE p1]
MCTurned     == [screen \in Active |-> [WIFI |-> s1, GUEST |-> s2]]
MCStill      == [screen \in Active |-> [WIFI |-> s1, GUEST |-> s1]]
MCBehaviours ==
  {[reject_every_version |-> FALSE, silent |-> FALSE, demo_script |-> TRUE,
    mischief |-> {}]}

(* s1 is at the bound: a refusal that would show it does not fit its line. *)
MCEncodableRecords == ({BlankScreen} \X Error) \union ({s1} \X {"NONE"})
=============================================================================
