-------------------------- MODULE RemoteApplicationMC --------------------------
(***************************************************************************)
(* RemoteApplication for TLC: a short press that starts a session, the     *)
(* lock and the unlock, and the exit, each of which the lock may swallow; a*)
(* record with a code, one with a payload too big for a code, and none.    *)
(***************************************************************************)
EXTENDS RemoteApplication, RemoteWireMC

CONSTANT big

Pressed(button, kind) == [button |-> button, kind |-> kind]

MCEvents    == ReportableEvent
MCScreens   == {blank, s1, big}
MCNdefOf    == [screen \in {s1, big} |-> screen]
MCRecords   == {Display(s1, "NONE"), Display(big, "NONE")}

MCLocking == {Pressed("Center", "Short"), Pressed("Down", "Short"), Pressed("Down", "Long")}
MCExit    == MCLocking \union {Pressed("Back", "Long")}
MCOneKey  == {Pressed("Center", "Short")}
=============================================================================
