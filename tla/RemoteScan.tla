----------------------------- MODULE RemoteScan -----------------------------
(***************************************************************************)
(* A scan: bytes taken in turn, each changing the state of the scan.  The  *)
(* loops of remote_protocol.c and remote_ndef.c over a line, a text or a   *)
(* payload are scans.                                                      *)
(***************************************************************************)
EXTENDS Integers, Sequences

(* The state after the bytes of raw.  It is FoldLeft, by index: FoldLeft's *)
(* own way through sets is slow on a line.                                 *)
ScanOf(Take(_, _), start, raw) ==
  LET after[i \in 0 .. Len(raw)] == IF i = 0 THEN start ELSE Take(after[i - 1], raw[i])
  IN  after[Len(raw)]
=============================================================================
