------------------------- MODULE RemoteSessionTrace -------------------------
(***************************************************************************)
(* RemoteSession with a history variable: what the host has read of the    *)
(* output since the port was opened.  It only observes; every step is a    *)
(* step of the session.  And the session as AbstractSession sees it.       *)
(***************************************************************************)
EXTENDS RemoteSession

VARIABLE host  \* the line assembler at the other end of the cable

traceVars == <<vars, host>>

TraceInit ==
  /\ Init
  /\ host = EmptyAssembler

-----------------------------------------------------------------------------
(* The host reads the units of a packet, in order.                         *)
ReadBy(assembler, units) ==
  LET read[n \in 0 .. Len(units)] ==
        IF n = 0 THEN assembler ELSE FeedNext(read[n - 1], units[n])
  IN  read[Len(units)]

TraceDrain ==
  /\ Drain
  /\ host' = ReadBy(host, SubSeq(output, 1, Taken(PacketUnits)))

(* The host discards a half line when the port opens or closes.            *)
TraceOpen  == PortOpened /\ host' = EmptyAssembler
TraceClose == PortClosed /\ host' = EmptyAssembler

TraceOther ==
  /\ AppTick \/ AppReport \/ AppLock \/ HostReceive
  /\ UNCHANGED host

TraceNext == TraceDrain \/ TraceOpen \/ TraceClose \/ TraceOther

TraceSpec == TraceInit /\ [][TraceNext]_traceVars

(***************************************************************************)
(* The main loop ticks in every pass, and passes take time, so the clock   *)
(* advances.  Nothing is assumed of the transport, the host or the         *)
(* operator.                                                               *)
(***************************************************************************)
FairTraceSpec == TraceSpec /\ WF_vars(TimePasses)

-----------------------------------------------------------------------------
(***************************************************************************)
(* Nothing is ever half written ("queue_message"): what the host has read  *)
(* since its last line feed, followed by what still waits, is whole        *)
(* messages one after the other.  So every line the host reads parses,     *)
(* however the output was drained, cleared or retried in between.          *)
(***************************************************************************)
WholeLines ==
  LET stream == host.line \o output
  IN  /\ ~host.overlong
      /\ WellFramed(stream)
      /\ stream # <<>> => stream[1].at = 1

-----------------------------------------------------------------------------
(* The messages that end in a buffer, in order.                            *)
MessagesEnding(units) ==
  LET ending[n \in 0 .. Len(units)] ==
        IF n = 0 THEN <<>>
        ELSE IF EndsLine(units[n]) THEN Append(ending[n - 1], units[n].of)
        ELSE ending[n - 1]
  IN  ending[Len(units)]

(* A message is on its way until its line feed has left the output.        *)
Mirror == INSTANCE AbstractSession WITH
  phase   <- link_state,
  shown   <- current_display,
  locked  <- screen_locked,
  pending <- MessagesEnding(output)

(***************************************************************************)
(* The session implements its promise: with buffers, packets, partial      *)
(* drains, retries and a line assembler in place of a queue of messages,   *)
(* no message is lost, doubled, reordered or kept beyond its connection    *)
(* that the promise does not lose, and every record shown is one received. *)
(***************************************************************************)
ImplementsMirror == Mirror!Spec
=============================================================================
