------------------------ MODULE RemoteTransportProofs ------------------------
(***************************************************************************)
(* Theorems about RemoteTransport for every value of its constants.        *)
(*                                                                         *)
(* First the transport is shown to drive the session by its rules, in all  *)
(* circumstances, so that every theorem about the session holds of it.     *)
(* Then the theorems about the send slot, the line and the send buffer,    *)
(* each under the assumption on the environment that it needs.             *)
(***************************************************************************)
EXTENDS RemoteTransport, RemoteSessionProofs

-----------------------------------------------------------------------------
(* What is in the channel was written by the host.                         *)
WrittenByTheHost ==
  /\ rx \in Seq(Unit)
  /\ \A i \in DOMAIN rx : \E m \in Inbound : \E j \in DOMAIN Units(m) : rx[i] = Units(m)[j]

DrivingInv == OneViewOfThePort /\ WrittenByTheHost

(* What the host writes goes behind what it wrote before.                  *)
LEMMA HostWritesKeeps ==
  ASSUME WrittenByTheHost, NEW m \in Inbound
  PROVE  /\ rx \o Units(m) \in Seq(Unit)
         /\ \A i \in DOMAIN (rx \o Units(m)) :
              \E n \in Inbound : \E j \in DOMAIN Units(n) : (rx \o Units(m))[i] = Units(n)[j]
<1> DEFINE s == rx \o Units(m)
<1>1. m \in Message
  BY SessionAssumption
<1>2. rx \in Seq(Unit) /\ Units(m) \in Seq(Unit)
  BY <1>1, UnitsFacts DEF WrittenByTheHost
<1>3. /\ s \in Seq(Unit) /\ Len(s) = Len(rx) + Len(Units(m))
      /\ \A i \in 1 .. Len(rx) + Len(Units(m)) :
           s[i] = IF i <= Len(rx) THEN rx[i] ELSE Units(m)[i - Len(rx)]
  BY <1>2, ConcatProperties
<1>4. DOMAIN s = 1 .. Len(s) /\ DOMAIN rx = 1 .. Len(rx) /\ DOMAIN Units(m) = 1 .. Len(Units(m))
      /\ Len(rx) \in Nat /\ Len(Units(m)) \in Nat
  BY <1>2, <1>3, LenProperties
<1> HIDE DEF s
<1>5. ASSUME NEW i \in DOMAIN s
      PROVE  \E n \in Inbound : \E j \in DOMAIN Units(n) : s[i] = Units(n)[j]
  <2>1. i \in 1 .. Len(rx) + Len(Units(m))
    BY <1>3, <1>4
  <2>2. CASE i <= Len(rx)
    <3>1. i \in DOMAIN rx /\ s[i] = rx[i]
      BY <1>3, <1>4, <2>1, <2>2
    <3> QED
      BY <3>1 DEF WrittenByTheHost
  <2>3. CASE ~(i <= Len(rx))
    <3>1. i - Len(rx) \in 1 .. Len(Units(m))
      BY <1>4, <2>1, <2>3
    <3>2. s[i] = Units(m)[i - Len(rx)]
      BY <1>3, <2>1, <2>3
    <3> QED
      BY <1>4, <3>1, <3>2
  <2> QED
    BY <2>2, <2>3
<1> QED
  BY <1>3, <1>5 DEF s

(* The main loop reads it from the front.                                  *)
LEMMA HeadAndTail ==
  ASSUME WrittenByTheHost, rx # <<>>
  PROVE  /\ \E m \in Inbound : \E j \in DOMAIN Units(m) : Head(rx) = Units(m)[j]
         /\ Tail(rx) \in Seq(Unit)
         /\ \A i \in DOMAIN Tail(rx) :
              \E m \in Inbound : \E j \in DOMAIN Units(m) : Tail(rx)[i] = Units(m)[j]
<1>1. rx \in Seq(Unit)
  BY DEF WrittenByTheHost
<1>2. /\ Head(rx) = rx[1] /\ Tail(rx) \in Seq(Unit) /\ Len(Tail(rx)) = Len(rx) - 1
      /\ \A i \in 1 .. Len(Tail(rx)) : Tail(rx)[i] = rx[i + 1]
  BY <1>1, HeadTailProperties
<1>3. Len(rx) \in Nat \ {0} /\ DOMAIN rx = 1 .. Len(rx) /\ DOMAIN Tail(rx) = 1 .. Len(rx) - 1
  BY <1>1, <1>2, EmptySeq, LenProperties
<1>4. 1 \in DOMAIN rx
  BY <1>3
<1>5. ASSUME NEW i \in DOMAIN Tail(rx)
      PROVE  i + 1 \in DOMAIN rx /\ Tail(rx)[i] = rx[i + 1]
  <2>1. i \in 1 .. Len(rx) - 1 /\ i + 1 \in 1 .. Len(rx)
    BY <1>3
  <2> QED
    BY <1>2, <1>3, <2>1
<1> QED
  BY <1>2, <1>4, <1>5 DEF WrittenByTheHost

-----------------------------------------------------------------------------
(* Each step of the link is a call of the session, or none.                *)

LEMMA InterruptDrives == DrivingInv /\ Interrupt => UNCHANGED vars /\ DrivingInv'
<1> SUFFICES ASSUME DrivingInv, Interrupt PROVE UNCHANGED vars /\ DrivingInv'
  OBVIOUS
<1> USE DEF DrivingInv
<1>1. UNCHANGED vars /\ UNCHANGED port_open
  BY DEF Interrupt
<1>2. OneViewOfThePort'
  BY <1>1 DEF OneViewOfThePort, vars
<1>3. CASE UNCHANGED rx \/ rx' = <<>>
  <2>1. <<>> \in Seq(Unit) /\ DOMAIN <<>> = {}
    OBVIOUS
  <2>2. WrittenByTheHost'
    BY <1>3, <2>1 DEF WrittenByTheHost
  <2> QED
    BY <1>1, <1>2, <2>2
<1>4. CASE HostWrites
  BY <1>1, <1>2, <1>4, HostWritesKeeps DEF HostWrites, WrittenByTheHost
<1>5. CASE Pull
  BY <1>3, <1>5 DEF Pull
<1>6. CASE Insert \/ Reenumerate \/ HostOpens \/ HostCloses \/ HostReads
  BY <1>3, <1>6 DEF Insert, Reenumerate, HostOpens, HostCloses, HostReads
<1> QED
  BY <1>4, <1>5, <1>6 DEF Interrupt

LEMMA OpeningDrives == DrivingInv /\ Opening => UNCHANGED vars /\ DrivingInv'
BY DEF DrivingInv, Opening, OneViewOfThePort, WrittenByTheHost, vars, hardware

LEMMA CloseDrives == DrivingInv /\ CloseTransport => [Next]_vars /\ DrivingInv'
BY DEF DrivingInv, CloseTransport, OneViewOfThePort, WrittenByTheHost, PortClosed, Next, vars

LEMMA BetweenDrives == DrivingInv /\ Between => [Next]_vars /\ DrivingInv'
<1> SUFFICES ASSUME DrivingInv, Between PROVE Next /\ UNCHANGED link_state /\ UNCHANGED <<port_open, rx>>
  BY DEF DrivingInv, OneViewOfThePort, WrittenByTheHost
<1>1. UNCHANGED <<port_open, rx>>
  BY DEF Between, hardware
<1> QED
  BY <1>1 DEF Between, Next, AppTick, AppReport, AppLock, Tick, ReportEvent, LockChanged

LEMMA ServiceDrives == DrivingInv /\ Service => [Next]_vars /\ DrivingInv'
<1> SUFFICES ASSUME DrivingInv, Service PROVE [Next]_vars /\ DrivingInv'
  OBVIOUS
<1> USE DEF DrivingInv
<1>1. CASE BeginPass \/ ReadLine \/ StoreLine \/ Acquire \/ Send
  BY <1>1 DEF BeginPass, ReadLine, StoreLine, Acquire, Send, OneViewOfThePort,
              WrittenByTheHost, vars, hardware
<1>2. CASE Edge
  BY <1>2 DEF Edge, PortOpened, PortClosed, Next, OneViewOfThePort, WrittenByTheHost,
              vars, hardware
<1>3. CASE ReceiveLoop
  <2>1. CASE rx = <<>>
    BY <1>3, <2>1 DEF ReceiveLoop, OneViewOfThePort, WrittenByTheHost, vars
  <2>2. CASE rx # <<>>
    <3>1. rx' = Tail(rx) /\ UNCHANGED port_open
          /\ IF port_open THEN Receive(Head(rx)) ELSE UNCHANGED vars
      BY <1>3, <2>2 DEF ReceiveLoop
    <3>2. WrittenByTheHost'
      BY <2>2, <3>1, HeadAndTail DEF WrittenByTheHost
    <3>3. CASE ~port_open
      BY <3>1, <3>2, <3>3 DEF OneViewOfThePort, vars
    <3>4. CASE port_open
      <4>1. HostReceive
        BY <2>2, <3>1, <3>4, HeadAndTail DEF HostReceive, OneViewOfThePort
      <4>2. link_state' # "LinkDown"
        BY <3>1, <3>4 DEF Receive, HandleDisplay, OneViewOfThePort
      <4> QED
        BY <3>1, <3>2, <3>4, <4>1, <4>2 DEF Next, OneViewOfThePort
    <3> QED
      BY <3>3, <3>4
  <2> QED
    BY <2>1, <2>2
<1>4. CASE Fill
  BY <1>4 DEF Fill, Drain, TakeOutput, Next, OneViewOfThePort, WrittenByTheHost, hardware
<1> QED
  BY <1>1, <1>2, <1>3, <1>4 DEF Service

LEMMA LinkDrives == DrivingInv /\ [LinkNext]_linkVars => [Next]_vars /\ DrivingInv'
<1>1. DrivingInv /\ UNCHANGED linkVars => UNCHANGED vars /\ DrivingInv'
  BY DEF linkVars, hardware, DrivingInv, OneViewOfThePort, WrittenByTheHost, vars
<1> QED
  BY <1>1, InterruptDrives, OpeningDrives, CloseDrives, BetweenDrives, ServiceDrives DEF LinkNext

LEMMA LinkStarts == LinkInit => Init /\ DrivingInv
BY DEF LinkInit, Init, DrivingInv, OneViewOfThePort, WrittenByTheHost

-----------------------------------------------------------------------------
(* The theorems about driving the session.                                 *)

(* Whatever the interrupt, the cable and the host do, the transport calls  *)
(* the session only as RemoteSession allows (remote_transport.c:199-272).  *)
THEOREM TransportDrivesSession == LinkSpec => SessionIsDrivenProperly
BY LinkStarts, LinkDrives, PTL DEF LinkSpec, Spec, SessionIsDrivenProperly

(* Transport and session never disagree about the port.                    *)
THEOREM OneView == LinkSpec => []OneViewOfThePort
BY LinkStarts, LinkDrives, PTL DEF LinkSpec, DrivingInv

(* Of a link that is down nothing waits: a close empties the output, and   *)
(* only an open link puts something into it.                               *)
DownIsEmpty == link_state = "LinkDown" => output = <<>>

LEMMA NothingWaitsWhileDown == Spec => []DownIsEmpty
<1>1. Init => DownIsEmpty
  BY DEF Init, DownIsEmpty
<1>2. DownIsEmpty /\ [Next]_vars => DownIsEmpty'
  <2> SUFFICES ASSUME DownIsEmpty, [Next]_vars, link_state' = "LinkDown"
               PROVE  output' = <<>>
    BY DEF DownIsEmpty
  <2>1. CASE UNCHANGED vars
    BY <2>1 DEF vars, DownIsEmpty
  <2>2. CASE PortOpened
    BY <2>2 DEF PortOpened
  <2>3. CASE PortClosed
    BY <2>3 DEF PortClosed
  <2>4. CASE HostReceive
    BY <2>4 DEF HostReceive, Receive, HandleDisplay
  <2>5. CASE AppTick \/ AppReport \/ AppLock
    BY <2>5 DEF AppTick, AppReport, AppLock, Tick, ReportEvent, LockChanged, DownIsEmpty
  <2>6. CASE Drain
    <3>1. output = <<>> /\ output' = SubSeq(output, Taken(PacketUnits) + 1, Len(output))
      BY <2>6 DEF Drain, TakeOutput, DownIsEmpty
    <3>2. PacketUnits \in Nat
      BY SessionAssumption
    <3>3. Len(output) = 0 /\ Taken(PacketUnits) = 0
      BY <3>1, <3>2 DEF Taken
    <3>4. SubSeq(<<>>, 1, 0) = <<>>
      OBVIOUS
    <3> QED
      BY <3>1, <3>3, <3>4
  <2> QED
    BY <2>1, <2>2, <2>3, <2>4, <2>5, <2>6 DEF Next
<1> QED
  BY <1>1, <1>2, PTL DEF Spec

(***************************************************************************)
(* Hence what holds of the session holds of it on the wire: while the      *)
(* transport takes the port for closed, the record shown is the blank one  *)
(* and nothing at all waits to be sent, whatever the interrupt does.       *)
(***************************************************************************)
THEOREM ClosedPortIsClean ==
  LinkSpec => [](~port_open => current_display = BlankRecord /\ output = <<>>)
<1>1. OneViewOfThePort /\ IInv /\ DownIsEmpty
        => (~port_open => current_display = BlankRecord /\ output = <<>>)
  BY DEF OneViewOfThePort, IInv, PayloadOnlyWhileConnected, DownIsEmpty
<1> QED
  BY <1>1, OneView, TransportDrivesSession, Invariance, NothingWaitsWhileDown, PTL
  DEF SessionIsDrivenProperly

-----------------------------------------------------------------------------
(* The types.                                                              *)

FactsOK ==
  usb_present \in BOOLEAN /\ dtr_present \in BOOLEAN /\ revalidate_dtr \in BOOLEAN

LineOK ==
  /\ cable \in BOOLEAN /\ line \in BOOLEAN /\ in_flight \in BOOLEAN
  /\ greeted \in BOOLEAN /\ abandoned \in BOOLEAN /\ unreported \in BOOLEAN

FlagsOK ==
  /\ FactsOK /\ LineOK
  /\ opened \in BOOLEAN /\ port_open \in BOOLEAN
  /\ pc \in Place /\ dtr \in BOOLEAN

CountOK == tx_complete \in {0, 1}

BytesOK ==
  /\ send_buffer \in Seq(Unit)
  /\ rx \in Seq(Unit) /\ stale \in 0 .. Len(rx)

LEMMA InterruptFlags == FlagsOK /\ Interrupt => FlagsOK'
<1> SUFFICES ASSUME FlagsOK, Interrupt PROVE FactsOK' /\ LineOK'
  BY DEF FlagsOK, Interrupt, place
<1> USE DEF FlagsOK, facts, history
<1>1. CASE Pull \/ Insert \/ Reenumerate
  <2>1. FactsOK'
    BY <1>1 DEF Pull, Insert, Reenumerate, StateCallback, FactsOK
  <2>2. Channel \in BOOLEAN
    BY DEF Channel
  <2>3. LineOK'
    BY <1>1, <2>2 DEF Pull, Insert, Reenumerate, LineOK
  <2> QED
    BY <2>1, <2>3
<1>2. CASE HostOpens \/ HostCloses
  <2>1. FactsOK'
    BY <1>2 DEF HostOpens, HostCloses, CtrlLineCallback, FactsOK
  <2>2. LineOK'
    BY <1>2 DEF HostOpens, HostCloses, LineOK
  <2> QED
    BY <2>1, <2>2
<1>3. CASE HostWrites \/ HostReads
  <2>1. FactsOK'
    BY <1>3 DEF HostWrites, HostReads, FactsOK
  <2>2. LineOK'
    BY <1>3 DEF HostWrites, HostReads, LineOK
  <2> QED
    BY <2>1, <2>2
<1> QED
  BY <1>1, <1>2, <1>3 DEF Interrupt

LEMMA FlagsStep == FlagsOK /\ [LinkNext]_linkVars => FlagsOK'
<1> SUFFICES ASSUME FlagsOK, [LinkNext]_linkVars PROVE FlagsOK'
  OBVIOUS
<1> USE DEF FlagsOK, FactsOK, LineOK, facts, place, hardware, history, Place, Seeding
<1>1. CASE UNCHANGED linkVars
  BY <1>1 DEF linkVars
<1>2. CASE Interrupt
  BY <1>2, InterruptFlags
<1>3. CASE Opening
  BY ZenonT(30), <1>3 DEF Opening, OpenTransport, SeedUsb, SeedRead, SeedStore
<1>4. CASE CloseTransport
  BY <1>4 DEF CloseTransport
<1>5. CASE Between
  BY <1>5 DEF Between
<1>6. CASE Service
  <2>1. UNCHANGED opened
    BY <1>6 DEF Service
  <2>2. CASE BeginPass \/ ReadLine \/ StoreLine
    <3>1. CASE BeginPass
      BY ZenonT(30), <2>1, <3>1 DEF BeginPass
    <3>2. CASE ReadLine
      BY ZenonT(30), <2>1, <3>2 DEF ReadLine
    <3>3. CASE StoreLine
      BY ZenonT(30), <2>1, <3>3 DEF StoreLine
    <3> QED
      BY <2>2, <3>1, <3>2, <3>3
  <2>3. CASE Edge
    BY <2>1, <2>3 DEF Edge, OpenNow
  <2>4. CASE ReceiveLoop
    BY <2>1, <2>4 DEF ReceiveLoop
  <2>5. CASE Acquire \/ Fill \/ Send
    BY <2>1, <2>5 DEF Acquire, Fill, Send
  <2> QED
    BY <1>6, <2>2, <2>3, <2>4, <2>5 DEF Service
<1> QED
  BY <1>1, <1>2, <1>3, <1>4, <1>5, <1>6 DEF LinkNext

LEMMA CountStep == CountOK /\ [LinkNext]_linkVars => CountOK'
<1> SUFFICES ASSUME tx_complete \in {0, 1}, [LinkNext]_linkVars
             PROVE  UNCHANGED tx_complete \/ tx_complete' = 0 \/ tx_complete' = 1
  BY DEF CountOK
<1>1. CASE UNCHANGED linkVars \/ Opening \/ CloseTransport \/ Between
  BY <1>1 DEF linkVars, Opening, CloseTransport, Between
<1>2. CASE Interrupt
  BY <1>2 DEF Interrupt, Pull, Insert, Reenumerate, HostOpens, HostCloses, HostWrites,
              HostReads, TxCompleteCallback
<1>3. CASE Service
  BY <1>3 DEF Service, BeginPass, ReadLine, StoreLine, Edge, ReceiveLoop, Acquire, Fill, Send
<1> QED
  BY <1>1, <1>2, <1>3 DEF LinkNext

LEMMA BytesStep == BytesOK /\ TypeOK /\ [LinkNext]_linkVars => BytesOK'
<1> SUFFICES ASSUME BytesOK, TypeOK, [LinkNext]_linkVars PROVE BytesOK'
  OBVIOUS
<1> USE DEF BytesOK
<1>1. Len(rx) \in Nat
  BY LenProperties
<1>2. <<>> \in Seq(Unit) /\ 0 \in 0 .. Len(<<>>)
  OBVIOUS
<1>3. CASE UNCHANGED <<send_buffer, rx, stale>>
  BY <1>3
<1>4. CASE UNCHANGED send_buffer /\ rx' = <<>> /\ stale' = 0
  BY <1>2, <1>4
<1>5. CASE HostOpens /\ UNCHANGED send_buffer
  BY <1>1, <1>5 DEF HostOpens
<1>6. CASE HostWrites /\ UNCHANGED send_buffer
  <2>1. PICK m \in Inbound : rx' = rx \o Units(m)
    BY <1>6 DEF HostWrites
  <2>2. m \in Message
    BY SessionAssumption
  <2>3. Units(m) \in Seq(Unit)
    BY <2>2, UnitsFacts
  <2>4. rx' \in Seq(Unit) /\ Len(rx') = Len(rx) + Len(Units(m)) /\ Len(Units(m)) \in Nat
    BY <2>1, <2>3, ConcatProperties, LenProperties
  <2>5. stale \in 0 .. Len(rx')
    BY <1>1, <2>4
  <2> QED
    BY <1>6, <2>4, <2>5 DEF HostWrites
<1>7. CASE ReceiveLoop /\ UNCHANGED send_buffer /\ rx # <<>>
  <2>1. rx' = Tail(rx) /\ stale' = IF stale > 0 THEN stale - 1 ELSE 0
    BY <1>7 DEF ReceiveLoop
  <2>2. rx' \in Seq(Unit) /\ Len(rx') = Len(rx) - 1 /\ Len(rx) > 0
    BY <1>1, <1>7, <2>1, HeadTailProperties, EmptySeq
  <2>3. stale' \in 0 .. Len(rx')
    BY <1>1, <2>1, <2>2
  <2> QED
    BY <1>7, <2>2, <2>3
<1>8. CASE Fill
  <2>1. output \in Seq(Unit) /\ Len(output) \in Nat /\ PacketUnits \in Nat
    BY LenProperties, SessionAssumption DEF TypeOK
  <2>2. Taken(PacketUnits) \in 0 .. Len(output)
    BY <2>1 DEF Taken
  <2>3. \A i \in 1 .. Taken(PacketUnits) : output[i] \in Unit
    BY <2>1, <2>2, ElementOfSeq
  <2>4. SubSeq(output, 1, Taken(PacketUnits)) \in Seq(Unit)
    BY <2>1, <2>2, <2>3, SubSeqProperties
  <2> QED
    BY <1>8, <2>4 DEF Fill, hardware
<1>9. Interrupt =>
        UNCHANGED send_buffer /\ (HostOpens \/ HostWrites \/ UNCHANGED <<rx, stale>>
                                  \/ (rx' = <<>> /\ stale' = 0))
  BY DEF Interrupt, Pull, Insert, Reenumerate, HostCloses, HostReads
<1>10. Opening \/ Between => UNCHANGED <<send_buffer, rx, stale>>
  BY DEF Opening, Between, hardware
<1>11. CloseTransport => UNCHANGED send_buffer /\ rx' = <<>> /\ stale' = 0
  BY DEF CloseTransport
<1>12. Service =>
         Fill \/ UNCHANGED <<send_buffer, rx, stale>>
         \/ (ReceiveLoop /\ UNCHANGED send_buffer /\ rx # <<>>)
  BY DEF Service, BeginPass, ReadLine, StoreLine, Edge, ReceiveLoop, Acquire, Send, hardware
<1>13. UNCHANGED linkVars => UNCHANGED <<send_buffer, rx, stale>>
  BY DEF linkVars, hardware
<1> QED
  BY <1>3, <1>4, <1>5, <1>6, <1>7, <1>8, <1>9, <1>10, <1>11, <1>12, <1>13 DEF LinkNext

LEMMA LinkTypeStart == LinkInit => FlagsOK /\ CountOK /\ BytesOK
<1>1. LinkInit => FlagsOK
  BY DEF LinkInit, FlagsOK, FactsOK, LineOK, Place
<1>2. <<>> \in Seq(Unit) /\ 0 \in 0 .. Len(<<>>)
  OBVIOUS
<1> QED
  BY <1>1, <1>2 DEF LinkInit, CountOK, BytesOK

(* Every field keeps its type; the semaphore never exceeds its maximum.    *)
THEOREM LinkTypeCorrect == LinkSpec => []LinkTypeOK
<1>1. CountOK => tx_complete \in 0 .. 1
  BY DEF CountOK
<1>2. FlagsOK /\ CountOK /\ BytesOK /\ TypeOK => LinkTypeOK
  BY <1>1 DEF FlagsOK, FactsOK, LineOK, BytesOK, LinkTypeOK
<1> QED
  BY <1>2, LinkTypeStart, FlagsStep, CountStep, BytesStep, TransportDrivesSession, TypeCorrect, PTL
  DEF LinkSpec, SessionIsDrivenProperly

-----------------------------------------------------------------------------
(* The send slot.                                                          *)

(***************************************************************************)
(* The slot is taken only by an open port, the line is up only with the    *)
(* cable in, and while the main loop lives these give the slot back.       *)
(***************************************************************************)
SlotInv ==
  /\ SlotIsNotLost
  /\ line => cable
  /\ pc # "exited" /\ tx_complete = 0 => port_open

LEMMA SlotStep ==
  ASSUME "coalesce" \notin Allowed
  PROVE  FlagsOK /\ SlotInv /\ [LinkNext]_linkVars => SlotInv'
<1> SUFFICES ASSUME FlagsOK, SlotInv, [LinkNext]_linkVars PROVE SlotInv'
  OBVIOUS
<1> USE DEF SlotInv, SlotIsNotLost, FlagsOK, FactsOK, LineOK
<1>1. CASE UNCHANGED linkVars
  BY <1>1 DEF linkVars, facts, place, hardware
<1>2. CASE Interrupt
  <2>1. UNCHANGED <<opened, port_open, send_buffer, pc, dtr>>
    BY <1>2 DEF Interrupt, place
  <2>2. CASE Pull
    BY <2>1, <2>2 DEF Pull, LineMayMove
  <2>3. CASE Insert
    BY <2>1, <2>3 DEF Insert
  <2>4. CASE Reenumerate
    BY <2>1, <2>4 DEF Reenumerate
  <2>5. CASE HostOpens
    BY <2>1, <2>5 DEF HostOpens, LineMayMove, Channel, Seeding
  <2>6. CASE HostCloses
    BY <2>1, <2>6 DEF HostCloses, LineMayMove
  <2>7. CASE HostWrites \/ HostReads
    BY <2>1, <2>7 DEF HostWrites, HostReads, TxCompleteCallback
  <2> QED
    BY <1>2, <2>2, <2>3, <2>4, <2>5, <2>6, <2>7 DEF Interrupt
<1>3. CASE Opening
  BY <1>3 DEF Opening, OpenTransport, SeedUsb, SeedRead, SeedStore, hardware
<1>4. CASE CloseTransport
  BY <1>4 DEF CloseTransport
<1>5. CASE Between
  BY <1>5 DEF Between, place, hardware
<1>6. CASE Service
  BY <1>6 DEF Service, BeginPass, ReadLine, StoreLine, Edge, ReceiveLoop, Acquire, Fill,
              Send, hardware
<1> QED
  BY <1>1, <1>2, <1>3, <1>4, <1>5, <1>6 DEF LinkNext

(* As long as the line does not move twice within a pass, the send slot is *)
(* never taken for ever (remote_transport.c:229-235).                      *)
THEOREM SlotComesBack ==
  ASSUME "coalesce" \notin Allowed
  PROVE  LinkSpec => []SlotIsNotLost
<1>1. LinkInit => FlagsOK /\ SlotInv
  BY LinkTypeStart DEF LinkInit, SlotInv, SlotIsNotLost
<1>2. SlotInv => SlotIsNotLost
  BY DEF SlotInv
<1>3. FlagsOK /\ SlotInv /\ [LinkNext]_linkVars => SlotInv'
  BY SlotStep
<1> QED
  BY <1>1, <1>2, <1>3, FlagsStep, PTL DEF LinkSpec

-----------------------------------------------------------------------------
(***************************************************************************)
(* What the transport knows of the line: an open is caught as long as the  *)
(* line rests while it is re-read.                                         *)
(***************************************************************************)

Serving == {"read_line", "store_line", "edge", "receive", "acquire", "fill", "send"}

(***************************************************************************)
(* While the line is up the facts say so, because the interrupt that       *)
(* raised it did, and whatever the main loop stores it has just read.      *)
(***************************************************************************)
CatchInv ==
  /\ pc \in Serving => opened
  /\ pc \in Seeding \cup {"exited"} => ~opened
  /\ line => cable /\ dtr_present /\ Channel
  /\ cable /\ Channel => usb_present \/ pc = "seed_usb"
  /\ pc \in {"store_line", "seed_store"} => dtr = line

LEMMA CatchStep ==
  ASSUME "race" \notin Allowed
  PROVE  FlagsOK /\ CatchInv /\ [LinkNext]_linkVars => CatchInv'
<1> SUFFICES ASSUME FlagsOK, CatchInv, [LinkNext]_linkVars PROVE CatchInv'
  OBVIOUS
<1> USE DEF CatchInv, FlagsOK, FactsOK, LineOK, Serving, Seeding, Channel
<1>1. CASE UNCHANGED linkVars
  BY <1>1 DEF linkVars, facts, place, hardware
<1>2. CASE Interrupt
  <2>1. UNCHANGED <<opened, pc, dtr>>
    BY <1>2 DEF Interrupt, place
  <2>2. CASE Pull
    BY <2>1, <2>2 DEF Pull, LineMayMove
  <2>3. CASE Insert
    BY <2>1, <2>3 DEF Insert, StateCallback, facts
  <2>4. CASE Reenumerate
    BY <2>1, <2>4 DEF Reenumerate, StateCallback, LineMayMove
  <2>5. CASE HostOpens
    BY <2>1, <2>5 DEF HostOpens, CtrlLineCallback, LineMayMove
  <2>6. CASE HostCloses
    BY <2>1, <2>6 DEF HostCloses, CtrlLineCallback, LineMayMove
  <2>7. CASE HostWrites \/ HostReads
    BY <2>1, <2>7 DEF HostWrites, HostReads, facts
  <2> QED
    BY <1>2, <2>2, <2>3, <2>4, <2>5, <2>6, <2>7 DEF Interrupt
<1>3. CASE Opening
  <2>1. UNCHANGED <<cable, line>>
    BY <1>3 DEF Opening, hardware
  <2>2. CASE OpenTransport
    BY <2>1, <2>2 DEF OpenTransport, facts
  <2>3. CASE SeedUsb \/ SeedRead \/ SeedStore
    BY <2>1, <2>3 DEF SeedUsb, SeedRead, SeedStore, facts
  <2> QED
    BY <1>3, <2>2, <2>3 DEF Opening
<1>4. CASE CloseTransport
  BY <1>4 DEF CloseTransport, facts
<1>5. CASE Between
  BY <1>5 DEF Between, facts, place, hardware
<1>6. CASE Service
  <2>1. UNCHANGED <<opened, cable, line>>
    BY <1>6 DEF Service, BeginPass, ReadLine, StoreLine, Edge, ReceiveLoop, Acquire, Fill,
                Send, hardware
  <2>2. CASE BeginPass \/ ReadLine \/ StoreLine
    BY <2>1, <2>2 DEF BeginPass, ReadLine, StoreLine, facts
  <2>3. CASE Edge \/ ReceiveLoop
    BY <2>1, <2>3 DEF Edge, ReceiveLoop, facts
  <2>4. CASE Acquire \/ Fill \/ Send
    BY <2>1, <2>4 DEF Acquire, Fill, Send, facts
  <2> QED
    BY <1>6, <2>2, <2>3, <2>4 DEF Service
<1> QED
  BY <1>1, <1>2, <1>3, <1>4, <1>5, <1>6 DEF LinkNext

LEMMA CatchStart == LinkInit => FlagsOK /\ CatchInv
BY LinkTypeStart DEF LinkInit, CatchInv, Serving, Seeding, Channel

(* Provided the line rests while it is re-read, an open is never missed:   *)
(* between passes the cached DTR is the line (remote_transport.c:213-215). *)
THEOREM OpenIsNeverMissed ==
  ASSUME "race" \notin Allowed
  PROVE  LinkSpec => []OpenIsCaught
<1>1. CatchInv => OpenIsCaught
  BY DEF CatchInv, OpenIsCaught
<1>2. FlagsOK /\ CatchInv /\ [LinkNext]_linkVars => CatchInv'
  BY CatchStep
<1> QED
  BY <1>1, <1>2, CatchStart, FlagsStep, PTL DEF LinkSpec

-----------------------------------------------------------------------------
(***************************************************************************)
(* The send buffer.  Unless its slot was given back early, a packet in     *)
(* flight holds the slot and the loop is not about to write the buffer;    *)
(* and while the loop is, the slot is its own.                             *)
(***************************************************************************)
BufferInv ==
  /\ ~abandoned /\ in_flight => tx_complete = 0 /\ pc \notin {"fill", "send"}
  /\ ~abandoned /\ pc \in {"fill", "send"} => tx_complete = 0
  /\ in_flight /\ pc \in {"fill", "send"} => tx_complete = 0

LEMMA BufferStep == FlagsOK /\ BufferInv /\ [LinkNext]_linkVars => BufferInv'
<1> SUFFICES ASSUME FlagsOK, BufferInv, [LinkNext]_linkVars PROVE BufferInv'
  OBVIOUS
<1> USE DEF BufferInv, FlagsOK, LineOK
<1>1. CASE UNCHANGED linkVars
  BY <1>1 DEF linkVars, place, hardware, history
<1>2. CASE Interrupt
  <2>1. UNCHANGED pc
    BY <1>2 DEF Interrupt, place
  <2>2. CASE HostReads
    BY <2>1, <2>2 DEF HostReads, TxCompleteCallback
  <2>3. CASE HostOpens
    BY <2>1, <2>3 DEF HostOpens
  <2>4. CASE Pull \/ Reenumerate
    BY <2>1, <2>4 DEF Pull, Reenumerate, history
  <2>5. CASE Insert \/ HostCloses \/ HostWrites
    <3>1. UNCHANGED <<tx_complete, in_flight, abandoned>>
      BY <2>5 DEF Insert, HostCloses, HostWrites, history
    <3> QED
      BY <2>1, <3>1
  <2> QED
    BY <1>2, <2>2, <2>3, <2>4, <2>5 DEF Interrupt
<1>3. CASE Opening
  BY <1>3 DEF Opening, OpenTransport, SeedUsb, SeedRead, SeedStore, hardware, history
<1>4. CASE CloseTransport
  BY <1>4 DEF CloseTransport, history
<1>5. CASE Between
  BY <1>5 DEF Between, place, hardware, history
<1>6. CASE Service
  <2>1. CASE BeginPass \/ ReadLine \/ StoreLine
    BY <2>1 DEF BeginPass, ReadLine, StoreLine, hardware, history
  <2>2. CASE Edge
    BY <2>2 DEF Edge, hardware, history
  <2>3. CASE ReceiveLoop
    BY <2>3 DEF ReceiveLoop, history
  <2>4. CASE Acquire
    BY <2>4 DEF Acquire, hardware, history
  <2>5. CASE Fill
    BY <2>5 DEF Fill, hardware, history
  <2>6. CASE Send
    BY <2>6 DEF Send, history
  <2> QED
    BY <1>6, <2>1, <2>2, <2>3, <2>4, <2>5, <2>6 DEF Service
<1> QED
  BY <1>1, <1>2, <1>3, <1>4, <1>5, <1>6 DEF LinkNext

(***************************************************************************)
(* In every circumstance, the host's closes, races on the line and pulls   *)
(* without a suspend included, what the hardware reads is left alone       *)
(* (remote_transport.c:58-60), but for a packet whose slot a close gave    *)
(* back while it was in flight.                                            *)
(***************************************************************************)
THEOREM SendBufferIsSafe == LinkSpec => SendBufferIsLeftAlone
<1>1. LinkInit => BufferInv
  BY DEF LinkInit, BufferInv
<1>2. BufferInv /\ [LinkNext]_linkVars
        => (in_flight /\ in_flight' /\ ~abandoned => UNCHANGED send_buffer)
  BY DEF BufferInv, LinkNext, Interrupt, Opening, CloseTransport, Between, Service, BeginPass,
         ReadLine, StoreLine, Edge, ReceiveLoop, Acquire, Fill, Send, linkVars
<1> QED
  BY <1>1, <1>2, BufferStep, LinkTypeStart, FlagsStep, PTL DEF LinkSpec, SendBufferIsLeftAlone

-----------------------------------------------------------------------------
(***************************************************************************)
(* A HELLO is said to someone: the session hears of an open only while the *)
(* host holds the line up.                                                 *)
(***************************************************************************)

(***************************************************************************)
(* The facts outlive the line only as long as the port is open, and do not *)
(* show it up without the cable.                                           *)
(***************************************************************************)
RealInv ==
  pc # "exited" => /\ dtr_present /\ ~line => port_open
                   /\ ~usb_present => ~dtr_present \/ pc = "seed_usb"

LEMMA RealStep ==
  ASSUME "race" \notin Allowed, "coalesce" \notin Allowed
  PROVE  FlagsOK /\ CatchInv /\ RealInv /\ [LinkNext]_linkVars => RealInv'
<1> SUFFICES ASSUME FlagsOK, CatchInv, RealInv, [LinkNext]_linkVars PROVE RealInv'
  OBVIOUS
<1> USE DEF RealInv, FlagsOK, FactsOK, LineOK, facts
<1>1. CASE UNCHANGED linkVars
  BY <1>1 DEF linkVars, facts, place, hardware
<1>2. CASE Interrupt
  <2>1. UNCHANGED <<opened, port_open, pc, dtr>>
    BY <1>2 DEF Interrupt, place
  <2>2. CASE Pull
    BY <2>1, <2>2 DEF Pull, StateCallback, LineMayMove
  <2>3. CASE Insert
    BY <2>1, <2>3 DEF Insert, StateCallback, Channel, CatchInv
  <2>4. CASE Reenumerate
    BY <2>1, <2>4 DEF Reenumerate, StateCallback, LineMayMove
  <2>5. CASE HostOpens
    BY <2>1, <2>5 DEF HostOpens, CtrlLineCallback, CatchInv
  <2>6. CASE HostCloses
    BY <2>1, <2>6 DEF HostCloses, CtrlLineCallback
  <2>7. CASE HostWrites \/ HostReads
    BY <2>1, <2>7 DEF HostWrites, HostReads
  <2> QED
    BY <1>2, <2>2, <2>3, <2>4, <2>5, <2>6, <2>7 DEF Interrupt
<1>3. CASE Opening
  <2>1. UNCHANGED <<port_open, cable, line>>
    BY <1>3 DEF Opening, hardware
  <2>2. CASE OpenTransport
    BY <2>1, <2>2 DEF OpenTransport
  <2>3. CASE SeedUsb \/ SeedRead
    BY <2>1, <2>3 DEF SeedUsb, SeedRead
  <2>4. CASE SeedStore
    BY <2>1, <2>4 DEF SeedStore, CatchInv, Channel, Seeding
  <2> QED
    BY <1>3, <2>2, <2>3, <2>4 DEF Opening
<1>4. CASE CloseTransport
  BY <1>4 DEF CloseTransport
<1>5. CASE Between
  BY <1>5 DEF Between, place, hardware
<1>6. CASE Service
  <2>1. CASE BeginPass \/ ReadLine
    BY <1>6, <2>1 DEF Service, BeginPass, ReadLine, hardware
  <2>2. CASE StoreLine
    BY <1>6, <2>2 DEF Service, StoreLine, hardware, CatchInv, Channel, Serving, Seeding
  <2>3. CASE Edge
    BY <1>6, <2>3 DEF Service, Edge, OpenNow, hardware
  <2>4. CASE ReceiveLoop
    BY <1>6, <2>4 DEF Service, ReceiveLoop
  <2>5. CASE Acquire \/ Fill \/ Send
    BY <1>6, <2>5 DEF Service, Acquire, Fill, Send, hardware
  <2> QED
    BY <1>6, <2>1, <2>2, <2>3, <2>4, <2>5 DEF Service
<1> QED
  BY <1>1, <1>2, <1>3, <1>4, <1>5, <1>6 DEF LinkNext

(* The session leaves LinkDown at a rising edge and nowhere else.          *)
LEMMA OnlyAnEdgeOpens ==
  OneViewOfThePort /\ [LinkNext]_linkVars
    => (link_state = "LinkDown" /\ link_state' = "Handshaking"
          => pc = "edge" /\ OpenNow /\ ~port_open)
<1> SUFFICES ASSUME OneViewOfThePort, [LinkNext]_linkVars,
                    link_state = "LinkDown", link_state' = "Handshaking"
             PROVE  pc = "edge" /\ OpenNow /\ ~port_open
  OBVIOUS
<1>1. ~port_open
  BY DEF OneViewOfThePort
<1>2. ~UNCHANGED vars
  BY DEF vars
<1>3. CASE UNCHANGED linkVars \/ Interrupt \/ Opening
  BY <1>2, <1>3 DEF linkVars, Interrupt, Opening
<1>4. CASE CloseTransport
  BY <1>1, <1>2, <1>4 DEF CloseTransport
<1>5. CASE Between
  BY <1>5 DEF Between, AppTick, AppReport, AppLock, Tick, ReportEvent, LockChanged
<1>6. CASE Service
  <2>1. CASE BeginPass \/ ReadLine \/ StoreLine \/ Acquire \/ Send
    BY <1>2, <2>1 DEF BeginPass, ReadLine, StoreLine, Acquire, Send
  <2>2. CASE Edge
    BY <1>1, <1>2, <2>2 DEF Edge
  <2>3. CASE ReceiveLoop
    BY <1>1, <1>2, <2>3 DEF ReceiveLoop
  <2>4. CASE Fill
    BY <2>4 DEF Fill, Drain, TakeOutput
  <2> QED
    BY <1>6, <2>1, <2>2, <2>3, <2>4 DEF Service
<1> QED
  BY <1>3, <1>4, <1>5, <1>6 DEF LinkNext

(***************************************************************************)
(* Provided the line rests until the main loop has seen it, and while it   *)
(* is re-read, HELLO is sent only in answer to a real open                 *)
(* (remote_transport.c:42-48): not to a cached DTR that a pull, a          *)
(* re-enumeration or an insertion has outdated, the host's closes included.*)
(***************************************************************************)
THEOREM HelloIsForSomeone ==
  ASSUME "race" \notin Allowed, "coalesce" \notin Allowed
  PROVE  LinkSpec => HelloAnswersARealOpen
<1>1. LinkInit => RealInv /\ DrivingInv
  BY LinkStarts DEF LinkInit, RealInv
<1>2. FlagsOK /\ CatchInv /\ [LinkNext]_linkVars => CatchInv'
  BY CatchStep
<1>3. FlagsOK /\ CatchInv /\ RealInv /\ [LinkNext]_linkVars => RealInv'
  BY RealStep
<1>4. RealInv /\ DrivingInv /\ [LinkNext]_linkVars
        => (link_state = "LinkDown" /\ link_state' = "Handshaking" => line)
  BY OnlyAnEdgeOpens DEF RealInv, DrivingInv, OpenNow
<1> QED
  BY <1>1, <1>2, <1>3, <1>4, CatchStart, FlagsStep, LinkDrives, PTL
  DEF LinkSpec, HelloAnswersARealOpen

-----------------------------------------------------------------------------
(***************************************************************************)
(* What an earlier opening left in the channel.                            *)
(***************************************************************************)

(***************************************************************************)
(* Bytes without a line are those of an open port or of a pass that drains *)
(* them, because the pass that closes the port drains the channel; so what *)
(* a new opening finds there is drained before the session hears of it.    *)
(***************************************************************************)
StaleInv ==
  /\ line => Channel
  /\ rx # <<>> /\ ~line => port_open \/ pc = "receive"
  /\ stale > 0 => pc = "receive" /\ ~port_open

LEMMA StaleStep ==
  ASSUME "coalesce" \notin Allowed
  PROVE  FlagsOK /\ BytesOK /\ StaleInv /\ [LinkNext]_linkVars => StaleInv'
<1> SUFFICES ASSUME FlagsOK, BytesOK, StaleInv, [LinkNext]_linkVars PROVE StaleInv'
  OBVIOUS
<1>0. /\ stale \in Nat
      /\ rx = <<>> => stale = 0
  <2>1. Len(rx) \in Nat /\ (rx = <<>> => Len(rx) = 0) /\ stale \in 0 .. Len(rx)
    BY LenProperties DEF BytesOK
  <2> QED
    BY <2>1
<1> USE DEF StaleInv, FlagsOK, LineOK, Channel
<1>1. CASE UNCHANGED linkVars
  BY <1>1 DEF linkVars, facts, place, hardware
<1>2. CASE Interrupt
  <2>1. UNCHANGED <<opened, port_open, pc>>
    BY <1>2 DEF Interrupt, place
  <2>2. CASE Pull
    BY <2>1, <2>2 DEF Pull, LineMayMove
  <2>3. CASE Insert
    BY <2>1, <2>3 DEF Insert
  <2>4. CASE Reenumerate
    BY <2>1, <2>4 DEF Reenumerate, LineMayMove
  <2>5. CASE HostOpens
    <3>1. ~line /\ ~port_open /\ stale' = Len(rx) /\ line' = TRUE /\ rx' = rx /\ Channel
      BY <2>5 DEF HostOpens, LineMayMove
    <3>2. rx # <<>> => pc = "receive"
      BY <3>1
    <3>3. rx = <<>> => ~(stale' > 0)
      BY <3>1
    <3> QED
      BY <2>1, <3>1, <3>2, <3>3
  <2>6. CASE HostCloses
    BY <2>1, <2>6 DEF HostCloses, LineMayMove
  <2>7. CASE HostWrites
    BY <2>1, <2>7 DEF HostWrites
  <2>8. CASE HostReads
    BY <2>1, <2>8 DEF HostReads
  <2> QED
    BY <1>2, <2>2, <2>3, <2>4, <2>5, <2>6, <2>7, <2>8 DEF Interrupt
<1>3. CASE Opening
  BY <1>3 DEF Opening, OpenTransport, SeedUsb, SeedRead, SeedStore, hardware, Seeding
<1>4. CASE CloseTransport
  BY <1>4 DEF CloseTransport
<1>5. CASE Between
  BY <1>5 DEF Between, place, hardware
<1>6. CASE Service
  <2>1. UNCHANGED opened
    BY <1>6 DEF Service
  <2>2. CASE BeginPass \/ ReadLine \/ StoreLine
    BY <2>1, <2>2 DEF BeginPass, ReadLine, StoreLine, hardware, Seeding
  <2>3. CASE Edge
    BY <2>1, <2>3 DEF Edge, hardware, Seeding
  <2>4. CASE ReceiveLoop
    <3>1. CASE rx = <<>>
      BY <1>0, <2>1, <2>4, <3>1 DEF ReceiveLoop, Seeding
    <3>2. CASE rx # <<>>
      <4>1. stale' > 0 => stale > 0
        BY <1>0, <2>4, <3>2 DEF ReceiveLoop
      <4>2. pc = "receive" /\ UNCHANGED <<pc, port_open, line>>
        BY <2>4, <3>2 DEF ReceiveLoop
      <4> QED
        BY <2>1, <4>1, <4>2
    <3> QED
      BY <3>1, <3>2
  <2>5. CASE Acquire \/ Fill \/ Send
    BY <2>1, <2>5 DEF Acquire, Fill, Send, hardware, Seeding
  <2> QED
    BY <1>6, <2>2, <2>3, <2>4, <2>5 DEF Service
<1> QED
  BY <1>1, <1>2, <1>3, <1>4, <1>5, <1>6 DEF LinkNext

(***************************************************************************)
(* Provided the line does not move twice within a pass, what an earlier    *)
(* opening left in the channel never reaches the session of the next       *)
(* (remote_transport.c:248-249), even if the line is read while it moves.  *)
(***************************************************************************)
THEOREM NothingStaleIsHeard ==
  ASSUME "coalesce" \notin Allowed
  PROVE  LinkSpec => StaleBytesAreDropped
<1>1. LinkInit => StaleInv
  BY DEF LinkInit, StaleInv
<1>2. FlagsOK /\ BytesOK /\ StaleInv /\ [LinkNext]_linkVars => StaleInv'
  BY StaleStep
<1>3. BytesOK /\ StaleInv /\ [LinkNext]_linkVars
        => (stale > 0 /\ stale' < stale => UNCHANGED inbound)
  <2> SUFFICES ASSUME StaleInv, [LinkNext]_linkVars, stale > 0, stale' < stale, stale \in Nat
               PROVE  UNCHANGED inbound
    <3>1. BytesOK => stale \in Nat
      <4>1. BytesOK => Len(rx) \in Nat /\ stale \in 0 .. Len(rx)
        BY LenProperties DEF BytesOK
      <4> QED
        BY <4>1
    <3> QED
      BY <3>1
  <2>1. pc = "receive" /\ ~port_open
    BY DEF StaleInv
  <2>2. stale' # stale
    OBVIOUS
  <2>3. UNCHANGED vars => UNCHANGED inbound
    BY DEF vars
  <2>4. CASE UNCHANGED linkVars \/ Interrupt \/ Opening
    BY <2>3, <2>4 DEF linkVars, Interrupt, Opening
  <2>5. CASE CloseTransport \/ Between
    BY <2>1, <2>5 DEF CloseTransport, Between
  <2>6. CASE Service
    BY <2>1, <2>3, <2>6 DEF Service, BeginPass, ReadLine, StoreLine, Edge, ReceiveLoop,
                            Acquire, Fill, Send
  <2> QED
    BY <2>4, <2>5, <2>6 DEF LinkNext
<1>4. LinkSpec => [](TypeOK)
  BY TransportDrivesSession, TypeCorrect DEF SessionIsDrivenProperly
<1> QED
  BY <1>1, <1>2, <1>3, <1>4, LinkTypeStart, FlagsStep, BytesStep, PTL
  DEF LinkSpec, StaleBytesAreDropped
=============================================================================
