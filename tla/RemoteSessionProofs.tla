------------------------- MODULE RemoteSessionProofs -------------------------
(***************************************************************************)
(* Theorems about RemoteSession for every value of its constants.          *)
(*                                                                         *)
(* First what the buffer operators do to the line feeds in a buffer, then  *)
(* that every step keeps the types, then the inductive invariant IInv.     *)
(* Last, for the modules that extend this one, what a reader who has       *)
(* missed nothing makes of whole messages.                                 *)
(***************************************************************************)
EXTENDS RemoteSession, FiniteSetTheorems, SequenceTheorems, TLAPS

-----------------------------------------------------------------------------
(* Lemmas about messages and their units.                                  *)

(* A message is encoded as MessageUnits of units, numbered from one.       *)
LEMMA UnitsFacts ==
  ASSUME NEW m \in Message
  PROVE  /\ MessageUnits[m.verb] \in Nat \ {0}
         /\ Units(m) \in Seq(Unit)
         /\ Len(Units(m)) = MessageUnits[m.verb]
         /\ DOMAIN Units(m) = 1 .. MessageUnits[m.verb]
         /\ \A i \in 1 .. MessageUnits[m.verb] : Units(m)[i] = [of |-> m, at |-> i]
<1>1. m.verb \in Verb
  BY DEF Message, HelloMessage, ButtonMessage, StateMessage, DisplayMessage,
         NoiseMessage, Verb
<1>2. MessageUnits[m.verb] \in Nat \ {0}
  BY <1>1, WireAssumption
<1>3. \A i \in 1 .. MessageUnits[m.verb] : [of |-> m, at |-> i] \in Unit
  BY <1>2 DEF Unit
<1>4. Units(m) \in [1 .. MessageUnits[m.verb] -> Unit]
  BY <1>3 DEF Units
<1>5. Units(m) \in Seq(Unit)
  BY <1>2, <1>4, SeqDef
<1> QED
  BY <1>2, <1>4, <1>5, LenProperties DEF Units

(* The messages the session makes are messages.                            *)
LEMMA SessionMessages ==
  /\ \A locked \in BOOLEAN : Hello(locked) \in Message /\ State(locked) \in Message
  /\ \A press \in Press : Button(press) \in Message
  /\ BlankRecord \in DisplayMessage
BY WireAssumption DEF Message, HelloMessage, ButtonMessage, StateMessage,
   DisplayMessage, Hello, State, Button, Display, BlankRecord, Error

-----------------------------------------------------------------------------
(* Lemmas about the line feeds in a buffer.                                *)

(* They are finitely many.                                                 *)
LEMMA TerminatorsFinite ==
  ASSUME NEW units \in Seq(Unit)
  PROVE  /\ IsFiniteSet(Terminators(units))
         /\ Cardinality(Terminators(units)) \in Nat
<1>1. IsFiniteSet(1 .. Len(units)) /\ DOMAIN units = 1 .. Len(units)
  BY FS_Interval, LenProperties
<1>2. Terminators(units) \in SUBSET (1 .. Len(units))
  BY <1>1 DEF Terminators
<1> QED
  BY <1>1, <1>2, FS_Subset, FS_CardinalityType

(* An empty buffer has none.                                               *)
LEMMA NoTerminators == Cardinality(Terminators(<<>>)) = 0
BY FS_EmptySet DEF Terminators

(* Queueing a message adds exactly one, whatever the message.              *)
LEMMA AppendedTerminator ==
  ASSUME NEW units \in Seq(Unit), NEW m \in Message
  PROVE  /\ units \o Units(m) \in Seq(Unit)
         /\ Cardinality(Terminators(units \o Units(m)))
              = Cardinality(Terminators(units)) + 1
<1> DEFINE n == MessageUnits[m.verb]
           s == units \o Units(m)
<1>1. /\ n \in Nat \ {0} /\ Units(m) \in Seq(Unit) /\ Len(Units(m)) = n
      /\ \A i \in 1 .. n : Units(m)[i] = [of |-> m, at |-> i]
  BY UnitsFacts
<1>2. /\ s \in Seq(Unit) /\ Len(s) = Len(units) + n
      /\ \A i \in 1 .. Len(units) + n :
           s[i] = IF i <= Len(units) THEN units[i] ELSE Units(m)[i - Len(units)]
  <2>1. /\ s \in Seq(Unit) /\ Len(s) = Len(units) + Len(Units(m))
        /\ \A i \in 1 .. Len(units) + Len(Units(m)) :
             s[i] = IF i <= Len(units) THEN units[i] ELSE Units(m)[i - Len(units)]
    <3>1. Units(m) \in Seq(Unit)
      BY <1>1
    <3> HIDE DEF n
    <3> QED
      BY <3>1, ConcatProperties
  <2> QED
    BY <1>1, <2>1
<1>3. /\ Len(units) \in Nat
      /\ DOMAIN units = 1 .. Len(units) /\ DOMAIN s = 1 .. Len(units) + n
  BY <1>2, LenProperties
<1>4. \A i \in 1 .. n : EndsLine(Units(m)[i]) <=> i = n
  <2> SUFFICES ASSUME NEW i \in 1 .. n
               PROVE  EndsLine([of |-> m, at |-> i]) <=> i = n
    BY <1>1
  <2> QED
    BY DEF EndsLine
<1> HIDE DEF n
<1>5. Terminators(s) = Terminators(units) \cup {Len(units) + n}
  <2>1. ASSUME NEW i \in 1 .. Len(units)
        PROVE  i \in Terminators(s) <=> i \in Terminators(units)
    BY <1>1, <1>2, <1>3 DEF Terminators
  <2>2. ASSUME NEW i \in 1 .. n
        PROVE  Len(units) + i \in Terminators(s) <=> i = n
    <3>1. Len(units) + i \in DOMAIN s /\ s[Len(units) + i] = Units(m)[i]
      BY <1>1, <1>2, <1>3
    <3> QED
      BY <3>1, <1>4 DEF Terminators
  <2>3. \A j \in 1 .. Len(units) + n :
          j \in 1 .. Len(units) \/ \E i \in 1 .. n : j = Len(units) + i
    <3> SUFFICES ASSUME NEW j \in 1 .. Len(units) + n, j \notin 1 .. Len(units)
                 PROVE  \E i \in 1 .. n : j = Len(units) + i
      OBVIOUS
    <3>1. j - Len(units) \in 1 .. n /\ j = Len(units) + (j - Len(units))
      BY <1>1, <1>3
    <3> QED
      BY <3>1
  <2>4. Terminators(units) \subseteq 1 .. Len(units)
        /\ Terminators(s) \subseteq 1 .. Len(units) + n
    BY <1>3 DEF Terminators
  <2>5. n \in 1 .. n
    BY <1>1
  <2>6. \A i \in 1 .. n : Len(units) + i \notin 1 .. Len(units)
    BY <1>1, <1>3
  <2> HIDE DEF s
  <2>7. Terminators(s) \subseteq Terminators(units) \cup {Len(units) + n}
    BY <2>1, <2>2, <2>3, <2>4
  <2>8. Terminators(units) \subseteq Terminators(s)
    BY <2>1, <2>4
  <2>9. Len(units) + n \in Terminators(s)
    BY <2>2, <2>5
  <2> QED
    BY <2>7, <2>8, <2>9
<1>6. Len(units) + n \notin Terminators(units)
  BY <1>1, <1>3 DEF Terminators
<1>7. IsFiniteSet(Terminators(units))
  BY TerminatorsFinite
<1> QED
  BY <1>2, <1>5, <1>6, <1>7, FS_AddElement

(* Draining from the front leaves a suffix, with no more of them.          *)
LEMMA DrainedTerminators ==
  ASSUME NEW units \in Seq(Unit), NEW t \in 0 .. Len(units)
  PROVE  LET rest == SubSeq(units, t + 1, Len(units))
         IN  /\ rest \in Seq(Unit)
             /\ Len(rest) = Len(units) - t
             /\ \A i \in DOMAIN rest : i + t \in DOMAIN units /\ rest[i] = units[i + t]
             /\ Cardinality(Terminators(rest)) <= Cardinality(Terminators(units))
<1> DEFINE rest == SubSeq(units, t + 1, Len(units))
<1>1. Len(units) \in Nat /\ DOMAIN units = 1 .. Len(units) /\ t \in Nat /\ t <= Len(units)
  BY LenProperties
<1>2. \A i \in t + 1 .. Len(units) : units[i] \in Unit
  BY <1>1, ElementOfSeq
<1>3. rest \in Seq(Unit)
      /\ Len(rest) = (IF t + 1 <= Len(units) THEN Len(units) - (t + 1) + 1 ELSE 0)
      /\ \A i \in 1 .. Len(units) - (t + 1) + 1 : rest[i] = units[t + 1 + i - 1]
  BY <1>1, <1>2, SubSeqProperties
<1> HIDE DEF rest
<1>4. Len(rest) = Len(units) - t
  <2>1. Len(rest) = IF t + 1 <= Len(units) THEN Len(units) - (t + 1) + 1 ELSE 0
    BY <1>3
  <2>2. Len(units) \in Nat /\ t \in Nat /\ t <= Len(units)
    BY <1>1
  <2> QED
    BY <2>1, <2>2
<1>5. DOMAIN rest = 1 .. Len(units) - t
  BY <1>3, <1>4, LenProperties
<1>6. \A i \in DOMAIN rest : i + t \in DOMAIN units /\ rest[i] = units[i + t]
  <2> SUFFICES ASSUME NEW i \in DOMAIN rest
               PROVE  i + t \in DOMAIN units /\ rest[i] = units[i + t]
    OBVIOUS
  <2>1. i \in 1 .. Len(units) - (t + 1) + 1 /\ t + 1 + i - 1 = i + t
    BY <1>1, <1>5
  <2>2. i + t \in 1 .. Len(units)
    BY <1>1, <1>5
  <2>3. rest[i] = units[t + 1 + i - 1]
    BY <1>3, <2>1
  <2> QED
    BY <1>1, <2>1, <2>2, <2>3
<1>7. Cardinality(Terminators(rest)) <= Cardinality(Terminators(units))
  <2> DEFINE shift == [i \in Terminators(rest) |-> i + t]
  <2>1. \A i \in Terminators(rest) : i \in Nat /\ shift[i] \in Terminators(units)
    BY <1>1, <1>5, <1>6 DEF Terminators
  <2>2. shift \in Injection(Terminators(rest), Terminators(units))
    BY <2>1, <1>1 DEF Injection, IsInjective
  <2> QED
    BY <2>2, TerminatorsFinite, FS_Injection
<1> QED
  BY <1>3, <1>4, <1>6, <1>7 DEF rest

-----------------------------------------------------------------------------
(* The inductive invariant.                                                *)

(***************************************************************************)
(* The types alone are not inductive: that the recount of take_output      *)
(* stays within the depth needs HonestCount, that a BUTTON never waits for *)
(* a link needs to know what a handshake has queued.  Together they are.   *)
(***************************************************************************)
IInv ==
  /\ TypeOK
  /\ HonestCount
  /\ OnlyHelloWhileHandshaking
  /\ NoPressWaitsForALink
  /\ PayloadOnlyWhileConnected

(* The parts about the output alone.                                       *)
OutputOK == output \in Seq(Unit) /\ output_message_count \in 0 .. QueueDepth

(* queue_message appends the message whole or not at all, and counts it.   *)
LEMMA QueueMessageFacts ==
  ASSUME NEW units \in Seq(Unit), NEW count \in 0 .. QueueDepth, NEW m \in Message,
         count = Cardinality(Terminators(units)),
         QueueMessage(units, count, m)
  PROVE  /\ OutputOK' /\ HonestCount'
         /\ output' = units \/ output' = units \o Units(m)
<1>1. /\ units \o Units(m) \in Seq(Unit)
      /\ Cardinality(Terminators(units \o Units(m))) = Cardinality(Terminators(units)) + 1
  BY AppendedTerminator
<1>2. CASE Fits(units, count, m)
  <2>1. output' = units \o Units(m) /\ output_message_count' = count + 1
    BY <1>2 DEF QueueMessage
  <2>2. count + 1 \in 0 .. QueueDepth
    BY <1>2, SessionAssumption DEF Fits
  <2> QED
    BY <1>1, <2>1, <2>2 DEF OutputOK, HonestCount
<1>3. CASE ~Fits(units, count, m)
  BY <1>3 DEF QueueMessage, OutputOK, HonestCount
<1> QED
  BY <1>2, <1>3

(* After send_hello the output is one whole HELLO, or nothing.             *)
LEMMA SendHelloFacts ==
  ASSUME screen_locked \in BOOLEAN, SendHello
  PROVE  /\ OutputOK' /\ HonestCount'
         /\ output' = <<>> \/ output' = Units(Hello(screen_locked))
<1>1. <<>> \in Seq(Unit) /\ 0 \in 0 .. QueueDepth /\ Hello(screen_locked) \in Message
  BY SessionMessages, SessionAssumption
<1>2. <<>> \o Units(Hello(screen_locked)) = Units(Hello(screen_locked))
  BY <1>1, UnitsFacts, ConcatEmptySeq
<1> QED
  BY <1>1, <1>2, NoTerminators, QueueMessageFacts DEF SendHello

(* A HELLO always finds room, since send_hello clears the output first.    *)
LEMMA HelloIsSaid ==
  ASSUME screen_locked \in BOOLEAN, SendHello
  PROVE  output' = Units(Hello(screen_locked))
<1> DEFINE m == Hello(screen_locked)
<1>1. m \in Message /\ m.verb = "HELLO"
  BY SessionMessages DEF Hello
<1>2. MessageUnits["HELLO"] \in Nat /\ MessageUnits["HELLO"] <= MaxLineUnits
  BY WireAssumption DEF Verb
<1>3. MaxLineUnits <= OutputCapacity
  <2>1. \A a, b \in Nat \ {0} : a <= a * b
    OBVIOUS
  <2> QED
    BY <2>1, WireAssumption, SessionAssumption DEF OutputCapacity
<1>4. OutputCapacity \in Nat
  BY WireAssumption, SessionAssumption DEF OutputCapacity
<1> HIDE DEF m
<1>5. Fits(<<>>, 0, m)
  <2>1. Len(<<>>) + MessageUnits[m.verb] <= OutputCapacity
    BY <1>1, <1>2, <1>3, <1>4, WireAssumption
  <2> QED
    BY <2>1, SessionAssumption DEF Fits
<1>6. output' = <<>> \o Units(m)
  BY <1>5 DEF SendHello, QueueMessage, m
<1>7. <<>> \o Units(m) = Units(m)
  BY <1>1, UnitsFacts, ConcatEmptySeq
<1> QED
  BY <1>6, <1>7 DEF m

(* A HELLO holds units of a HELLO only.                                    *)
LEMMA OnlyHelloInHello ==
  ASSUME NEW locked \in BOOLEAN, NEW i \in DOMAIN Units(Hello(locked))
  PROVE  Units(Hello(locked))[i].of.verb = "HELLO"
<1>1. Hello(locked) \in Message /\ Hello(locked).verb = "HELLO"
  BY SessionMessages DEF Hello
<1>2. Units(Hello(locked))[i] = [of |-> Hello(locked), at |-> i]
  BY <1>1, UnitsFacts
<1> QED
  BY <1>1, <1>2

(* take_output leaves a suffix of the output, and its recount is right.    *)
LEMMA DrainFacts ==
  ASSUME TypeOK, HonestCount, Drain
  PROVE  /\ OutputOK' /\ HonestCount'
         /\ \A i \in DOMAIN output' : \E j \in DOMAIN output : output'[i] = output[j]
         /\ Len(output) <= PacketUnits => output' = <<>>
<1> DEFINE t == Taken(PacketUnits)
<1>1. output \in Seq(Unit) /\ Len(output) \in Nat /\ PacketUnits \in Nat
  BY LenProperties, SessionAssumption DEF TypeOK
<1>2. t \in 0 .. Len(output) /\ (Len(output) <= PacketUnits => t = Len(output))
  BY <1>1 DEF Taken
<1>3. output' = SubSeq(output, t + 1, Len(output))
      /\ output_message_count' = Cardinality(Terminators(output'))
  BY DEF Drain, TakeOutput
<1> HIDE DEF t
<1>4. /\ output' \in Seq(Unit)
      /\ \A i \in DOMAIN output' : i + t \in DOMAIN output /\ output'[i] = output[i + t]
      /\ Cardinality(Terminators(output')) <= Cardinality(Terminators(output))
  BY <1>1, <1>2, <1>3, DrainedTerminators
<1>5. output_message_count' \in 0 .. QueueDepth
  <2>1. Cardinality(Terminators(output')) \in Nat
    BY <1>4, TerminatorsFinite
  <2>2. Cardinality(Terminators(output)) \in 0 .. QueueDepth
    BY DEF HonestCount, TypeOK
  <2> QED
    BY <1>3, <1>4, <2>1, <2>2, SessionAssumption
<1>6. ASSUME Len(output) <= PacketUnits PROVE output' = <<>>
  BY <1>1, <1>2, <1>3, <1>6, SubSeqEmpty
<1> QED
  BY <1>3, <1>4, <1>5, <1>6 DEF OutputOK, HonestCount

(* A line feed yields only messages that were put together unit by unit.   *)
LEMMA FeedFacts ==
  ASSUME NEW assembler \in Assembler, NEW u \in Unit
  PROVE  /\ FeedNext(assembler, u) \in Assembler
         /\ FeedOutcome(assembler, u).kind = "MESSAGE" =>
              FeedOutcome(assembler, u).message \in Message
<1>1. assembler.line \in Seq(Unit) /\ assembler.overlong \in BOOLEAN
  BY DEF Assembler
<1>2. Append(assembler.line, u) \in Seq(Unit)
  BY <1>1
<1>3. FeedNext(assembler, u) \in Assembler
  <2>1. EmptyAssembler \in Assembler
    BY DEF EmptyAssembler, Assembler
  <2>2. [assembler EXCEPT !.overlong = TRUE] \in Assembler
    BY DEF Assembler
  <2>3. [assembler EXCEPT !.line = Append(@, u)] \in Assembler
    BY <1>2 DEF Assembler
  <2> QED
    BY <2>1, <2>2, <2>3 DEF FeedNext
<1>4. Append(assembler.line, u)[1] \in Unit
  <2>1. Len(Append(assembler.line, u)) = Len(assembler.line) + 1 /\ Len(assembler.line) \in Nat
    BY <1>1
  <2> QED
    BY <1>2, <2>1, ElementOfSeq
<1>5. Append(assembler.line, u)[1].of \in Message
  BY <1>4 DEF Unit
<1>6. ASSUME FeedOutcome(assembler, u).kind = "MESSAGE"
      PROVE  FeedOutcome(assembler, u).message = Append(assembler.line, u)[1].of
  BY <1>6 DEF FeedOutcome
<1> QED
  BY <1>3, <1>5, <1>6

-----------------------------------------------------------------------------
(* The initial state and each action, then the invariant.                  *)

(* A diagnostic counter stays within its width.                            *)
LEMMA CountType ==
  ASSUME TypeOK, NEW c \in Counter, Count(c)
  PROVE  counters' \in [Counter -> 0 .. CounterModulus - 1]
<1>1. CounterModulus \in Nat \ {0} /\ counters[c] \in Nat
  BY SessionAssumption DEF TypeOK
<1>2. (counters[c] + 1) % CounterModulus \in 0 .. CounterModulus - 1
  BY <1>1
<1> QED
  BY <1>2 DEF TypeOK, Count

LEMMA InitIInv == Init => IInv
<1> SUFFICES ASSUME Init PROVE IInv
  OBVIOUS
<1>1. BlankRecord \in DisplayMessage
  BY SessionMessages
<1>2. EmptyAssembler \in Assembler
  BY DEF EmptyAssembler, Assembler
<1>3. TypeOK
  <2>1. /\ 0 \in 0 .. RetryInterval - 1 /\ 0 \in 0 .. CounterModulus - 1
        /\ 0 \in 0 .. QueueDepth
    BY SessionAssumption
  <2>2. [c \in Counter |-> 0] \in [Counter -> 0 .. CounterModulus - 1]
    BY <2>1
  <2>3. <<>> \in Seq(Unit)
    OBVIOUS
  <2> QED
    BY <1>1, <1>2, <2>1, <2>2, <2>3 DEF Init, TypeOK, LinkState
<1>4. HonestCount
  BY NoTerminators DEF Init, HonestCount
<1>5. OnlyHelloWhileHandshaking /\ NoPressWaitsForALink /\ PayloadOnlyWhileConnected
  BY DEF Init, OnlyHelloWhileHandshaking, NoPressWaitsForALink, PayloadOnlyWhileConnected
<1> QED
  BY <1>3, <1>4, <1>5 DEF IInv

(* Opening the port starts from nothing but the lock.                      *)
LEMMA PortOpenedIInv == IInv /\ PortOpened => IInv'
<1> SUFFICES ASSUME IInv, PortOpened PROVE IInv'
  OBVIOUS
<1> USE DEF IInv
<1>1. screen_locked \in BOOLEAN
  BY DEF TypeOK
<1>2. /\ OutputOK' /\ HonestCount'
      /\ output' = <<>> \/ output' = Units(Hello(screen_locked))
  BY <1>1, SendHelloFacts DEF PortOpened
<1>3. TypeOK'
  <2>1. BlankRecord \in DisplayMessage
    BY SessionMessages
  <2>2. EmptyAssembler \in Assembler
    BY DEF EmptyAssembler, Assembler
  <2> QED
    BY <1>2, <2>1, <2>2, SessionAssumption
    DEF PortOpened, TypeOK, LinkState, OutputOK
<1>4. OnlyHelloWhileHandshaking'
  BY <1>1, <1>2 DEF OnlyHelloWhileHandshaking
<1>5. NoPressWaitsForALink'
  BY <1>1, <1>2, OnlyHelloInHello DEF NoPressWaitsForALink
<1>6. PayloadOnlyWhileConnected'
  BY DEF PortOpened, PayloadOnlyWhileConnected
<1> QED
  BY <1>2, <1>3, <1>4, <1>5, <1>6

(* Closing it leaves nothing but the lock.                                 *)
LEMMA PortClosedIInv == IInv /\ PortClosed => IInv'
<1> SUFFICES ASSUME IInv, PortClosed PROVE IInv'
  OBVIOUS
<1> USE DEF IInv
<1>1. TypeOK'
  <2>1. BlankRecord \in DisplayMessage
    BY SessionMessages
  <2>2. EmptyAssembler \in Assembler
    BY DEF EmptyAssembler, Assembler
  <2>3. counters' \in [Counter -> 0 .. CounterModulus - 1]
    BY CountType DEF PortClosed, TypeOK, Counter
  <2> QED
    BY <2>1, <2>2, <2>3, SessionAssumption DEF PortClosed, TypeOK, LinkState
<1>2. HonestCount'
  BY NoTerminators DEF PortClosed, HonestCount
<1>3. OnlyHelloWhileHandshaking' /\ NoPressWaitsForALink' /\ PayloadOnlyWhileConnected'
  BY DEF PortClosed, OnlyHelloWhileHandshaking, NoPressWaitsForALink,
         PayloadOnlyWhileConnected
<1> QED
  BY <1>1, <1>2, <1>3

(* A tick changes the output only to put a fresh HELLO into it.            *)
LEMMA TickIInv == IInv /\ AppTick => IInv'
<1> SUFFICES ASSUME IInv, NEW elapsed \in 0 .. MaxElapsed, Tick(elapsed) PROVE IInv'
  BY DEF AppTick
<1> USE DEF IInv
<1>1. UNCHANGED <<link_state, inbound, screen_locked, current_display>>
  BY DEF Tick
<1>2. PayloadOnlyWhileConnected'
  BY <1>1 DEF PayloadOnlyWhileConnected
<1>3. CASE UNCHANGED <<output, output_message_count, counters>>
  <2>1. handshake_elapsed' \in 0 .. RetryInterval - 1
    BY <1>3, SessionAssumption DEF Tick, TypeOK
  <2> QED
    BY <1>1, <1>2, <1>3, <2>1
    DEF TypeOK, HonestCount, OnlyHelloWhileHandshaking, NoPressWaitsForALink
<1>4. CASE /\ link_state = "Handshaking" /\ handshake_elapsed' = 0
           /\ Count("handshake_retries") /\ SendHello
  <2>1. screen_locked \in BOOLEAN
    BY DEF TypeOK
  <2>2. /\ OutputOK' /\ HonestCount'
        /\ output' = <<>> \/ output' = Units(Hello(screen_locked))
    BY <1>4, <2>1, SendHelloFacts
  <2>3. counters' \in [Counter -> 0 .. CounterModulus - 1]
    BY <1>4, CountType DEF Counter
  <2>4. TypeOK'
    BY <1>1, <1>4, <2>2, <2>3, SessionAssumption DEF TypeOK, OutputOK
  <2>5. OnlyHelloWhileHandshaking'
    BY <2>1, <2>2 DEF OnlyHelloWhileHandshaking
  <2>6. NoPressWaitsForALink'
    BY <2>1, <2>2, OnlyHelloInHello DEF NoPressWaitsForALink
  <2> QED
    BY <1>2, <2>2, <2>4, <2>5, <2>6
<1> QED
  BY <1>3, <1>4 DEF Tick

(* A received unit changes the link and the record together, or neither.   *)
LEMMA ReceiveIInv ==
  ASSUME IInv, link_state # "LinkDown", NEW u \in Unit, Receive(u)
  PROVE  IInv'
<1> USE DEF IInv
<1> DEFINE outcome == FeedOutcome(inbound, u)
<1>2. inbound \in Assembler
  BY DEF TypeOK
<1>3. /\ inbound' = FeedNext(inbound, u)
      /\ UNCHANGED <<screen_locked, output, output_message_count, handshake_elapsed>>
  BY DEF Receive
<1>4. inbound' \in Assembler /\ (outcome.kind = "MESSAGE" => outcome.message \in Message)
  BY <1>2, <1>3, FeedFacts
<1>5. HonestCount'
  BY <1>3 DEF HonestCount
<1>6. CASE UNCHANGED <<link_state, current_display>>
           /\ (UNCHANGED counters \/ Count("malformed_received"))
  <2>1. counters' \in [Counter -> 0 .. CounterModulus - 1]
    BY <1>6, CountType DEF Counter, TypeOK
  <2> QED
    BY <1>3, <1>4, <1>5, <1>6, <2>1
    DEF TypeOK, OnlyHelloWhileHandshaking, NoPressWaitsForALink, PayloadOnlyWhileConnected
<1>7. CASE /\ outcome.kind = "MESSAGE" /\ outcome.message.verb = "DISPLAY"
           /\ HandleDisplay(outcome.message)
  <2>1. outcome.message \in DisplayMessage
    <3>1. outcome.message \in Message
      BY <1>4, <1>7
    <3> QED
      BY <1>7, <3>1 DEF Message, HelloMessage, ButtonMessage, StateMessage, NoiseMessage
  <2> HIDE DEF outcome
  <2>2. CASE link_state # "Connected" /\ link_state' = "Incompatible"
             /\ Count("version_mismatches") /\ UNCHANGED current_display
    <3>1. counters' \in [Counter -> 0 .. CounterModulus - 1]
      BY <2>2, CountType DEF Counter
    <3> QED
      BY <1>3, <1>4, <1>5, <2>2, <3>1
      DEF TypeOK, LinkState, OnlyHelloWhileHandshaking, NoPressWaitsForALink,
          PayloadOnlyWhileConnected
  <2>3. CASE link_state' = "Connected" /\ current_display' = outcome.message
             /\ UNCHANGED counters
    BY <1>3, <1>4, <1>5, <2>1, <2>3
    DEF TypeOK, LinkState, OnlyHelloWhileHandshaking, NoPressWaitsForALink,
        PayloadOnlyWhileConnected
  <2> QED
    BY <1>7, <2>2, <2>3 DEF HandleDisplay
<1> QED
  BY <1>6, <1>7 DEF Receive

LEMMA HostReceiveIInv == IInv /\ HostReceive => IInv'
<1> SUFFICES ASSUME IInv, link_state # "LinkDown",
                    NEW m \in Inbound, NEW i \in DOMAIN Units(m), Receive(Units(m)[i])
             PROVE  IInv'
  BY DEF HostReceive
<1>1. m \in Message
  BY SessionAssumption
<1>2. Units(m)[i] \in Unit
  BY <1>1, UnitsFacts, ElementOfSeq
<1> QED
  BY <1>2, ReceiveIInv

(* A press is queued only by a link that is up, so nowhere else.           *)
LEMMA AppReportIInv == IInv /\ AppReport => IInv'
<1> SUFFICES ASSUME IInv, NEW press \in Press, NEW foregrounded \in BOOLEAN,
                    ReportEvent(press, foregrounded)
             PROVE  IInv'
  BY DEF AppReport
<1> USE DEF IInv
<1>1. UNCHANGED <<link_state, inbound, screen_locked, current_display, handshake_elapsed>>
  BY DEF ReportEvent
<1>2. PayloadOnlyWhileConnected'
  BY <1>1 DEF PayloadOnlyWhileConnected
<1>3. counters' \in [Counter -> 0 .. CounterModulus - 1]
  <2>1. \/ UNCHANGED counters
        \/ Count("events_dropped_by_guard") \/ Count("events_dropped_by_output_full")
    BY DEF ReportEvent
  <2> QED
    BY <2>1, CountType DEF Counter, TypeOK
<1>4. CASE UNCHANGED <<output, output_message_count>>
  BY <1>1, <1>2, <1>3, <1>4
  DEF TypeOK, HonestCount, OnlyHelloWhileHandshaking, NoPressWaitsForALink
<1>5. CASE link_state = "Connected"
           /\ QueueMessage(output, output_message_count, Button(press))
  <2>1. OutputOK' /\ HonestCount'
    BY <1>5, SessionMessages, QueueMessageFacts DEF TypeOK, HonestCount
  <2>2. TypeOK'
    BY <1>1, <1>3, <2>1 DEF TypeOK, OutputOK
  <2> QED
    BY <1>1, <1>2, <1>5, <2>1, <2>2 DEF OnlyHelloWhileHandshaking, NoPressWaitsForALink
<1> QED
  BY <1>4, <1>5 DEF ReportEvent

(* Likewise a STATE.                                                       *)
LEMMA AppLockIInv == IInv /\ AppLock => IInv'
<1> SUFFICES ASSUME IInv, NEW locked \in BOOLEAN, LockChanged(locked) PROVE IInv'
  BY DEF AppLock
<1> USE DEF IInv
<1>1. /\ screen_locked' = locked
      /\ UNCHANGED <<link_state, inbound, current_display, handshake_elapsed, counters>>
  BY DEF LockChanged
<1>2. PayloadOnlyWhileConnected'
  BY <1>1 DEF PayloadOnlyWhileConnected
<1>3. CASE UNCHANGED <<output, output_message_count>>
  BY <1>1, <1>2, <1>3
  DEF TypeOK, HonestCount, OnlyHelloWhileHandshaking, NoPressWaitsForALink
<1>4. CASE link_state = "Connected"
           /\ QueueMessage(output, output_message_count, State(locked))
  <2>1. OutputOK' /\ HonestCount'
    BY <1>4, SessionMessages, QueueMessageFacts DEF TypeOK, HonestCount
  <2>2. TypeOK'
    BY <1>1, <2>1 DEF TypeOK, OutputOK
  <2> QED
    BY <1>1, <1>2, <1>4, <2>1, <2>2 DEF OnlyHelloWhileHandshaking, NoPressWaitsForALink
<1> QED
  BY <1>3, <1>4 DEF LockChanged

(* Draining cannot leave part of a HELLO behind, since it fits a packet.   *)
LEMMA DrainIInv == IInv /\ Drain => IInv'
<1> SUFFICES ASSUME IInv, Drain PROVE IInv'
  OBVIOUS
<1> USE DEF IInv
<1>1. UNCHANGED <<link_state, inbound, screen_locked, current_display,
                  handshake_elapsed, counters>>
  BY DEF Drain, TakeOutput
<1>2. /\ OutputOK' /\ HonestCount'
      /\ \A i \in DOMAIN output' : \E j \in DOMAIN output : output'[i] = output[j]
      /\ Len(output) <= PacketUnits => output' = <<>>
  BY DrainFacts
<1>3. TypeOK'
  BY <1>1, <1>2 DEF TypeOK, OutputOK
<1>4. OnlyHelloWhileHandshaking'
  <2> SUFFICES ASSUME link_state = "Handshaking" PROVE output' = <<>>
    BY <1>1 DEF OnlyHelloWhileHandshaking
  <2>1. CASE output = <<>>
    BY <2>1, <1>2, SessionAssumption
  <2>2. CASE \E locked \in BOOLEAN : output = Units(Hello(locked))
    <3>1. PICK locked \in BOOLEAN : output = Units(Hello(locked))
      BY <2>2
    <3>2. Hello(locked) \in Message /\ Hello(locked).verb = "HELLO"
      BY SessionMessages DEF Hello
    <3>3. Len(output) = MessageUnits["HELLO"]
      BY <3>1, <3>2, UnitsFacts
    <3> QED
      BY <1>2, <3>3, HelloFitsPacket
  <2> QED
    BY <2>1, <2>2 DEF OnlyHelloWhileHandshaking
<1>5. NoPressWaitsForALink'
  BY <1>1, <1>2 DEF NoPressWaitsForALink
<1>6. PayloadOnlyWhileConnected'
  BY <1>1 DEF PayloadOnlyWhileConnected
<1> QED
  BY <1>2, <1>3, <1>4, <1>5, <1>6

LEMMA StepIInv == IInv /\ [Next]_vars => IInv'
<1> SUFFICES ASSUME IInv, [Next]_vars PROVE IInv'
  OBVIOUS
<1>1. CASE UNCHANGED vars
  BY <1>1 DEF IInv, vars, TypeOK, HonestCount, OnlyHelloWhileHandshaking,
              NoPressWaitsForALink, PayloadOnlyWhileConnected
<1> QED
  BY <1>1, PortOpenedIInv, PortClosedIInv, HostReceiveIInv, TickIInv, AppReportIInv,
     AppLockIInv, DrainIInv
  DEF Next

-----------------------------------------------------------------------------
(* The theorems.                                                           *)

(* The inductive invariant holds in every state of every execution.        *)
THEOREM Invariance == Spec => []IInv
BY InitIInv, StepIInv, PTL DEF Spec

(* Every field keeps its type; in particular the message count never       *)
(* exceeds the depth and the retry clock never reaches the interval.       *)
THEOREM TypeCorrect == Spec => []TypeOK
BY Invariance, PTL DEF IInv

(* The count of remote_session.c:55 and the recount of :208 never differ.  *)
THEOREM CountIsHonest == Spec => []HonestCount
BY Invariance, PTL DEF IInv

(* The comment at remote_session.c:93 is right: a retry clears nothing but *)
(* one whole HELLO.                                                        *)
THEOREM HandshakeQueuesOnlyHello == Spec => []OnlyHelloWhileHandshaking
BY Invariance, PTL DEF IInv

(* No press is in the output while no link is up, whatever happened before.*)
THEOREM NoPressCrossesAReconnection == Spec => []NoPressWaitsForALink
BY Invariance, PTL DEF IInv

(* The record, with its passphrase, is blank in every state but connected. *)
THEOREM PayloadIsCleared == Spec => []PayloadOnlyWhileConnected
BY Invariance, PTL DEF IInv

(* Only opening or closing the port takes a connected link down, and when  *)
(* that happens the record, the half line and every press go with it.      *)
THEOREM ConnectionsEndCleanly == Spec => OnlyAnOpenOrADropEndsAConnection
<1> DEFINE EndsCleanly ==
      link_state = "Connected" /\ link_state' # "Connected"
        => current_display' = BlankRecord /\ inbound' = EmptyAssembler
           /\ \A i \in DOMAIN output' : output'[i].of.verb = "HELLO"
<1>1. IInv /\ [Next]_vars => [EndsCleanly]_vars
  <2> SUFFICES ASSUME IInv, Next, link_state = "Connected", link_state' # "Connected"
               PROVE  EndsCleanly
    BY DEF vars
  <2>1. CASE PortOpened
    <3>1. screen_locked \in BOOLEAN
      BY DEF IInv, TypeOK
    <3>2. output' = <<>> \/ output' = Units(Hello(screen_locked))
      BY <2>1, <3>1, SendHelloFacts DEF PortOpened
    <3> QED
      BY <2>1, <3>1, <3>2, OnlyHelloInHello DEF PortOpened
  <2>2. CASE PortClosed
    BY <2>2 DEF PortClosed
  <2>3. CASE HostReceive
    BY <2>3 DEF HostReceive, Receive, HandleDisplay
  <2>4. CASE AppTick \/ AppReport \/ AppLock \/ Drain
    BY <2>4 DEF AppTick, Tick, AppReport, ReportEvent, AppLock, LockChanged, Drain, TakeOutput
  <2> QED
    BY <2>1, <2>2, <2>3, <2>4 DEF Next
<1> QED
  BY <1>1, Invariance, PTL DEF Spec, OnlyAnOpenOrADropEndsAConnection

-----------------------------------------------------------------------------
(* Lemmas about lines: what reading whole messages unit by unit comes to.  *)

(* The beginning of a line: the first units of a message, not all of them. *)
BeginsALine(line) ==
  line # <<>> =>
    /\ line[1].of.verb # "NOISE"
    /\ Len(line) < MessageUnits[line[1].of.verb]
    /\ \A i \in 1 .. Len(line) : line[i] = [of |-> line[1].of, at |-> i]

(* Whole messages, the first of which may have been begun before.          *)
GoesOn(line, units) ==
  /\ WellFramed(units)
  /\ \A i \in 1 .. Len(units) : units[i].of.verb # "NOISE"
  /\ line = <<>> => (units # <<>> => units[1].at = 1)
  /\ line # <<>> => units # <<>> /\ units[1] = [of |-> line[1].of, at |-> Len(line) + 1]

(* A reader that has missed nothing, and what it is about to read.         *)
InStep(assembler, units) ==
  /\ assembler \in Assembler /\ ~assembler.overlong
  /\ BeginsALine(assembler.line)
  /\ GoesOn(assembler.line, units)

(* The positions of a sequence, for the leaves below.                      *)
LEMMA FirstUnits ==
  ASSUME NEW units \in Seq(Unit), units # <<>>
  PROVE  /\ Len(units) \in Nat \ {0} /\ units[1] \in Unit
         /\ Tail(units) \in Seq(Unit) /\ Len(Tail(units)) = Len(units) - 1
         /\ \A i \in 1 .. Len(units) - 1 : Tail(units)[i] = units[i + 1]
         /\ Tail(units) # <<>> => Len(units) > 1 /\ units[2] \in Unit
                                  /\ Tail(units)[1] = units[2]
<1>1. Len(units) \in Nat \ {0}
  BY EmptySeq, LenProperties
<1>2. /\ Tail(units) \in Seq(Unit) /\ Len(Tail(units)) = Len(units) - 1
      /\ \A i \in 1 .. Len(units) - 1 : Tail(units)[i] = units[i + 1]
  BY <1>1, HeadTailProperties
<1>3. units[1] \in Unit
  BY <1>1, ElementOfSeq
<1>4. ASSUME Tail(units) # <<>>
      PROVE  Len(units) > 1 /\ units[2] \in Unit /\ Tail(units)[1] = units[2]
  <2>1. Len(Tail(units)) # 0
    BY <1>2, <1>4, EmptySeq
  <2>2. Len(units) > 1 /\ 1 \in 1 .. Len(units) - 1 /\ 2 \in 1 .. Len(units)
    BY <1>1, <1>2, <2>1
  <2> QED
    BY <1>2, <2>2, ElementOfSeq
<1> QED
  BY <1>1, <1>2, <1>3, <1>4

(* What is taken and what is left.                                         *)
LEMMA CutInTwo ==
  ASSUME NEW s \in Seq(Unit), NEW t \in 0 .. Len(s)
  PROVE  /\ SubSeq(s, 1, t) \in Seq(Unit) /\ SubSeq(s, t + 1, Len(s)) \in Seq(Unit)
         /\ SubSeq(s, 1, t) \o SubSeq(s, t + 1, Len(s)) = s
<1>1. Len(s) \in Nat
  BY LenProperties
<1>2. SubSeq(s, 1, t) \in Seq(Unit) /\ SubSeq(s, t + 1, Len(s)) \in Seq(Unit)
  <2>1. t \in Int /\ t + 1 \in Int /\ 1 \in Int /\ Len(s) \in Int
    BY <1>1
  <2>2. \A i \in 1 .. t : s[i] \in Unit
    BY <1>1, ElementOfSeq
  <2>3. \A i \in t + 1 .. Len(s) : s[i] \in Unit
    BY <1>1, ElementOfSeq
  <2> QED
    BY <2>1, <2>2, <2>3, SubSeqProperties
<1>3. 1 \in 1 .. Len(s) + 1 /\ t \in 1 - 1 .. Len(s) /\ Len(s) \in t .. Len(s)
  BY <1>1
<1>4. SubSeq(s, 1, t) \o SubSeq(s, t + 1, Len(s)) = SubSeq(s, 1, Len(s))
  BY <1>3, ConcatAdjacentSubSeq
<1> QED
  BY <1>2, <1>4, SubSeqFull

(***************************************************************************)
(* A reader in step stays in step, and at a line feed has the message that *)
(* was sent: no line is cut, run together or too long for it.              *)
(***************************************************************************)
LEMMA UnitIsRead ==
  ASSUME NEW assembler, NEW units \in Seq(Unit), units # <<>>, InStep(assembler, units)
  PROVE  /\ InStep(FeedNext(assembler, units[1]), Tail(units))
         /\ EndsLine(units[1]) =>
              FeedOutcome(assembler, units[1]) = [kind |-> "MESSAGE", message |-> units[1].of]
         /\ ~EndsLine(units[1]) =>
              /\ FeedOutcome(assembler, units[1]) = [kind |-> "INCOMPLETE"]
              /\ FeedNext(assembler, units[1]).line = Append(assembler.line, units[1])
<1> DEFINE u    == units[1]
           line == assembler.line
           l    == Len(assembler.line)
           new  == Append(assembler.line, units[1])
           m    == units[1].of
           n    == MessageUnits[units[1].of.verb]
<1>1. /\ line \in Seq(Unit) /\ l \in Nat /\ ~assembler.overlong
      /\ BeginsALine(line) /\ GoesOn(line, units)
      /\ assembler = [line |-> line, overlong |-> FALSE]
  BY LenProperties DEF InStep, Assembler
<1>2. /\ Len(units) \in Nat \ {0} /\ u \in Unit
      /\ Tail(units) \in Seq(Unit) /\ Len(Tail(units)) = Len(units) - 1
      /\ \A i \in 1 .. Len(units) - 1 : Tail(units)[i] = units[i + 1]
      /\ Tail(units) # <<>> => Len(units) > 1 /\ units[2] \in Unit
                               /\ Tail(units)[1] = units[2]
  BY FirstUnits
<1>3. /\ new \in Seq(Unit) /\ Len(new) = l + 1
      /\ \A i \in 1 .. l : new[i] = line[i]
      /\ new[l + 1] = u
  BY <1>1, <1>2, AppendProperties
<1>4. m \in Message /\ n \in Nat \ {0} /\ u = [of |-> m, at |-> u.at]
  BY <1>2, UnitsFacts DEF Unit
<1>5. m.verb # "NOISE" /\ n <= MaxLineUnits
  <2>1. m.verb # "NOISE"
    <3>1. 1 \in 1 .. Len(units)
      BY <1>2
    <3> QED
      BY <1>1, <3>1 DEF GoesOn
  <2>2. m.verb \in Verb
    BY <1>4 DEF Message, HelloMessage, ButtonMessage, StateMessage, DisplayMessage,
       NoiseMessage, Verb
  <2> QED
    BY <2>1, <2>2, WireAssumption
<1> HIDE DEF new, m, n, u, line, l
<1>6. /\ u = [of |-> m, at |-> l + 1] /\ l < n
      /\ \A i \in 1 .. l + 1 : new[i] = [of |-> m, at |-> i]
  <2>1. CASE line = <<>>
    <3>1. l = 0 /\ u.at = 1
      BY <1>1, <1>2, <2>1, EmptySeq DEF GoesOn, l, line, u
    <3> QED
      BY <1>3, <1>4, <3>1
  <2>2. CASE line # <<>>
    <3>1. /\ u = [of |-> line[1].of, at |-> l + 1]
          /\ l < MessageUnits[line[1].of.verb]
          /\ \A i \in 1 .. l : line[i] = [of |-> line[1].of, at |-> i]
      BY <1>1, <2>2 DEF GoesOn, BeginsALine, u, l, line
    <3>2. line[1].of = m
      BY <3>1 DEF m, u
    <3>3. \A i \in 1 .. l + 1 : i \in 1 .. l \/ i = l + 1
      BY <1>1
    <3> QED
      BY <1>3, <3>1, <3>2, <3>3 DEF n, m
  <2> QED
    BY <2>1, <2>2
<1>7. EndsLine(u) <=> l + 1 = n
  BY <1>6 DEF EndsLine, n, m, u
<1>8. new[1].of = m /\ new # <<>>
  <2>1. 1 \in 1 .. l + 1 /\ Len(new) # 0
    BY <1>1, <1>3
  <2>2. new[1] = [of |-> m, at |-> 1]
    BY <1>6, <2>1
  <2>3. new # <<>>
    BY <2>1, EmptySeq
  <2> QED
    BY <2>2, <2>3
<1>9. WellFramed(Tail(units)) /\ \A i \in 1 .. Len(Tail(units)) : Tail(units)[i].of.verb # "NOISE"
  <2>1. ASSUME NEW i \in 1 .. Len(Tail(units))
        PROVE  Tail(units)[i] = units[i + 1] /\ i + 1 \in 1 .. Len(units)
    BY <1>2
  <2>2. \A i \in 1 .. Len(Tail(units)) : Tail(units)[i].of.verb # "NOISE"
    BY <1>1, <2>1 DEF GoesOn
  <2>3. ASSUME NEW i \in 1 .. Len(Tail(units)) - 1
        PROVE  Follows(Tail(units)[i + 1], Tail(units)[i])
    <3>1. /\ i \in 1 .. Len(Tail(units)) /\ i + 1 \in 1 .. Len(Tail(units))
          /\ i + 1 \in 1 .. Len(units) - 1
      BY <1>2
    <3>2. Follows(units[(i + 1) + 1], units[i + 1])
      BY <1>1, <3>1 DEF GoesOn, WellFramed
    <3> QED
      BY <2>1, <3>1, <3>2
  <2>4. ASSUME Tail(units) # <<>> PROVE EndsLine(Tail(units)[Len(Tail(units))])
    <3>1. Len(units) > 1 /\ Len(Tail(units)) = Len(units) - 1
      BY <1>2, <2>4
    <3>2. Len(Tail(units)) \in 1 .. Len(Tail(units)) /\ Len(Tail(units)) + 1 = Len(units)
      BY <1>2, <3>1
    <3>3. EndsLine(units[Len(units)])
      BY <1>1 DEF GoesOn, WellFramed
    <3> QED
      BY <2>1, <3>2, <3>3
  <2> QED
    BY <2>2, <2>3, <2>4 DEF WellFramed
<1>10. Tail(units) # <<>> => Follows(units[2], u)
  <2>1. Tail(units) # <<>> => 1 \in 1 .. Len(units) - 1
    BY <1>2
  <2> QED
    BY <1>1, <2>1 DEF GoesOn, WellFramed, u
<1>11. CASE EndsLine(u)
  <2>1. new = Units(m)
    <3>1. /\ Units(m) \in Seq(Unit) /\ Len(Units(m)) = n
          /\ \A i \in 1 .. n : Units(m)[i] = [of |-> m, at |-> i]
      BY <1>4, UnitsFacts DEF n, m
    <3>2. Len(new) = n /\ \A i \in 1 .. n : new[i] = Units(m)[i]
      BY <1>3, <1>6, <1>7, <1>11, <3>1
    <3> QED
      BY <1>3, <3>1, <3>2, SeqEqual
  <2>2. FeedOutcome(assembler, u) = [kind |-> "MESSAGE", message |-> m]
    <3>1. LineParses(new)
      BY <1>5, <1>8, <2>1 DEF LineParses
    <3> QED
      BY <1>1, <1>8, <1>11, <3>1 DEF FeedOutcome, new, u
  <2>3. FeedNext(assembler, u) = EmptyAssembler
    BY <1>11 DEF FeedNext
  <2>4. Tail(units) # <<>> => Tail(units)[1].at = 1
    BY <1>2, <1>10, <1>11 DEF Follows
  <2>5. InStep(EmptyAssembler, Tail(units))
    BY <1>9, <2>4 DEF InStep, EmptyAssembler, Assembler, BeginsALine, GoesOn
  <2> QED
    BY <1>11, <2>2, <2>3, <2>5 DEF u, m
<1>12. CASE ~EndsLine(u)
  <2>1. l + 1 < n /\ ~(l + 1 >= MaxLineUnits)
    BY <1>1, <1>4, <1>5, <1>6, <1>7, <1>12, WireAssumption
  <2>2. FeedNext(assembler, u) = [line |-> new, overlong |-> FALSE]
    <3>1. FeedNext(assembler, u) = [assembler EXCEPT !.line = Append(assembler.line, u)]
      BY <1>12, <2>1 DEF FeedNext, l
    <3>2. assembler \in Assembler /\ ~assembler.overlong /\ Append(assembler.line, u) \in Seq(Unit)
      BY <1>3 DEF InStep, new, u
    <3>3. \A a \in Assembler : \A y \in Seq(Unit) :
            [a EXCEPT !.line = y] = [line |-> y, overlong |-> a.overlong]
      BY DEF Assembler
    <3> QED
      BY <3>1, <3>2, <3>3 DEF new, u, Assembler
  <2>3. FeedOutcome(assembler, u) = [kind |-> "INCOMPLETE"]
    BY <1>12 DEF FeedOutcome
  <2>4. Tail(units) # <<>>
    <3>1. EndsLine(units[Len(units)])
      BY <1>1 DEF GoesOn, WellFramed
    <3>2. Len(units) # 1
      BY <1>12, <3>1 DEF u
    <3> QED
      BY <1>2, <3>2, EmptySeq
  <2>5. Tail(units)[1] = [of |-> m, at |-> Len(new) + 1]
    <3>1. units[2].of = u.of /\ units[2].at = u.at + 1 /\ units[2] \in Unit
      BY <1>2, <1>10, <1>12, <2>4 DEF Follows
    <3>2. u.of = m /\ u.at = l + 1
      BY <1>6
    <3>3. units[2] = [of |-> units[2].of, at |-> units[2].at]
      BY <3>1 DEF Unit
    <3> QED
      BY <1>2, <1>3, <2>4, <3>1, <3>2, <3>3
  <2>6. BeginsALine(new)
    BY <1>3, <1>5, <1>6, <1>8, <2>1 DEF BeginsALine, n, m
  <2>7. GoesOn(new, Tail(units))
    BY <1>8, <1>9, <2>4, <2>5 DEF GoesOn
  <2>8. InStep([line |-> new, overlong |-> FALSE], Tail(units))
    BY <1>3, <2>6, <2>7 DEF InStep, Assembler
  <2> QED
    BY <1>12, <2>2, <2>3, <2>8 DEF u, new
<1> QED
  BY <1>11, <1>12 DEF u

(* A message behind whole messages.                                        *)
LEMMA MessageGoesBehind ==
  ASSUME NEW line, NEW units \in Seq(Unit), GoesOn(line, units),
         NEW m \in Message, m.verb # "NOISE"
  PROVE  GoesOn(line, units \o Units(m))
<1> DEFINE n == MessageUnits[m.verb]
           l == Len(units)
           s == units \o Units(m)
<1>1. /\ n \in Nat \ {0} /\ Units(m) \in Seq(Unit) /\ Len(Units(m)) = n
      /\ \A i \in 1 .. n : Units(m)[i] = [of |-> m, at |-> i]
  BY UnitsFacts
<1>2. l \in Nat /\ (units # <<>> => l # 0)
  BY EmptySeq, LenProperties
<1>3. /\ s \in Seq(Unit) /\ Len(s) = l + n
      /\ \A i \in 1 .. l : s[i] = units[i]
      /\ \A i \in 1 .. n : s[l + i] = [of |-> m, at |-> i]
  <2>1. /\ s \in Seq(Unit) /\ Len(s) = l + Len(Units(m))
        /\ \A i \in 1 .. l + Len(Units(m)) : s[i] = IF i <= l THEN units[i] ELSE Units(m)[i - l]
    <3>1. Units(m) \in Seq(Unit)
      BY <1>1
    <3> QED
      BY <3>1, ConcatProperties
  <2>2. ASSUME NEW i \in 1 .. l PROVE s[i] = units[i]
    BY <1>1, <1>2, <2>1
  <2>3. ASSUME NEW i \in 1 .. n PROVE s[l + i] = Units(m)[i]
    <3>1. l + i \in 1 .. l + n /\ ~(l + i <= l) /\ (l + i) - l = i
      BY <1>1, <1>2
    <3> QED
      BY <1>1, <2>1, <3>1
  <2> QED
    BY <1>1, <2>1, <2>2, <2>3
<1> HIDE DEF s, l, n
<1>4. \A i \in 1 .. n : EndsLine([of |-> m, at |-> i]) <=> i = n
  BY DEF EndsLine, n
<1>5. ASSUME NEW i \in 1 .. Len(s) PROVE s[i].of.verb # "NOISE"
  <2>1. CASE i <= l
    <3>1. i \in 1 .. l
      BY <1>2, <2>1
    <3> QED
      BY <1>3, <3>1 DEF GoesOn, l
  <2>2. CASE i > l
    <3>1. i - l \in 1 .. n /\ l + (i - l) = i
      BY <1>1, <1>2, <1>3, <2>2
    <3>2. s[i] = [of |-> m, at |-> i - l]
      BY <1>3, <3>1
    <3> QED
      BY <3>2
  <2> QED
    BY <1>2, <2>1, <2>2
<1>6. ASSUME NEW i \in 1 .. Len(s) - 1 PROVE Follows(s[i + 1], s[i])
  <2>1. CASE i < l
    <3>1. i \in 1 .. l - 1 /\ i \in 1 .. l /\ i + 1 \in 1 .. l
      BY <1>2, <2>1
    <3> QED
      BY <1>3, <3>1 DEF GoesOn, WellFramed, l
  <2>2. CASE i = l
    <3>1. i \in 1 .. l /\ 1 \in 1 .. n
      BY <1>1, <1>2, <2>2
    <3>2. units # <<>> /\ EndsLine(units[l])
      BY <1>2, <2>2, <3>1, EmptySeq DEF GoesOn, WellFramed, l
    <3>3. s[l] = units[l] /\ s[l + 1] = [of |-> m, at |-> 1]
      BY <1>3, <2>2, <3>1
    <3>4. s[l + 1].at = 1
      BY <3>3
    <3> QED
      BY <2>2, <3>2, <3>3, <3>4 DEF Follows
  <2>3. CASE i > l
    <3>1. PICK k \in 1 .. n - 1 : i = l + k
      <4>1. i - l \in 1 .. n - 1 /\ i = l + (i - l)
        BY <1>1, <1>2, <1>3, <2>3
      <4> QED
        BY <4>1
    <3>2. k \in 1 .. n /\ k + 1 \in 1 .. n /\ k # n /\ i + 1 = l + (k + 1)
      BY <1>1, <1>2, <3>1
    <3>3. s[i] = [of |-> m, at |-> k] /\ s[i + 1] = [of |-> m, at |-> k + 1]
      BY <1>3, <3>1, <3>2
    <3> QED
      BY <1>4, <3>2, <3>3 DEF Follows
  <2> QED
    BY <1>2, <2>1, <2>2, <2>3
<1>7. s # <<>> /\ EndsLine(s[Len(s)])
  <2>1. n \in 1 .. n /\ Len(s) = l + n /\ Len(s) # 0
    BY <1>1, <1>2, <1>3
  <2>2. s # <<>>
    BY <2>1, EmptySeq
  <2> QED
    BY <1>3, <1>4, <2>1, <2>2
<1>8. CASE units = <<>>
  <2>1. l = 0 /\ 1 \in 1 .. n
    BY <1>1, <1>8, EmptySeq DEF l
  <2>2. s[1] = [of |-> m, at |-> 1]
    BY <1>3, <2>1
  <2>3. line = <<>>
    BY <1>8 DEF GoesOn
  <2> QED
    BY <1>5, <1>6, <1>7, <2>2, <2>3 DEF GoesOn, WellFramed, s
<1>9. CASE units # <<>>
  <2>1. 1 \in 1 .. l
    BY <1>2, <1>9
  <2>2. s[1] = units[1]
    BY <1>3, <2>1
  <2> QED
    BY <1>5, <1>6, <1>7, <1>9, <2>2 DEF GoesOn, WellFramed, s
<1> QED
  BY <1>8, <1>9

(* Between two messages no line is begun, so what waits may be dropped.    *)
LEMMA NothingIsBegun ==
  ASSUME NEW line \in Seq(Unit), NEW units, GoesOn(line, units),
         units = <<>> \/ units[1].at = 1
  PROVE  line = <<>>
<1> SUFFICES ASSUME line # <<>> PROVE FALSE
  OBVIOUS
<1>1. Len(line) \in Nat \ {0}
  BY EmptySeq
<1>2. units # <<>> /\ units[1] = [of |-> line[1].of, at |-> Len(line) + 1]
  BY DEF GoesOn
<1>3. units[1].at = Len(line) + 1
  BY <1>2
<1> QED
  BY <1>1, <1>2, <1>3

(* A reader with no line begun can be given a message, or nothing.         *)
LEMMA ReaderIsFresh ==
  /\ InStep(EmptyAssembler, <<>>)
  /\ \A m \in Message : m.verb # "NOISE" => InStep(EmptyAssembler, Units(m))
<1>1. /\ EmptyAssembler \in Assembler /\ ~EmptyAssembler.overlong
      /\ EmptyAssembler.line = <<>> /\ <<>> \in Seq(Unit) /\ Len(<<>>) = 0
  BY DEF EmptyAssembler, Assembler
<1>2. GoesOn(<<>>, <<>>)
  BY <1>1 DEF GoesOn, WellFramed
<1>3. ASSUME NEW m \in Message, m.verb # "NOISE" PROVE GoesOn(<<>>, Units(m))
  <2>1. GoesOn(<<>>, <<>> \o Units(m))
    BY <1>1, <1>2, <1>3, MessageGoesBehind
  <2>2. <<>> \o Units(m) = Units(m)
    BY UnitsFacts, ConcatEmptySeq
  <2> QED
    BY <2>1, <2>2
<1> QED
  BY <1>1, <1>2, <1>3 DEF InStep, BeginsALine
=============================================================================
