--------------------------- MODULE RemoteLinkProofs ---------------------------
(***************************************************************************)
(* Theorems about DevelopmentPeer, and about its link with the device in   *)
(* RemoteLink, for every value of their constants.                         *)
(*                                                                         *)
(* The peer: whatever it is fed or told, it appends to its output at most  *)
(* one sequence of units per step.  So the whole rests on one lemma, about *)
(* appending, and on one fact per step: that what it appends is a line (or *)
(* was asked to be none), and shows the record retained.                   *)
(*                                                                         *)
(* The link: for every length of message, packet and buffer neither end    *)
(* waits for the other (TrustIsMutual), and a press acts on its own        *)
(* connection only.  Both rest on LinkTyped, that the two ends keep the    *)
(* invariants they have on their own, and on what is under way between     *)
(* them.                                                                   *)
(*                                                                         *)
(* For the first, everything the device has said and the appliance has not *)
(* read is one sequence, OnItsWay, that the reader is in step with (InStep *)
(* of RemoteSessionProofs), and until the handshake is complete a HELLO is *)
(* first in it.  For the second, no line feed of an old press comes behind *)
(* that of a HELLO in it, and none is left once the handshake is complete: *)
(* before that the appliance refuses every press.                          *)
(***************************************************************************)
EXTENDS RemoteLink, RemoteSessionProofs

-----------------------------------------------------------------------------
(* The peer, and its invariant.                                            *)

(* A screen that every record in a stretch of units shows, the answers     *)
(* that may show nothing left aside.                                       *)
SpeaksOf(u) ==
  u.of.verb = "DISPLAY" /\ u.of.error \in {"NONE", "ACTIVE", "NO_SESSION", "GUARD", "BAD_VERB"}

ShowsOnly(units, screen) ==
  \A i \in DOMAIN units : SpeaksOf(units[i]) => units[i].of.screen = screen

(* A silent peer has nothing to send: it was silent from the start.        *)
SilentIsEmpty == behaviour.silent => peer_output = <<>>

PeerInv ==
  /\ PeerTypeOK
  /\ SilentIsEmpty
  /\ RecordsAreSentWhole
  /\ LastWordIsCurrent

-----------------------------------------------------------------------------
(* Lemmas about units and lines.                                           *)

(* Members of sequences, said once for the leaves below.                   *)
LEMMA SequenceFacts ==
  ASSUME NEW S, NEW s \in Seq(S)
  PROVE  /\ Len(s) \in Nat /\ DOMAIN s = 1 .. Len(s)
         /\ \A i \in 1 .. Len(s) : s[i] \in S
BY LenProperties, ElementOfSeq

LEMMA JoinFacts ==
  ASSUME NEW S, NEW s \in Seq(S), NEW t \in Seq(S)
  PROVE  /\ s \o t \in Seq(S)
         /\ Len(s \o t) = Len(s) + Len(t)
         /\ \A i \in 1 .. Len(s) : (s \o t)[i] = s[i]
         /\ \A i \in 1 .. Len(t) : (s \o t)[Len(s) + i] = t[i]
<1>1. Len(s) \in Nat /\ Len(t) \in Nat
  BY LenProperties
<1>2. /\ s \o t \in Seq(S) /\ Len(s \o t) = Len(s) + Len(t)
      /\ \A i \in 1 .. Len(s) + Len(t) :
           (s \o t)[i] = IF i <= Len(s) THEN s[i] ELSE t[i - Len(s)]
  BY ConcatProperties
<1> QED
  BY <1>1, <1>2

LEMMA FrontOfASequence ==
  ASSUME NEW S, NEW s \in Seq(S), NEW n \in 0 .. Len(s)
  PROVE  /\ SubSeq(s, 1, n) \in Seq(S) /\ Len(SubSeq(s, 1, n)) = n
         /\ \A i \in 1 .. n : SubSeq(s, 1, n)[i] = s[i]
<1>1. Len(s) \in Nat /\ n \in Nat
  BY LenProperties
<1>2. CASE n = 0
  BY <1>1, <1>2, SubSeqProperties, EmptySeq
<1>3. CASE n # 0
  BY <1>1, <1>3, SubSeqProperties
<1> QED
  BY <1>2, <1>3

(* A message is a line: it starts at its first unit and ends in a feed.    *)
LEMMA UnitsAreALine ==
  ASSUME NEW m \in Message
  PROVE  /\ MessageUnits[m.verb] \in Nat \ {0}
         /\ Units(m) \in Seq(Unit)
         /\ Len(Units(m)) = MessageUnits[m.verb]
         /\ \A i \in 1 .. MessageUnits[m.verb] : Units(m)[i] = [of |-> m, at |-> i]
         /\ WellFramed(Units(m))
<1> DEFINE n == MessageUnits[m.verb]
<1>1. m.verb \in Verb
  BY DEF Message, HelloMessage, ButtonMessage, StateMessage, DisplayMessage,
         NoiseMessage, Verb
<1>2. n \in Nat \ {0}
  BY <1>1, WireAssumption
<1>3. \A i \in 1 .. n : [of |-> m, at |-> i] \in Unit
  BY <1>2 DEF Unit
<1>4. Units(m) \in [1 .. n -> Unit] /\ \A i \in 1 .. n : Units(m)[i] = [of |-> m, at |-> i]
  BY <1>3 DEF Units
<1>5. Units(m) \in Seq(Unit) /\ Len(Units(m)) = n
  BY <1>2, <1>4, SeqDef, LenProperties
<1>6. \A i \in 1 .. n : EndsLine(Units(m)[i]) <=> i = n
  <2> SUFFICES ASSUME NEW i \in 1 .. n
               PROVE  EndsLine([of |-> m, at |-> i]) <=> i = n
    BY <1>4
  <2> QED
    BY DEF EndsLine
<1>7. \A i \in 1 .. n - 1 : Follows(Units(m)[i + 1], Units(m)[i])
  <2> SUFFICES ASSUME NEW i \in 1 .. n - 1
               PROVE  Follows(Units(m)[i + 1], Units(m)[i])
    OBVIOUS
  <2>1. i \in 1 .. n /\ i + 1 \in 1 .. n /\ i # n
    BY <1>2
  <2>2. /\ Units(m)[i] = [of |-> m, at |-> i]
        /\ Units(m)[i + 1] = [of |-> m, at |-> i + 1]
    BY <1>4, <2>1
  <2> QED
    BY <1>6, <2>1, <2>2 DEF Follows
<1>8. WellFramed(Units(m))
  <2>1. n \in 1 .. n
    BY <1>2
  <2> QED
    BY <1>5, <1>6, <1>7, <2>1 DEF WellFramed
<1> QED
  BY <1>2, <1>4, <1>5, <1>8

(* Whole lines after whole lines are whole lines.                          *)
LEMMA LinesJoin ==
  ASSUME NEW s \in Seq(Unit), NEW t \in Seq(Unit),
         WellFramed(s), WellFramed(t), t # <<>> => t[1].at = 1
  PROVE  WellFramed(s \o t)
<1> DEFINE st == s \o t
<1>1. /\ Len(s) \in Nat /\ Len(t) \in Nat
      /\ (Len(s) = 0 <=> s = <<>>) /\ (Len(t) = 0 <=> t = <<>>)
  BY EmptySeq, LenProperties
<1>2. /\ st \in Seq(Unit) /\ Len(st) = Len(s) + Len(t)
      /\ \A i \in 1 .. Len(s) : st[i] = s[i]
      /\ \A i \in 1 .. Len(t) : st[Len(s) + i] = t[i]
  BY JoinFacts
<1> HIDE DEF st
<1>3. st # <<>> => EndsLine(st[Len(st)])
  <2>1. CASE t = <<>>
    <3>1. Len(t) = 0
      BY <1>1, <2>1
    <3> QED
      BY <1>1, <1>2, <3>1, EmptySeq DEF WellFramed
  <2>2. CASE t # <<>>
    <3>1. Len(t) \in 1 .. Len(t)
      BY <1>1, <2>2
    <3> QED
      BY <1>2, <2>2, <3>1 DEF WellFramed
  <2> QED
    BY <2>1, <2>2
<1>4. ASSUME NEW i \in 1 .. Len(st) - 1
      PROVE  Follows(st[i + 1], st[i])
  <2>1. CASE i < Len(s)
    <3>1. i \in 1 .. Len(s) - 1 /\ i \in 1 .. Len(s) /\ i + 1 \in 1 .. Len(s)
      BY <1>1, <2>1
    <3> QED
      BY <1>2, <3>1 DEF WellFramed
  <2>2. CASE i = Len(s)
    <3>1. /\ i \in 1 .. Len(s) /\ s # <<>>
          /\ 1 \in 1 .. Len(t) /\ t # <<>>
      BY <1>1, <1>2, <2>2
    <3>2. EndsLine(s[i]) /\ t[1].at = 1
      BY <2>2, <3>1 DEF WellFramed
    <3> QED
      BY <1>2, <2>2, <3>1, <3>2 DEF Follows
  <2>3. CASE i > Len(s)
    <3>1. PICK k \in 1 .. Len(t) - 1 : i = Len(s) + k
      <4>1. i - Len(s) \in 1 .. Len(t) - 1 /\ i = Len(s) + (i - Len(s))
        BY <1>1, <1>2, <2>3
      <4> QED
        BY <4>1
    <3>2. k \in 1 .. Len(t) /\ k + 1 \in 1 .. Len(t) /\ i + 1 = Len(s) + (k + 1)
      BY <1>1, <3>1
    <3> QED
      BY <1>2, <3>1, <3>2 DEF WellFramed
  <2> QED
    BY <1>1, <1>2, <2>1, <2>2, <2>3
<1> QED
  BY <1>3, <1>4 DEF WellFramed, st

-----------------------------------------------------------------------------
(* Appending.                                                              *)

(* What the outputs of a peer that is asked for no broken lines may be.    *)
LEMMA AppendKeepsLines ==
  ASSUME PeerTypeOK, RecordsAreSentWhole,
         NEW units \in Seq(Unit), AppendOutput(units),
         behaviour'.mischief = behaviour.mischief,
         behaviour.mischief \subseteq {"malformed"}
           => WellFramed(units) /\ (units # <<>> => units[1].at = 1)
  PROVE  RecordsAreSentWhole'
<1> SUFFICES ASSUME behaviour.mischief \subseteq {"malformed"}
             PROVE  WellFramed(peer_output')
  BY DEF RecordsAreSentWhole
<1>1. WellFramed(peer_output) /\ peer_output \in Seq(Unit)
  BY DEF RecordsAreSentWhole, PeerTypeOK
<1>2. WellFramed(peer_output \o units)
  BY <1>1, LinesJoin
<1> QED
  BY <1>1, <1>2 DEF AppendOutput

(***************************************************************************)
(* What is appended shows the record retained after the step, and if the   *)
(* step replaced the record, it ends in a unit that speaks of it.  Nothing *)
(* is claimed of a record that cannot be encoded.                          *)
(***************************************************************************)
LEMMA AppendKeepsWord ==
  ASSUME PeerTypeOK, SilentIsEmpty, LastWordIsCurrent,
         NEW units \in Seq(Unit), AppendOutput(units),
         ShowsOnly(units, peer_display'),
         \/ peer_display' = peer_display
         \/ units # <<>> /\ SpeaksOf(units[Len(units)])
  PROVE  LastWordIsCurrent'
<1>1. CASE behaviour.silent
  <2>1. peer_output' = <<>>
    BY <1>1 DEF AppendOutput, SilentIsEmpty
  <2>2. Published' = {}
    BY <2>1 DEF Published
  <2> QED
    BY <2>2 DEF LastWordIsCurrent
<1>2. CASE ~behaviour.silent /\ Len(peer_output) + Len(units) > PeerCapacity
  <2>1. Len(peer_output) \in Nat /\ Len(units) \in Nat /\ PeerCapacity \in Nat
    BY LenProperties, PeerAssumption DEF PeerTypeOK
  <2>2. output_overflowed' = TRUE
    BY <1>2, <2>1 DEF AppendOutput
  <2> QED
    BY <2>2 DEF LastWordIsCurrent
<1>3. CASE ~behaviour.silent /\ ~(Len(peer_output) + Len(units) > PeerCapacity)
  <2> DEFINE old == peer_output
             new == peer_output'
             Said(s) == {i \in DOMAIN s : SpeaksOf(s[i])}
  <2>1. new = old \o units /\ output_overflowed' = output_overflowed
    <3>1. Len(old) \in Nat /\ Len(units) \in Nat /\ PeerCapacity \in Nat
      BY LenProperties, PeerAssumption DEF PeerTypeOK
    <3> QED
      BY <1>3, <3>1 DEF AppendOutput
  <2>2. /\ old \in Seq(Unit) /\ new \in Seq(Unit)
        /\ Len(old) \in Nat /\ Len(units) \in Nat
        /\ DOMAIN old = 1 .. Len(old) /\ DOMAIN units = 1 .. Len(units)
        /\ DOMAIN new = 1 .. Len(old) + Len(units)
        /\ \A i \in 1 .. Len(old) : new[i] = old[i]
        /\ \A i \in 1 .. Len(units) : new[Len(old) + i] = units[i]
    <3>1. old \in Seq(Unit)
      BY DEF PeerTypeOK
    <3>2. new \in Seq(Unit) /\ Len(new) = Len(old) + Len(units)
      BY <2>1, <3>1, JoinFacts
    <3> QED
      BY <2>1, <3>1, <3>2, JoinFacts, SequenceFacts
  <2>3. Published = Said(old) /\ Published' = Said(new)
    BY DEF Published, SpeaksOf
  <2>4. SUFFICES ASSUME ~output_overflowed, Sendable(peer_display', "NONE"),
                        NEW i \in Said(new),
                        \A j \in Said(new) : j <= i
                 PROVE  new[i].of.screen = peer_display'
    BY <2>1, <2>3 DEF LastWordIsCurrent, Sendable
  <2> HIDE DEF old, new
  <2>5. CASE i > Len(old)
    <3>1. i - Len(old) \in 1 .. Len(units) /\ i = Len(old) + (i - Len(old))
      BY <2>2, <2>4, <2>5
    <3>2. new[i] = units[i - Len(old)] /\ i - Len(old) \in DOMAIN units
      BY <2>2, <3>1
    <3> QED
      BY <2>4, <3>2 DEF ShowsOnly
  <2>6. CASE i <= Len(old)
    <3>1. i \in 1 .. Len(old) /\ i \in Said(old) /\ new[i] = old[i]
      BY <2>2, <2>4, <2>6
    <3>2. peer_display' = peer_display
      <4> SUFFICES ASSUME units # <<>>, SpeaksOf(units[Len(units)])
                   PROVE  FALSE
        OBVIOUS
      <4>1. Len(units) \in 1 .. Len(units)
        BY <2>2, EmptySeq
      <4>2. Len(old) + Len(units) \in Said(new)
        BY <2>2, <4>1
      <4> QED
        BY SMTT(30), <2>2, <2>4, <2>6, <4>1, <4>2
    <3>3. \A j \in Said(old) : j <= i
      BY <2>2, <2>4
    <3>4. old[i].of.screen = peer_display
      BY <2>3, <2>4, <3>1, <3>2, <3>3 DEF LastWordIsCurrent, Sendable, old
    <3> QED
      BY <3>1, <3>2, <3>4
  <2> QED
    BY <2>2, <2>4, <2>5, <2>6
<1> QED
  BY <1>1, <1>2, <1>3

(* An output stays a sequence of units that fits, and an empty one silent. *)
LEMMA AppendKeepsTypes ==
  ASSUME PeerTypeOK, SilentIsEmpty,
         NEW units \in Seq(Unit), AppendOutput(units),
         behaviour'.silent = behaviour.silent
  PROVE  /\ peer_output' \in Seq(Unit) /\ Len(peer_output') <= PeerCapacity
         /\ output_overflowed' \in BOOLEAN
         /\ SilentIsEmpty'
<1>1. /\ peer_output \in Seq(Unit) /\ Len(peer_output) <= PeerCapacity
      /\ output_overflowed \in BOOLEAN /\ behaviour.silent \in BOOLEAN
  BY DEF PeerTypeOK, Behaviour
<1>2. /\ peer_output \o units \in Seq(Unit)
      /\ Len(peer_output \o units) = Len(peer_output) + Len(units)
  BY <1>1, JoinFacts
<1> QED
  BY <1>1, <1>2 DEF AppendOutput, SilentIsEmpty

-----------------------------------------------------------------------------
(* What a step sends.                                                      *)

(* The part of the invariant that is about the output.                     *)
OutputInv ==
  /\ peer_output \in Seq(Unit) /\ Len(peer_output) <= PeerCapacity
  /\ output_overflowed \in BOOLEAN
  /\ SilentIsEmpty
  /\ RecordsAreSentWhole
  /\ LastWordIsCurrent

(* The behaviour changes in nothing but the demo.                          *)
Steady ==
  behaviour'.silent = behaviour.silent /\ behaviour'.mischief = behaviour.mischief

(* The errors a record says with the record retained beside them.          *)
Spoken == {"NONE", "ACTIVE", "NO_SESSION", "GUARD", "BAD_VERB"}

(* Nothing sent, nothing spoilt.                                           *)
LEMMA NothingIsSpoilt ==
  ASSUME PeerInv, Steady, SendNothing, UNCHANGED peer_display
  PROVE  OutputInv'
BY DEF PeerInv, PeerTypeOK, Steady, SendNothing, OutputInv, SilentIsEmpty,
       RecordsAreSentWhole, WellFramed, LastWordIsCurrent, Published, Sendable

(* A record is one line, whose every unit shows its screen.                *)
LEMMA RecordIsALine ==
  ASSUME NEW screen \in Screen, NEW error \in Error
  PROVE  LET units == Units(Display(screen, error))
         IN  /\ units \in Seq(Unit) /\ units # <<>> /\ units[1].at = 1
             /\ WellFramed(units)
             /\ \A i \in 1 .. Len(units) :
                  /\ units[i].of.screen = screen
                  /\ SpeaksOf(units[i]) <=> error \in Spoken
<1> DEFINE m == Display(screen, error)
<1>1. /\ m \in Message /\ m.verb = "DISPLAY" /\ m.screen = screen /\ m.error = error
  BY DEF Message, DisplayMessage, Display
<1> HIDE DEF m
<1>2. /\ Units(m) \in Seq(Unit) /\ Len(Units(m)) \in Nat \ {0} /\ WellFramed(Units(m))
      /\ \A i \in 1 .. Len(Units(m)) : Units(m)[i] = [of |-> m, at |-> i]
  BY <1>1, UnitsAreALine
<1>3. 1 \in 1 .. Len(Units(m)) /\ Units(m) # <<>>
  BY <1>2, EmptySeq
<1>4. ASSUME NEW i \in 1 .. Len(Units(m))
      PROVE  /\ Units(m)[i].of.screen = screen
             /\ SpeaksOf(Units(m)[i]) <=> error \in Spoken
  <2>1. Units(m)[i] = [of |-> m, at |-> i]
    BY <1>2
  <2>2. Units(m)[i].of = m
    BY <2>1
  <2> QED
    BY <1>1, <2>2 DEF SpeaksOf, Spoken
<1>5. Units(m)[1].at = 1
  <2>1. Units(m)[1] = [of |-> m, at |-> 1]
    BY <1>2, <1>3
  <2> QED
    BY <2>1
<1> QED
  BY <1>2, <1>3, <1>4, <1>5 DEF m

(***************************************************************************)
(* A record that is sent shows what is retained afterwards, if its error   *)
(* is one that says so; and only such a record goes with a change.         *)
(***************************************************************************)
LEMMA RecordIsAppended ==
  ASSUME PeerInv, Steady,
         NEW screen \in Screen, NEW error \in Error,
         AppendOutput(Units(Display(screen, error))),
         error \in Spoken => screen = peer_display',
         peer_display' = peer_display \/ error \in Spoken
  PROVE  OutputInv'
<1> DEFINE units == Units(Display(screen, error))
<1>1. /\ units \in Seq(Unit) /\ units # <<>> /\ units[1].at = 1
      /\ WellFramed(units)
      /\ \A i \in 1 .. Len(units) :
           /\ units[i].of.screen = screen
           /\ SpeaksOf(units[i]) <=> error \in Spoken
  BY RecordIsALine
<1>2. AppendOutput(units)
  OBVIOUS
<1> HIDE DEF units
<1>3. /\ DOMAIN units = 1 .. Len(units) /\ Len(units) \in 1 .. Len(units)
  BY <1>1, EmptySeq, LenProperties
<1>4. ShowsOnly(units, peer_display')
  BY <1>1, <1>3 DEF ShowsOnly
<1>5. peer_display' = peer_display \/ (units # <<>> /\ SpeaksOf(units[Len(units)]))
  BY <1>1, <1>3
<1>6. RecordsAreSentWhole'
  BY <1>1, <1>2, AppendKeepsLines DEF PeerInv, Steady
<1>7. LastWordIsCurrent'
  BY <1>1, <1>2, <1>4, <1>5, AppendKeepsWord DEF PeerInv
<1> QED
  BY <1>1, <1>2, <1>6, <1>7, AppendKeepsTypes DEF PeerInv, Steady, OutputInv

(***************************************************************************)
(* One that cannot be encoded is not sent: the record may change with it   *)
(* only to one that cannot be encoded either, of which nothing is claimed. *)
(***************************************************************************)
LEMMA RecordIsSent ==
  ASSUME PeerInv, Steady,
         NEW screen \in Screen, NEW error \in Error, SendRecord(screen, error),
         error \in Spoken => screen = peer_display',
         peer_display' = peer_display \/ error = "NONE"
  PROVE  OutputInv'
<1>1. "NONE" \in Spoken
  BY DEF Spoken
<1>2. CASE Sendable(screen, error)
  <2>1. AppendOutput(Units(Display(screen, error)))
    BY <1>2 DEF SendRecord
  <2> QED
    BY <1>1, <2>1, RecordIsAppended
<1>3. CASE ~Sendable(screen, error) /\ peer_display' = peer_display
  <2>1. SendNothing
    BY <1>3 DEF SendRecord
  <2> QED
    BY <1>3, <2>1, NothingIsSpoilt
<1>4. CASE ~Sendable(screen, error) /\ peer_display' # peer_display
  <2>1. /\ SendNothing /\ error = "NONE" /\ screen = peer_display'
    BY <1>1, <1>4 DEF SendRecord
  <2>2. ~Sendable(peer_display', "NONE")
    BY <1>4, <2>1
  <2>3. LastWordIsCurrent'
    BY <2>2 DEF LastWordIsCurrent, Sendable
  <2> QED
    BY <2>1, <2>3
    DEF PeerInv, PeerTypeOK, Steady, SendNothing, OutputInv, SilentIsEmpty,
        RecordsAreSentWhole, WellFramed
<1> QED
  BY <1>2, <1>3, <1>4

(***************************************************************************)
(* A demo press shows a screen and says so, or refuses with the old one.   *)
(***************************************************************************)
LEMMA DemoAnswers ==
  ASSUME PeerInv, Steady, NEW press \in Press, ApplyDemoScript(press)
  PROVE  peer_display' \in Screen /\ OutputInv'
<1> DEFINE event == EventOf[press]
           Refuse(error) == SendRecord(peer_display, error) /\ UNCHANGED peer_display
           Show(screen)  == SendRecord(screen, "NONE") /\ peer_display' = screen
<1>1. /\ peer_display \in Screen /\ BlankScreen \in Screen /\ Started \in Screen
      /\ \A screen \in Active : \A page \in {"WIFI", "GUEST"} : Turned[screen][page] \in Screen
  BY PeerAssumption, WireAssumption DEF PeerInv, PeerTypeOK
<1>2. \/ \E error \in {"GUARD", "ACTIVE", "NO_SESSION"} : Refuse(error)
      \/ \E screen \in Screen : Show(screen)
      \/ SendNothing /\ UNCHANGED peer_display
  <2>1. CASE press \notin Guarded
    BY <2>1 DEF ApplyDemoScript
  <2>2. CASE press \in Guarded /\ event = "CENTER_SHORT"
    BY <1>1, <2>2 DEF ApplyDemoScript
  <2>3. CASE press \in Guarded /\ event = "CENTER_LONG"
    BY <1>1, <2>3 DEF ApplyDemoScript
  <2>4. CASE press \in Guarded /\ event \in {"LEFT_SHORT", "RIGHT_SHORT"}
    BY <1>1, <2>4 DEF ApplyDemoScript
  <2> QED
    BY <2>1, <2>2, <2>3, <2>4 DEF ApplyDemoScript
<1>3. ASSUME NEW error \in {"GUARD", "ACTIVE", "NO_SESSION"}, Refuse(error)
      PROVE  peer_display' \in Screen /\ OutputInv'
  <2>1. error \in Error /\ error \in Spoken
    BY DEF Error, Spoken
  <2> QED
    BY <1>1, <1>3, <2>1, RecordIsSent
<1>4. ASSUME NEW screen \in Screen, Show(screen)
      PROVE  peer_display' \in Screen /\ OutputInv'
  <2>1. "NONE" \in Error /\ "NONE" \in Spoken
    BY DEF Error, Spoken
  <2> QED
    BY <1>4, <2>1, RecordIsSent
<1> QED
  BY <1>1, <1>2, <1>3, <1>4, NothingIsSpoilt

-----------------------------------------------------------------------------
(* The steps.                                                              *)

(* The assembler keeps a line of units, and gives a message or an error.   *)
LEMMA FeedingFacts ==
  ASSUME NEW assembler \in Assembler, NEW u \in Unit
  PROVE  /\ FeedNext(assembler, u) \in Assembler
         /\ FeedOutcome(assembler, u).kind = "MESSAGE"
              => FeedOutcome(assembler, u).message \in Message
         /\ FeedOutcome(assembler, u).kind = "ERROR"
              => FeedOutcome(assembler, u).error \in {"TOO_LONG", "MALFORMED"}
<1> DEFINE line == Append(assembler.line, u)
<1>1. /\ assembler.line \in Seq(Unit) /\ assembler.overlong \in BOOLEAN
      /\ assembler = [line |-> assembler.line, overlong |-> assembler.overlong]
  BY DEF Assembler
<1>2. line \in Seq(Unit) /\ Len(line) \in Nat \ {0}
  BY <1>1, AppendProperties, LenProperties
<1>3. line[1] \in Unit
  BY <1>2, ElementOfSeq
<1>4. line[1].of \in Message
  BY <1>3 DEF Unit
<1>5. EmptyAssembler \in Assembler
  BY DEF EmptyAssembler, Assembler
<1>6. FeedNext(assembler, u) \in Assembler
  BY <1>1, <1>2, <1>5 DEF FeedNext, Assembler
<1> HIDE DEF line
<1>7. FeedOutcome(assembler, u)
        = IF ~EndsLine(u)            THEN [kind |-> "INCOMPLETE"]
          ELSE IF assembler.overlong THEN [kind |-> "ERROR", error |-> "TOO_LONG"]
          ELSE IF ~LineParses(line)  THEN [kind |-> "ERROR", error |-> "MALFORMED"]
          ELSE [kind |-> "MESSAGE", message |-> line[1].of]
  BY DEF FeedOutcome, line
<1> HIDE DEF line
<1>8. CASE ~EndsLine(u)
  BY <1>6, <1>7, <1>8
<1>9. CASE EndsLine(u) /\ assembler.overlong
  BY <1>6, <1>7, <1>9
<1>10. CASE EndsLine(u) /\ ~assembler.overlong /\ ~LineParses(line)
  BY <1>6, <1>7, <1>10
<1>11. CASE EndsLine(u) /\ ~assembler.overlong /\ LineParses(line)
  BY <1>4, <1>6, <1>7, <1>11
<1> QED
  BY <1>8, <1>9, <1>10, <1>11

(* Handling a message keeps the record a screen and the output in order.   *)
LEMMA HandlingAMessage ==
  ASSUME PeerInv, Steady, NEW m \in Message, HandleMessage(m)
  PROVE  /\ peer_display' \in Screen /\ OutputInv'
         /\ handshake_complete' \in BOOLEAN /\ peer_locked' \in BOOLEAN
<1>1. /\ peer_display \in Screen /\ BlankScreen \in Screen
      /\ handshake_complete \in BOOLEAN /\ peer_locked \in BOOLEAN
      /\ behaviour.reject_every_version \in BOOLEAN
  BY WireAssumption DEF PeerInv, PeerTypeOK, Behaviour
<1>2. /\ {"NONE", "BAD_VERB", "BAD_VERSION", "NO_HELLO"} \subseteq Error
      /\ {"NONE", "BAD_VERB"} \subseteq Spoken
      /\ {"BAD_VERSION", "NO_HELLO"} \cap Spoken = {}
  BY DEF Error, Spoken
<1>3. CASE m.verb = "HELLO"
  <2>1. HandleHello(m) /\ m.locked \in BOOLEAN
    <3>1. m.locked \in BOOLEAN
      BY <1>3 DEF Message, HelloMessage, ButtonMessage, StateMessage, DisplayMessage,
                  NoiseMessage
    <3> QED
      BY <1>3, <3>1 DEF HandleMessage
  <2>2. CASE behaviour.reject_every_version
    <3>1. SendRecord(BlankScreen, "BAD_VERSION") /\ peer_display' = peer_display
      BY <2>1, <2>2 DEF HandleHello
    <3>2. OutputInv'
      BY <1>1, <1>2, <3>1, RecordIsSent
    <3> QED
      BY <1>1, <2>1, <3>1, <3>2 DEF HandleHello
  <2>3. CASE ~behaviour.reject_every_version
    <3>1. SendRecord(peer_display, "NONE") /\ peer_display' = peer_display
      BY <2>1, <2>3 DEF HandleHello
    <3>2. OutputInv'
      BY <1>1, <1>2, <3>1, RecordIsSent
    <3> QED
      BY <1>1, <2>1, <3>1, <3>2 DEF HandleHello
  <2> QED
    BY <2>2, <2>3
<1>4. CASE m.verb # "HELLO" /\ ~handshake_complete
  <2>1. /\ SendRecord(BlankScreen, "NO_HELLO")
        /\ UNCHANGED <<peer_display, peer_locked, handshake_complete>>
    BY <1>4 DEF HandleMessage
  <2>2. OutputInv'
    BY <1>1, <1>2, <2>1, RecordIsSent
  <2> QED
    BY <1>1, <2>1, <2>2
<1>5. CASE m.verb = "DISPLAY" /\ handshake_complete
  <2>1. /\ SendRecord(peer_display, "BAD_VERB")
        /\ UNCHANGED <<peer_display, peer_locked, handshake_complete>>
    BY <1>5 DEF HandleMessage
  <2>2. OutputInv'
    BY <1>1, <1>2, <2>1, RecordIsSent
  <2> QED
    BY <1>1, <2>1, <2>2
<1>6. CASE m.verb = "BUTTON" /\ handshake_complete
  <2>1. /\ \/ ApplyDemoScript(m.press)
           \/ SendNothing /\ UNCHANGED peer_display
        /\ UNCHANGED <<peer_locked, handshake_complete>>
    BY <1>6 DEF HandleMessage
  <2>2. m.press \in Press
    BY <1>6 DEF Message, HelloMessage, ButtonMessage, StateMessage, DisplayMessage,
                NoiseMessage
  <2>3. peer_display' \in Screen /\ OutputInv'
    BY <1>1, <2>1, <2>2, DemoAnswers, NothingIsSpoilt
  <2> QED
    BY <1>1, <2>1, <2>3
<1>7. CASE m.verb = "STATE" /\ handshake_complete
  <2>1. /\ peer_locked' = m.locked /\ SendNothing
        /\ UNCHANGED <<peer_display, handshake_complete>>
    BY <1>7 DEF HandleMessage
  <2>2. m.locked \in BOOLEAN
    BY <1>7 DEF Message, HelloMessage, ButtonMessage, StateMessage, DisplayMessage,
                NoiseMessage
  <2> QED
    BY <1>1, <2>1, <2>2, NothingIsSpoilt
<1> QED
  BY <1>3, <1>4, <1>5, <1>6, <1>7 DEF HandleMessage

(* Feeding one unit.                                                       *)
LEMMA FeedingAUnit ==
  ASSUME PeerInv, NEW u \in Unit, Feed(u)
  PROVE  PeerInv'
<1> DEFINE outcome == FeedOutcome(peer_inbound, u)
<1>1. /\ peer_inbound \in Assembler /\ peer_display \in Screen /\ behaviour \in Behaviour
      /\ handshake_complete \in BOOLEAN /\ peer_locked \in BOOLEAN
      /\ BlankScreen \in Screen
  BY WireAssumption DEF PeerInv, PeerTypeOK
<1>2. /\ peer_inbound' \in Assembler /\ behaviour' = behaviour
      /\ outcome.kind = "MESSAGE" => outcome.message \in Message
      /\ outcome.kind = "ERROR" => outcome.error \in {"TOO_LONG", "MALFORMED"}
  BY <1>1, FeedingFacts DEF Feed
<1>3. Steady
  BY <1>2 DEF Steady
<1>4. \/ /\ outcome.kind = "INCOMPLETE" /\ SendNothing
         /\ UNCHANGED <<peer_display, peer_locked, handshake_complete>>
      \/ outcome.kind = "MESSAGE" /\ HandleMessage(outcome.message)
      \/ /\ outcome.kind = "ERROR"
         /\ SendRecord(IF handshake_complete THEN peer_display ELSE BlankScreen, outcome.error)
         /\ UNCHANGED <<peer_display, peer_locked, handshake_complete>>
  BY DEF Feed
<1> HIDE DEF outcome
<1>5. /\ peer_display' \in Screen /\ OutputInv'
      /\ handshake_complete' \in BOOLEAN /\ peer_locked' \in BOOLEAN
  <2>1. CASE outcome.kind = "INCOMPLETE"
    BY <1>1, <1>3, <1>4, <2>1, NothingIsSpoilt
  <2>2. CASE outcome.kind = "MESSAGE"
    BY <1>2, <1>3, <1>4, <2>2, HandlingAMessage
  <2>3. CASE outcome.kind = "ERROR"
    <3> DEFINE screen == IF handshake_complete THEN peer_display ELSE BlankScreen
    <3>1. /\ SendRecord(screen, outcome.error) /\ screen \in Screen
          /\ UNCHANGED <<peer_display, peer_locked, handshake_complete>>
      BY <1>1, <1>4, <2>3
    <3>2. outcome.error \in Error /\ outcome.error \notin Spoken
      BY <1>2, <2>3 DEF Error, Spoken
    <3> HIDE DEF screen
    <3>3. OutputInv'
      BY <1>3, <3>1, <3>2, RecordIsSent
    <3> QED
      BY <1>1, <3>1, <3>3
  <2> QED
    BY <1>4, <2>1, <2>2, <2>3
<1> QED
  BY <1>1, <1>2, <1>5 DEF PeerInv, PeerTypeOK, OutputInv

(* The operator's commands for broken lines; only malformed ones are lines.*)
LEMMA GarbageIsUnits ==
  ASSUME PeerTypeOK, NEW kind \in {"malformed", "oversized", "partial"}
  PROVE  /\ Garbage[kind] \in Seq(Unit)
         /\ ShowsOnly(Garbage[kind], peer_display)
         /\ kind = "malformed" => WellFramed(Garbage[kind]) /\ Garbage[kind][1].at = 1
<1> DEFINE record == Units(Display(peer_display, "NONE"))
           long   == [i \in 1 .. MaxLineUnits |-> [of |-> Hello(FALSE), at |-> 1]]
<1>1. /\ peer_display \in Screen /\ "NONE" \in Error /\ MaxLineUnits \in Nat
      /\ Noise \in Message /\ Hello(FALSE) \in Message /\ Noise.verb = "NOISE"
      /\ Hello(FALSE).verb = "HELLO"
  BY WireAssumption
     DEF PeerTypeOK, Error, Message, NoiseMessage, HelloMessage, Noise, Hello
<1>2. /\ Units(Noise) \in Seq(Unit) /\ WellFramed(Units(Noise))
      /\ Len(Units(Noise)) \in Nat \ {0}
      /\ \A i \in 1 .. Len(Units(Noise)) : Units(Noise)[i] = [of |-> Noise, at |-> i]
  BY <1>1, UnitsAreALine
<1>3. \A i \in 1 .. Len(Units(Noise)) : Units(Noise)[i].of.verb = "NOISE"
  <2> SUFFICES ASSUME NEW i \in 1 .. Len(Units(Noise))
               PROVE  Units(Noise)[i].of.verb = "NOISE"
    OBVIOUS
  <2>1. Units(Noise)[i] = [of |-> Noise, at |-> i]
    BY <1>2
  <2> QED
    BY <1>1, <2>1
<1>4. /\ record \in Seq(Unit)
      /\ \A i \in 1 .. Len(record) : record[i].of.screen = peer_display
  BY <1>1, RecordIsALine
<1>5. /\ long \in Seq(Unit) /\ Len(long) = MaxLineUnits
      /\ \A i \in 1 .. MaxLineUnits : long[i].of.verb = "HELLO"
  <2> DEFINE hello == Hello(FALSE)
             first == [of |-> hello, at |-> 1]
  <2>1. hello \in Message /\ hello.verb = "HELLO"
    BY <1>1
  <2> HIDE DEF hello
  <2>2. first \in Unit /\ first.of.verb = "HELLO"
    BY <2>1 DEF Unit
  <2> HIDE DEF first
  <2>3. /\ [i \in 1 .. MaxLineUnits |-> first] \in Seq(Unit)
        /\ Len([i \in 1 .. MaxLineUnits |-> first]) = MaxLineUnits
        /\ \A i \in 1 .. MaxLineUnits : [j \in 1 .. MaxLineUnits |-> first][i] = first
    BY <1>1, <2>2, SeqDef, LenProperties
  <2> QED
    BY <2>2, <2>3 DEF long, first, hello
<1> HIDE DEF record, long
<1>6. CASE kind = "malformed"
  <2>1. Garbage[kind] = Units(Noise)
    BY <1>6 DEF Garbage
  <2>2. DOMAIN Units(Noise) = 1 .. Len(Units(Noise))
    BY <1>2, LenProperties
  <2>3. ShowsOnly(Units(Noise), peer_display)
    BY <1>3, <2>2 DEF ShowsOnly, SpeaksOf
  <2>4. Units(Noise)[1].at = 1
    <3>1. Units(Noise)[1] = [of |-> Noise, at |-> 1]
      BY <1>2
    <3> QED
      BY <3>1
  <2> QED
    BY <1>2, <2>1, <2>3, <2>4
<1>7. CASE kind = "oversized"
  <2>1. Garbage[kind] = long \o Units(Noise)
    BY <1>7 DEF Garbage, long
  <2> DEFINE line == long \o Units(Noise)
  <2>2. /\ line \in Seq(Unit) /\ Len(line) = Len(long) + Len(Units(Noise))
        /\ \A i \in 1 .. Len(long) : line[i] = long[i]
        /\ \A i \in 1 .. Len(Units(Noise)) : line[Len(long) + i] = Units(Noise)[i]
    <3>1. long \in Seq(Unit) /\ Units(Noise) \in Seq(Unit)
      BY <1>2, <1>5
    <3> QED
      BY <3>1, JoinFacts
  <2>3. DOMAIN line = 1 .. Len(line)
    BY <2>2, LenProperties
  <2> HIDE DEF line
  <2>4. ASSUME NEW i \in DOMAIN line
        PROVE  line[i].of.verb # "DISPLAY"
    <3>1. CASE i <= Len(long)
      <4>1. i \in 1 .. Len(long)
        BY <1>1, <1>5, <2>3, <3>1
      <4> QED
        BY <1>5, <2>2, <4>1
    <3>2. CASE i > Len(long)
      <4>1. i - Len(long) \in 1 .. Len(Units(Noise)) /\ i = Len(long) + (i - Len(long))
        BY <1>1, <1>2, <1>5, <2>2, <2>3, <3>2
      <4>2. line[i] = Units(Noise)[i - Len(long)]
        BY <2>2, <4>1
      <4> QED
        BY <1>3, <4>1, <4>2
    <3> QED
      BY <1>1, <1>5, <2>3, <3>1, <3>2
  <2>5. ShowsOnly(line, peer_display)
    BY <2>4 DEF ShowsOnly, SpeaksOf
  <2> QED
    BY <1>7, <2>1, <2>2, <2>5 DEF line
<1>8. CASE kind = "partial"
  <2> DEFINE half == Len(record) \div 2
             part == SubSeq(record, 1, half)
  <2>1. Garbage[kind] = part
    BY <1>8 DEF Garbage, record
  <2>2. Len(record) \in Nat /\ half \in 0 .. Len(record)
    BY <1>4, LenProperties
  <2>3. /\ part \in Seq(Unit) /\ Len(part) = half
        /\ \A i \in 1 .. half : part[i] = record[i]
    <3> HIDE DEF half
    <3>1. half <= Len(record) /\ half \in Nat
      BY <2>2
    <3> QED
      BY <1>4, <2>2, <3>1, FrontOfASequence
  <2>4. DOMAIN part = 1 .. half
    BY <2>3, LenProperties
  <2> HIDE DEF part, half
  <2>5. ShowsOnly(part, peer_display)
    BY <1>4, <2>2, <2>3, <2>4 DEF ShowsOnly
  <2> QED
    BY <1>8, <2>1, <2>3, <2>5
<1> QED
  BY <1>6, <1>7, <1>8

(* The peer begins within the invariant.                                   *)
LEMMA PeerBegins == PeerInit => PeerInv
<1> SUFFICES ASSUME PeerInit
             PROVE  PeerInv
  OBVIOUS
<1>1. /\ <<>> \in Seq(Unit) /\ Len(<<>>) = 0
      /\ EmptyAssembler \in Assembler
  BY DEF EmptyAssembler, Assembler
<1>2. PeerTypeOK
  <2>1. BlankScreen \in Screen /\ behaviour \in Behaviour /\ PeerCapacity \in Nat
    BY PeerAssumption, WireAssumption, BehaviourAssumption DEF PeerInit
  <2>2. {handshake_complete, peer_locked, output_overflowed} \subseteq BOOLEAN
    BY Zenon DEF PeerInit
  <2>3. peer_inbound \in Assembler /\ peer_display \in Screen /\ peer_output = <<>>
    BY <1>1, <2>1 DEF PeerInit
  <2> QED
    BY <1>1, <2>1, <2>2, <2>3 DEF PeerTypeOK
<1>3. WellFramed(<<>>)
  BY <1>1 DEF WellFramed
<1>4. Published = {}
  BY DEF PeerInit, Published
<1> QED
  BY <1>2, <1>3, <1>4
  DEF PeerInit, PeerInv, SilentIsEmpty, RecordsAreSentWhole, LastWordIsCurrent

(* Every step of the peer keeps the invariant.                             *)
LEMMA PeerStep == PeerInv /\ [PeerNext]_peerVars => PeerInv'
<1> SUFFICES ASSUME PeerInv, [PeerNext]_peerVars
             PROVE  PeerInv'
  OBVIOUS
<1>1. /\ peer_inbound \in Assembler /\ peer_display \in Screen /\ behaviour \in Behaviour
      /\ handshake_complete \in BOOLEAN /\ peer_locked \in BOOLEAN
      /\ EmptyAssembler \in Assembler
  BY DEF PeerInv, PeerTypeOK, EmptyAssembler, Assembler
<1>2. CASE PeerFed
  <2>1. PICK m \in Lines : \E i \in DOMAIN Units(m) : Feed(Units(m)[i])
    BY <1>2 DEF PeerFed
  <2>2. PICK i \in DOMAIN Units(m) : Feed(Units(m)[i])
    BY <2>1
  <2>3. m \in Message
    BY PeerAssumption
  <2>4. Units(m)[i] \in Unit
    BY <2>3, UnitsAreALine, SequenceFacts
  <2> QED
    BY <2>2, <2>4, FeedingAUnit
<1>3. CASE TakeAllOutput
  <2>1. WellFramed(<<>>) /\ <<>> \in Seq(Unit) /\ Len(<<>>) = 0 /\ PeerCapacity \in Nat
    BY PeerAssumption DEF WellFramed
  <2>2. Published' = {}
    BY <1>3 DEF TakeAllOutput, Published
  <2> QED
    BY <1>3, <2>1, <2>2
    DEF TakeAllOutput, PeerInv, PeerTypeOK, SilentIsEmpty, RecordsAreSentWhole,
        LastWordIsCurrent
<1>4. CASE PeerDisplays
  <2>1. PICK screen \in Screen : SetDisplay(screen, "NONE")
    BY <1>4 DEF PeerDisplays
  <2>2. Steady /\ "NONE" \in Error /\ "NONE" \in Spoken
    BY <2>1 DEF SetDisplay, Steady, Error, Spoken
  <2>3. OutputInv'
    BY <2>1, <2>2, RecordIsSent DEF SetDisplay
  <2> QED
    BY <1>1, <2>1, <2>3 DEF SetDisplay, PeerInv, PeerTypeOK, OutputInv
<1>5. CASE PeerComplains
  <2>1. PICK error \in {"NONE", "BAD_VERSION"} : SendError(error)
    BY <1>5 DEF PeerComplains
  <2>2. Steady /\ error \in Error
    BY <2>1 DEF SendError, Steady, Error
  <2>3. OutputInv'
    BY <1>1, <2>1, <2>2, RecordIsSent DEF SendError
  <2> QED
    BY <1>1, <2>1, <2>3 DEF SendError, PeerInv, PeerTypeOK, OutputInv
<1>6. CASE PeerGarbles
  <2>1. PICK kind \in behaviour.mischief : SendGarbage(kind)
    BY <1>6 DEF PeerGarbles
  <2>2. /\ SendNothing \/ AppendOutput(Garbage[kind])
        /\ Steady /\ peer_display' = peer_display
        /\ kind \in {"malformed", "oversized", "partial"}
    BY <1>1, <2>1 DEF SendGarbage, Steady, Behaviour
  <2>3. CASE SendNothing
    <3>1. OutputInv'
      BY <2>2, <2>3, NothingIsSpoilt
    <3> QED
      BY <1>1, <2>1, <3>1 DEF SendGarbage, PeerInv, PeerTypeOK, OutputInv
  <2>4. CASE AppendOutput(Garbage[kind])
    <3>1. /\ Garbage[kind] \in Seq(Unit) /\ ShowsOnly(Garbage[kind], peer_display)
          /\ kind = "malformed" => WellFramed(Garbage[kind]) /\ Garbage[kind][1].at = 1
      BY <2>2, GarbageIsUnits DEF PeerInv
    <3>2. RecordsAreSentWhole'
      BY <2>2, <2>4, <3>1, AppendKeepsLines DEF PeerInv, Steady
    <3>3. LastWordIsCurrent'
      BY <2>2, <2>4, <3>1, AppendKeepsWord DEF PeerInv
    <3>4. /\ peer_output' \in Seq(Unit) /\ Len(peer_output') <= PeerCapacity
          /\ output_overflowed' \in BOOLEAN /\ SilentIsEmpty'
      BY <2>2, <2>4, <3>1, AppendKeepsTypes DEF PeerInv, Steady
    <3> QED
      BY <1>1, <2>1, <3>2, <3>3, <3>4 DEF SendGarbage, PeerInv, PeerTypeOK
  <2> QED
    BY <2>2, <2>3, <2>4
<1>7. CASE PeerSwitches
  <2>1. PICK on \in BOOLEAN : SetDemo(on)
    BY <1>7 DEF PeerSwitches
  <2>2. Steady /\ behaviour' \in Behaviour
    BY <1>1, <2>1 DEF SetDemo, Steady, Behaviour
  <2>3. OutputInv'
    BY <2>1, <2>2, NothingIsSpoilt DEF SetDemo, SendNothing
  <2> QED
    BY <1>1, <2>1, <2>2, <2>3 DEF SetDemo, PeerInv, PeerTypeOK, OutputInv
<1>8. CASE LinkDropped
  <2>1. WellFramed(<<>>) /\ <<>> \in Seq(Unit) /\ Len(<<>>) = 0 /\ PeerCapacity \in Nat
    BY PeerAssumption DEF WellFramed
  <2>2. Published' = {}
    BY <1>8 DEF LinkDropped, Published
  <2>3. {handshake_complete', output_overflowed'} \subseteq BOOLEAN
    BY <1>8, Zenon DEF LinkDropped
  <2>4. /\ peer_inbound' \in Assembler /\ peer_output' = <<>>
        /\ UNCHANGED <<peer_display, peer_locked, behaviour>>
    BY <1>1, <1>8 DEF LinkDropped
  <2>5. PeerTypeOK'
    BY <1>1, <2>1, <2>3, <2>4 DEF PeerTypeOK
  <2> QED
    BY <2>1, <2>2, <2>4, <2>5
    DEF PeerInv, SilentIsEmpty, RecordsAreSentWhole, LastWordIsCurrent
<1>9. CASE UNCHANGED peerVars
  BY <1>9 DEF peerVars, PeerInv, PeerTypeOK, SilentIsEmpty, RecordsAreSentWhole, WellFramed,
              LastWordIsCurrent, Published, Sendable
<1> QED
  BY <1>2, <1>3, <1>4, <1>5, <1>6, <1>7, <1>8, <1>9 DEF PeerNext

LEMMA PeerInvariance == PeerSpec => []PeerInv
<1> QED
  BY PeerBegins, PeerStep, PTL DEF PeerSpec

-----------------------------------------------------------------------------
(* The theorems.                                                           *)

(***************************************************************************)
(* Every field of the peer keeps its type, and its output stays within the *)
(* buffer it is written to, whatever it is asked for and fed.              *)
(***************************************************************************)
THEOREM PeerIsTyped == PeerSpec => []PeerTypeOK
<1>1. PeerInv => PeerTypeOK
  BY DEF PeerInv
<1> QED
  BY <1>1, PeerInvariance, PTL

(***************************************************************************)
(* Unless its operator asks for broken lines, what it has to send is whole *)
(* lines one after the other, for every length of message and of buffer.   *)
(***************************************************************************)
THEOREM LinesAreWhole == PeerSpec => []RecordsAreSentWhole
<1>1. PeerInv => RecordsAreSentWhole
  BY DEF PeerInv
<1> QED
  BY <1>1, PeerInvariance, PTL

(***************************************************************************)
(* Unless a record was dropped for want of room, or the one retained does  *)
(* not fit a line, the last one waiting that shows anything shows the      *)
(* record retained: for every set of records that can be encoded, and      *)
(* every way of classifying presses and screens the demo may be given.     *)
(***************************************************************************)
THEOREM TheLastWordIsTrue == PeerSpec => []LastWordIsCurrent
<1>1. PeerInv => LastWordIsCurrent
  BY DEF PeerInv
<1> QED
  BY <1>1, PeerInvariance, PTL

-----------------------------------------------------------------------------
(* The parts keep their invariants, and the wire its types.                *)
LinkTyped ==
  /\ IInv /\ PeerInv
  /\ behaviour \in Behaviours
  /\ port \in {"closed", "pulled", "probing", "serving"}
  /\ endpoint \in Seq(Unit) /\ incoming \in Seq(Unit) /\ channel \in Seq(Unit)
  /\ slot_taken \in BOOLEAN
  /\ epoch \in Press

(* A packet and what is left of the output.                                *)
LEMMA PacketIsCut ==
  ASSUME IInv, TakeOutput(PacketUnits)
  PROVE  /\ SubSeq(output, 1, Taken(PacketUnits)) \in Seq(Unit) /\ output' \in Seq(Unit)
         /\ SubSeq(output, 1, Taken(PacketUnits)) \o output' = output
         /\ output' = SubSeq(output, Taken(PacketUnits) + 1, Len(output))
         /\ Taken(PacketUnits) \in 0 .. Len(output) /\ Taken(PacketUnits) <= PacketUnits
         /\ Taken(PacketUnits) = PacketUnits \/ Taken(PacketUnits) = Len(output)
         /\ UNCHANGED <<link_state, screen_locked>>
<1>1. output \in Seq(Unit) /\ Len(output) \in Nat /\ PacketUnits \in Nat
  BY LenProperties, SessionAssumption DEF IInv, TypeOK
<1>2. /\ Taken(PacketUnits) \in 0 .. Len(output) /\ Taken(PacketUnits) <= PacketUnits
      /\ Taken(PacketUnits) = PacketUnits \/ Taken(PacketUnits) = Len(output)
  BY <1>1 DEF Taken
<1>3. output' = SubSeq(output, Taken(PacketUnits) + 1, Len(output))
      /\ UNCHANGED <<link_state, screen_locked>>
  BY DEF TakeOutput
<1> QED
  BY <1>1, <1>2, <1>3, CutInTwo

(* The peer is a peer again after a restart.                               *)
LEMMA RestartKeepsPeer == PeerInv /\ ShellRestarts => PeerInv'
<1> SUFFICES ASSUME PeerInv, ShellRestarts PROVE PeerInv'
  OBVIOUS
<1>1. behaviour \in Behaviour /\ BlankScreen \in Screen /\ EmptyAssembler \in Assembler
  BY WireAssumption DEF PeerInv, PeerTypeOK, EmptyAssembler, Assembler
<1>2. WellFramed(<<>>) /\ <<>> \in Seq(Unit) /\ Len(<<>>) = 0 /\ PeerCapacity \in Nat
  BY PeerAssumption DEF WellFramed
<1>3. Published' = {}
  BY DEF ShellRestarts, Published
<1>4. {handshake_complete', peer_locked', output_overflowed'} \subseteq BOOLEAN
  BY Zenon DEF ShellRestarts
<1>5. peer_inbound' \in Assembler /\ peer_display' \in Screen /\ peer_output' = <<>>
      /\ UNCHANGED behaviour
  BY <1>1 DEF ShellRestarts
<1>6. PeerTypeOK'
  BY <1>1, <1>2, <1>4, <1>5 DEF PeerTypeOK
<1> QED
  BY <1>2, <1>3, <1>5, <1>6 DEF PeerInv, SilentIsEmpty, RecordsAreSentWhole, LastWordIsCurrent

(* Whatever goes on between them, each end keeps its own invariant.        *)
LEMMA EndsStep == LinkTyped /\ [LinkNext]_linkVars => IInv' /\ PeerInv' /\ UNCHANGED behaviour
<1> SUFFICES ASSUME LinkTyped, [LinkNext]_linkVars PROVE IInv' /\ PeerInv' /\ UNCHANGED behaviour
  OBVIOUS
<1> USE DEF LinkTyped
<1>1. ASSUME [Next]_vars PROVE IInv'
  BY <1>1, StepIInv
<1>2. ASSUME [PeerNext]_peerVars, UNCHANGED behaviour PROVE PeerInv' /\ UNCHANGED behaviour
  BY <1>2, PeerStep
<1>3. ASSUME UNCHANGED peerVars PROVE PeerInv' /\ UNCHANGED behaviour
  BY <1>2, <1>3 DEF peerVars
<1>4. CASE DeviceOpens
  BY <1>1, <1>3, <1>4 DEF DeviceOpens, Next
<1>5. CASE DeviceCloses
  BY <1>1, <1>3, <1>5 DEF DeviceCloses, Next
<1>6. CASE DeviceReceives
  <2>1. CASE link_state = "LinkDown"
    BY <1>1, <1>3, <1>6, <2>1 DEF DeviceReceives
  <2>2. CASE link_state # "LinkDown"
    <3>1. Receive(Head(channel)) /\ channel # <<>> /\ UNCHANGED peerVars
      BY <1>6, <2>2 DEF DeviceReceives
    <3>2. Head(channel) \in Unit
      BY <3>1, HeadTailProperties
    <3>3. IInv'
      BY <2>2, <3>1, <3>2, ReceiveIInv
    <3> QED
      BY <1>3, <3>1, <3>3
  <2> QED
    BY <2>1, <2>2
<1>7. CASE DeviceSends
  BY <1>1, <1>3, <1>7 DEF DeviceSends, Next, Drain
<1>8. CASE DeviceTicks
  <2>1. AppTick
    BY <1>8, SessionAssumption DEF DeviceTicks, TimePasses, AppTick
  <2> QED
    BY <1>1, <1>3, <1>8, <2>1 DEF DeviceTicks, Next
<1>9. CASE DevicePresses
  <2>1. AppReport
    BY <1>9 DEF DevicePresses, AppReport
  <2> QED
    BY <1>1, <1>3, <1>9, <2>1 DEF DevicePresses, Next
<1>10. CASE HostFetches \/ ShellOpens \/ ProbeReads \/ ProbeFails
  BY <1>1, <1>3, <1>10 DEF HostFetches, ShellOpens, ProbeReads, ProbeFails, device
<1>11. CASE ShellRestarts
  BY <1>1, <1>11, RestartKeepsPeer DEF ShellRestarts, device
<1>12. CASE CablePulled
  BY <1>1, <1>2, <1>12 DEF CablePulled, LinkDropped, PeerNext, device
<1>13. CASE PeerWrites
  BY <1>1, <1>2, <1>13 DEF PeerWrites, TakeAllOutput, PeerNext, device
<1>14. CASE PeerReads
  <2>1. Feed(Head(incoming)) /\ incoming # <<>> /\ UNCHANGED device
    BY <1>14 DEF PeerReads
  <2>2. Head(incoming) \in Unit
    BY <2>1, HeadTailProperties
  <2>3. PeerInv' /\ UNCHANGED behaviour
    BY <2>1, <2>2, FeedingAUnit DEF Feed
  <2> QED
    BY <1>1, <2>1, <2>3 DEF device
<1>15. CASE PeerIsTold
  BY <1>1, <1>2, <1>15 DEF PeerIsTold, PeerNext, PeerDisplays, SetDisplay, device
<1>16. CASE UNCHANGED linkVars
  BY <1>1, <1>3, <1>16 DEF linkVars
<1> QED
  BY <1>4, <1>5, <1>6, <1>7, <1>8, <1>9, <1>10, <1>11, <1>12, <1>13, <1>14, <1>15, <1>16
  DEF LinkNext, DeviceStep, HostStep

(* The link begins as it goes on.                                          *)
LEMMA TypesBegin == LinkInit => LinkTyped
<1> SUFFICES ASSUME LinkInit PROVE LinkTyped
  OBVIOUS
<1>1. IInv /\ PeerInv /\ behaviour \in Behaviours
  BY InitIInv, PeerBegins DEF LinkInit, PeerInit
<1>2. <<>> \in Seq(Unit)
  OBVIOUS
<1>3. slot_taken \in BOOLEAN
  BY Zenon DEF LinkInit
<1> QED
  BY <1>1, <1>2, <1>3 DEF LinkInit, LinkTyped

(* Every step of the link keeps the types of what is between the ends.     *)
LEMMA TypesStep == LinkTyped /\ [LinkNext]_linkVars => LinkTyped'
<1> SUFFICES ASSUME LinkTyped, [LinkNext]_linkVars PROVE LinkTyped'
  OBVIOUS
<1> USE DEF LinkTyped
<1>1. IInv' /\ PeerInv' /\ UNCHANGED behaviour
  BY EndsStep
<1>2. <<>> \in Seq(Unit) /\ output \in Seq(Unit) /\ peer_output \in Seq(Unit)
  BY DEF IInv, TypeOK, PeerInv, PeerTypeOK
<1>3. CASE DeviceOpens
  BY <1>1, <1>3, LinkAssumption DEF DeviceOpens, wire
<1>4. CASE DeviceCloses
  BY <1>1, <1>4 DEF DeviceCloses
<1>5. CASE DeviceReceives
  <2>1. channel' \in Seq(Unit)
    BY <1>2, <1>5, HeadTailProperties DEF DeviceReceives
  <2> QED
    BY <1>1, <1>5, <2>1 DEF DeviceReceives
<1>6. CASE DeviceSends
  <2>1. endpoint' \in Seq(Unit)
    BY <1>6, PacketIsCut DEF DeviceSends
  <2> QED
    BY <1>1, <1>6, <2>1 DEF DeviceSends
<1>7. CASE DeviceTicks \/ DevicePresses
  BY <1>1, <1>7 DEF DeviceTicks, DevicePresses, wire
<1>8. CASE HostFetches
  <2>1. incoming \o endpoint \in Seq(Unit)
    BY ConcatProperties
  <2> QED
    BY <1>1, <1>2, <1>8, <2>1 DEF HostFetches, device
<1>9. CASE ShellOpens
  BY <1>1, <1>2, <1>9 DEF ShellOpens, device
<1>10. CASE ProbeReads \/ ProbeFails
  BY <1>1, <1>2, <1>10 DEF ProbeReads, ProbeFails, NodeCloses, device
<1>11. CASE ShellRestarts
  BY <1>1, <1>2, <1>11 DEF ShellRestarts, NodeCloses, device
<1>12. CASE CablePulled
  BY <1>1, <1>2, <1>12 DEF CablePulled, device
<1>13. CASE PeerWrites
  <2>1. channel \o peer_output \in Seq(Unit)
    BY <1>2, ConcatProperties
  <2> QED
    BY <1>1, <1>13, <2>1 DEF PeerWrites, device
<1>14. CASE PeerReads
  <2>1. Tail(incoming) \in Seq(Unit)
    BY <1>14, HeadTailProperties DEF PeerReads
  <2> QED
    BY <1>1, <1>14, <2>1 DEF PeerReads, device
<1>15. CASE PeerIsTold
  BY <1>1, <1>15 DEF PeerIsTold, device, wire
<1>16. CASE UNCHANGED linkVars
  BY <1>1, <1>16 DEF linkVars
<1> QED
  BY <1>3, <1>4, <1>5, <1>6, <1>7, <1>8, <1>9, <1>10, <1>11, <1>12, <1>13, <1>14, <1>15, <1>16
  DEF LinkNext, DeviceStep, HostStep

-----------------------------------------------------------------------------
(* Trust is mutual.                                                        *)

(* What the device has said and the appliance has not read, oldest first.  *)
OnItsWay == (incoming \o endpoint) \o output

(* The line begun, or else the first unit to be read, is that of a HELLO.  *)
BeginsWithHello(line, units) ==
  IF line # <<>> THEN line[1].of.verb = "HELLO"
  ELSE units # <<>> /\ units[1].of.verb = "HELLO"

(* The ends forget everything between two connections.                     *)
AtRest ==
  /\ port # "serving" => ~handshake_complete /\ peer_inbound = EmptyAssembler
  /\ link_state = "LinkDown" => output = <<>> /\ ~slot_taken
  /\ ~Open => incoming = <<>>
  /\ Open /\ endpoint # <<>> => slot_taken
  /\ Open /\ link_state = "LinkDown" =>
       incoming = <<>> /\ endpoint = <<>> /\ peer_inbound = EmptyAssembler

(* During one, the appliance misses nothing, and HELLO comes first.        *)
HeardNow ==
  /\ InStep(peer_inbound, OnItsWay)
  /\ ~handshake_complete => BeginsWithHello(peer_inbound.line, OnItsWay)

Heard == Open /\ link_state # "LinkDown" => HeardNow

(* The first of two sequences joined.                                      *)
LEMMA FirstOfAJoin ==
  ASSUME NEW p \in Seq(Unit), NEW q \in Seq(Unit)
  PROVE  /\ p \o q \in Seq(Unit)
         /\ p = <<>> => p \o q = q
         /\ p # <<>> => p \o q # <<>> /\ (p \o q)[1] = p[1] /\ Head(p) = p[1]
                        /\ Tail(p) \in Seq(Unit) /\ Tail(p \o q) = Tail(p) \o q
<1>1. /\ p \o q \in Seq(Unit) /\ Len(p \o q) = Len(p) + Len(q)
      /\ \A i \in 1 .. Len(p) + Len(q) : (p \o q)[i] = IF i <= Len(p) THEN p[i] ELSE q[i - Len(p)]
      /\ Len(p) \in Nat /\ Len(q) \in Nat
  BY ConcatProperties, LenProperties
<1>2. CASE p = <<>>
  BY <1>1, <1>2, ConcatEmptySeq
<1>3. CASE p # <<>>
  <2> DEFINE s == p \o q
             t == Tail(p) \o q
  <2>1. Len(p) # 0
    BY <1>1, <1>3, EmptySeq
  <2>2. s # <<>> /\ s[1] = p[1] /\ Head(p) = p[1]
    <3>1. 1 \in 1 .. Len(p) + Len(q) /\ 1 <= Len(p) /\ Len(s) # 0
      BY <1>1, <2>1
    <3>2. s # <<>>
      BY <3>1, EmptySeq
    <3> QED
      BY <1>1, <3>1, <3>2
  <2>3. /\ Tail(p) \in Seq(Unit) /\ Len(Tail(p)) = Len(p) - 1
        /\ \A i \in 1 .. Len(p) - 1 : Tail(p)[i] = p[i + 1]
    BY <1>3, FirstUnits
  <2>4. /\ t \in Seq(Unit) /\ Len(t) = (Len(p) - 1) + Len(q)
        /\ \A i \in 1 .. (Len(p) - 1) + Len(q) :
             t[i] = IF i <= Len(p) - 1 THEN Tail(p)[i] ELSE q[i - (Len(p) - 1)]
    BY <2>3, ConcatProperties
  <2>5. /\ Tail(s) \in Seq(Unit) /\ Len(Tail(s)) = Len(s) - 1
        /\ \A i \in 1 .. Len(s) - 1 : Tail(s)[i] = s[i + 1]
    BY <1>1, <2>2, FirstUnits
  <2>6. ASSUME NEW i \in 1 .. Len(t) PROVE Tail(s)[i] = t[i]
    <3>1. i \in 1 .. Len(s) - 1 /\ i + 1 \in 1 .. Len(p) + Len(q) /\ i \in 1 .. (Len(p) - 1) + Len(q)
      BY <1>1, <2>4
    <3>2. Tail(s)[i] = IF i + 1 <= Len(p) THEN p[i + 1] ELSE q[(i + 1) - Len(p)]
      BY <1>1, <2>5, <3>1
    <3>3. CASE i <= Len(p) - 1
      <4>1. i \in 1 .. Len(p) - 1 /\ i + 1 <= Len(p)
        BY <1>1, <3>1, <3>3
      <4> QED
        BY <2>3, <2>4, <3>1, <3>2, <3>3, <4>1
    <3>4. CASE ~(i <= Len(p) - 1)
      <4>1. ~(i + 1 <= Len(p)) /\ (i + 1) - Len(p) = i - (Len(p) - 1)
        BY <1>1, <3>1, <3>4
      <4> QED
        BY <2>4, <3>1, <3>2, <3>4, <4>1
    <3> QED
      BY <3>3, <3>4
  <2>7. Len(Tail(s)) = Len(t)
    BY <1>1, <2>4, <2>5
  <2> HIDE DEF s, t
  <2>8. Tail(s) = t
    BY <2>4, <2>5, <2>6, <2>7, SeqEqual
  <2> QED
    BY <1>1, <1>3, <2>2, <2>3, <2>8 DEF s, t
<1> QED
  BY <1>2, <1>3

(* A reader in step with whole messages is in step with the first of them. *)
LEMMA InStepWithTheFirst ==
  ASSUME NEW assembler, NEW p \in Seq(Unit), NEW q \in Seq(Unit),
         InStep(assembler, p \o q), q = <<>> \/ q[1].at = 1
  PROVE  InStep(assembler, p)
<1> DEFINE s == p \o q
           line == assembler.line
<1>1. /\ s \in Seq(Unit) /\ Len(s) = Len(p) + Len(q)
      /\ \A i \in 1 .. Len(p) + Len(q) : s[i] = IF i <= Len(p) THEN p[i] ELSE q[i - Len(p)]
      /\ Len(p) \in Nat /\ Len(q) \in Nat
  BY ConcatProperties, LenProperties
<1>2. GoesOn(line, s) /\ line \in Seq(Unit)
  BY DEF InStep, Assembler
<1>3. CASE p = <<>>
  <2>1. s = q
    BY <1>3, ConcatEmptySeq
  <2>2. line = <<>>
    BY <1>2, <2>1, NothingIsBegun
  <2>3. GoesOn(<<>>, <<>>)
    BY ReaderIsFresh DEF InStep, EmptyAssembler
  <2> QED
    BY <1>3, <2>2, <2>3 DEF InStep
<1>4. CASE q = <<>>
  BY <1>4, ConcatEmptySeq
<1>5. CASE p # <<>> /\ q # <<>>
  <2> DEFINE l == Len(p)
  <2>1. l # 0 /\ Len(q) # 0
    BY <1>1, <1>5, EmptySeq
  <2>2. \A i \in 1 .. l : i \in 1 .. l + Len(q) /\ s[i] = p[i]
    BY <1>1
  <2>3. s # <<>> /\ s[1] = p[1]
    BY <1>5, FirstOfAJoin
  <2>4. EndsLine(p[l])
    <3>1. l \in 1 .. Len(s) - 1 /\ l + 1 \in 1 .. Len(p) + Len(q) /\ ~(l + 1 <= l) /\ (l + 1) - l = 1
      BY <1>1, <2>1
    <3>2. s[l] = p[l] /\ s[l + 1] = q[1]
      BY <1>1, <2>1, <2>2, <3>1
    <3>3. Follows(s[l + 1], s[l])
      BY <1>2, <3>1 DEF GoesOn, WellFramed
    <3>4. p[l].at \in Nat \ {0}
      <4>1. p[l] \in Unit
        BY <1>1, <2>1, ElementOfSeq
      <4> QED
        BY <4>1 DEF Unit
    <3> QED
      BY <1>5, <3>2, <3>3, <3>4 DEF Follows
  <2>5. \A i \in 1 .. l - 1 : Follows(p[i + 1], p[i])
    <3>1. \A i \in 1 .. l - 1 : i \in 1 .. Len(s) - 1 /\ i \in 1 .. l /\ i + 1 \in 1 .. l
      BY <1>1
    <3> QED
      BY <1>2, <2>2, <3>1 DEF GoesOn, WellFramed
  <2>6. \A i \in 1 .. l : p[i].of.verb # "NOISE"
    BY <1>1, <1>2, <2>2 DEF GoesOn
  <2>7. GoesOn(line, p)
    BY <1>2, <1>5, <2>3, <2>4, <2>5, <2>6 DEF GoesOn, WellFramed
  <2> QED
    BY <2>7 DEF InStep
<1> QED
  BY <1>3, <1>4, <1>5

(* A message behind.                                                       *)
LEMMA InStepWithOneMore ==
  ASSUME NEW assembler, NEW units \in Seq(Unit), InStep(assembler, units),
         NEW m \in Message, m.verb # "NOISE"
  PROVE  InStep(assembler, units \o Units(m))
BY MessageGoesBehind DEF InStep

(* Before the first connection there is nothing to forget.                 *)
LEMMA RestBegins == LinkInit => AtRest
BY DEF LinkInit, AtRest, Open, Init, PeerInit

(* Whoever closes the connection, and however, both ends forget it.        *)
LEMMA RestStep ==
  ASSUME ~PacketSurvivesClose
  PROVE  LinkTyped /\ AtRest /\ [LinkNext]_linkVars => AtRest'
<1> SUFFICES ASSUME LinkTyped, AtRest, [LinkNext]_linkVars PROVE AtRest'
  OBVIOUS
<1>1. CASE DeviceOpens
  BY <1>1 DEF DeviceOpens, AtRest, Open, wire, peerVars, PortOpened
<1>2. CASE DeviceCloses
  BY <1>2 DEF DeviceCloses, AtRest, Open, peerVars, PortClosed
<1>3. CASE DeviceReceives
  <2>1. link_state # "LinkDown" => link_state' # "LinkDown" /\ UNCHANGED output
    <3> SUFFICES ASSUME link_state # "LinkDown" PROVE link_state' # "LinkDown" /\ UNCHANGED output
      OBVIOUS
    <3>1. Receive(Head(channel))
      BY <1>3 DEF DeviceReceives
    <3>2. link_state' \in {link_state, "Incompatible", "Connected"}
      BY <3>1 DEF Receive, HandleDisplay
    <3> QED
      BY <3>1, <3>2 DEF Receive
  <2> QED
    BY <1>3, <2>1 DEF DeviceReceives, AtRest, Open, peerVars, vars
<1>4. CASE DeviceSends
  <2>1. link_state' # "LinkDown" /\ slot_taken' /\ UNCHANGED <<peerVars, port, incoming>>
    BY <1>4 DEF DeviceSends, TakeOutput
  <2> QED
    BY <2>1 DEF AtRest, Open, peerVars
<1>5. CASE DeviceTicks
  <2>1. link_state = "LinkDown" => UNCHANGED output
    BY <1>5 DEF DeviceTicks, TimePasses, Tick
  <2>2. UNCHANGED <<peerVars, wire, link_state>>
    BY <1>5 DEF DeviceTicks, TimePasses, Tick
  <2> QED
    BY <2>1, <2>2 DEF AtRest, Open, peerVars, wire
<1>6. CASE DevicePresses
  <2>1. link_state = "LinkDown" => UNCHANGED output
    BY <1>6 DEF DevicePresses, ReportEvent
  <2>2. UNCHANGED <<peerVars, wire, link_state>>
    BY <1>6 DEF DevicePresses, ReportEvent
  <2> QED
    BY <2>1, <2>2 DEF AtRest, Open, peerVars, wire
<1>7. CASE HostFetches
  BY <1>7 DEF HostFetches, AtRest, Open, peerVars, device, vars
<1>8. CASE ShellOpens
  <2>1. endpoint' = <<>> /\ port # "serving" /\ link_state = "LinkDown"
        /\ UNCHANGED <<device, peerVars, slot_taken, incoming>> /\ ~Open
    BY <1>8 DEF ShellOpens, Open
  <2> QED
    BY <2>1 DEF AtRest, Open, peerVars, device, vars
<1>9. CASE ProbeReads
  <2>1. /\ port = "probing" /\ port' \in {"probing", "serving"} /\ (incoming' = incoming \/ incoming' = <<>>)
        /\ UNCHANGED <<device, peerVars, endpoint, slot_taken>>
    BY <1>9 DEF ProbeReads
  <2> QED
    BY <2>1 DEF AtRest, Open, peerVars, device, vars
<1>10. CASE ProbeFails
  BY <1>10 DEF ProbeFails, NodeCloses, AtRest, Open, peerVars, device, vars
<1>11. CASE ShellRestarts
  BY <1>11 DEF ShellRestarts, NodeCloses, AtRest, Open, device, vars
<1>12. CASE CablePulled
  BY <1>12 DEF CablePulled, LinkDropped, AtRest, Open, device, vars
<1>13. CASE PeerWrites
  BY <1>13 DEF PeerWrites, TakeAllOutput, AtRest, Open, device, vars
<1>14. CASE PeerReads
  <2>1. /\ port = "serving" /\ incoming # <<>>
        /\ UNCHANGED <<port, endpoint, slot_taken, link_state, output>>
    BY <1>14 DEF PeerReads, device, vars
  <2> QED
    BY <2>1 DEF AtRest, Open
<1>15. CASE PeerIsTold
  <2>1. UNCHANGED <<peer_inbound, handshake_complete, device, wire>>
    BY <1>15 DEF PeerIsTold, SetDisplay
  <2> QED
    BY <2>1 DEF AtRest, Open, device, vars, wire
<1>16. CASE UNCHANGED linkVars
  BY <1>16 DEF linkVars, AtRest, Open, peerVars, vars
<1> QED
  BY <1>1, <1>2, <1>3, <1>4, <1>5, <1>6, <1>7, <1>8, <1>9, <1>10, <1>11, <1>12, <1>13, <1>14, <1>15, <1>16
  DEF LinkNext, DeviceStep, HostStep

(* Three sequences joined.                                                 *)
LEMMA JoinsAssociate ==
  \A a, b, c \in Seq(Unit) :
    a \o b \in Seq(Unit) /\ b \o c \in Seq(Unit) /\ (a \o b) \o c = a \o (b \o c)
<1> SUFFICES ASSUME NEW a \in Seq(Unit), NEW b \in Seq(Unit), NEW c \in Seq(Unit)
             PROVE  a \o b \in Seq(Unit) /\ b \o c \in Seq(Unit)
                    /\ (a \o b) \o c = a \o (b \o c)
  OBVIOUS
<1>1. a \o b \in Seq(Unit) /\ b \o c \in Seq(Unit)
  BY ConcatProperties
<1>2. (a \o b) \o c = a \o (b \o c)
  BY ConcatAssociative
<1> QED
  BY <1>1, <1>2

(* What is first stays first when something goes behind it.                *)
LEMMA HelloStaysFirst ==
  ASSUME NEW line, NEW p \in Seq(Unit), NEW q \in Seq(Unit), BeginsWithHello(line, p)
  PROVE  BeginsWithHello(line, p \o q)
BY FirstOfAJoin DEF BeginsWithHello

(* The units of a HELLO.                                                   *)
LEMMA HelloUnits ==
  ASSUME NEW locked \in BOOLEAN
  PROVE  /\ Hello(locked) \in Message /\ Hello(locked).verb = "HELLO"
         /\ Units(Hello(locked)) \in Seq(Unit) /\ Units(Hello(locked)) # <<>>
         /\ Units(Hello(locked))[1].of.verb = "HELLO"
         /\ Units(Hello(locked))[1].at = 1
<1>1. Hello(locked) \in Message /\ Hello(locked).verb = "HELLO"
  BY SessionMessages DEF Hello
<1> DEFINE m == Hello(locked)
<1> HIDE DEF m
<1>2. /\ MessageUnits[m.verb] \in Nat \ {0} /\ Units(m) \in Seq(Unit)
      /\ Len(Units(m)) = MessageUnits[m.verb]
      /\ \A i \in 1 .. MessageUnits[m.verb] : Units(m)[i] = [of |-> m, at |-> i]
  BY <1>1, UnitsFacts DEF m
<1>3. Units(m) # <<>> /\ 1 \in 1 .. MessageUnits[m.verb]
  BY <1>2, EmptySeq
<1>4. Units(m)[1] = [of |-> m, at |-> 1]
  BY <1>2, <1>3
<1>5. Units(m)[1].of = m /\ Units(m)[1].at = 1
  BY <1>4
<1> QED
  BY <1>1, <1>2, <1>3, <1>5 DEF m

(* A HELLO said again takes the place of the last one, whose first unit    *)
(* was still to come.                                                      *)
LEMMA RetryIsHeard ==
  ASSUME LinkTyped, HeardNow, AppTick, UNCHANGED <<peerVars, wire>>
  PROVE  HeardNow'
<1> DEFINE p == incoming \o endpoint
<1>1. /\ output \in Seq(Unit) /\ screen_locked \in BOOLEAN /\ p \in Seq(Unit)
      /\ incoming \in Seq(Unit) /\ endpoint \in Seq(Unit)
  BY ConcatProperties DEF LinkTyped, IInv, TypeOK
<1>2. OnItsWay = p \o output /\ OnItsWay' = p \o output'
      /\ UNCHANGED <<peer_inbound, handshake_complete>>
  BY DEF OnItsWay, wire, peerVars
<1> HIDE DEF p
<1>3. CASE UNCHANGED output
  BY <1>2, <1>3 DEF HeardNow
<1>4. CASE link_state = "Handshaking" /\ SendHello
  <2> DEFINE m == Hello(screen_locked)
  <2>1. output' = Units(m) /\ m \in Message /\ m.verb = "HELLO"
    BY <1>1, <1>4, HelloIsSaid, HelloUnits
  <2>2. output = <<>> \/ output[1].at = 1
    BY <1>4, HelloUnits DEF LinkTyped, IInv, OnlyHelloWhileHandshaking
  <2>3. Units(m) \in Seq(Unit) /\ Units(m) # <<>> /\ Units(m)[1].of.verb = "HELLO"
    BY <1>1, HelloUnits
  <2> HIDE DEF m
  <2>4. InStep(peer_inbound, p \o Units(m))
    <3>1. InStep(peer_inbound, p)
      BY <1>1, <1>2, <2>2, InStepWithTheFirst DEF HeardNow
    <3> QED
      BY <1>1, <2>1, <3>1, InStepWithOneMore
  <2>5. ASSUME BeginsWithHello(peer_inbound.line, p \o output)
        PROVE  BeginsWithHello(peer_inbound.line, p \o Units(m))
    <3>1. CASE p = <<>>
      BY <1>1, <2>3, <2>5, <3>1, FirstOfAJoin DEF BeginsWithHello
    <3>2. CASE p # <<>>
      BY <1>1, <2>3, <2>5, <3>2, FirstOfAJoin DEF BeginsWithHello
    <3> QED
      BY <3>1, <3>2
  <2> QED
    BY <1>2, <2>1, <2>4, <2>5 DEF HeardNow
<1> QED
  BY <1>3, <1>4 DEF AppTick, Tick

(* A press goes behind what is on its way.                                 *)
LEMMA PressIsHeard ==
  ASSUME LinkTyped, HeardNow, DevicePresses
  PROVE  HeardNow'
<1> DEFINE p == incoming \o endpoint
           m == Button(epoch)
<1>1. output \in Seq(Unit) /\ p \in Seq(Unit) /\ OnItsWay \in Seq(Unit)
      /\ incoming \in Seq(Unit) /\ endpoint \in Seq(Unit)
  BY ConcatProperties DEF LinkTyped, IInv, TypeOK, OnItsWay
<1>2. OnItsWay = p \o output /\ OnItsWay' = p \o output'
      /\ UNCHANGED <<peer_inbound, handshake_complete>>
  BY DEF OnItsWay, wire, peerVars, DevicePresses
<1>3. m \in Message /\ m.verb # "NOISE"
  BY SessionMessages DEF Button, LinkTyped
<1>4. UNCHANGED output \/ output' = output \o Units(m)
  BY DEF DevicePresses, ReportEvent, QueueMessage
<1> HIDE DEF p, m
<1>5. CASE UNCHANGED output
  BY <1>2, <1>5 DEF HeardNow
<1>6. CASE output' = output \o Units(m)
  <2>1. Units(m) \in Seq(Unit)
    BY <1>3, UnitsFacts
  <2>2. OnItsWay' = OnItsWay \o Units(m)
    <3>1. (p \o output) \o Units(m) = p \o (output \o Units(m))
      <4> DEFINE q == Units(m)
      <4>1. q \in Seq(Unit)
        BY <2>1
      <4> HIDE DEF q
      <4>2. p \in Seq(Unit) /\ output \in Seq(Unit)
        BY <1>1
      <4>3. (p \o output) \o q = p \o (output \o q)
        BY SMTT(20), <4>1, <4>2, JoinsAssociate
      <4> QED
        BY <4>3 DEF q
    <3>2. OnItsWay' = p \o (output \o Units(m))
      BY <1>2, <1>6
    <3> QED
      BY <1>2, <3>1, <3>2
  <2>3. InStep(peer_inbound, OnItsWay \o Units(m))
    BY <1>1, <1>3, InStepWithOneMore DEF HeardNow
  <2>4. ~handshake_complete => BeginsWithHello(peer_inbound.line, OnItsWay \o Units(m))
    BY <1>1, <2>1, HelloStaysFirst DEF HeardNow
  <2> QED
    BY <1>2, <2>2, <2>3, <2>4 DEF HeardNow
<1> QED
  BY <1>4, <1>5, <1>6

(* The packet sent is the first of what the output held.                   *)
LEMMA PacketIsHeard ==
  ASSUME LinkTyped, HeardNow, endpoint = <<>>, DeviceSends
  PROVE  HeardNow'
<1> DEFINE packet == SubSeq(output, 1, Taken(PacketUnits))
<1>1. /\ packet \in Seq(Unit) /\ output' \in Seq(Unit) /\ packet \o output' = output
      /\ incoming \in Seq(Unit)
  BY PacketIsCut DEF LinkTyped, DeviceSends
<1>2. endpoint' = packet /\ UNCHANGED <<incoming, peer_inbound, handshake_complete>>
  BY DEF DeviceSends, peerVars
<1> HIDE DEF packet
<1>3. (incoming \o packet) \o output' = incoming \o (packet \o output')
  BY <1>1, JoinsAssociate
<1>4. incoming \o <<>> = incoming
  BY <1>1, ConcatEmptySeq
<1>5. OnItsWay' = OnItsWay
  BY <1>1, <1>2, <1>3, <1>4 DEF OnItsWay
<1> QED
  BY <1>2, <1>5 DEF HeardNow

(* The packet fetched is next after what is in the buffers.                *)
LEMMA FetchIsHeard ==
  ASSUME LinkTyped, HeardNow, HostFetches
  PROVE  HeardNow'
<1>1. incoming \o endpoint \in Seq(Unit)
  BY ConcatProperties DEF LinkTyped
<1>2. (incoming \o endpoint) \o <<>> = incoming \o endpoint
  BY <1>1, ConcatEmptySeq
<1>3. OnItsWay' = OnItsWay /\ UNCHANGED <<peer_inbound, handshake_complete>>
  BY <1>2 DEF HostFetches, OnItsWay, device, vars, peerVars
<1> QED
  BY <1>3 DEF HeardNow

(* What looks like no HELLO holds none, and so holds nothing of this link. *)
LEMMA ProbeIsNoLoss ==
  ASSUME LinkTyped, AtRest, HeardNow, ProbeReads
  PROVE  HeardNow'
<1>1. /\ port = "probing" /\ incoming # <<>> /\ incoming \in Seq(Unit)
      /\ endpoint \in Seq(Unit) /\ output \in Seq(Unit)
      /\ UNCHANGED <<peer_inbound, handshake_complete, endpoint, output>>
  BY DEF ProbeReads, device, vars, peerVars, LinkTyped, IInv, TypeOK
<1>2. ~handshake_complete /\ peer_inbound.line = <<>>
  BY <1>1 DEF AtRest, EmptyAssembler
<1>3. endpoint \o output \in Seq(Unit) /\ OnItsWay = incoming \o (endpoint \o output)
  BY SMTT(20), <1>1, JoinsAssociate DEF OnItsWay
<1>4. incoming[1].of.verb = "HELLO" /\ incoming[1].at = 1
  <2>1. OnItsWay # <<>> /\ OnItsWay[1] = incoming[1]
    BY <1>1, <1>3, FirstOfAJoin
  <2> QED
    BY <1>2, <2>1 DEF HeardNow, BeginsWithHello, InStep, GoesOn
<1>5. 1 \in DOMAIN incoming
  BY <1>1, EmptySeq, LenProperties
<1>6. UNCHANGED incoming
  BY <1>4, <1>5 DEF ProbeReads, LooksLikeHello
<1> QED
  BY <1>1, <1>6 DEF HeardNow, OnItsWay

(***************************************************************************)
(* The appliance reads what it was sent: at a line feed the message, which *)
(* completes the handshake if it is the HELLO that was to come first.      *)
(***************************************************************************)
LEMMA ReadingIsHearing ==
  ASSUME \A b \in Behaviours : ~b.reject_every_version, LinkTyped, HeardNow, PeerReads
  PROVE  HeardNow'
<1> DEFINE u == Head(incoming)
           line == peer_inbound.line
<1>1. /\ incoming # <<>> /\ incoming \in Seq(Unit)
      /\ endpoint \in Seq(Unit) /\ output \in Seq(Unit)
      /\ incoming' = Tail(incoming) /\ UNCHANGED <<endpoint, output>>
      /\ Feed(u)
  BY DEF PeerReads, device, vars, LinkTyped, IInv, TypeOK
<1>2. endpoint \o output \in Seq(Unit) /\ OnItsWay = incoming \o (endpoint \o output)
  BY SMTT(20), <1>1, JoinsAssociate DEF OnItsWay
<1>3. /\ OnItsWay # <<>> /\ OnItsWay \in Seq(Unit) /\ OnItsWay[1] = u
      /\ Tail(incoming) \in Seq(Unit)
      /\ Tail(OnItsWay) = Tail(incoming) \o (endpoint \o output)
  BY <1>1, <1>2, FirstOfAJoin
<1>4. OnItsWay' = Tail(OnItsWay)
  <2>1. OnItsWay' = (Tail(incoming) \o endpoint) \o output
    BY <1>1 DEF OnItsWay
  <2>2. (Tail(incoming) \o endpoint) \o output = Tail(incoming) \o (endpoint \o output)
    <3> DEFINE t == Tail(incoming)
    <3>1. t \in Seq(Unit)
      BY <1>3
    <3> HIDE DEF t
    <3>2. (t \o endpoint) \o output = t \o (endpoint \o output)
      BY SMTT(30), <1>1, <3>1, JoinsAssociate
    <3> QED
      BY <3>2 DEF t
  <2> QED
    BY <1>3, <2>1, <2>2
<1>5. /\ InStep(FeedNext(peer_inbound, u), Tail(OnItsWay))
      /\ EndsLine(u) => FeedOutcome(peer_inbound, u) = [kind |-> "MESSAGE", message |-> u.of]
      /\ ~EndsLine(u) =>
           /\ FeedOutcome(peer_inbound, u) = [kind |-> "INCOMPLETE"]
           /\ FeedNext(peer_inbound, u).line = Append(line, u)
  BY <1>3, UnitIsRead DEF HeardNow
<1>6. peer_inbound' = FeedNext(peer_inbound, u) /\ UNCHANGED behaviour
  BY <1>1 DEF Feed
<1>7. InStep(peer_inbound', OnItsWay')
  BY <1>4, <1>5, <1>6
<1>8. ~behaviour.reject_every_version
  BY DEF LinkTyped
<1>9. ASSUME ~handshake_complete, ~handshake_complete'
      PROVE  BeginsWithHello(peer_inbound'.line, OnItsWay')
  <2>1. /\ line \in Seq(Unit) /\ u \in Unit
        /\ u.of.verb = "HELLO" /\ (line # <<>> => line[1].of.verb = "HELLO")
    <3>1. line \in Seq(Unit) /\ u \in Unit
      BY <1>1, HeadTailProperties DEF LinkTyped, PeerInv, PeerTypeOK, Assembler
    <3>2. BeginsWithHello(line, OnItsWay) /\ GoesOn(line, OnItsWay)
      BY <1>9 DEF HeardNow, InStep
    <3>3. CASE line = <<>>
      BY <1>3, <3>1, <3>2, <3>3 DEF BeginsWithHello
    <3>4. CASE line # <<>>
      <4>1. u = [of |-> line[1].of, at |-> Len(line) + 1]
        BY <1>3, <3>2, <3>4 DEF GoesOn
      <4>2. u.of = line[1].of
        BY <4>1
      <4> QED
        BY <3>1, <3>2, <3>4, <4>2 DEF BeginsWithHello
    <3> QED
      BY <3>3, <3>4
  <2>2. CASE EndsLine(u)
    <3>1. HandleMessage(u.of)
      BY <1>1, <1>5, <2>2 DEF Feed
    <3>2. HandleHello(u.of)
      BY <2>1, <3>1 DEF HandleMessage
    <3>3. handshake_complete'
      BY <1>8, <3>2 DEF HandleHello
    <3> QED
      BY <1>9, <3>3
  <2>3. CASE ~EndsLine(u)
    <3>1. peer_inbound'.line = Append(line, u)
      BY <1>5, <1>6, <2>3
    <3> HIDE DEF line, u
    <3>2. Append(line, u) # <<>> /\ Append(line, u)[1] = IF line = <<>> THEN u ELSE line[1]
      <4>1. Append(line, u) # <<>> /\ Append(line, u)[Len(line) + 1] = u
            /\ \A i \in 1 .. Len(line) : Append(line, u)[i] = line[i]
        BY <2>1, AppendProperties
      <4>2. CASE line = <<>>
        <5>1. Len(line) + 1 = 1
          BY <4>2, EmptySeq
        <5> QED
          BY <4>1, <4>2, <5>1
      <4>3. CASE line # <<>>
        <5>1. 1 \in 1 .. Len(line)
          BY <2>1, <4>3, EmptySeq
        <5> QED
          BY <4>1, <4>3, <5>1
      <4> QED
        BY <4>2, <4>3
    <3> QED
      BY <2>1, <3>1, <3>2 DEF BeginsWithHello
  <2> QED
    BY <2>2, <2>3
<1>10. handshake_complete => handshake_complete'
  <2> SUFFICES ASSUME handshake_complete, ~handshake_complete' PROVE FALSE
    OBVIOUS
  <2>1. \/ UNCHANGED handshake_complete
        \/ \E m : HandleHello(m)
    BY <1>1 DEF Feed, HandleMessage
  <2> QED
    BY <1>8, <2>1 DEF HandleHello
<1> QED
  BY <1>7, <1>9, <1>10 DEF HeardNow

(* Every step of the link leaves what is under way in step with the reader.*)
LEMMA HeardStep ==
  ASSUME \A b \in Behaviours : ~b.reject_every_version
  PROVE  LinkTyped /\ AtRest /\ Heard /\ [LinkNext]_linkVars => Heard'
<1> SUFFICES ASSUME LinkTyped, AtRest, Heard, [LinkNext]_linkVars, Open', link_state' # "LinkDown"
             PROVE  HeardNow'
  BY DEF Heard
<1>15. Open /\ link_state # "LinkDown" => HeardNow
  BY DEF Heard
<1>1. CASE DeviceOpens
  <2>1. screen_locked \in BOOLEAN /\ SendHello /\ incoming = <<>> /\ endpoint = <<>>
        /\ peer_inbound = EmptyAssembler /\ UNCHANGED <<incoming, endpoint, peer_inbound>>
    BY <1>1 DEF DeviceOpens, PortOpened, AtRest, LinkTyped, IInv, TypeOK, wire, peerVars
  <2> DEFINE m == Hello(screen_locked)
  <2>2. output' = Units(m) /\ m \in Message /\ m.verb = "HELLO"
    BY <2>1, HelloIsSaid, HelloUnits
  <2>3. Units(m) \in Seq(Unit) /\ Units(m) # <<>> /\ Units(m)[1].of.verb = "HELLO"
    BY <2>1, HelloUnits
  <2> HIDE DEF m
  <2>4. (<<>> \o <<>>) \o Units(m) = Units(m)
    BY <2>3, ConcatEmptySeq
  <2>5. OnItsWay' = Units(m) /\ peer_inbound' = EmptyAssembler
    BY <2>1, <2>2, <2>4 DEF OnItsWay
  <2>6. InStep(EmptyAssembler, Units(m))
    BY <2>2, ReaderIsFresh
  <2> QED
    BY <2>3, <2>5, <2>6 DEF HeardNow, BeginsWithHello, EmptyAssembler
<1>2. CASE DeviceCloses
  BY <1>2 DEF DeviceCloses, PortClosed
<1>3. CASE DeviceReceives
  <2>1. UNCHANGED <<peerVars, port, endpoint, incoming>>
    BY <1>3 DEF DeviceReceives
  <2>2. CASE link_state = "LinkDown"
    BY <1>3, <2>2 DEF DeviceReceives, vars
  <2>3. CASE link_state # "LinkDown"
    <3>1. UNCHANGED output /\ Open
      BY <1>3, <2>1, <2>3 DEF DeviceReceives, Receive, Open
    <3> QED
      BY <1>15, <2>1, <2>3, <3>1 DEF HeardNow, OnItsWay, peerVars
  <2> QED
    BY <2>2, <2>3
<1>4. CASE DeviceSends
  <2>1. Open /\ link_state # "LinkDown" /\ ~slot_taken
    BY <1>4 DEF DeviceSends, Open
  <2> QED
    BY <1>15, <1>4, <2>1, PacketIsHeard DEF AtRest
<1>5. CASE DeviceTicks
  <2>1. AppTick /\ UNCHANGED <<peerVars, wire, link_state>>
    BY <1>5, SessionAssumption DEF DeviceTicks, TimePasses, AppTick, Tick
  <2>2. Open
    BY <2>1 DEF Open, wire
  <2> QED
    BY <1>15, <2>1, <2>2, RetryIsHeard
<1>6. CASE DevicePresses
  <2>1. Open /\ link_state # "LinkDown"
    BY <1>6 DEF DevicePresses, ReportEvent, Open, wire
  <2> QED
    BY <1>15, <1>6, <2>1, PressIsHeard
<1>7. CASE HostFetches
  <2>1. Open /\ link_state # "LinkDown"
    BY <1>7 DEF HostFetches, device, vars
  <2> QED
    BY <1>15, <1>7, <2>1, FetchIsHeard
<1>8. CASE ShellOpens
  BY <1>8 DEF ShellOpens, device, vars
<1>9. CASE ProbeReads
  <2>1. Open /\ link_state # "LinkDown"
    BY <1>9 DEF ProbeReads, Open, device, vars
  <2> QED
    BY <1>15, <1>9, <2>1, ProbeIsNoLoss
<1>10. CASE ProbeFails \/ ShellRestarts \/ CablePulled
  BY <1>10 DEF ProbeFails, ShellRestarts, NodeCloses, CablePulled, Open
<1>11. CASE PeerWrites
  <2>1. UNCHANGED <<device, port, endpoint, incoming, peer_inbound, handshake_complete>>
    BY <1>11 DEF PeerWrites, TakeAllOutput
  <2> QED
    BY <1>15, <2>1 DEF HeardNow, OnItsWay, Open, device, vars
<1>12. CASE PeerReads
  <2>1. Open /\ link_state # "LinkDown"
    BY <1>12 DEF PeerReads, Open, device, vars
  <2> QED
    BY <1>15, <1>12, <2>1, ReadingIsHearing
<1>13. CASE PeerIsTold
  <2>1. UNCHANGED <<device, wire, peer_inbound, handshake_complete>>
    BY <1>13 DEF PeerIsTold, SetDisplay
  <2> QED
    BY <1>15, <2>1 DEF HeardNow, OnItsWay, Open, device, vars, wire
<1>14. CASE UNCHANGED linkVars
  BY <1>15, <1>14 DEF linkVars, HeardNow, OnItsWay, Open, vars, peerVars
<1> QED
  BY <1>1, <1>2, <1>3, <1>4, <1>5, <1>6, <1>7, <1>8, <1>9, <1>10, <1>11, <1>12, <1>13, <1>14
  DEF LinkNext, DeviceStep, HostStep

(* A HELLO that is to come first is somewhere on its way.                  *)
LEMMA HelloIsUnderWay ==
  LinkTyped /\ Heard => TrustIsMutual
<1> SUFFICES ASSUME LinkTyped, Heard, port = "serving", link_state = "Connected", ~handshake_complete
             PROVE  HelloUnderWay
  BY DEF TrustIsMutual
<1> DEFINE p == incoming \o endpoint
           back == (output \o endpoint) \o incoming
<1>1. /\ incoming \in Seq(Unit) /\ endpoint \in Seq(Unit) /\ output \in Seq(Unit)
      /\ peer_inbound.line \in Seq(Unit)
  BY DEF LinkTyped, IInv, TypeOK, PeerInv, PeerTypeOK, Assembler
<1>2. GoesOn(peer_inbound.line, OnItsWay) /\ BeginsWithHello(peer_inbound.line, OnItsWay)
  BY DEF Heard, HeardNow, InStep, Open
<1>3. OnItsWay # <<>> /\ OnItsWay[1].of.verb = "HELLO"
  <2>1. CASE peer_inbound.line = <<>>
    BY <1>2, <2>1 DEF BeginsWithHello
  <2>2. CASE peer_inbound.line # <<>>
    <3>1. OnItsWay # <<>>
          /\ OnItsWay[1] = [of |-> peer_inbound.line[1].of, at |-> Len(peer_inbound.line) + 1]
      BY <1>2, <2>2 DEF GoesOn
    <3>2. OnItsWay[1].of = peer_inbound.line[1].of
      BY <3>1
    <3> QED
      BY <1>2, <2>2, <3>1, <3>2 DEF BeginsWithHello
  <2> QED
    BY <2>1, <2>2
<1>4. /\ Len(incoming) \in Nat /\ Len(endpoint) \in Nat /\ Len(output) \in Nat
      /\ output \o endpoint \in Seq(Unit) /\ Len(output \o endpoint) = Len(output) + Len(endpoint)
      /\ \A i \in 1 .. Len(output) + Len(endpoint) :
           (output \o endpoint)[i] = IF i <= Len(output) THEN output[i] ELSE endpoint[i - Len(output)]
  BY <1>1, ConcatProperties, LenProperties
<1>5. /\ back \in Seq(Unit) /\ Len(back) = Len(output \o endpoint) + Len(incoming)
      /\ \A i \in 1 .. Len(output \o endpoint) + Len(incoming) :
           back[i] = IF i <= Len(output \o endpoint) THEN (output \o endpoint)[i]
                     ELSE incoming[i - Len(output \o endpoint)]
      /\ DOMAIN back = 1 .. Len(back)
  BY <1>1, <1>4, ConcatProperties, LenProperties
<1> HIDE DEF back
<1>6. \E i \in DOMAIN back : back[i] = OnItsWay[1]
  <2>1. CASE incoming # <<>>
    <3>1. p # <<>> /\ p \in Seq(Unit) /\ p[1] = incoming[1]
      BY <1>1, <2>1, FirstOfAJoin
    <3>2. OnItsWay[1] = incoming[1]
      BY <1>1, <3>1, FirstOfAJoin DEF OnItsWay
    <3> DEFINE i == Len(output \o endpoint) + 1
    <3>3. Len(incoming) # 0
      BY <1>1, <2>1, EmptySeq
    <3>4. i \in DOMAIN back /\ i \in 1 .. Len(output \o endpoint) + Len(incoming)
          /\ ~(i <= Len(output \o endpoint)) /\ i - Len(output \o endpoint) = 1
      BY <1>4, <1>5, <3>3
    <3>5. back[i] = incoming[1]
      BY <1>5, <3>4
    <3> QED
      BY <3>2, <3>4, <3>5
  <2>2. CASE incoming = <<>> /\ endpoint # <<>>
    <3>1. p = endpoint
      BY <1>1, <2>2, FirstOfAJoin
    <3>2. OnItsWay[1] = endpoint[1]
      BY <1>1, <2>2, <3>1, FirstOfAJoin DEF OnItsWay
    <3> DEFINE i == Len(output) + 1
    <3>3. Len(endpoint) # 0
      BY <1>1, <2>2, EmptySeq
    <3>4. i \in DOMAIN back /\ i \in 1 .. Len(output \o endpoint) + Len(incoming)
          /\ i <= Len(output \o endpoint) /\ ~(i <= Len(output)) /\ i - Len(output) = 1
          /\ i \in 1 .. Len(output) + Len(endpoint)
      BY <1>4, <1>5, <3>3
    <3>5. back[i] = endpoint[1]
      BY <1>4, <1>5, <3>4
    <3> QED
      BY <3>2, <3>4, <3>5
  <2>3. CASE incoming = <<>> /\ endpoint = <<>>
    <3>1. p = <<>> /\ OnItsWay = output
      BY <1>1, <2>3, FirstOfAJoin DEF OnItsWay
    <3>2. Len(output) # 0
      BY <1>1, <1>3, <3>1, EmptySeq
    <3>3. 1 \in DOMAIN back /\ 1 \in 1 .. Len(output \o endpoint) + Len(incoming)
          /\ 1 <= Len(output \o endpoint) /\ 1 <= Len(output)
          /\ 1 \in 1 .. Len(output) + Len(endpoint)
      BY <1>4, <1>5, <3>2
    <3>4. back[1] = output[1]
      BY <1>4, <1>5, <3>3
    <3> QED
      BY <3>1, <3>3, <3>4
  <2> QED
    BY <2>1, <2>2, <2>3
<1> QED
  BY <1>3, <1>6 DEF HelloUnderWay, back

(***************************************************************************)
(* Whatever is pressed, shown, closed, pulled and restarted: a link that   *)
(* the device takes for accepted while the appliance waits for a HELLO has *)
(* one on its way.  For every length of message, packet and buffer, as     *)
(* long as the appliance rejects no version and no packet of the last      *)
(* connection is left in the endpoint for this one.                        *)
(***************************************************************************)
THEOREM NeitherWaitsForTheOther ==
  ASSUME ~PacketSurvivesClose, \A b \in Behaviours : ~b.reject_every_version
  PROVE  LinkSpec => []TrustIsMutual
<1>1. LinkInit => LinkTyped /\ AtRest /\ Heard
  BY TypesBegin, RestBegins DEF LinkInit, Init, Heard
<1>2. LinkTyped /\ AtRest /\ Heard /\ [LinkNext]_linkVars => (LinkTyped /\ AtRest /\ Heard)'
  BY TypesStep, RestStep, HeardStep
<1> QED
  BY <1>1, <1>2, HelloIsUnderWay, PTL DEF LinkSpec

-----------------------------------------------------------------------------
(* A press acts on its own connection only.                                *)

(* The presses that are not old: none before the device sees a connection. *)
Current == IF link_state = "LinkDown" THEN {} ELSE {epoch}

(* The line feed of a HELLO, and that of an old press.                     *)
HelloEnds(u) == u.of.verb = "HELLO" /\ EndsLine(u)

OldPressEnds(u, current) ==
  u.of.verb = "BUTTON" /\ u.of.press \notin current /\ EndsLine(u)

(* Sequences without one or the other, and those where no old press ends   *)
(* behind a HELLO: a reader of these refuses the press.                    *)
NoHello(units) == \A i \in DOMAIN units : ~HelloEnds(units[i])

NoOldPress(units, current) == \A i \in DOMAIN units : ~OldPressEnds(units[i], current)

Harmless(units, current) ==
  \A i \in DOMAIN units : \A j \in 1 .. i - 1 :
    ~(HelloEnds(units[j]) /\ OldPressEnds(units[i], current))

(* A HELLO in the output begins at its front; a press behind it is whole.  *)
HelloLeads(units) ==
  \A i \in DOMAIN units :
    /\ units[i].of.verb = "HELLO" => units[i].at = i /\ i <= MessageUnits["HELLO"]
    /\ units[i].of.verb = "BUTTON" =>
         \A j \in 1 .. i - 1 : HelloEnds(units[j]) => i >= j + units[i].at

(* What keeps the old presses apart from the HELLO of this connection.     *)
Apart ==
  /\ link_state = "LinkDown" => output = <<>>
  /\ ~Open => incoming = <<>>
  /\ port # "serving" => ~handshake_complete
  /\ HelloLeads(output)
  /\ Harmless(endpoint, {})
  /\ Open => Harmless(OnItsWay, Current)
  /\ Open /\ handshake_complete => NoOldPress(OnItsWay, Current)

(* Of two sequences joined, either may spoil the other.                    *)
LEMMA JoinIsHarmless ==
  \A p, q \in Seq(Unit) : \A current :
    /\ NoHello(p \o q) <=> NoHello(p) /\ NoHello(q)
    /\ NoOldPress(p \o q, current) <=> NoOldPress(p, current) /\ NoOldPress(q, current)
    /\ Harmless(p \o q, current) <=>
         /\ Harmless(p, current) /\ Harmless(q, current)
         /\ NoHello(p) \/ NoOldPress(q, current)
<1> SUFFICES ASSUME NEW p \in Seq(Unit), NEW q \in Seq(Unit), NEW current
             PROVE  /\ NoHello(p \o q) <=> NoHello(p) /\ NoHello(q)
                    /\ NoOldPress(p \o q, current) <=>
                         NoOldPress(p, current) /\ NoOldPress(q, current)
                    /\ Harmless(p \o q, current) <=>
                         /\ Harmless(p, current) /\ Harmless(q, current)
                         /\ NoHello(p) \/ NoOldPress(q, current)
  OBVIOUS
<1> DEFINE s == p \o q
           l == Len(p)
           k == Len(q)
<1>1. /\ s \in Seq(Unit) /\ Len(s) = l + k /\ l \in Nat /\ k \in Nat
      /\ \A i \in 1 .. l + k : s[i] = IF i <= l THEN p[i] ELSE q[i - l]
      /\ DOMAIN p = 1 .. l /\ DOMAIN q = 1 .. k
  BY ConcatProperties, LenProperties
<1>2. DOMAIN s = 1 .. l + k
  BY <1>1, LenProperties
<1> HIDE DEF s, l, k
<1>3. \A i \in 1 .. l : i \in 1 .. l + k /\ s[i] = p[i]
  BY <1>1
<1>4. \A i \in 1 .. k : l + i \in 1 .. l + k /\ s[l + i] = q[i]
  <2> SUFFICES ASSUME NEW i \in 1 .. k PROVE l + i \in 1 .. l + k /\ s[l + i] = q[i]
    OBVIOUS
  <2>1. l + i \in 1 .. l + k /\ ~(l + i <= l) /\ (l + i) - l = i
    BY <1>1
  <2> QED
    BY <1>1, <2>1
<1>5. \A i \in 1 .. l + k : i \in 1 .. l \/ \E n \in 1 .. k : i = l + n
  <2> SUFFICES ASSUME NEW i \in 1 .. l + k, ~(i \in 1 .. l)
               PROVE  \E n \in 1 .. k : i = l + n
    OBVIOUS
  <2>1. i - l \in 1 .. k /\ i = l + (i - l)
    BY <1>1
  <2> QED
    BY <2>1
<1>6. NoHello(s) <=> NoHello(p) /\ NoHello(q)
  <2>1. ASSUME NoHello(s) PROVE NoHello(p) /\ NoHello(q)
    <3>1. ASSUME NEW i \in 1 .. l PROVE ~HelloEnds(p[i])
      BY <1>2, <1>3, <2>1 DEF NoHello
    <3>2. ASSUME NEW i \in 1 .. k PROVE ~HelloEnds(q[i])
      BY <1>2, <1>4, <2>1 DEF NoHello
    <3> QED
      BY <1>1, <3>1, <3>2 DEF NoHello
  <2>2. ASSUME NoHello(p), NoHello(q) PROVE NoHello(s)
    <3>1. ASSUME NEW i \in 1 .. l + k PROVE ~HelloEnds(s[i])
      <4>1. CASE i \in 1 .. l
        BY <1>1, <1>3, <2>2, <4>1 DEF NoHello
      <4>2. CASE ~(i \in 1 .. l)
        <5>1. PICK n \in 1 .. k : i = l + n
          BY <1>5, <4>2
        <5> QED
          BY <1>1, <1>4, <2>2, <5>1 DEF NoHello
      <4> QED
        BY <4>1, <4>2
    <3> QED
      BY <1>2, <3>1 DEF NoHello
  <2> QED
    BY <2>1, <2>2
<1>7. NoOldPress(s, current) <=> NoOldPress(p, current) /\ NoOldPress(q, current)
  <2>1. ASSUME NoOldPress(s, current) PROVE NoOldPress(p, current) /\ NoOldPress(q, current)
    <3>1. ASSUME NEW i \in 1 .. l PROVE ~OldPressEnds(p[i], current)
      BY <1>2, <1>3, <2>1 DEF NoOldPress
    <3>2. ASSUME NEW i \in 1 .. k PROVE ~OldPressEnds(q[i], current)
      BY <1>2, <1>4, <2>1 DEF NoOldPress
    <3> QED
      BY <1>1, <3>1, <3>2 DEF NoOldPress
  <2>2. ASSUME NoOldPress(p, current), NoOldPress(q, current) PROVE NoOldPress(s, current)
    <3>1. ASSUME NEW i \in 1 .. l + k PROVE ~OldPressEnds(s[i], current)
      <4>1. CASE i \in 1 .. l
        BY <1>1, <1>3, <2>2, <4>1 DEF NoOldPress
      <4>2. CASE ~(i \in 1 .. l)
        <5>1. PICK n \in 1 .. k : i = l + n
          BY <1>5, <4>2
        <5> QED
          BY <1>1, <1>4, <2>2, <5>1 DEF NoOldPress
      <4> QED
        BY <4>1, <4>2
    <3> QED
      BY <1>2, <3>1 DEF NoOldPress
  <2> QED
    BY <2>1, <2>2
<1>8. ASSUME Harmless(s, current)
      PROVE  Harmless(p, current) /\ Harmless(q, current)
  <2>1. Harmless(p, current)
    BY <1>1, <1>2, <1>3, <1>8 DEF Harmless
  <2>2. ASSUME NEW i \in 1 .. k, NEW j \in 1 .. i - 1
        PROVE  ~(HelloEnds(q[j]) /\ OldPressEnds(q[i], current))
    <3>1. j \in 1 .. k /\ l + i \in DOMAIN s /\ l + j \in 1 .. (l + i) - 1
      BY <1>1, <1>2
    <3>2. ~(HelloEnds(s[l + j]) /\ OldPressEnds(s[l + i], current))
      BY <1>8, <3>1 DEF Harmless
    <3> QED
      BY <1>4, <3>1, <3>2
  <2> QED
    BY <1>1, <2>1, <2>2 DEF Harmless
<1>9. ASSUME Harmless(s, current), ~NoHello(p)
      PROVE  NoOldPress(q, current)
  <2>1. PICK j \in 1 .. l : HelloEnds(p[j])
    BY <1>1, <1>9 DEF NoHello
  <2>2. ASSUME NEW i \in 1 .. k PROVE ~OldPressEnds(q[i], current)
    <3>1. l + i \in DOMAIN s /\ j \in 1 .. (l + i) - 1
      BY <1>1, <1>2
    <3>2. ~(HelloEnds(s[j]) /\ OldPressEnds(s[l + i], current))
      BY <1>9, <3>1 DEF Harmless
    <3> QED
      BY <1>3, <1>4, <2>1, <3>2
  <2> QED
    BY <1>1, <2>2 DEF NoOldPress
<1>10. ASSUME Harmless(p, current), Harmless(q, current), NoHello(p) \/ NoOldPress(q, current)
       PROVE  Harmless(s, current)
  <2>1. ASSUME NEW i \in 1 .. l + k, NEW j \in 1 .. i - 1
        PROVE  ~(HelloEnds(s[j]) /\ OldPressEnds(s[i], current))
    <3>1. CASE i \in 1 .. l
      <4>1. j \in 1 .. l
        BY <1>1, <3>1
      <4> QED
        BY <1>1, <1>3, <1>10, <3>1, <4>1 DEF Harmless
    <3>2. CASE ~(i \in 1 .. l)
      <4>1. PICK n \in 1 .. k : i = l + n
        BY <1>5, <3>2
      <4>2. s[i] = q[n]
        BY <1>4, <4>1
      <4>3. CASE j \in 1 .. l
        BY <1>1, <1>3, <1>10, <4>2, <4>3 DEF NoHello, NoOldPress
      <4>4. CASE ~(j \in 1 .. l)
        <5>1. j \in 1 .. l + k
          BY <1>1
        <5>2. PICK h \in 1 .. k : j = l + h
          BY <1>5, <4>4, <5>1
        <5>3. s[j] = q[h] /\ h \in 1 .. n - 1
          BY <1>1, <1>4, <4>1, <5>2
        <5> QED
          BY <1>1, <1>10, <4>2, <5>3 DEF Harmless
      <4> QED
        BY <4>3, <4>4
    <3> QED
      BY <3>1, <3>2
  <2> QED
    BY <1>2, <2>1 DEF Harmless
<1> QED
  BY <1>6, <1>7, <1>8, <1>9, <1>10 DEF s

(* More of the presses are current: less is old.                           *)
LEMMA PressesAreNoOlder ==
  ASSUME NEW units, NEW old, NEW new, old \subseteq new
  PROVE  /\ NoOldPress(units, old) => NoOldPress(units, new)
         /\ Harmless(units, old) => Harmless(units, new)
BY DEF NoOldPress, Harmless, OldPressEnds

(* An empty buffer.                                                        *)
LEMMA NothingIsHarmless ==
  \A current : NoHello(<<>>) /\ NoOldPress(<<>>, current) /\ Harmless(<<>>, current)
BY DEF NoHello, NoOldPress, Harmless

(* A message of its own.                                                   *)
LEMMA MessagesAreHarmless ==
  ASSUME NEW m \in Message, NEW current,
         m.verb = "BUTTON" => m.press \in current
  PROVE  NoOldPress(Units(m), current) /\ Harmless(Units(m), current)
<1>1. \A i \in DOMAIN Units(m) : Units(m)[i].of = m
  BY DEF Units
<1>2. NoOldPress(Units(m), current)
  BY <1>1 DEF NoOldPress, OldPressEnds
<1> QED
  BY <1>2 DEF NoOldPress, Harmless

(* Places in a sequence.                                                   *)
LEMMA Below ==
  \A n \in Nat :
    /\ \A i \in 1 .. n : \A j \in 1 .. i - 1 : i \in Nat /\ i <= n /\ j \in 1 .. n
    /\ \A t \in 0 .. n : n - t \in Nat
OBVIOUS

(* A HELLO stands first in the output it is put in.                        *)
LEMMA HelloLeadsItself ==
  ASSUME NEW locked \in BOOLEAN
  PROVE  HelloLeads(Units(Hello(locked)))
<1> DEFINE m == Hello(locked)
<1>1. m \in Message /\ m.verb = "HELLO"
  BY HelloUnits
<1> HIDE DEF m
<1>2. /\ Len(Units(m)) = MessageUnits[m.verb]
      /\ \A i \in 1 .. MessageUnits[m.verb] : Units(m)[i] = [of |-> m, at |-> i]
      /\ DOMAIN Units(m) = 1 .. MessageUnits[m.verb] /\ MessageUnits[m.verb] \in Nat
  BY <1>1, UnitsFacts DEF Units
<1>3. ASSUME NEW i \in DOMAIN Units(m)
      PROVE  Units(m)[i].of = m /\ Units(m)[i].at = i /\ i <= MessageUnits["HELLO"]
  <2>1. Units(m)[i] = [of |-> m, at |-> i]
    BY <1>2
  <2> QED
    BY <1>1, <1>2, <2>1
<1>4. \A i \in DOMAIN Units(m) : Units(m)[i].of.verb = "HELLO"
  BY <1>1, <1>3
<1>5. HelloLeads(Units(m))
  BY <1>3, <1>4 DEF HelloLeads
<1> QED
  BY <1>5 DEF m

(* A press is put behind it.                                               *)
LEMMA PressIsPutBehind ==
  ASSUME NEW units \in Seq(Unit), HelloLeads(units), NEW press \in Press
  PROVE  HelloLeads(units \o Units(Button(press)))
<1> DEFINE m == Button(press)
           q == Units(m)
           l == Len(units)
           k == Len(q)
           s == units \o q
<1>1. m \in Message /\ m.verb = "BUTTON"
  BY SessionMessages DEF Button
<1> HIDE DEF m
<1>2. q \in Seq(Unit) /\ \A i \in 1 .. k : q[i] = [of |-> m, at |-> i]
  BY <1>1, UnitsFacts
<1> HIDE DEF q, k
<1>3. ASSUME NEW i \in 1 .. k PROVE q[i].of = m /\ q[i].at = i
  <2>1. q[i] = [of |-> m, at |-> i]
    BY <1>2
  <2> QED
    BY <2>1
<1>4. /\ s \in Seq(Unit) /\ Len(s) = l + k /\ l \in Nat /\ k \in Nat
      /\ \A i \in 1 .. l + k : s[i] = IF i <= l THEN units[i] ELSE q[i - l]
      /\ DOMAIN units = 1 .. l
  BY <1>2, ConcatProperties, LenProperties DEF k
<1>5. DOMAIN s = 1 .. l + k
  BY <1>4, LenProperties
<1> HIDE DEF s, l
<1>6. ASSUME NEW i \in 1 .. l + k, ~(i <= l)
      PROVE  s[i].of.verb = "BUTTON" /\ s[i].at = i - l
  <2>1. i - l \in 1 .. k /\ s[i] = q[i - l]
    BY <1>4, <1>6
  <2> QED
    BY <1>1, <1>3, <2>1
<1>7. ASSUME NEW i \in DOMAIN s, s[i].of.verb = "HELLO"
      PROVE  s[i].at = i /\ i <= MessageUnits["HELLO"]
  <2>1. i \in 1 .. l + k
    BY <1>5
  <2>2. i <= l
    BY <1>6, <1>7, <2>1
  <2>3. i \in 1 .. l /\ s[i] = units[i]
    BY <1>4, <2>1, <2>2
  <2> QED
    BY <1>4, <1>7, <2>3 DEF HelloLeads
<1>8. ASSUME NEW i \in DOMAIN s, s[i].of.verb = "BUTTON", NEW j \in 1 .. i - 1, HelloEnds(s[j])
      PROVE  i >= j + s[i].at
  <2>1. i \in 1 .. l + k /\ j \in 1 .. l + k
    BY <1>4, <1>5
  <2>2. j <= l
    BY <1>6, <1>8, <2>1 DEF HelloEnds
  <2>3. j \in 1 .. l /\ s[j] = units[j]
    BY <1>4, <2>1, <2>2
  <2>4. CASE i <= l
    <3>1. i \in 1 .. l /\ s[i] = units[i]
      BY <1>4, <2>1, <2>4
    <3> QED
      BY <1>4, <1>8, <2>3, <3>1 DEF HelloLeads
  <2>5. CASE ~(i <= l)
    <3>1. s[i].at = i - l
      BY <1>6, <2>1, <2>5
    <3> QED
      BY <1>4, <2>1, <2>2, <3>1
  <2> QED
    BY <2>4, <2>5
<1>9. HelloLeads(s)
  BY <1>7, <1>8 DEF HelloLeads
<1> QED
  BY <1>9 DEF s, q, m

(* A packet takes the HELLO out of the output whole, and leaves behind what*)
(* was pressed since unless the two fit in it together.                    *)
LEMMA PacketIsHarmless ==
  ASSUME MessageUnits["HELLO"] + MessageUnits["BUTTON"] > PacketUnits,
         NEW s \in Seq(Unit), HelloLeads(s), NEW t \in 0 .. Len(s), t <= PacketUnits,
         t = PacketUnits \/ t = Len(s)
  PROVE  /\ Harmless(SubSeq(s, 1, t), {})
         /\ HelloLeads(SubSeq(s, t + 1, Len(s)))
<1> DEFINE packet == SubSeq(s, 1, t)
           rest   == SubSeq(s, t + 1, Len(s))
<1>1. /\ Len(s) \in Nat /\ t \in Nat /\ PacketUnits \in Nat
      /\ MessageUnits["HELLO"] \in Nat /\ MessageUnits["BUTTON"] \in Nat
      /\ MessageUnits["HELLO"] <= PacketUnits
      /\ DOMAIN s = 1 .. Len(s)
  BY LenProperties, SessionAssumption, WireAssumption, HelloFitsPacket DEF Verb
<1>2. /\ DOMAIN packet = 1 .. t /\ \A i \in 1 .. t : packet[i] = s[i] /\ i \in DOMAIN s
  BY <1>1
<1>3. /\ DOMAIN rest = 1 .. Len(s) - t
      /\ \A i \in 1 .. Len(s) - t : rest[i] = s[t + i] /\ t + i \in DOMAIN s
  <2> DEFINE l == Len(s)
  <2>1. l \in Nat /\ t \in 0 .. l
    BY <1>1
  <2> HIDE DEF l
  <2>2. DOMAIN SubSeq(s, t + 1, l) = 1 .. l - t
    BY <2>1
  <2>3. ASSUME NEW i \in 1 .. l - t
        PROVE  SubSeq(s, t + 1, l)[i] = s[t + i] /\ t + i \in 1 .. l
    <3>1. SubSeq(s, t + 1, l)[i] = s[(t + 1) + i - 1] /\ (t + 1) + i - 1 = t + i
      BY <2>1
    <3> QED
      BY <2>1, <3>1
  <2> QED
    BY <1>1, <2>2, <2>3 DEF l
<1> HIDE DEF packet, rest
<1>4. ASSUME NEW i \in DOMAIN packet, NEW j \in 1 .. i - 1,
             HelloEnds(packet[j]), OldPressEnds(packet[i], {})
      PROVE  FALSE
  <2>1. /\ i \in 1 .. t /\ j \in 1 .. t /\ i \in DOMAIN s /\ j \in DOMAIN s
        /\ packet[i] = s[i] /\ packet[j] = s[j]
    <3>1. i \in 1 .. t /\ j \in 1 .. t
      <4>1. i \in 1 .. t /\ t \in Nat
        BY <1>1, <1>2
      <4> QED
        BY <1>4, <4>1, Below
    <3> QED
      BY <1>2, <3>1
  <2>2. s[j].of.verb = "HELLO" /\ s[j].at = MessageUnits["HELLO"] /\ HelloEnds(s[j])
    BY <1>4, <2>1 DEF HelloEnds, EndsLine
  <2>3. j = MessageUnits["HELLO"]
    BY <2>1, <2>2 DEF HelloLeads
  <2>4. s[i].of.verb = "BUTTON" /\ s[i].at = MessageUnits["BUTTON"]
    BY <1>4, <2>1 DEF OldPressEnds, EndsLine
  <2>5. i >= j + MessageUnits["BUTTON"]
    BY <1>4, <2>1, <2>2, <2>4 DEF HelloLeads
  <2>6. i \in Nat /\ i <= PacketUnits
    <3>1. t \in Nat /\ PacketUnits \in Nat /\ i \in 1 .. t
      BY <1>1, <2>1
    <3> QED
      BY <3>1
  <2>7. /\ MessageUnits["HELLO"] \in Nat /\ MessageUnits["BUTTON"] \in Nat /\ PacketUnits \in Nat
        /\ i >= MessageUnits["HELLO"] + MessageUnits["BUTTON"]
    BY <1>1, <2>3, <2>5
  <2> QED
    BY <2>6, <2>7
<1>5. ASSUME NEW i \in DOMAIN rest PROVE rest[i].of.verb # "HELLO"
  <2>1. i \in 1 .. Len(s) - t /\ rest[i] = s[t + i] /\ t + i \in DOMAIN s /\ t = PacketUnits
    BY <1>1, <1>3
  <2>2. t + i > MessageUnits["HELLO"]
    BY <1>1, <2>1
  <2> QED
    BY <1>1, <2>1, <2>2 DEF HelloLeads
<1>6. \A i \in DOMAIN rest : \A j \in 1 .. i - 1 : ~HelloEnds(rest[j])
  <2> SUFFICES ASSUME NEW i \in DOMAIN rest, NEW j \in 1 .. i - 1 PROVE ~HelloEnds(rest[j])
    OBVIOUS
  <2>1. j \in DOMAIN rest
    <3>1. i \in 1 .. Len(s) - t /\ Len(s) - t \in Nat
      <4>1. i \in 1 .. Len(s) - t
        BY <1>3
      <4>2. Len(s) - t \in Nat
        BY <1>1, Below
      <4> QED
        BY <4>1, <4>2
    <3> QED
      BY <1>3, <3>1, Below
  <2> QED
    BY <1>5, <2>1 DEF HelloEnds
<1>7. HelloLeads(rest)
  BY <1>5, <1>6 DEF HelloLeads
<1>8. Harmless(packet, {})
  BY <1>4 DEF Harmless
<1> QED
  BY <1>7, <1>8 DEF packet, rest

(* A message is the one whose line feed ended it.                          *)
LEMMA MessageEndsWithUnit ==
  ASSUME NEW assembler \in Assembler, NEW u \in Unit,
         FeedOutcome(assembler, u).kind = "MESSAGE"
  PROVE  EndsLine(u) /\ FeedOutcome(assembler, u).message = u.of
<1> DEFINE line == Append(assembler.line, u)
           n == Len(assembler.line) + 1
           m == line[1].of
<1>1. /\ assembler.line \in Seq(Unit)
      /\ line \in Seq(Unit) /\ Len(line) = n /\ line[n] = u /\ n \in Nat \ {0}
  <2>1. assembler.line \in Seq(Unit)
    BY DEF Assembler
  <2> QED
    BY <2>1, AppendProperties, LenProperties
<1>2. EndsLine(u) /\ LineParses(line)
      /\ FeedOutcome(assembler, u) = [kind |-> "MESSAGE", message |-> m]
  BY DEF FeedOutcome
<1> HIDE DEF line, n
<1>3. line = Units(m)
  BY <1>2 DEF LineParses
<1>4. n \in DOMAIN line
  BY <1>1, LenProperties
<1> HIDE DEF m
<1>5. line[n] = [of |-> m, at |-> n]
  <2>1. n \in DOMAIN Units(m)
    BY <1>3, <1>4
  <2>2. Units(m)[n] = [of |-> m, at |-> n]
    BY <2>1 DEF Units
  <2> QED
    BY <1>3, <2>2
<1>6. u.of = m
  BY <1>1, <1>5
<1>7. FeedOutcome(assembler, u).message = m
  BY <1>2
<1> QED
  BY <1>2, <1>6, <1>7

(* What is read, in the endpoint, and in the output, one before the other. *)
InOrder(a, b, c, current, heard) ==
  /\ Harmless(a, current) /\ Harmless(b, current) /\ Harmless(c, current)
  /\ NoHello(a) \/ NoOldPress(b, current)
  /\ (NoHello(a) /\ NoHello(b)) \/ NoOldPress(c, current)
  /\ heard => NoOldPress(a, current) /\ NoOldPress(b, current) /\ NoOldPress(c, current)

(* The same of one sequence and of the three pieces it is made of.         *)
LEMMA WayInPieces ==
  \A a, b, c \in Seq(Unit) : \A current, heard :
    InOrder(a, b, c, current, heard) <=>
      /\ Harmless((a \o b) \o c, current)
      /\ heard => NoOldPress((a \o b) \o c, current)
<1> SUFFICES ASSUME NEW a \in Seq(Unit), NEW b \in Seq(Unit), NEW c \in Seq(Unit),
                    NEW current, NEW heard
             PROVE  InOrder(a, b, c, current, heard) <=>
                      /\ Harmless((a \o b) \o c, current)
                      /\ heard => NoOldPress((a \o b) \o c, current)
  OBVIOUS
<1> DEFINE p == a \o b
<1>1. p \in Seq(Unit)
  BY ConcatProperties
<1>2. /\ NoHello(p) <=> NoHello(a) /\ NoHello(b)
      /\ NoOldPress(p, current) <=> NoOldPress(a, current) /\ NoOldPress(b, current)
      /\ Harmless(p, current) <=>
           /\ Harmless(a, current) /\ Harmless(b, current)
           /\ NoHello(a) \/ NoOldPress(b, current)
  BY JoinIsHarmless
<1> HIDE DEF p
<1>3. /\ NoOldPress(p \o c, current) <=> NoOldPress(p, current) /\ NoOldPress(c, current)
      /\ Harmless(p \o c, current) <=>
           /\ Harmless(p, current) /\ Harmless(c, current)
           /\ NoHello(p) \/ NoOldPress(c, current)
  BY <1>1, JoinIsHarmless
<1>4. InOrder(a, b, c, current, heard) <=>
        Harmless(p \o c, current) /\ (heard => NoOldPress(p \o c, current))
  BY <1>2, <1>3, Zenon DEF InOrder
<1> QED
  BY <1>4 DEF p

(* The parts of Apart that are about one place each.                       *)
Placed ==
  /\ link_state = "LinkDown" => output = <<>>
  /\ ~Open => incoming = <<>>
  /\ port # "serving" => ~handshake_complete
  /\ HelloLeads(output)
  /\ Harmless(endpoint, {})

(* A step keeps them: a packet never holds a HELLO and a press behind it.  *)
LEMMA PlacedStep ==
  ASSUME MessageUnits["HELLO"] + MessageUnits["BUTTON"] > PacketUnits
  PROVE  LinkTyped /\ Apart /\ [LinkNext]_linkVars => Placed'
<1> SUFFICES ASSUME LinkTyped, Apart, [LinkNext]_linkVars PROVE Placed'
  OBVIOUS
<1>1. Placed /\ screen_locked \in BOOLEAN /\ output \in Seq(Unit)
  BY DEF Apart, Placed, LinkTyped, IInv, TypeOK
<1>2. HelloLeads(<<>>) /\ Harmless(<<>>, {})
  BY NothingIsHarmless DEF HelloLeads
<1>3. ASSUME SendHello PROVE HelloLeads(output')
  BY <1>1, <1>3, HelloIsSaid, HelloLeadsItself
<1>4. CASE DeviceOpens
  <2>1. link_state' # "LinkDown" /\ Open' /\ UNCHANGED <<port, endpoint, handshake_complete>>
        /\ SendHello
    BY <1>4 DEF DeviceOpens, PortOpened, wire, peerVars, Open
  <2>2. HelloLeads(output')
    BY <1>3, <2>1
  <2> QED
    BY <1>1, <2>1, <2>2 DEF Placed
<1>5. CASE DeviceCloses
  BY <1>1, <1>2, <1>5 DEF DeviceCloses, PortClosed, Placed, Open, peerVars
<1>6. CASE DeviceReceives
  <2>1. CASE link_state = "LinkDown"
    BY <1>1, <1>6, <2>1 DEF DeviceReceives, Placed, Open, peerVars, vars
  <2>2. CASE link_state # "LinkDown"
    <3>1. Receive(Head(channel)) /\ UNCHANGED <<peerVars, port, endpoint, incoming>>
      BY <1>6, <2>2 DEF DeviceReceives
    <3>2. link_state' \in {link_state, "Incompatible", "Connected"} /\ UNCHANGED output
      BY <3>1 DEF Receive, HandleDisplay
    <3> QED
      BY <1>1, <2>2, <3>1, <3>2 DEF Placed, Open, peerVars
  <2> QED
    BY <2>1, <2>2
<1>7. CASE DeviceSends
  <2> DEFINE packet == SubSeq(output, 1, Taken(PacketUnits))
  <2>1. TakeOutput(PacketUnits) /\ link_state # "LinkDown" /\ endpoint' \in {packet, endpoint}
        /\ UNCHANGED <<peerVars, port, incoming>>
    BY <1>7 DEF DeviceSends
  <2>2. /\ output' = SubSeq(output, Taken(PacketUnits) + 1, Len(output))
        /\ Taken(PacketUnits) \in 0 .. Len(output) /\ Taken(PacketUnits) <= PacketUnits
        /\ Taken(PacketUnits) = PacketUnits \/ Taken(PacketUnits) = Len(output)
        /\ UNCHANGED link_state
    BY <2>1, PacketIsCut DEF LinkTyped
  <2>3. Harmless(packet, {}) /\ HelloLeads(output')
    BY <1>1, <2>2, PacketIsHarmless DEF Placed
  <2> HIDE DEF packet
  <2> QED
    BY <1>1, <2>1, <2>2, <2>3 DEF Placed, Open, peerVars
<1>8. CASE DeviceTicks
  <2>1. /\ UNCHANGED <<peerVars, wire, link_state>>
        /\ \/ UNCHANGED output
           \/ link_state # "LinkDown" /\ SendHello
    BY <1>8 DEF DeviceTicks, TimePasses, Tick
  <2>2. HelloLeads(output')
    BY <1>1, <1>3, <2>1 DEF Placed
  <2> QED
    BY <1>1, <2>1, <2>2 DEF Placed, Open, peerVars, wire
<1>9. CASE DevicePresses
  <2>1. /\ UNCHANGED <<peerVars, wire, link_state>>
        /\ \/ UNCHANGED output
           \/ link_state = "Connected" /\ output' = output \o Units(Button(epoch))
    BY <1>9 DEF DevicePresses, ReportEvent, QueueMessage
  <2>2. HelloLeads(output')
    BY <1>1, <2>1, PressIsPutBehind DEF Placed, LinkTyped
  <2> QED
    BY <1>1, <2>1, <2>2 DEF Placed, Open, peerVars, wire
<1>10. CASE HostFetches
  BY <1>1, <1>2, <1>10 DEF HostFetches, Placed, Open, peerVars, device, vars
<1>11. CASE ShellOpens
  <2>1. endpoint' \in {endpoint, <<>>} /\ Open' /\ ~Open
        /\ UNCHANGED <<device, peerVars>>
    BY <1>11 DEF ShellOpens, Open
  <2>2. ~handshake_complete
    BY <1>1, <2>1 DEF Placed, Open
  <2> QED
    BY <1>1, <1>2, <2>1, <2>2 DEF Placed, peerVars, device, vars
<1>12. CASE ProbeReads
  <2>1. port = "probing" /\ Open' /\ UNCHANGED <<device, peerVars, endpoint>>
    BY <1>12 DEF ProbeReads, Open
  <2> QED
    BY <1>1, <2>1 DEF Placed, peerVars, device, vars
<1>13. CASE ProbeFails
  BY <1>1, <1>13 DEF ProbeFails, NodeCloses, Placed, Open, peerVars, device, vars
<1>14. CASE ShellRestarts
  BY <1>1, <1>14 DEF ShellRestarts, NodeCloses, Placed, Open, device, vars
<1>15. CASE CablePulled
  BY <1>1, <1>15 DEF CablePulled, LinkDropped, Placed, Open, device, vars
<1>16. CASE PeerWrites
  BY <1>1, <1>16 DEF PeerWrites, TakeAllOutput, Placed, Open, device, vars
<1>17. CASE PeerReads
  <2>1. port = "serving" /\ Open' /\ UNCHANGED <<device, port, endpoint>>
    BY <1>17 DEF PeerReads, Open
  <2> QED
    BY <1>1, <2>1 DEF Placed, device, vars
<1>18. CASE PeerIsTold
  <2>1. UNCHANGED <<handshake_complete, device, wire>>
    BY <1>18 DEF PeerIsTold, SetDisplay
  <2> QED
    BY <1>1, <2>1 DEF Placed, Open, device, vars, wire
<1>19. CASE UNCHANGED linkVars
  BY <1>1, <1>19 DEF linkVars, Placed, Open, peerVars, vars
<1> QED
  BY <1>4, <1>5, <1>6, <1>7, <1>8, <1>9, <1>10, <1>11, <1>12, <1>13, <1>14, <1>15, <1>16,
     <1>17, <1>18, <1>19
  DEF LinkNext, DeviceStep, HostStep

(* What is left when the first unit is read.                               *)
LEMMA FirstIsRead ==
  ASSUME NEW units \in Seq(Unit), units # <<>>, NEW current
  PROVE  /\ NoHello(units) => NoHello(Tail(units)) /\ ~HelloEnds(Head(units))
         /\ NoOldPress(units, current) =>
              NoOldPress(Tail(units), current) /\ ~OldPressEnds(Head(units), current)
         /\ Harmless(units, current) =>
              /\ Harmless(Tail(units), current)
              /\ HelloEnds(Head(units)) => NoOldPress(Tail(units), current)
<1> DEFINE u == Head(units)
           p == <<Head(units)>>
           q == Tail(units)
<1>1. u \in Unit /\ q \in Seq(Unit) /\ units = p \o q
  BY HeadTailProperties
<1>2. p \in Seq(Unit) /\ p[1] = u /\ 1 \in DOMAIN p /\ DOMAIN p = {1}
  BY <1>1
<1> HIDE DEF p, q, u
<1>3. /\ NoHello(p) <=> ~HelloEnds(u)
      /\ NoOldPress(p, current) <=> ~OldPressEnds(u, current)
  BY <1>2 DEF NoHello, NoOldPress
<1>4. /\ NoHello(p \o q) <=> NoHello(p) /\ NoHello(q)
      /\ NoOldPress(p \o q, current) <=> NoOldPress(p, current) /\ NoOldPress(q, current)
      /\ Harmless(p \o q, current) <=>
           /\ Harmless(p, current) /\ Harmless(q, current)
           /\ NoHello(p) \/ NoOldPress(q, current)
  BY <1>1, <1>2, JoinIsHarmless
<1> QED
  BY <1>1, <1>3, <1>4 DEF u, q

(* Only a HELLO completes the handshake, and a press is acted on only when *)
(* its line feed is read and the handshake is complete.                    *)
LEMMA ReadingTells ==
  ASSUME LinkTyped, PeerReads
  PROVE  /\ handshake_complete' => handshake_complete \/ HelloEnds(Head(incoming))
         /\ Head(incoming).of.verb = "BUTTON" /\ peer_display' # peer_display =>
              handshake_complete /\ EndsLine(Head(incoming))
<1> DEFINE u == Head(incoming)
           outcome == FeedOutcome(peer_inbound, u)
<1>1. Feed(u) /\ u \in Unit /\ peer_inbound \in Assembler
  BY HeadTailProperties DEF PeerReads, LinkTyped, PeerInv, PeerTypeOK
<1>2. outcome.kind = "MESSAGE" => EndsLine(u) /\ outcome.message = u.of
  BY <1>1, MessageEndsWithUnit
<1> HIDE DEF u, outcome
<1>3. \/ UNCHANGED <<peer_display, handshake_complete>>
      \/ outcome.kind = "MESSAGE" /\ HandleMessage(outcome.message)
  BY <1>1 DEF Feed, outcome
<1>4. CASE UNCHANGED <<peer_display, handshake_complete>>
  BY <1>4
<1>5. CASE EndsLine(u) /\ HandleMessage(u.of)
  <2>1. u.of.verb # "HELLO" => UNCHANGED handshake_complete
    BY <1>5 DEF HandleMessage
  <2>2. u.of.verb = "BUTTON" /\ ~handshake_complete => UNCHANGED peer_display
    BY <1>5 DEF HandleMessage
  <2> QED
    BY <1>5, <2>1, <2>2 DEF HelloEnds, u
<1> QED
  BY <1>2, <1>3, <1>4, <1>5 DEF u

(* Nothing is under way at first.                                          *)
LEMMA ApartBegins == LinkInit => Apart
<1> SUFFICES ASSUME LinkInit PROVE Apart
  OBVIOUS
<1>1. HelloLeads(<<>>) /\ Harmless(<<>>, {})
  BY NothingIsHarmless DEF HelloLeads
<1> QED
  BY <1>1 DEF LinkInit, Init, PeerInit, Apart, Open

(* A step keeps the three in order: a HELLO is put behind the old presses, *)
(* and whatever is lost between the two leaves the rest in its order.      *)
LEMMA OrderStep ==
  ASSUME MessageUnits["HELLO"] + MessageUnits["BUTTON"] > PacketUnits
  PROVE  LinkTyped /\ LinkTyped' /\ Apart /\ Placed' /\ [LinkNext]_linkVars /\ Open' =>
           InOrder(incoming', endpoint', output', Current', handshake_complete')
<1> SUFFICES ASSUME LinkTyped, LinkTyped', Apart, Placed', [LinkNext]_linkVars, Open'
             PROVE  InOrder(incoming', endpoint', output', Current', handshake_complete')
  OBVIOUS
<1>1. /\ incoming \in Seq(Unit) /\ endpoint \in Seq(Unit) /\ output \in Seq(Unit)
      /\ screen_locked \in BOOLEAN /\ epoch \in Press
  BY DEF LinkTyped, IInv, TypeOK
<1>2. Open => InOrder(incoming, endpoint, output, Current, handshake_complete)
  <2> SUFFICES ASSUME Open
               PROVE  InOrder(incoming, endpoint, output, Current, handshake_complete)
    OBVIOUS
  <2>1. Harmless(OnItsWay, Current) /\ (handshake_complete => NoOldPress(OnItsWay, Current))
    BY DEF Apart
  <2> QED
    BY <1>1, <2>1, WayInPieces DEF OnItsWay
<1>3. \A current : NoHello(<<>>) /\ NoOldPress(<<>>, current) /\ Harmless(<<>>, current)
  BY NothingIsHarmless
<1>4. ASSUME SendHello
      PROVE  \A current : NoOldPress(output', current) /\ Harmless(output', current)
  <2>1. output' = Units(Hello(screen_locked))
    BY <1>1, <1>4, HelloIsSaid
  <2>2. Hello(screen_locked) \in Message /\ Hello(screen_locked).verb = "HELLO"
    BY <1>1, HelloUnits
  <2> QED
    BY <2>1, <2>2, MessagesAreHarmless
<1>5. CASE DeviceOpens
  <2>1. /\ Open /\ link_state = "LinkDown" /\ SendHello
        /\ UNCHANGED <<incoming, endpoint, handshake_complete>>
    BY <1>5 DEF DeviceOpens, PortOpened, wire, peerVars
  <2>2. Current \subseteq Current'
    BY <2>1 DEF Current
  <2>3. /\ Harmless(incoming, Current) => Harmless(incoming, Current')
        /\ Harmless(endpoint, Current) => Harmless(endpoint, Current')
        /\ NoOldPress(incoming, Current) => NoOldPress(incoming, Current')
        /\ NoOldPress(endpoint, Current) => NoOldPress(endpoint, Current')
    BY <2>2, PressesAreNoOlder
  <2>4. NoOldPress(output', Current') /\ Harmless(output', Current')
    BY <1>4, <2>1
  <2> QED
    BY <1>2, <2>1, <2>3, <2>4 DEF InOrder
<1>6. CASE DeviceCloses
  BY <1>6 DEF DeviceCloses, Open
<1>7. CASE DeviceReceives
  <2>1. UNCHANGED <<incoming, endpoint, output, handshake_complete, Current, port>>
    <3>1. CASE link_state = "LinkDown"
      BY <1>7, <3>1 DEF DeviceReceives, vars, peerVars, Current
    <3>2. CASE link_state # "LinkDown"
      <4>1. Receive(Head(channel)) /\ UNCHANGED <<peerVars, port, endpoint, incoming, epoch>>
        BY <1>7, <3>2 DEF DeviceReceives
      <4>2. link_state' \in {link_state, "Incompatible", "Connected"} /\ UNCHANGED output
        BY <4>1 DEF Receive, HandleDisplay
      <4> QED
        BY <3>2, <4>1, <4>2 DEF peerVars, Current
    <3> QED
      BY <3>1, <3>2
  <2> QED
    BY <1>2, <2>1 DEF Open
<1>8. CASE DeviceSends
  <2> DEFINE packet == SubSeq(output, 1, Taken(PacketUnits))
  <2>1. /\ packet \in Seq(Unit) /\ output' \in Seq(Unit) /\ packet \o output' = output
        /\ endpoint' \in {packet, endpoint}
        /\ UNCHANGED <<incoming, handshake_complete, Current, port>>
    BY <1>8, PacketIsCut DEF LinkTyped, DeviceSends, peerVars, Current
  <2> HIDE DEF packet
  <2>2. \A current :
          /\ NoOldPress(output, current) <=>
               NoOldPress(packet, current) /\ NoOldPress(output', current)
          /\ Harmless(output, current) <=>
               /\ Harmless(packet, current) /\ Harmless(output', current)
               /\ NoHello(packet) \/ NoOldPress(output', current)
    BY <2>1, JoinIsHarmless
  <2>3. InOrder(incoming, endpoint, output, Current, handshake_complete)
    BY <1>2, <2>1 DEF Open
  <2>4. CASE endpoint' = packet
    BY <2>1, <2>2, <2>3, <2>4 DEF InOrder
  <2>5. CASE endpoint' = endpoint
    BY <2>1, <2>2, <2>3, <2>5 DEF InOrder
  <2> QED
    BY <2>1, <2>4, <2>5
<1>9. CASE DeviceTicks
  <2>1. /\ UNCHANGED <<incoming, endpoint, handshake_complete, Current, port>>
        /\ UNCHANGED output \/ SendHello
    BY <1>9 DEF DeviceTicks, TimePasses, Tick, Current, wire, peerVars
  <2>2. InOrder(incoming, endpoint, output, Current, handshake_complete)
    BY <1>2, <2>1 DEF Open
  <2>3. CASE UNCHANGED output
    BY <2>1, <2>2, <2>3
  <2>4. CASE SendHello
    BY <1>4, <2>1, <2>2, <2>4 DEF InOrder
  <2> QED
    BY <2>1, <2>3, <2>4
<1>10. CASE DevicePresses
  <2> DEFINE m == Button(epoch)
  <2>1. /\ UNCHANGED <<incoming, endpoint, handshake_complete, Current, port>>
        /\ \/ UNCHANGED output
           \/ link_state = "Connected" /\ output' = output \o Units(m)
    BY <1>10 DEF DevicePresses, ReportEvent, QueueMessage, Current, wire, peerVars
  <2>2. InOrder(incoming, endpoint, output, Current, handshake_complete)
    BY <1>2, <2>1 DEF Open
  <2>3. m \in Message /\ m.press = epoch
    BY <1>1, SessionMessages DEF Button
  <2>4. CASE UNCHANGED output
    BY <2>1, <2>2, <2>4
  <2>5. CASE link_state = "Connected" /\ output' = output \o Units(m)
    <3>1. epoch \in Current
      BY <2>5 DEF Current
    <3>2. Units(m) \in Seq(Unit) /\ NoOldPress(Units(m), Current) /\ Harmless(Units(m), Current)
      BY <2>3, <3>1, UnitsFacts, MessagesAreHarmless
    <3> HIDE DEF m
    <3>3. /\ NoOldPress(output', Current) <=> NoOldPress(output, Current)
          /\ Harmless(output', Current) <=> Harmless(output, Current)
      BY <1>1, <2>5, <3>2, JoinIsHarmless
    <3> QED
      BY <2>1, <2>2, <3>3 DEF InOrder
  <2> QED
    BY <2>1, <2>4, <2>5
<1>11. CASE HostFetches
  <2>1. /\ Open /\ incoming' = incoming \o endpoint /\ endpoint' = <<>>
        /\ UNCHANGED <<output, handshake_complete, Current>>
    BY <1>11 DEF HostFetches, device, vars, peerVars, Current
  <2>2. /\ NoHello(incoming') <=> NoHello(incoming) /\ NoHello(endpoint)
        /\ NoOldPress(incoming', Current) <=>
             NoOldPress(incoming, Current) /\ NoOldPress(endpoint, Current)
        /\ Harmless(incoming', Current) <=>
             /\ Harmless(incoming, Current) /\ Harmless(endpoint, Current)
             /\ NoHello(incoming) \/ NoOldPress(endpoint, Current)
    BY <1>1, <2>1, JoinIsHarmless
  <2> QED
    BY <1>2, <1>3, <2>1, <2>2 DEF InOrder
<1>12. CASE ShellOpens
  <2>1. ~Open /\ link_state = "LinkDown" /\ UNCHANGED <<incoming, output, handshake_complete, Current>>
    BY <1>12 DEF ShellOpens, device, vars, peerVars, Current, Open
  <2>2. incoming' = <<>> /\ output' = <<>> /\ ~handshake_complete' /\ Current' = {}
    BY <2>1 DEF Apart, Open, Current
  <2>3. Harmless(endpoint', {})
    BY DEF Placed
  <2> QED
    BY <1>3, <2>2, <2>3 DEF InOrder
<1>13. CASE ProbeReads
  <2>1. /\ Open /\ incoming' \in {incoming, <<>>}
        /\ UNCHANGED <<endpoint, output, handshake_complete, Current>>
    BY <1>13 DEF ProbeReads, device, vars, peerVars, Current, Open
  <2> QED
    BY <1>2, <1>3, <2>1 DEF InOrder
<1>14. CASE ProbeFails \/ ShellRestarts \/ CablePulled
  BY <1>14 DEF ProbeFails, ShellRestarts, NodeCloses, CablePulled, Open
<1>15. CASE PeerWrites
  <2>1. Open /\ UNCHANGED <<incoming, endpoint, output, handshake_complete, Current>>
    BY <1>15 DEF PeerWrites, TakeAllOutput, device, vars, Current, Open
  <2> QED
    BY <1>2, <2>1
<1>16. CASE PeerReads
  <2>1. /\ Open /\ incoming # <<>> /\ incoming' = Tail(incoming)
        /\ UNCHANGED <<endpoint, output, Current>>
    BY <1>16 DEF PeerReads, device, vars, Current, Open
  <2>2. handshake_complete' => handshake_complete \/ HelloEnds(Head(incoming))
    BY <1>16, ReadingTells
  <2>3. InOrder(incoming, endpoint, output, Current, handshake_complete)
    BY <1>2, <2>1
  <2>4. /\ NoHello(incoming) => NoHello(incoming') /\ ~HelloEnds(Head(incoming))
        /\ NoOldPress(incoming, Current) => NoOldPress(incoming', Current)
        /\ Harmless(incoming, Current) =>
             /\ Harmless(incoming', Current)
             /\ HelloEnds(Head(incoming)) => NoOldPress(incoming', Current)
    BY <1>1, <2>1, FirstIsRead
  <2> QED
    BY <2>1, <2>2, <2>3, <2>4 DEF InOrder
<1>17. CASE PeerIsTold
  <2>1. Open /\ UNCHANGED <<incoming, endpoint, output, handshake_complete, Current>>
    BY <1>17 DEF PeerIsTold, SetDisplay, device, vars, wire, Current, Open
  <2> QED
    BY <1>2, <2>1
<1>18. CASE UNCHANGED linkVars
  BY <1>2, <1>18 DEF linkVars, Open, Current, vars, peerVars
<1> QED
  BY <1>5, <1>6, <1>7, <1>8, <1>9, <1>10, <1>11, <1>12, <1>13, <1>14, <1>15, <1>16, <1>17, <1>18
  DEF LinkNext, DeviceStep, HostStep

(* Every step of the link keeps old presses apart from a new HELLO.        *)
LEMMA ApartStep ==
  ASSUME MessageUnits["HELLO"] + MessageUnits["BUTTON"] > PacketUnits
  PROVE  LinkTyped /\ LinkTyped' /\ Apart /\ [LinkNext]_linkVars => Apart'
<1> SUFFICES ASSUME LinkTyped, LinkTyped', Apart, [LinkNext]_linkVars PROVE Apart'
  OBVIOUS
<1>1. Placed'
  BY PlacedStep
<1>2. ASSUME Open'
      PROVE  Harmless(OnItsWay', Current')
             /\ (handshake_complete' => NoOldPress(OnItsWay', Current'))
  <2>1. InOrder(incoming', endpoint', output', Current', handshake_complete')
    BY <1>1, <1>2, OrderStep
  <2>2. incoming' \in Seq(Unit) /\ endpoint' \in Seq(Unit) /\ output' \in Seq(Unit)
    BY DEF LinkTyped, IInv, TypeOK
  <2> QED
    BY <2>1, <2>2, WayInPieces DEF OnItsWay
<1> QED
  BY <1>1, <1>2 DEF Apart, Placed

(* A press read is acted on only if it was made on this connection.        *)
LEMMA ActsOnItsOwn ==
  LinkTyped /\ Apart /\ [LinkNext]_linkVars =>
    (Open' /\ incoming # <<>> /\ incoming' = Tail(incoming)
       /\ Head(incoming).of.verb = "BUTTON" /\ peer_display' # peer_display
       => Head(incoming).of.press = epoch)
<1> SUFFICES ASSUME LinkTyped, Apart, [LinkNext]_linkVars,
                    Open', incoming # <<>>, incoming' = Tail(incoming),
                    Head(incoming).of.verb = "BUTTON", peer_display' # peer_display
             PROVE  Head(incoming).of.press = epoch
  OBVIOUS
<1>1. incoming \in Seq(Unit) /\ endpoint \in Seq(Unit) /\ output \in Seq(Unit)
  BY DEF LinkTyped, IInv, TypeOK
<1>2. incoming' # incoming
  <2> DEFINE n == Len(incoming)
  <2>1. n \in Nat /\ Len(Tail(incoming)) = n - 1
    BY <1>1, FirstUnits
  <2> HIDE DEF n
  <2>2. n - 1 # n
    BY <2>1
  <2> QED
    BY <2>1, <2>2 DEF n
<1>3. CASE PeerReads
  <2>1. handshake_complete /\ EndsLine(Head(incoming)) /\ Open
    BY <1>3, ReadingTells DEF PeerReads, Open
  <2>2. NoOldPress(OnItsWay, Current)
    BY <2>1 DEF Apart
  <2>3. InOrder(incoming, endpoint, output, Current, TRUE)
    BY <1>1, <2>1, <2>2, WayInPieces DEF Apart, OnItsWay
  <2>4. ~OldPressEnds(Head(incoming), Current)
    BY <1>1, <2>3, FirstIsRead DEF InOrder
  <2>5. Head(incoming).of.press \in Current
    BY <2>1, <2>4 DEF OldPressEnds
  <2> QED
    BY <2>5 DEF Current
<1>4. CASE ShellRestarts
  BY <1>4 DEF ShellRestarts, NodeCloses, Open
<1>5. CASE PeerIsTold \/ UNCHANGED linkVars
  BY <1>2, <1>5 DEF PeerIsTold, wire, linkVars
<1>6. ASSUME ~PeerReads, ~ShellRestarts, ~PeerIsTold, ~UNCHANGED linkVars
      PROVE  UNCHANGED peer_display
  BY <1>6 DEF LinkNext, DeviceStep, HostStep, DeviceOpens, DeviceCloses, DeviceReceives,
              DeviceSends, DeviceTicks, DevicePresses, HostFetches, ShellOpens, ProbeReads,
              ProbeFails, CablePulled, LinkDropped, PeerWrites, TakeAllOutput, peerVars
<1> QED
  BY <1>3, <1>4, <1>5, <1>6

(***************************************************************************)
(* No press is ever acted on for the sake of a connection other than the   *)
(* one it was made on, even if a packet outlives the close of the port,    *)
(* whatever the appliance is set to do and for every depth of queue and of *)
(* buffer, as long as a HELLO and a BUTTON do not fit in one packet.       *)
(***************************************************************************)
THEOREM OldPressesAreIgnored ==
  ASSUME MessageUnits["HELLO"] + MessageUnits["BUTTON"] > PacketUnits
  PROVE  LinkSpec => PressesActOnTheirOwnConnection
<1> DEFINE ActsNow ==
      Open' /\ incoming # <<>> /\ incoming' = Tail(incoming)
        /\ Head(incoming).of.verb = "BUTTON" /\ peer_display' # peer_display
        => Head(incoming).of.press = epoch
<1>1. LinkInit => LinkTyped /\ Apart
  BY TypesBegin, ApartBegins
<1>2. LinkTyped /\ Apart /\ [LinkNext]_linkVars => (LinkTyped /\ Apart)'
  BY TypesStep, ApartStep
<1>3. LinkTyped /\ Apart /\ [LinkNext]_linkVars => [ActsNow]_linkVars
  BY ActsOnItsOwn
<1> QED
  BY <1>1, <1>2, <1>3, PTL DEF LinkSpec, PressesActOnTheirOwnConnection

(* The two ends keep their own invariants, whatever goes on between them.  *)
THEOREM EndsKeepTheirWord == LinkSpec => [](IInv /\ PeerInv)
<1>1. LinkTyped => IInv /\ PeerInv
  BY DEF LinkTyped
<1> QED
  BY <1>1, TypesBegin, TypesStep, PTL DEF LinkSpec

=============================================================================
