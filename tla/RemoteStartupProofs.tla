------------------------- MODULE RemoteStartupProofs -------------------------
(***************************************************************************)
(* The opening clock keeps its promises for every width of the counter,    *)
(* every interval and every length of a pass the assumption allows, and    *)
(* the peer pumps only the application, for any number of nodes and reads. *)
(***************************************************************************)
EXTENDS RemoteStartup, TLAPS

USE DEF Ticks, LongAgo

(* Sums and differences stay within the counter.                           *)
LEMMA PlusInTicks ==
  ASSUME NEW t \in Ticks, NEW n \in Nat, n < TickValues
  PROVE  Plus(t, n) \in Ticks
  BY OpeningAssumption DEF Plus

LEMMA MinusInTicks ==
  ASSUME NEW t \in Ticks, NEW s \in Ticks
  PROVE  Minus(t, s) \in Ticks
  BY OpeningAssumption DEF Minus

(* A quotient is short of the fraction by less than one.                   *)
LEMMA Quotient ==
  ASSUME NEW x \in Nat, NEW d \in Nat \ {0}
  PROVE  /\ x \div d \in Nat
         /\ (x \div d) * d <= x /\ x < (x \div d + 1) * d
  OBVIOUS

(***************************************************************************)
(* The milliseconds of a pass fit the integer they are cast to, so the     *)
(* cast changes nothing, and they are short by less than one.              *)
(***************************************************************************)
LEMMA MillisecondsOfAPass ==
  ASSUME NEW ticks \in 0 .. 2 * MaxPass
  PROVE  /\ InMilliseconds(ticks) \in Ticks
         /\ InMilliseconds(ticks) * TickFrequency <= ticks * Milliseconds
         /\ ticks * Milliseconds < (InMilliseconds(ticks) + 1) * TickFrequency
<1> DEFINE x == ticks * Milliseconds
           q == x \div TickFrequency
<1>1. /\ ticks \in Nat /\ Milliseconds \in Nat /\ MaxPass \in Nat /\ TickValues \in Nat \ {0}
      /\ TickFrequency \in Nat \ {0} /\ ticks <= 2 * MaxPass
  BY OpeningAssumption
<1>2. x \in Nat /\ x <= (2 * MaxPass) * Milliseconds
  BY <1>1
<1>3. x < TickValues * TickFrequency
  <2>1. (2 * MaxPass) * Milliseconds < TickValues * TickFrequency
    BY OpeningAssumption
  <2>2. (2 * MaxPass) * Milliseconds \in Nat /\ TickValues * TickFrequency \in Nat
    BY <1>1
  <2> HIDE DEF x
  <2> QED
    BY <1>2, <2>1, <2>2
<1> HIDE DEF x
<1>4. q \in Nat /\ q * TickFrequency <= x /\ x < (q + 1) * TickFrequency
  BY <1>1, <1>2, Quotient
<1> HIDE DEF q
<1>5. q < TickValues
  <2> SUFFICES ASSUME q >= TickValues PROVE FALSE
    BY <1>1, <1>4
  <2>1. q * TickFrequency >= TickValues * TickFrequency
    BY <1>1, <1>4
  <2> QED
    BY <1>1, <1>2, <1>3, <1>4, <2>1
<1>6. q % TickValues = q
  BY <1>1, <1>4, <1>5
<1>7. InMilliseconds(ticks) = q
  BY <1>6 DEF InMilliseconds, q, x
<1> QED
  BY <1>1, <1>4, <1>5, <1>7 DEF x

(***************************************************************************)
(* The invariant.  Time is told twice, by the counter and by the ghosts:   *)
(* the last service was since_service ticks ago, and as long as the        *)
(* deadline cannot have been passed over, the counter stands where         *)
(* since_attempt says it must.  in_pass bounds what a pass may add.        *)
(***************************************************************************)
ServiceIsKnown ==
  /\ since_service <= in_pass + MaxPass
  /\ loop = "LOOK" => since_service <= in_pass
  /\ tick = Plus(last_service_tick, since_service)

CounterIsKnown ==
  tick = IF next_open_attempt_tick + since_attempt >= OpenRetryInterval
         THEN next_open_attempt_tick + since_attempt - OpenRetryInterval
         ELSE next_open_attempt_tick + since_attempt - OpenRetryInterval + TickValues

DeadlineIsKnown ==
  ~link_opened /\ loop # "SET" =>
    /\ since_attempt < OpenRetryInterval \/ ~MayBeJumped => CounterIsKnown
    /\ ~MayBeJumped => since_attempt <= OpenRetryInterval - 1 + in_pass

JustTried == loop = "SET" => since_attempt <= in_pass

OpeningInv == OpeningTypeOK /\ ServiceIsKnown /\ DeadlineIsKnown /\ JustTried

LEMMA OpeningStarts == OpeningInit => OpeningInv
<1> SUFFICES ASSUME OpeningInit PROVE OpeningInv
  OBVIOUS
<1>1. Minus(tick, in_pass) \in Ticks /\ in_pass \in Nat /\ in_pass <= MaxPass
  BY MinusInTicks, OpeningAssumption DEF OpeningInit
<1>2. OpeningTypeOK
  BY <1>1, PlusInTicks, OpeningAssumption DEF OpeningInit, OpeningTypeOK
<1>3. ServiceIsKnown
  BY <1>1, OpeningAssumption DEF OpeningInit, ServiceIsKnown, Plus
<1>4. DeadlineIsKnown
  <2> DEFINE start == Minus(tick, in_pass)
  <2>1. start \in Int /\ tick = (IF start + in_pass < TickValues THEN start + in_pass
                                ELSE start + in_pass - TickValues)
    BY <1>1, OpeningAssumption DEF OpeningInit, Minus
  <2>2. next_open_attempt_tick = (IF start + OpenRetryInterval < TickValues
          THEN start + OpenRetryInterval ELSE start + OpenRetryInterval - TickValues)
    BY DEF OpeningInit, Plus
  <2>3. since_attempt = in_pass
    BY DEF OpeningInit
  <2>4. start \in 0 .. TickValues - 1
    BY <1>1
  <2> HIDE DEF start
  <2>5. since_attempt < OpenRetryInterval \/ ~MayBeJumped => CounterIsKnown
    BY <2>1, <2>2, <2>3, <2>4, <1>1, OpeningAssumption DEF CounterIsKnown, MayBeJumped
  <2> QED
    BY <2>3, <2>5, <1>1, OpeningAssumption DEF DeadlineIsKnown
<1>5. JustTried
  BY DEF OpeningInit, JustTried
<1> QED
  BY <1>2, <1>3, <1>4, <1>5 DEF OpeningInv

LEMMA OpeningGoesOn == OpeningInv /\ [OpeningNext]_openingVars => OpeningInv'
<1> SUFFICES ASSUME OpeningInv, [OpeningNext]_openingVars PROVE OpeningInv'
  OBVIOUS
<1> USE OpeningAssumption DEF OpeningInv
<1>0. JustTried'
  BY DEF JustTried, OpeningTypeOK, OpeningNext, LoopStep, TryToOpen, DoNotTry, SetDeadline,
         Service, TimePasses, UsbModeChanges, openingVars, Later
<1>1. CASE TryToOpen
  BY <1>0, <1>1 DEF TryToOpen, OpeningTypeOK, ServiceIsKnown, DeadlineIsKnown, Plus
<1>2. CASE DoNotTry
  <2>1. OpeningTypeOK' /\ ServiceIsKnown'
    BY <1>2 DEF DoNotTry, OpeningTypeOK, ServiceIsKnown, Plus
  <2>2. DeadlineIsKnown'
    <3> SUFFICES ASSUME ~link_opened PROVE DeadlineIsKnown'
      BY <1>2 DEF DoNotTry, DeadlineIsKnown
    <3>1. tick < next_open_attempt_tick
      BY <1>2 DEF DoNotTry, IsDue, OpeningTypeOK
    <3>2. ~MayBeJumped => since_attempt <= OpenRetryInterval - 1
      BY <1>2, <3>1 DEF DoNotTry, DeadlineIsKnown, CounterIsKnown, OpeningTypeOK
    <3> QED
      BY <1>2, <3>2 DEF DoNotTry, DeadlineIsKnown, CounterIsKnown, MayBeJumped, OpeningTypeOK
  <2> QED
    BY <1>0, <2>1, <2>2
<1>3. CASE SetDeadline
  <2>1. next_open_attempt_tick' \in Ticks
    BY <1>3, PlusInTicks DEF SetDeadline, OpeningTypeOK
  <2>2. OpeningTypeOK' /\ ServiceIsKnown'
    BY <1>3, <2>1 DEF SetDeadline, OpeningTypeOK, ServiceIsKnown, Plus
  <2>3. DeadlineIsKnown'
    BY <1>3 DEF SetDeadline, OpeningTypeOK, DeadlineIsKnown, CounterIsKnown, Plus
  <2> QED
    BY <1>0, <2>2, <2>3
<1>4. CASE Service
  <2>1. Minus(tick, last_service_tick) = since_service
    BY DEF OpeningTypeOK, ServiceIsKnown, Plus, Minus
  <2>2. InMilliseconds(since_service) \in Ticks
    BY MillisecondsOfAPass DEF OpeningTypeOK
  <2>3. OpeningTypeOK' /\ ServiceIsKnown'
    BY <1>4, <2>1, <2>2 DEF Service, OpeningTypeOK, ServiceIsKnown, Plus
  <2>4. DeadlineIsKnown'
    BY <1>4 DEF Service, OpeningTypeOK, DeadlineIsKnown, CounterIsKnown, MayBeJumped
  <2> QED
    BY <1>0, <2>3, <2>4
<1>5. CASE TimePasses
  <2>1. tick' \in Ticks
    BY <1>5, PlusInTicks DEF TimePasses, OpeningTypeOK
  <2>2. OpeningTypeOK'
    BY <1>5, <2>1 DEF TimePasses, OpeningTypeOK, ServiceIsKnown, Later
  <2>3. ServiceIsKnown'
    BY <1>5 DEF TimePasses, OpeningTypeOK, ServiceIsKnown, Plus
  <2>4. DeadlineIsKnown'
    BY <1>5
    DEF TimePasses, OpeningTypeOK, DeadlineIsKnown, CounterIsKnown, MayBeJumped, Plus, Later
  <2> QED
    BY <1>0, <2>2, <2>3, <2>4
<1>6. CASE UsbModeChanges
  BY <1>0, <1>6 DEF UsbModeChanges, OpeningTypeOK, ServiceIsKnown, DeadlineIsKnown, CounterIsKnown,
              MayBeJumped, Plus
<1>7. CASE UNCHANGED openingVars
  BY <1>0, <1>7 DEF openingVars, OpeningTypeOK, ServiceIsKnown, DeadlineIsKnown, CounterIsKnown,
              MayBeJumped, Plus
<1> QED
  BY <1>1, <1>2, <1>3, <1>4, <1>5, <1>6, <1>7 DEF OpeningNext, LoopStep

LEMMA OpeningInvariant == OpeningSpec => []OpeningInv
  BY OpeningStarts, OpeningGoesOn, PTL DEF OpeningSpec

(***************************************************************************)
(* The clock's variables keep their types, for every tick frequency too.   *)
(***************************************************************************)
THEOREM OpeningIsTyped == OpeningSpec => []OpeningTypeOK
<1>1. OpeningInv => OpeningTypeOK
  BY DEF OpeningInv
<1> QED
  BY <1>1, OpeningInvariant, PTL

(***************************************************************************)
(* An attempt to open the link is never put off past the interval and a    *)
(* pass, unless its deadline lies in the last pass before the wrap.        *)
(***************************************************************************)
THEOREM AttemptsComeInTime == OpeningSpec => []AttemptsAreTimely
<1>1. OpeningInv => AttemptsAreTimely
  BY OpeningAssumption
  DEF OpeningInv, OpeningTypeOK, DeadlineIsKnown, JustTried, AttemptsAreTimely
<1> QED
  BY <1>1, OpeningInvariant, PTL

(***************************************************************************)
(* An attempt is made before its interval is over only when its deadline   *)
(* has wrapped.                                                            *)
(***************************************************************************)
THEOREM AttemptsKeepTheirDistance == OpeningSpec => AttemptsArePaced
<1>1. OpeningInv /\ [OpeningNext]_openingVars =>
        [Tries => \/ since_attempt >= OpenRetryInterval
                  \/ next_open_attempt_tick < OpenRetryInterval]_openingVars
  <2> SUFFICES ASSUME OpeningInv, OpeningNext, Tries, since_attempt < OpenRetryInterval
               PROVE  next_open_attempt_tick < OpenRetryInterval
    BY OpeningAssumption DEF OpeningInv, OpeningTypeOK
  <2>1. TryToOpen
    BY DEF Tries, OpeningNext, LoopStep, TryToOpen, DoNotTry, SetDeadline, Service, TimePasses,
           UsbModeChanges
  <2> QED
    BY <2>1, OpeningAssumption
    DEF OpeningInv, OpeningTypeOK, DeadlineIsKnown, CounterIsKnown, TryToOpen, IsDue
<1> QED
  BY <1>1, OpeningInvariant, PTL DEF OpeningSpec, AttemptsArePaced

(***************************************************************************)
(* The session is never told more time than passed, and in one pass less   *)
(* than a millisecond too little: for every tick frequency, and over the   *)
(* wrap too.                                                               *)
(***************************************************************************)
THEOREM ElapsedTimeIsReal == OpeningSpec => ElapsedIsReal
<1>1. OpeningInv /\ [OpeningNext]_openingVars =>
        [loop = "SERVICE" /\ loop' = "LOOK"
           => /\ elapsed' * TickFrequency <= RealTime
              /\ RealTime < (elapsed' + 1) * TickFrequency]_openingVars
  <2> SUFFICES ASSUME OpeningInv, OpeningNext, loop = "SERVICE", loop' = "LOOK"
               PROVE  /\ elapsed' * TickFrequency <= RealTime
                      /\ RealTime < (elapsed' + 1) * TickFrequency
    OBVIOUS
  <2>1. Service
    BY DEF OpeningNext, LoopStep, TryToOpen, DoNotTry, SetDeadline, Service, TimePasses,
           UsbModeChanges
  <2>2. since_service \in 0 .. 2 * MaxPass /\ Minus(tick, last_service_tick) = since_service
    BY OpeningAssumption DEF OpeningInv, OpeningTypeOK, ServiceIsKnown, Plus, Minus
  <2>3. elapsed' = InMilliseconds(since_service)
    BY <2>1, <2>2 DEF Service
  <2> QED
    BY <2>2, <2>3, MillisecondsOfAPass DEF RealTime
<1> QED
  BY <1>1, OpeningInvariant, PTL DEF OpeningSpec, ElapsedIsReal

-----------------------------------------------------------------------------
(* Every step of the composition is a step of the clock or leaves it be,   *)
(* so what holds of the clock by itself holds in it.                       *)
LEMMA StartupIsAnOpening == StartupSpec => OpeningSpec
<1>1. StartupInit => OpeningInit
  BY DEF StartupInit
<1>2. [StartupNext]_startupVars => [OpeningNext]_openingVars
  BY DEF StartupNext, startupVars, Device, Answer, Peer, Enumerate, PlugIn, PullOut,
         AnotherLeaves
<1> QED
  BY <1>1, <1>2, PTL DEF StartupSpec, OpeningSpec

(***************************************************************************)
(* The clock makes its attempts in time in the composition too.            *)
(***************************************************************************)
THEOREM StartupAttemptsComeInTime == StartupSpec => []AttemptsAreTimely
  BY StartupIsAnOpening, AttemptsComeInTime, PTL

(***************************************************************************)
(* The invariant of the search: a channel that is the application's is the *)
(* one that is attached, and it keeps its node as long as it is; only the  *)
(* application says HELLO; and a node that was named is pumped unprobed.   *)
(***************************************************************************)
ChannelIsKnown ==
  /\ channel = "APPLICATION" => app_node # NoNode /\ descriptor = app_node
  /\ channel = "ANOTHER" => arrived = 0
  /\ by_name => shell \in {"NAMED", "PUMPING", "EXITED"}
  /\ shell = "NAMED" => by_name /\ device_path # NoNode
  /\ shell = "PROBING" => fed = 0 /\ channel # "NONE"

ShellInv == ShellTypeOK /\ ChannelIsKnown /\ PumpsTheApplication

SearchInv == StartupTypeOK /\ ShellInv

USE DEF NoNode, Preferred, NodeNumbers

LEMMA NextCandidate ==
  ASSUME NEW c \in NodeNumbers \cup {Preferred}
  PROVE  AfterCandidate(c) \in NodeNumbers \cup {Preferred}
  BY ShellAssumption DEF AfterCandidate

LEMMA ShellKeepsSearchInv ==
  ASSUME ShellInv, ShellStep
  PROVE  ShellInv'
<1> USE ShellAssumption DEF ShellInv, ShellTypeOK, ChannelIsKnown, PumpsTheApplication
<1>1. CASE OpenByName
  <2>1. by_name' \in BOOLEAN /\ by_name'
    BY <1>1, Zenon DEF OpenByName
  <2>2. /\ shell' = "PUMPING" /\ device_path' = device_path /\ app_node' = app_node
        /\ candidate' = candidate
        /\ descriptor' = device_path
        /\ channel' = IF device_path = app_node THEN "APPLICATION" ELSE "ANOTHER"
        /\ attempts' = 0 /\ arrived' = 0 /\ taken' = 0 /\ fed' = 0
    BY <1>1 DEF OpenByName, OpenNode
  <2>3. device_path # NoNode
    BY <1>1 DEF OpenByName
  <2> QED
    BY <2>1, <2>2, <2>3
<1>2. CASE ExitUnopened
  BY <1>2 DEF ExitUnopened
<1>3. CASE OpenCandidate
  <2>1. PathOf(candidate) \in NodeNumbers
    BY <1>3 DEF OpenCandidate, PathOf
  <2> QED
    BY <1>3, <2>1 DEF OpenCandidate, OpenNode
<1>4. CASE CannotOpen
  BY <1>4, NextCandidate DEF CannotOpen
<1>5. CASE ProbeFinds
  BY <1>5 DEF ProbeFinds, LooksLikeHello, ReadAndFeed
<1>6. CASE ProbeReadsOn
  BY <1>6 DEF ProbeReadsOn
<1>7. CASE ProbeGivesUp
  <2>1. by_name' \in BOOLEAN /\ ~by_name'
    BY <1>7, Zenon DEF ProbeGivesUp
  <2> QED
    BY <1>7, <2>1, NextCandidate DEF ProbeGivesUp, CloseNode
<1>8. CASE Reopen
  <2>1. by_name' \in BOOLEAN /\ ~by_name'
    BY <1>8, Zenon DEF Reopen
  <2> QED
    BY <1>8, <2>1 DEF Reopen, CloseNode
<1>9. CASE Pump
  BY <1>9 DEF Pump, ReadAndFeed, HangsUp
<1> QED
  BY <1>1, <1>2, <1>3, <1>4, <1>5, <1>6, <1>7, <1>8, <1>9 DEF ShellStep

LEMMA ShellStaysStill ==
  ASSUME ShellInv, UNCHANGED shellVars
  PROVE  ShellInv'
  BY DEF shellVars, ShellInv, ShellTypeOK, ChannelIsKnown, PumpsTheApplication

LEMMA SearchGoesOn ==
  SearchInv /\ OpeningTypeOK' /\ [StartupNext]_startupVars => SearchInv'
<1> SUFFICES ASSUME SearchInv, OpeningTypeOK', [StartupNext]_startupVars PROVE SearchInv'
  OBVIOUS
<1>1. ShellInv'
  <2> USE DEF SearchInv
  <2>1. CASE \E parts \in 1 .. 2 : Answer(parts)
    <3> PICK parts \in 1 .. 2 : Answer(parts)
      BY <2>1
    <3> QED
      BY DEF Answer, HelloArrives, ShellInv, ShellTypeOK, ChannelIsKnown, PumpsTheApplication
  <2>2. CASE Peer
    BY <2>2, ShellKeepsSearchInv DEF Peer
  <2>3. CASE Enumerate
    BY <2>3
    DEF Enumerate, Attach, ShellInv, ShellTypeOK, ChannelIsKnown, PumpsTheApplication
  <2>4. CASE Detach
    BY <2>4 DEF Detach, ShellInv, ShellTypeOK, ChannelIsKnown, PumpsTheApplication
  <2>5. CASE AnotherLeaves
    BY <2>5
    DEF AnotherLeaves, AnotherGoes, ShellInv, ShellTypeOK, ChannelIsKnown, PumpsTheApplication
  <2>6. CASE UNCHANGED shellVars
    BY <2>6, ShellStaysStill
  <2>7. Device \/ PlugIn \/ UNCHANGED startupVars => UNCHANGED shellVars
    BY DEF Device, PlugIn, startupVars
  <2>8. PullOut => Detach \/ UNCHANGED shellVars
    BY DEF PullOut
  <2> QED
    BY <2>1, <2>2, <2>3, <2>4, <2>5, <2>6, <2>7, <2>8 DEF StartupNext
<1>2. plugged' \in BOOLEAN
  <2>1. plugged' \in {plugged, TRUE, FALSE}
    BY Zenon DEF StartupNext, startupVars, Device, Answer, Peer, Enumerate, PlugIn, PullOut,
                 AnotherLeaves
  <2> QED
    BY <2>1 DEF SearchInv, StartupTypeOK
<1> QED
  BY <1>1, <1>2 DEF SearchInv, StartupTypeOK, ShellInv

LEMMA SearchInvariant == StartupSpec => []SearchInv
<1>1. StartupInit /\ OpeningTypeOK => SearchInv
  <2> SUFFICES ASSUME ShellInit PROVE ShellInv
    BY DEF StartupInit, SearchInv, StartupTypeOK, ShellInv
  <2>1. by_name \in BOOLEAN /\ (by_name <=> shell = "NAMED")
    BY Zenon DEF ShellInit
  <2> QED
    BY <2>1, ShellAssumption
    DEF ShellInit, ShellInv, ShellTypeOK, ChannelIsKnown, PumpsTheApplication
<1>2. StartupSpec => []OpeningTypeOK
  BY StartupIsAnOpening, OpeningIsTyped, PTL
<1> QED
  BY <1>1, <1>2, SearchGoesOn, PTL DEF StartupSpec

(***************************************************************************)
(* Every variable of the two ends keeps its type.                          *)
(***************************************************************************)
THEOREM StartupIsTyped == StartupSpec => []StartupTypeOK
<1>1. SearchInv => StartupTypeOK
  BY DEF SearchInv
<1> QED
  BY <1>1, SearchInvariant, PTL

(***************************************************************************)
(* The core is fed all that is read of the connection that is pumped; what *)
(* a search found is the application's channel or one that is gone, and    *)
(* its HELLO was heard: for any number of nodes, reads and pulls, and for  *)
(* a peer that was given a node from its first search on.                  *)
(***************************************************************************)
THEOREM OnlyTheApplicationIsPumped == StartupSpec => []PumpsTheApplication
<1>1. SearchInv => PumpsTheApplication
  BY DEF SearchInv, ShellInv
<1> QED
  BY <1>1, SearchInvariant, PTL
=============================================================================
