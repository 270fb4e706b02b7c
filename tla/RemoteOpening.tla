---------------------------- MODULE RemoteOpening ----------------------------
(***************************************************************************)
(* The clock of the application's main loop (stopbath_remote.c:484-513):   *)
(* when it tries again to open the link, and how much time it gives the    *)
(* session.  The tick counter has a width; the deadline of the next        *)
(* attempt is compared with it, the time of a pass is a difference, turned *)
(* into milliseconds with what is left over thrown away.                   *)
(***************************************************************************)
EXTENDS Integers

CONSTANTS
  TickValues,         \* 2^32: the counter wraps here
  OpenRetryInterval,  \* LINK_OPEN_RETRY_INTERVAL_MILLISECONDS, in ticks
  TickFrequency,      \* furi_kernel_get_tick_frequency(): ticks to the second
  Milliseconds,       \* 1000: milliseconds to the second
  MaxPass             \* the longest time from one look at the deadline to the next

ASSUME OpeningAssumption ==
  /\ {TickValues, OpenRetryInterval, TickFrequency, Milliseconds, MaxPass} \subseteq Nat \ {0}
  /\ OpenRetryInterval + MaxPass < TickValues /\ 2 * MaxPass < TickValues
  /\ (2 * MaxPass) * Milliseconds < TickValues * TickFrequency

VARIABLES
  tick,                    \* furi_get_tick()
  loop,                    \* where the main loop is
  link_opened,
  next_open_attempt_tick,
  last_service_tick,
  elapsed,                 \* what the last pass gave remote_session_tick
  usb_locked,              \* the USB mode is locked: an RPC session, a PIN
  in_pass,                 \* ghost: real time since the last look at the deadline
  since_attempt,           \* ghost: real time since the last attempt, up to a bound
  since_service            \* ghost: real time since last_service_tick was read

openingVars == <<tick, loop, link_opened, next_open_attempt_tick, last_service_tick, elapsed,
                 usb_locked, in_pass, since_attempt, since_service>>

Ticks == 0 .. TickValues - 1

(* Sums and differences of uint32_t, of operands below the width.          *)
Plus(t, n)  == IF t + n < TickValues THEN t + n ELSE t + n - TickValues
Minus(t, s) == IF t >= s THEN t - s ELSE t - s + TickValues

(* Past this nothing is told apart any more.                               *)
LongAgo == OpenRetryInterval + MaxPass

(* The first attempt was made, and its deadline set, a little before.      *)
OpeningInit ==
  /\ tick \in Ticks /\ loop = "LOOK" /\ link_opened \in BOOLEAN
  /\ in_pass \in 0 .. MaxPass
  /\ next_open_attempt_tick = Plus(Minus(tick, in_pass), OpenRetryInterval)
  /\ last_service_tick = tick /\ elapsed = 0
  /\ usb_locked = ~link_opened
  /\ since_attempt = in_pass /\ since_service = 0

(* Mutants: due only at the very tick, and due as long as it is not.       *)
IsDueExactly   == tick = next_open_attempt_tick
IsDueBackwards == Minus(next_open_attempt_tick, tick) < TickValues \div 2

IsDue == tick >= next_open_attempt_tick

(* remote_transport_open, when it is due: it opens unless the mode is      *)
(* locked.  The deadline is set after it, from a later tick.               *)
TryToOpen ==
  /\ loop = "LOOK" /\ ~link_opened /\ IsDue
  /\ link_opened' = ~usb_locked
  /\ loop' = "SET" /\ in_pass' = 0 /\ since_attempt' = 0
  /\ UNCHANGED <<tick, next_open_attempt_tick, last_service_tick, elapsed, usb_locked, since_service>>

DoNotTry ==
  /\ loop = "LOOK" /\ (link_opened \/ ~IsDue)
  /\ loop' = "SERVICE" /\ in_pass' = 0
  /\ UNCHANGED <<tick, link_opened, next_open_attempt_tick, last_service_tick, elapsed, usb_locked,
                 since_attempt, since_service>>

SetDeadline ==
  /\ loop = "SET" /\ loop' = "SERVICE"
  /\ next_open_attempt_tick' = Plus(tick, OpenRetryInterval)
  /\ since_attempt' = 0
  /\ UNCHANGED <<tick, link_opened, last_service_tick, elapsed, usb_locked, in_pass, since_service>>

(* The product has 64 bits and cannot wrap; the quotient has 32 again.     *)
InMilliseconds(ticks) == ((ticks * Milliseconds) \div TickFrequency) % TickValues

(* Mutant: the difference of two ticks, its borrow forgotten.              *)
ServiceAcrossTheWrap ==
  /\ loop = "SERVICE" /\ loop' = "LOOK"
  /\ elapsed' = InMilliseconds(IF tick >= last_service_tick THEN tick - last_service_tick
                               ELSE tick)
  /\ last_service_tick' = tick /\ since_service' = 0
  /\ UNCHANGED <<tick, link_opened, next_open_attempt_tick, usb_locked, in_pass, since_attempt>>

(* remote_session_tick and the rest of the pass.                           *)
Service ==
  /\ loop = "SERVICE" /\ loop' = "LOOK"
  /\ elapsed' = InMilliseconds(Minus(tick, last_service_tick))
  /\ last_service_tick' = tick /\ since_service' = 0
  /\ UNCHANGED <<tick, link_opened, next_open_attempt_tick, usb_locked, in_pass, since_attempt>>

(* Time goes on anywhere in a pass.                                        *)
Later(time) == IF time < LongAgo THEN time + 1 ELSE time

TimePasses ==
  /\ in_pass < MaxPass
  /\ tick' = Plus(tick, 1)
  /\ in_pass' = in_pass + 1 /\ since_service' = since_service + 1
  /\ since_attempt' = Later(since_attempt)
  /\ UNCHANGED <<loop, link_opened, next_open_attempt_tick, last_service_tick, elapsed, usb_locked>>

UsbModeChanges ==
  /\ ~link_opened
  /\ usb_locked' = ~usb_locked
  /\ UNCHANGED <<tick, loop, link_opened, next_open_attempt_tick, last_service_tick, elapsed,
                 in_pass, since_attempt, since_service>>

LoopStep == TryToOpen \/ DoNotTry \/ SetDeadline \/ Service

OpeningNext == LoopStep \/ TimePasses \/ UsbModeChanges

OpeningSpec == OpeningInit /\ [][OpeningNext]_openingVars

-----------------------------------------------------------------------------
OpeningTypeOK ==
  /\ {tick, next_open_attempt_tick, last_service_tick} \subseteq Ticks
  /\ loop \in {"LOOK", "SET", "SERVICE"}
  /\ link_opened \in BOOLEAN /\ usb_locked \in BOOLEAN
  /\ in_pass \in 0 .. MaxPass /\ since_attempt \in 0 .. LongAgo
  /\ elapsed \in Ticks /\ since_service \in 0 .. 2 * MaxPass

(***************************************************************************)
(* The comparison of absolute ticks misses a deadline only when the whole  *)
(* of a pass may jump from before it over the wrap: when it lies within    *)
(* the last MaxPass - 1 ticks.                                             *)
(***************************************************************************)
MayBeJumped == next_open_attempt_tick > TickValues - MaxPass

(***************************************************************************)
(* While the link is closed an attempt is never put off past the interval  *)
(* and one pass, whatever the tick counter does, unless its deadline may   *)
(* be jumped (stopbath_remote.c:501; then the wait is a whole turn of the  *)
(* counter).                                                               *)
(***************************************************************************)
AttemptsAreTimely ==
  ~link_opened /\ ~MayBeJumped => since_attempt < OpenRetryInterval + MaxPass

(***************************************************************************)
(* The same without the exception, as stopbath_remote.c:50-53 has it: an   *)
(* attempt every interval, so that the link opens once the mode is free.   *)
(***************************************************************************)
AttemptsNeverStall == ~link_opened => since_attempt < OpenRetryInterval + MaxPass

(***************************************************************************)
(* Nor is it made before the interval is over, unless the deadline has     *)
(* wrapped: then every pass until the counter wraps too tries again.       *)
(***************************************************************************)
Tries == loop = "LOOK" /\ loop' = "SET"

AttemptsArePaced ==
  [][Tries => since_attempt >= OpenRetryInterval \/ next_open_attempt_tick < OpenRetryInterval]_openingVars

(***************************************************************************)
(* The session's handshake clock is never given more time than really      *)
(* passed, and in one pass not a whole millisecond less, across the wrap   *)
(* of the counter too.  (So it is given exactly that time when a tick is a *)
(* millisecond; else what a pass throws away is lost for good, and the     *)
(* retry may come later than its interval by up to a millisecond a pass.)  *)
(***************************************************************************)
RealTime == since_service * Milliseconds

ElapsedIsReal ==
  [][loop = "SERVICE" /\ loop' = "LOOK"
       => /\ elapsed' * TickFrequency <= RealTime
          /\ RealTime < (elapsed' + 1) * TickFrequency]_openingVars
=============================================================================
