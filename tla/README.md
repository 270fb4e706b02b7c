# Stopbath Flipper remote: a TLA+ model, its checks and its proofs

The program is a Flipper Zero application that shows the screen of a small
appliance (a Wi-Fi hotspot controller, say) and sends it button presses, over a
USB serial channel. It comes with a development peer: a host program that plays
the appliance. This directory models the program's control: what it does with
each byte, edge, tick and press, and in which order. It also models what the
bytes say: the spelling of a message, the code, the NFC tag and the screen that
one record becomes.

Contents:

1. The system: parts, state, operations, interactions
2. What is hard about it, and what should hold
3. The modules, and how they correspond to the code
4. The abstraction
5. The runs: what each shows, its bounds, why they are enough
6. Fairness
7. What is proved
8. Where the code and its words disagree
9. What is only model-checked, and what is not modelled
10. The plan

## 1. The system

| Part | Code | State | Operations |
| --- | --- | --- | --- |
| Wire protocol | `protocol/` | the line assembler: line so far, discarding flag | encode a message; feed a byte; parse a line |
| Client session | `session/remote_session.c` | link state, assembler, lock, current record, output buffer with a message count, retry clock, four drop counters | port opened, port closed, tick, receive bytes, report event, lock changed, take output |
| USB transport | `remote_transport.c` | port_open, usb_present, dtr_present, revalidate_dtr, tx semaphore, send buffer | open, close, service; four USB callbacks |
| Input model | `remote_input/` | screen_locked | apply (button, kind) |
| Application | `stopbath_remote.c` | input queue, exit flag, layout and bitmap under a mutex, NFC message, deadline of the next attempt to open, time of the last service | main loop; input and draw callbacks on the GUI thread |
| Display layout, font widths | `remote_display/remote_display_layout.c`, `remote_font_*` | none | compose texts, shapes and button from the state shown |
| QR wrapper, vendored encoder | `remote_display/remote_qr.c`, `lib/qrcodegen/` | none | does a payload fit; encode; render a bitmap |
| NDEF builder | `remote_display/remote_ndef.c` | none | an address record; a Wi-Fi record from a Wi-Fi code |
| Peer core | `peer/development_peer_core.c` | assembler, record retained, handshake_complete, lock, behaviour, output | feed, take output, set display, misbehaviours, link dropped |
| Peer shell | `peer/development_peer_shell.c` | file descriptor, node name | find the channel by probing the nodes, pump, reopen, commands |
| Fuzz harness | `fuzz/fuzz_remote_protocol.c` | none | make valid lines, damage them, demand that what is accepted encodes again |

How they interact:

- The **session** owns no I/O. The transport calls it: an edge of the port becomes
  `port_opened` or `port_closed`, received bytes go to `receive`, and a free
  transmit slot pulls up to one packet out of it with `take_output`.
- The **transport** is called once per pass of the main loop. The USB interrupt
  runs its four callbacks between any two statements of that pass. They share
  three flags and a semaphore with it, without a lock.
- The **application** loops: tick the session, service the transport, take one
  input event, recompose the screen. The GUI thread puts events into a
  queue of bounded depth, and draws the layout under a mutex.
- The **input model** decides what a press means under the lock. The application
  copies a change of lock to the session, which holds a second copy.
- The **peer** answers HELLO and BUTTON with DISPLAY, refuses what it cannot
  read with an error record, and sends its record whenever the operator sets it.
  Its shell opens and closes the node, looking for the right one by waiting for
  a HELLO.

## 2. What is hard, and what should hold

`PROJECT.json` lists the hazards, each with its line and the properties that
would notice. In groups:

- **Interleaving with the interrupt**: a flag read and stored in two steps, edges
  compared once per pass, a semaphore given back for two different reasons.
- **Partial drains**: output leaves in packets that cut messages anywhere, while
  the queue is bounded in messages and the retry clears what is left.
- **A handshake over a channel that forgets**: either end may lose its memory of
  the link (restart, pull, close) while the other keeps it.
- **Staleness**: presses, records, credentials and half lines that outlive the
  connection they belong to.
- **Two copies of one fact**: port open in transport and session; lock in input
  model and session.
- **Queues at their limit**: messages to the appliance, input events, the peer's
  output; texts and shapes of a layout.
- **Numbers at their edge**: a tick counter that wraps, integers of ten digits, a
  line, a name, a key or a code at its bound.
- **Escapes within escapes**: the name of a network is escaped by the appliance,
  escaped again on the line, and unescaped in two places of the device.
- **Searching**: the peer recognises a node by one HELLO in one read, and each
  opening of a channel gives it one HELLO. A node given by its path is not
  recognised at all.
- **Records that cannot be sent**: the peer changes its record first and encodes it
  afterwards, and an encoding that fails is not noticed by anyone.

What makes each part correct:

| Part | Properties |
| --- | --- |
| Wire | `LinesHaveOneMeaning` (`AcceptedLinesReencode`, `SpellingIsKept`: but for needless escapes), `MessagesGetThrough` (`EncodedLinesParse`, `RefusalIsForEscapes`); its line assembler through the session's and the peer's |
| NDEF | `PhoneReadsWhatWasMeant` (`PhoneJoinsTheNetworkMeant`, `PhoneOpensTheAddressMeant`), `WifiScanAgrees` |
| QR | `CodeIsTheSmallest` |
| Layout | `NothingCoversTheCode`, `ScreenIsLegible` (`TextsAreLegible`, `NothingIsCut`), `TheScreenTellsTheTag` |
| Session | `HonestCount`, `BackstopNeverBinds`, `OnlyHelloWhileHandshaking`, `NoPressWaitsForALink`, `PayloadOnlyWhileConnected`, `OnlyAnOpenOrADropEndsAConnection`, `ImplementsMirror`, `HandshakeIsRetried`, `WholeLines` |
| Transport | `OneViewOfThePort`, `SessionIsDrivenProperly`, `SlotIsNotLost`, `OpenIsCaught`, `StaleBytesAreDropped`, `HelloAnswersARealOpen`, `SendBufferIsLeftAlone`, `PortFollowsTheHost` (`OpenIsNoticed`, `CloseIsNoticed`), `PullIsNoticed` |
| Application, input model | `CredentialFollowsTheLink`, `LocksAgree`, `GuardIsNeverReached`, `ApplicationDrivesSession`, `ExitIsHonoured` |
| Opening clock | `AttemptsAreTimely`, `AttemptsArePaced`, `ElapsedIsReal` |
| Peer | `LastWordIsCurrent`, `RecordsAreSentWhole` |
| Peer shell | `PumpsTheApplication`, `PeerFindsTheDevice` |
| Device and peer | `PressesActOnTheirOwnConnection`, `TrustIsMutual`, `LinkRecovers` |

## 3. The modules

```
RemoteWire ------------------------------ AbstractSession
   |                                            ^ refined by
   +-- RemoteSession ---------------------------+
   |      +-- RemoteSessionTrace     history of what the host has read
   |      +-- RemoteTransport        main loop and interrupt
   |      +-- RemoteApplication      main loop and GUI thread, input model
   |      +-- RemoteLink  <----------+ device and peer composed
   +-- DevelopmentPeer --------------+

RemoteScan --+-- RemoteCodec ----+
             +-- RemoteNdef -----+-- RemoteContents   one record, from meaning to
RemoteQr ------- RemoteLayout ---+                    screen and tag

RemoteOpening --+
PeerShell ------+-- RemoteStartup       how the two ends meet
```

Each `...MC` module gives constants to TLC. Each `...Proofs` module holds
theorems; what is proved about `DevelopmentPeer` stands in `RemoteLinkProofs`, and what
is proved about `RemoteCodec` and `RemoteNdef` alone in `RemoteCodecProofs`.
`PROJECT.json` maps every definition that models code to its lines.

**RemoteWire** (`protocol/`). Messages are records; `Units` is a message as it
goes over the wire; `FeedOutcome` is `remote_protocol_feed_byte` with the parse
that follows it: a line is a message if it is exactly one whole message,
otherwise MALFORMED, and a line past the bound is OVERSIZED at its terminator.

**RemoteSession** (`session/`). Variables are the fields of
`struct RemoteSession`. Actions: `PortOpened`, `PortClosed`, `Tick`, `Receive`,
`ReportEvent`, `LockChanged`, `Drain` (`take_output`). `QueueMessage`,
`SendHello` and `TakeOutput` are the static helpers. Guards that say what a
caller may do (receive only with the link up) stand in the named compounds
`AppTick`, `HostReceive` and `Next`, which the transport and the application
are then shown to respect.

**AbstractSession**: link phase, record, lock, and the list of messages on their
way. `RemoteSession` implements it under a mapping that reads the pending
messages off the output buffer: a message is on its way until its line feed has
left (`MessagesEnding`, in `RemoteSessionTrace`).

**RemoteSessionTrace** adds what the session itself forgets: the line the host is
in the middle of. It also holds the mapping to `AbstractSession`.

**RemoteTransport** (`remote_transport.c`). One action for each statement of
`remote_transport_open` and `remote_transport_service` that touches a shared field:
`seed_usb`, `seed_read`, `seed_store`; `read_line`, `store_line`, `edge`,
`receive`, `acquire`, `fill`, `send`. A callback is one action together with
the event that raises it: cable in or out, re-enumeration, open, close, packet
fetched, bytes written.

**DevelopmentPeer** (`peer/development_peer_core.c`). `Feed` and what it
dispatches to; `SendRecord`, which sends nothing of a record that cannot be encoded
(`Sendable`; which records those are is the constant `EncodableRecords`);
`SetDisplay`, the commands that misbehave (an oversized, a partial,
a malformed line, an error record), `TakeAllOutput`, `LinkDropped`.

**RemoteLink** composes session and peer over an endpoint of one packet and the
host's buffers, with the shell's opening, probing, pumping, quitting and
starting again.

**RemoteApplication** (`stopbath_remote.c`, `remote_input/`). One action per step
of the loop and one for the GUI thread. `Reports`, `Locks`, `Unlocks`, `Exits`
are `remote_input_model_apply`; `RecomposeScreen` publishes code, layout and
NFC message; `CloseTransport` and `StopNfc` are the way out.

**RemoteScan**. `ScanOf`: bytes taken in turn, each changing the state of the scan. The
loops of the parser, of the text and number decoders, of `parse_wifi_code` and of the
fuzz harness's messages are scans with a step of their own.

**RemoteCodec** (`protocol/`). The tables as data; `SetText`, `Encode`, `ParseLine`
and `ReceiveLine` as functions of a line. The order of refusals is the program's:
the first token that is wrong decides the error, `NO_FIELD` comes last, and
`TOO_LONG` before anything is parsed. `RemoteWire` is the same protocol with all
of this left out.

**RemoteNdef** (`remote_ndef.c`). `ParseWifiCode` is `parse_wifi_code` with
`read_escaped_value`, as one scan of the payload; `WifiMessage` and `UriMessage`
are the two builders. The module ends with the code read as a whole, which no line of
the program does: which semicolons are escaped, the fields between the others, the
last field of each key (`IsACode`, `ReadWhole`). The scan is measured by it.

**RemoteQr** (`remote_qr.c`, `qrcodegen.c`). `QrEncode` is the choice of version and
level, `RenderBitmap` the bits set for a set of dark modules.

**RemoteLayout** (`remote_display_layout.c`, `remote_font_measure.c`). `Compose` gives
the texts, shapes and button of a state, with the limits of the layout's arrays.
`Whole` is the same before the limits.

**RemoteContents** puts the four one after the other: a message is meant or drafted,
sent, damaged perhaps, delivered and shown; the lock and the link change what is
shown. `Recompose` is `recompose_screen`, which composes twice when there is a tag.
`Mean` is the appliance, as `PROTOCOL.md` and `remote_ndef.h` spell its payloads;
`Damage` and `AcceptedLinesReencode` are the mutations and the oracle of the fuzz
harness.

**RemoteOpening** (`stopbath_remote.c:484-513`). The loop's two clocks: the deadline of
the next attempt to open the link, compared with the tick counter, and the time
of a pass, a difference of two readings turned into milliseconds (`InMilliseconds`).

**PeerShell** (`development_peer_shell.c`). The two ways `main` starts: with `auto`,
searching (`find_application_channel` with `probe_node`), and with a path, by opening
that node and pumping it (`OpenByName`) or ending (`ExitUnopened`). Then `pump`'s
hangup test and `reopen_device`, which searches from the path it has. The host's
kernel gives an attached channel any node that is not open; every other node may be
another device's, which may go away.

**RemoteStartup** composes the two with the cable.

## 4. The abstraction

- **Bytes are units.** A message is two units (STATE and noise one) and a packet
  three or two, for lines of 15 to 129 bytes in packets of 64. Messages straddle
  packets at every offset, and a HELLO fits one packet, as the constants say it
  must. The last unit of a message is its line feed.
- **A line parses if it is one whole message.** The wire's escapes, integers and
  field checks are not spelt out; MALFORMED stands for all of the parser's five
  error codes, which no caller tells apart by behaviour.
- **A record is a screen and an error.** A screen is a model value; `blank` is the
  empty record. Which screens have a code, fit the QR code, or have an NDEF
  message are constants, since those are pure functions of the payload.
- **Time** is the elapsed argument of a tick, 0 to `MaxElapsed`.
- **Names are symbols, the rest is bytes.** In `RemoteContents` a verb, a field name or
  a value of an enumeration is one symbol that has the width of its spelling;
  payloads, tokens, digits, separators and escapes are bytes. Damage within a
  name is not told from another name. A text of the layout is a label with the
  sum of its glyphs' widths.
- **Bounds of the contents are scaled**: a line of 134 for 512, a text of 32 for
  256, a token of 3, a network name of 3 for 32 and a key of 4 for 64, integers up to
  1048575 in seven digits for 2^32 - 1 in ten. The numbers of QR codes and of the
  screen are the real ones; so a delivered payload gets its kind and length for
  the code from `PayloadSizes`, independently of its scaled spelling.
- **Dark modules are any set.** Error correction, masks and the drawing of function
  patterns are not modelled, and no property depends on them.
- **Ticks** are counted modulo `TickValues`; `TickFrequency` and `Milliseconds` (1000 in
  the code) are the ticks and the milliseconds of a second. How long a pass takes, how long ago the
  last attempt was and how long ago the last service are history variables, and the
  first two are kept up to a bound past which nothing differs.
- **A HELLO is two parts** for the shell, cut within the words it is recognised by. The
  device answers an opening well within the time of a probe (`ProbeGivesUp` has
  this as a guard): its loop passes every 50 ms, a probe reads
  ten times, 100 ms apart. The peer's steps begin when the link is open; before,
  there is nothing to find.
- **Counters** of the session are kept modulo `CounterModulus` (2^32 in the code). A
  modulus of 1 takes them out of a run that does not ask about them. The peer's
  counts and the count of dropped input events, which are only logged, are left
  out.
- **The lock** is left FALSE in `RemoteLink`; neither end's view of the link reads it.

Bounds on the environment that are not in the code: `RxUnits` and `HostUnits`
(what the channel holds), `OperatorRoom` (when the operator types), `Epochs`
(how many connections are told apart), `MaxElapsed`, `CounterModulus`.

Liberties of the environment, a constant `Allowed` of `RemoteTransport`. A run
grants what its properties are meant to survive, and a violation run grants the
one that breaks it. The theorems say which liberties they need to exclude, and
`TransportDrivesSession`, `OneView` and `LinkTypeCorrect` exclude none:

| Liberty | Meaning |
| --- | --- |
| `close` | DTR falls with the cable in: the host closes, or enumerates afresh |
| `race` | DTR moves between the read and the store of a re-read |
| `coalesce` | DTR or the cable moves twice within one pass |
| `silent` | the cable is pulled and no suspend arrives |

`PacketSurvivesClose` of `RemoteLink` says whether a packet that the host had not
fetched when it closed the port is still in the endpoint at the next opening.
The code does not flush the endpoint; whether the firmware's driver does cannot
be read from this repository. Both are checked.

## 5. The runs

Passing runs:

| Run | Shows | Bounds |
| --- | --- | --- |
| RemoteSession | for any order of calls and any unit of five messages: the invariants, whole lines at the host, the action property, the refinement of `AbstractSession`, and the retry for ever | queue depth 4 (as in the code), retry after 2, one press, two screens |
| RemoteTransport | with `close` and `silent`: session driven properly, the slot, the send buffer (but for a packet whose slot a close gave back), the open, stale bytes, honest HELLO, and that lasting opens, closes and reported pulls are noticed | queue depth 2, packets of 2 units, 2 units in the channel |
| DevelopmentPeer | the peer's last word is the record it retains, if that can be sent, whatever it is fed; its lines are whole, also when its buffer is full | output of 4 units, every behaviour, two operators; one page that can be sent with some errors only, one that cannot be sent |
| RemoteLink | a press acts only on its own connection | two presses told apart, 3 units in the host's buffers, packets survive a close |
| RemoteLinkRecovery | no mutual waiting; a port that stays open ends with both connected and the record shown, if it can be sent | two presses, one of which turns to a page that cannot be sent; 5 units, a close empties the endpoint |
| RemoteContents | what is accepted encodes again and has, needless escapes apart, one spelling; what is encoded is understood; a phone reads what was meant; codes are the smallest; screens are legible, whole and truthful | networks and addresses at and past their bounds, every status, page and width of a record (`RemoteContentsMC`), one edit per damaged line at every place of four lines |
| RemoteStartup | attempts to open come in time and keep their distance; the session is told the time that passed, in whole milliseconds; the peer finds the device, again after each pull, and pumps nothing else but a node it was given | a counter of 7 ticks, an interval of 3, passes of up to 2, 3 milliseconds to 2 ticks, three nodes, two reads per probe |
| RemoteApplication | surfaces follow the link, locks agree, the session is driven properly, an exit that was queued is honoured | two input events queued, counters modulo 2, a record with a code, one too big for a code |

Why small is enough. The session's buffers interact only through "is there room
for one more" and "where did the drain cut". A queue of one shows full and not
full; a queue of four is the code's; the proofs of section 7 hold for every
depth. Two screens tell "the record" from "another"; two presses tell "this
connection" from "the one before". The transport's races are between one
access and one callback, and every access is a step of its own. The input queue
of two shows an exit behind another event and a full queue, and the theorems about
the application hold for every depth and every set of keys; `RemoteApplicationStale`
queues three. The
liveness runs give the channel room for a whole message.

The contents have no interleaving to speak of: one message goes through at a time,
and the run is a sweep over inputs, chosen where the code branches. Each bound
is met and passed by one: texts, tokens, names, keys, counts, digits, lines, codes
of each kind. Damage puts separators, digits, an escape and a byte outside the
printable range at every place of a line of each verb.

The clock of `RemoteStartup` wraps every seven ticks, so every position of a
deadline relative to the wrap occurs, and the theorems of section 7 hold for every
width. Three nodes tell the device's, one that is open and one that is neither;
the shell's sixteen differ only in how long a search takes. Two reads are one
that finds half a HELLO and one after it. Three milliseconds to two ticks is neither
one to one nor a whole multiple, so that a pass of one tick throws time away; at the
1000 ticks of a second that the firmware has, none is lost. A peer given a path starts at each
of the nodes, the device's, another's or none.

A pull that no suspend reports cannot be noticed. `PullIsNoticed` does not ask for
it: `unreported` marks such a pull until the cable is back. `SendBufferIsLeftAlone`
is checked with the host's closes, and holds with them but for one case, which
`abandoned` marks: a packet was in flight when its port closed and the slot was
given back. From then on the exception lasts until that packet is taken while the
slot is free, or a close finds none in flight. The rewrite that may happen then is
in section 8.

`ExitIsHonoured` starts when a long back press is anywhere in the queue and the loop
anywhere in its pass, so the link, the host and further presses go on around it. It
asks for the exit unless the screen will be locked when the press is reached, which the
lock and the events ahead of it decide (`LockedOnReaching`). A press that met a full
queue never was in it.

The application's runs say `CHECK_DEADLOCK FALSE`, because the application exits.
All others check for deadlock.

A few invariants are proved and in no run, because a theorem says more than an
instance: `LinkTypeOK`, `AppTypeOK`, `StartupTypeOK`, `OneViewOfThePort`,
`PayloadOnlyWhileConnected`, `GuardIsNeverReached`.

Each property has a mutant in `PROJECT.json`: one definition of the model changed
as a plausible bug would change the code (a dropped reset, a skipped count, an
edge not told to the session). The property fails on it.

## 6. Fairness

- `RemoteSession` (stated in `RemoteSessionTrace`): weak fairness of `TimePasses`. The main loop ticks the session
  in every pass and a pass takes time. Nothing is assumed of host or operator.
- `RemoteTransport`: weak fairness of `Service` (the loop keeps running) and strong
  fairness of `ChannelEmpty`. The receive loop at `remote_transport.c:243` ends
  only when it finds the channel empty; nothing in the code bounds it. That a
  channel found empty time and again is at last left says that the host writes
  more slowly than the loop reads. The outside world owes nothing.
- `RemoteLink`: weak fairness of every step of the two loops and of the hardware's
  delivery; strong fairness of the peer's read, because the shell reads in every
  pass before it takes a command. No one has to press, open or close.
- `RemoteStartup`: weak fairness of the loop's steps and of time while the link is
  closed, of the peer's steps, of the host's enumeration of a plugged cable, and
  of the arrival of a HELLO. Strong fairness of its arrival in one piece
  (`Answer(2)`): a HELLO is 49 bytes in one packet of 64, so it is hardly ever split,
  and one that were split for ever would never be recognised.
- `RemoteApplication`: weak fairness of the main loop, strong fairness of the end
  of its receive step, for the reason above.

## 7. What is proved

TLAPS checks these for every value of the constants that satisfies the named
assumptions: `WireAssumption` (finite, positive line lengths within the bound),
`SessionAssumption`, `HelloFitsPacket`, `TransportAssumption`,
`ApplicationAssumption`, `PeerAssumption`, `OpeningAssumption`, `ShellAssumption`. The
contents have more, because their constants are the buffers of the program:

- `CodecAssumption`, `NdefAssumption`: sizes are numbers, and a short record's length is a
  byte; `NamesAssumption`: how long the names of the tables are; `DigitsAssumption`: there
  is room for the digits of the greatest integer (`remote_protocol.c:11`);
- `ContentsAssumption`, `InputsAssumption`, `MeaningsAssumption`: what is given to the runs
  is of the kind the program takes: bytes, symbols, printable texts;
- `RoomAssumption`: the buffers are large enough for each other. A line has room for the
  longest HELLO and for a record whose text has no escapes; a text for the greatest
  network, all of it escaped; a tag for that network's credential. With the
  program's numbers: 36 + 10 + 32 and 86 + 256 of 512, 18 + 2 * (32 + 64) of 256,
  44 + 32 + 64 of 256.

TLC evaluates each of them in the runs.

`HelloFitsPacket` (a HELLO is no longer than a packet) is a fact about the build.
The token is fixed at compile time and the bound is met by any token up to 27
characters. It is needed: a HELLO that leaves in two packets could be cleared by
the retry after its first half, and two half lines would be read as one.

**The session** (`RemoteSessionProofs`). The inductive invariant is

```
IInv == TypeOK /\ HonestCount /\ OnlyHelloWhileHandshaking
        /\ NoPressWaitsForALink /\ PayloadOnlyWhileConnected
```

No conjunct but the last is inductive alone. `HonestCount` (the message count is
the number of line feeds in the output) needs the type of the output. That a
retry may clear it needs `OnlyHelloWhileHandshaking`, which in turn needs the
count and `HelloFitsPacket`: one drain takes the whole HELLO or there is none.
`NoPressWaitsForALink` needs it too, for the step from handshaking to connected.
There is one lemma per action, and lemmas on `Terminators` (of an appended
message, of a drained suffix) and on the line assembler. Theorems:
`TypeCorrect`, `CountIsHonest`, `HandshakeQueuesOnlyHello`,
`NoPressCrossesAReconnection`, `PayloadIsCleared`, and the action property
`ConnectionsEndCleanly`.

**The byte bound** (`RemoteSessionTraceProofs`). `queue_message` refuses for two
reasons: too many messages, or too few bytes. `BackstopIsIdle` says that the
second never decides. It does not follow from "n messages take at most n lines",
which a drain that cuts a message breaks. The strengthening is
`EverySuffixBounded`: every suffix of the output is no longer than its own
terminators times the longest line. Appending a message and dropping a prefix
both keep it.

**The session over its whole execution** (`RemoteSessionTraceProofs`). Two results
are about recursive functions: `ReadBy`, what the host's line assembler makes of a
packet, and `MessagesEnding`, the messages whose line feed is in a buffer.

The induction they need is done without the library's induction theorems, which take
a formula as a parameter. `EveryNaturalIsReached` says of a *set* of naturals
that it is all of them if it holds 0 and with each number the next; it follows from
the well-foundedness of `<`. To prove something of every n, one proves it of the set
of those n that have it. `EverySequenceIsReached` does the same for sequences, which
grow at their end. `RecursionIsDefined` and `RecursionIsUnique` then say that a
function written by recursion over `0 .. N` exists and obeys its own equation, and
`ReadingIsStepwise` and `EndingIsStepwise` are those equations for the two functions.

- `LinesStayWhole` (`WholeLines`): the invariant is `HostInStep`, that the host's
  half line and the output belong together: what the host has of a message is its
  beginning, and the output goes on exactly where that beginning stops (`InStep`, in
  `RemoteSessionProofs`). Reading one unit keeps it; hence so does reading a packet,
  wherever it was cut. A retry may clear the output because a HELLO is either all
  of it or not there.
- `SessionKeepsItsPromise` (`ImplementsMirror`): `Mirror!Init`, and each action of
  the session as a step of `AbstractSession` or a stutter. A message queued is one
  appended to `pending`, since `MessagesEnding` of a join is the join
  (`EndingsJoin`); a drain takes a prefix off `pending`; and `HonestCount` makes the
  test of the message count in the code the test of the length of `pending`
  (`EndingsAreCounted`).

**The transport** (`RemoteTransportProofs`):

- `TransportDrivesSession`: every behaviour of the transport is a behaviour of the
  session's specification, from `DrivingInv`: the session's link is down exactly
  when the transport holds the port closed, and what it may receive was written
  by the host. So the session's theorems hold inside it; `ClosedPortIsClean` (no record
  shown and nothing at all in the output of a closed port) is drawn that way, from
  `PayloadOnlyWhileConnected` and `DownIsEmpty`. `OneView` is the first half of `DrivingInv` by itself.
- `LinkTypeCorrect`, with the flags, semaphore and byte fields in separate parts.
- `SlotComesBack`, if `coalesce` is not allowed: a taken slot has a packet in
  flight, or a closed edge about to return it. The strengthening says for each
  place of the loop which of the two.
- `OpenIsNeverMissed`, if `race` is not allowed.
- `SendBufferIsSafe` (`SendBufferIsLeftAlone`), whatever is allowed. By `BufferInv` a
  packet in flight that was not abandoned holds the slot and the loop is not writing;
  and the loop writes only with the slot in hand.
- `HelloIsForSomeone` (`HelloAnswersARealOpen`), if neither `race` nor `coalesce` is
  allowed. `RealInv` says that the cached DTR outlives the line only while the port is
  still open, so that no edge can open on it, and is not set without the cable but
  while it is seeded. It rests on `CatchInv`, the invariant of `OpenIsNeverMissed`.
- `NothingStaleIsHeard` (`StaleBytesAreDropped`), if `coalesce` is not allowed. By
  `StaleInv` bytes outlive their opening only until the pass that closes the port has
  drained them; a new opening finds some only if it comes between the close and that
  drain, which throws them away. A race on the line does not disturb this.

These conditions are not conveniences: section 8 says what happens without each
one that the code does not guarantee.

**The application** (`RemoteApplicationProofs`): `ApplicationIsASession` (each step
of the application is a step or a stutter of the session), `SessionPromisesHold`
from it, `TheLocksAgree` and `GuardIsIdle` from `LockInv`, and
`CredentialIsNeverLeft` from `SurfacesInv`, which ties layout and NFC message to
the record for each place of the loop. `ApplicationIsTyped` types the whole of it,
the session within included.

**The peer** (`RemoteLinkProofs`). The inductive invariant is

```
PeerInv == PeerTypeOK /\ SilentIsEmpty /\ RecordsAreSentWhole /\ LastWordIsCurrent
```

Every step appends one sequence of units to the output or none, so the proof is
one lemma on appending, and one fact per step about what it appends: that it is a
line, and shows the record retained. `SilentIsEmpty` is needed because a silent
peer changes its record without saying so: it may, having said nothing before.
Theorems: `PeerIsTyped` (the output never passes its buffer), `LinesAreWhole`,
`TheLastWordIsTrue`. They hold for every set of records that can be encoded. The
last speaks only while the record retained is one of them: the demo script or the
operator may turn to one that is not, and then the last word is the record before.

**The link** (`RemoteLinkProofs`), for every length of message, packet and buffer, and any
number of presses. `LinkTyped` says that the two ends keep the invariants
they have by themselves (`EndsKeepTheirWord`), so each of their lemmas holds here.

- `NeitherWaitsForTheOther` (`TrustIsMutual`). Output, endpoint and the host's buffer
  are one sequence, `OnItsWay`, read from the left. `AtRest` says that a closed port
  leaves nothing of it to be read. `Heard` says that during a connection the reader is
  in step with that sequence, and that while the handshake is not complete the first
  message of it is a HELLO. The property is `Heard` seen from the connected state.
  There are two hypotheses.
  *No packet survives a close*: without it the property is the finding of
  `RemoteLinkWedge`. *No behaviour rejects every version*: an appliance that does
  refuses a HELLO with a record, and the device takes any record for an
  acceptance.
- `OldPressesAreIgnored` (`PressesActOnTheirOwnConnection`), with packets that survive a
  close. The invariant `Apart` says of the same sequence that no line feed
  of an old press comes behind one of a HELLO, and that none is left once the
  handshake is complete. Before it is complete the appliance refuses every press; a
  HELLO that completes it has every old press before it. The hypothesis is that a HELLO
  and a BUTTON do not fit in one packet, so that the one packet that survives cannot hold
  the end of both. In the program each takes about fifty bytes, of 64.

**The opening clock** (`RemoteStartupProofs`), for every width of the counter,
interval and length of a pass. Time is told twice, by the counter and by the
history variables, and the invariant `OpeningInv` says that they agree: the last
service was `since_service` ticks ago (`ServiceIsKnown`), and while the deadline
cannot have been passed over, the counter stands where `since_attempt` says
(`DeadlineIsKnown`). Theorems: `OpeningIsTyped`, `AttemptsComeInTime`, and the action
properties `AttemptsKeepTheirDistance` and `ElapsedTimeIsReal`. `StartupIsAnOpening`
carries them into the composition with the peer.

**The search** (`RemoteStartupProofs`), for any number of nodes and reads.
`OnlyTheApplicationIsPumped` needs `ChannelIsKnown`: a channel that is the application's is
the one attached, and keeps its node, because the kernel gives a new one no node that
is open; only the application says HELLO; and a peer that searches or probes is no longer
bound to the node it was given. `StartupIsTyped` types both ends.

**The contents** (`RemoteContentsProofs`), for every line received, every payload and
every order of records, locks and losses of the link. Two invariants carry them:
`ScreenIsComposed`, that the screen is the composition of the state it is shown for,
though it is composed in two steps; and

```
ShownInv == /\ CanBeShown(display)
            /\ display.nfc_presenting = (tag # NoMessage)
            /\ tag # NoMessage => ShowsTheRecord(display) /\ ShowsACode(display)
```

`CanBeShown` says that the values of a record are those of the tables; it is drawn from
the parser (`RecordsAreValid`: a line that is accepted has no field that was refused).

- `CodeIsNeverCovered` needs the first alone: also for a record outside the tables
  each part of a page with a code stands in the column or the marker's place, and a
  prefix of the parts does too.
- `CodeIsWhatTheStandardSays` (`CodeIsTheSmallest`). `HoldsWhatTheStandardSays` is the
  arithmetic: for each version, level and kind, the bits of a segment fit the data
  codewords of the tables exactly up to the capacity the standard lists. That the
  search then ends with the smallest version and the best level follows, because
  capacities grow with the version and shrink with the level.
- `ScreenCanBeRead` (`ScreenIsLegible`) goes by parts. `Tidy(part, region, n, m, cut)`
  says of a part that it keeps to a region, that its texts are clear of each other and
  of bands not their own, that it has at most n shapes and m texts, and that only labels of
  `cut` are cut. Each line, header, band and column is shown tidy in its rows;
  `TidyTogether` says that two parts in regions apart make one. So the whole screen is
  tidy with 3 shapes and 8 texts: within the limits of the layout's arrays (6 and 8),
  which drop nothing. In the rows of the button nothing stands.
- `ScreenAndTagAgree` (`TheScreenTellsTheTag`): what each part says of a tag, put
  together; `ShownInv` ties it to the tag that is presented.
- `BitmapShowsTheCode` is about the renderer alone: for every version and every set of
  dark modules, a pixel is dark exactly when a dark module covers it.

**The spelling** (`RemoteCodecProofs`, and `RemoteContentsProofs` for what becomes of
it). That reading undoes spelling is an induction at every level, done with sets
as described above, for every text, number, line, message and payload:

- *Texts.* `ScanOf` appends by steps. Behind the encoding of a text the scan of
  `decode_text` stands with that text and no escape begun; a text that was decoded has,
  encoded, at most the width of what was read, and is spelt the same if nothing was
  escaped without need.
- *Numbers.* The digits of n are read as n: no step overflows because the number so far
  is at most n. A numeral without leading zeros is the digits of its number.
- *Lines.* `Joined` puts tokens together with separators and `Tokens` takes them
  apart; each is the other's inverse on what has no space within.
- *Messages.* `EncodedIsReceived`: a message that is encoded is received as itself, with
  its fields in any order. `ReceivedIsEncoded`: a line that is received says a
  valid message, and the line encoded from it is no longer, is received the same and,
  but for needless escapes, has the same tokens.

Theorems:

- `EveryLineHasOneMeaning` (`LinesHaveOneMeaning`) and `EveryMessageGetsThrough`
  (`MessagesGetThrough`), from `LinesInv`: the line is of the codec's symbols, and the
  message is one of the tables, with a printable payload, whatever was damaged. The
  second also shows that refusals are for escapes alone: the frame of each verb
  is summed from the widths of its names, and `RoomAssumption` says that it fits.
- `ThePassReadsTheCode`: for every sequence of printable characters, the pass of `parse_wifi_code` accepts
  exactly what `IsACode` calls a code, with the values of `ReadWhole`. The invariant of
  the induction over the bytes is `PassIs`: either the pass stands, after n bytes, where the
  cuts say (before a key, its colon, a byte or an escaped byte of a value, the end), with
  every field begun so far read as far as n; or it is BAD and the code is not `Sound`,
  whatever follows. `EveryCodeIsReadWhole` (`WifiScanAgrees`) is this for every payload that
  arrives, well-formed or damaged.
- `PhoneReadsTheMeaning` (`PhoneReadsWhatWasMeant`), from `MeantInv`: while something is
  meant, either it waits (the message is the appliance's record of it, and the line, if
  there is one, that record's encoding), or it is shown, and the tag is `TagOf(meant)`.
  So a phone reads, through the appliance's escaping, the percent escapes, the line, the
  parser and the builder, the name and key of the network byte for byte, or the
  address but for the case of its scheme; and it finds no tag only if the name, the key or
  the address was too long for one.

## 8. Where the code and its words disagree

Each is a `violation` run, with the line and the words quoted in `PROJECT.json`
under "findings".

| Run | What it shows |
| --- | --- |
| RemoteTransportRace | DTR is read and stored in two steps; a callback in between is overwritten, and the open stays unseen until DTR moves again |
| RemoteLinkWedge | with a packet left from before a close, the HELLO is spoilt, the refusal is taken for the acceptance, and HELLO is not sent again |
| RemoteApplicationStale | a press that waited in the input queue over a reconnection is reported on the new connection |
| DevelopmentPeerUnanswered | the demo script turns to a record that cannot be encoded; the link drops, and the next HELLO completes the handshake and gets no answer |

`RemoteTransportRace` is the one that contradicts the code's own argument for
doing without a lock. The window is a few instructions. The others are
disagreements with a comment or a document.

The rest have no run of their own. For some of them a property is stated which TLC
finds violated when it is put into the configuration named.

Of the transport. A close and a reopening within one pass leave no edge, and the
host gets no HELLO (`remote_transport.c:221`; `remote_session.h:8-9` says that the
opening of a channel sends one); grant `close` and `coalesce` and check
`EveryOpeningIsGreeted` to see it. A closed edge frees the send slot though the
host only closed the port and the packet may be in flight (`remote_transport.c:235`),
and the next HELLO is then written over the buffer that packet is read from;
`remote_transport.c:58-59` says the buffer is never reused then. Whether the firmware
still reads it cannot be read from this repository. `SendBufferIsNeverReused` in
`RemoteTransport.cfg` shows it.

Of the opening clock (`stopbath_remote.c:501`). A deadline in the last pass before
the counter wraps may be jumped, and the next attempt then comes a turn of the
counter later (49.7 days), though 50-53 has an attempt every interval:
`AttemptsNeverStall`, an invariant, in `RemoteStartup.cfg` shows it. It takes the
USB mode locked over the wrap. A deadline past the wrap makes every pass until the
wrap try again. `AttemptsAreTimely` and `AttemptsArePaced` name these two cases, and
hold in all others. The clock of the handshake loses up to a millisecond in each
pass where a tick is not a whole number of milliseconds
(`stopbath_remote.c:510-511`), though the comment at 506 speaks of "the real time
elapsed"; at 1000 Hz it loses none, and `ElapsedIsReal` has the bound for any
frequency.

Of the peer's shell. With a path it pumps that node, the command line's too
(`development_peer_shell.c:299-301`); "a device path drives that node" (281) says no
more. Its HELLO, if the node is the device's, then comes by `pump` as any other bytes.

Of the contents. `PROTOCOL.md:141` calls the length bound "the payload bound plus
every other field at its longest plus framing, with room". Escapes are not in
that sum: a payload within its 256 bytes may take 768 on the line, and such a record
is not sent, silently (`development_peer_core.c:45-51`). `RefusalIsForEscapes` says that
nothing else is refused so. `PROTOCOL.md:108` gives codes eleven characters "because
that is what fits" beside a code; NOT_ALLOWED has eleven and is 68 pixels in a
column of 66, and is cut (`NothingIsCut`). The comment at
`remote_display_layout.c:105-107` says header word and NFC marker touch only when
locked; unlocked they do (both at 108), locked they are four pixels apart.
`remote_protocol.h:53-54` says nothing is written when a line is too long; the bytes
before the bound were. The layout's words for an unknown status cannot be reached
through the parser.

Of the session. A lock change that finds four messages waiting is dropped, and not
repeated until the next change or handshake (`remote_session.c:197`; `PROTOCOL.md:65`
says STATE is sent when the screen is locked or unlocked): `LockIsTold` in
`RemoteSession.cfg` shows it. The abstract session allows the drop, so
`ImplementsMirror` does not notice. A press
with no link up is dropped without being counted (`remote_session.c:146`; `remote_session.h:128` says
it is counted). A press on a locked screen is swallowed by the input model before
the guard counter could count it (`docs/DIAGNOSTICS.md:65` says that it counts
these); `GuardIsNeverReached` is that fact.

## 9. Only model-checked; not modelled

Only model-checked:

- liveness: TLAPS does not handle fairness and ENABLED;
- of the link, its behaviour when an appliance rejects every version.

The liveness properties are `HandshakeIsRetried`, `PortFollowsTheHost`, `PullIsNoticed`,
`LinkRecovers`, `PeerFindsTheDevice` and `ExitIsHonoured`. Every invariant and every action
property that a run checks is a theorem as well.

`RemoteLink` drives the session by the calls that `RemoteTransport` was shown to
make, instead of including the transport's flags: the device sees each close
before the next open, so the findings on reopening do not appear there.

Not modelled: the error correction, masks and modules of a QR code; glyphs and the
drawing of a layout on the canvas, which takes the mutex around every access and
is one step with publication; charge suppression; the command line on channel 0;
the shell's standard-input mode, the parsing of its commands, and a path given to it
that is none of the sixteen nodes or is cut by the buffer of 32 bytes; the counts that
are only logged, and logging; the test programs.

In `RemoteLink` a probe may fail at any time, and is not tied to a node;
`RemoteStartup` has the nodes and the reads, and no session behind them: the HELLO
that it hands over is the one `RemoteLink` starts from.

## 10. The plan

Written, checked and proved about: wire, session with its trace and abstraction,
transport, peer, link, application and input model; codec, NDEF, QR and layout with
their composition; the opening clock and the shell's search with theirs.

Left, the more valuable first:

1. **One composition of link and search**: `RemoteLink` over the nodes of `PeerShell`.
   The two agree on what passes between them, which is argued in section 9 and
   not checked.
2. **A second codec refinement**: that `RemoteWire`'s "one whole message" is what
   `RemoteCodec` accepts. It needs the units of one to be mapped to the bytes of the
   other; `EncodedIsReceived` and `ReceivedIsEncoded` are the facts it would rest on.

The number of runs is kept small on purpose: each asks one question of one
component, and a new component takes a run of its own.
