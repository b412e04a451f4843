# Verification of m17: decoder, frames, modems, gateway, client and reflector

TLA+ models of the concurrent and stateful core of this repository and of its channel code, checked with TLC on small
instances and, where a property matters most, proved with TLAPS for every instance. Paths are
relative to the repository root, `decoder.go:154` is a line of it.

1. [The system](#1-the-system)
2. [Modules and the code they stand for](#2-modules-and-the-code-they-stand-for)
3. [What TLC checks](#3-what-tlc-checks)
4. [Fairness](#4-fairness)
5. [What is proved](#5-what-is-proved)
6. [What the code does that it should not](#6-what-the-code-does-that-it-should-not)
7. [What is not modelled](#7-what-is-not-modelled)
8. [Plan](#8-plan)

## 1. The system

The repository is a library for M17, a digital radio mode, with a gateway (a hotspot or repeater)
and a bridge (a reflector that carries messages to IRC, Discord and APRS) built on it.

```
  radio ~~ modem (CC1200, SX1255, MMDVM) ── symbols ──> sync detection ── frames ──> Decoder
              ^                                                                        | callbacks
              |   TransmitVoiceStream, TransmitPacket                                  v
              +───────────────────────────────────────────────────────────────────  Gateway
                                                                                       ^ | handlers,
                                                                                       | v SendStream
   IRC, Discord, APRS <── modules of the bridge ── InetServer <──── UDP ────> InetClient
```

| Component | State it keeps | Operations | Goroutines that share it |
|---|---|---|---|
| RF decoder, `decoder.go` | one reception: sync, link setup (LSF), frame and chunk counters, LICH parts, timeout count | `DecodeFrame` by type of sync word, RX timeout | one: the modem's receiver |
| Sync detection, `modem.go` | correlation over a symbol stream | `processSymbolStream` | one |
| Gateway, `cmd/m17-gateway/gateway.go`, `audio.go` | `gatewayState`, echo recording, last net stream, LSF and `lastFrameTimer`, clips | five decoder callbacks, `TransmitVoiceStream`, `TransmitPacket`, echo and spoken replies | modem's receiver, client's handler, timer, one per reply |
| Reflector client, `internet.go` | `connected`, `connecting`, `running`, `retryCount`, `conn`, `pingTimer` | `Connect`, `Close`, `handle` (ACKN, NACK, DISC, PING, data), retry loop | program, handler, retry loop; **no lock** |
| Reflector, `server/inet_server.go` | map of clients, two timers each | `handle` (CONN, LSTN, DISC, PING, PONG, data), timers, `lookupClientsByModule`, `Close` | handler, two timer functions per client, modules |
| APRS module, `server/aprs_module.go` | connection, users with the times they were heard and reported, filter at the server | `HandlePacket`, `HandleStreamDatagram`, `readLoop`, `removeStaleUsers` | the handler, the read loop, the removal loop |
| IRC and Discord modules | connection, users | `HandlePacket`, receive loops | one each and the handler |
| SX1255 modem, `sx1255_*.go` | `txState` under `txMutex`, `txTimer`, the control register of the chip | `TransmitPacket`, `TransmitVoiceStream`, `startTX`, `stopTX`, `sx1255SetMode`, `Start`, `Close` | everybody who transmits, the timer's function, the program |
| CC1200 modem, `cc1200_modem.go` | `txState`, `txTimer`, a channel for one answer | a command and its answer per operation | the same, and the reader of the port; **no lock** |
| MMDVM modem, `mmdvm_modem.go` | `sendCmds`, the firmware's `space`, protocol | bring-up, `modemSend`, `modemReceive`, transmitters | everybody who transmits, sender, receiver |
| Pure algorithms: `golay.go`, `codec.go`, `packet.go`, `lsf.go`, `encoding.go`, `crc.go` | none | encode, decode | none |

How they interact: the modem calls the decoder, which calls back into the gateway from the same
goroutine; the gateway sends to the reflector through the client, whose handler calls the gateway's
`TransmitVoiceStream` and `TransmitPacket` from its own goroutine. Client and reflector exchange
UDP datagrams: CONN is answered by ACKN or NACK, the reflector sends PING every 3 seconds and
drops a client after 30 without PONG, the client retries after 30 without PING.

What makes it hard, and what has to hold:

* **Decoder.** Any frame may be missing or wrong, and the ends of transmission (flag, marker,
  timeout) are redundant. Voice must go out under the station that speaks; an over ends once; the
  `*LSF` is nil until a CRC was right; slices are cut by byte arithmetic; the timeout counts calls.
* **Gateway.** One state for everything it does, set back to Idle by goroutines that do not look at
  it; a backstop timer that shares three unprotected fields with the handler.
* **Client.** Six unprotected fields, and a retry loop that a late PING can start a second time.
* **Reflector.** Timers that are stopped and reset by goroutines racing their functions; a second
  CONN from an address; a map walked without its mutex.
* **Modems.** A timer that switches the transmitter off under a writer; a register several goroutines
  read and write back; a channel of answers shared by commands that do not know of each other; a
  queue and a buffer whose room is known only from late reports.
* **Channel code.** Interleaving, puncturing, Viterbi and Golay have to fit bit by bit, and the
  constants that correct the error count have to fit the puncturing.
* **APRS.** A filter that has to follow users through broken connections; a limit on reports whose
  memory goes with a stale user.

`PROJECT.json` lists these hazards at their lines, with the properties that would show them.

## 2. Modules and the code they stand for

| Module | Stands for | Notes |
|---|---|---|
| `RFCallbacks` | signatures of the five callbacks | payloads left out |
| `RFSession` | what the decoder promises the gateway | the abstract specification: a session, callbacks inside it, frame numbers that grow, one end |
| `RFDecoder` | `decoder.go`, `DecodeFrame` and all below it | one step is one call; each case of the switch is a function on the struct, composed with the RX timeout as in the code. Implements `RFSession` |
| `RFAir` | a decoder and stations in turn, with voice and packets | extends `RFDecoder`: units lost or garbled, flags inverted |
| `InetServer` | `server/inet_server.go` | handler cut at every shared access; `Clients` are objects, not addresses |
| `InetClient` | `internet.go` | handler and retry loop cut at every statement that touches a shared field |
| `NetVoice` | `TransmitVoiceStream` of `gateway.go` and the function of `lastFrameTimer` | statement by statement |
| `Gateway` | `received*` of `gateway.go`, echo and messages of `audio.go` | composed with `RFSession` through `INSTANCE`: the decoder's side is the abstract specification |
| `Frame` | `codec.go`, `golay.go`, `crc.go`, the frame generators of `modem.go` and `packet.go`, the frame decoders of `decoder.go` | bit by bit, in real sizes |
| `SX1255` | transmit side, bring-up and `Close` of `sx1255_modem.go`, `sx1255SetMode` | steps of each goroutine between two accesses to shared state |
| `CC1200` | `cc1200_modem.go` | operations are series of commands; port, firmware and answer channel between them |
| `MMDVM` | `mmdvm_modem.go` | bring-up, then three loops over a queue, a line and a buffer |
| `APRSModule` | `server/aprs_module.go` | its names begin with APRS where `InetServer` has the same |
| `*_proofs` | theorems about the module of that name | `RFDecoder_proofs` also about `RFAir`, `InetServer_proofs` also about `APRSModule`, `Gateway_proofs` also about `InetClient` |
| `MC*` | instances for TLC | values and symmetry only |

**RFDecoder.** `dec` is the struct, field by field (`decoder.go:25-48`), `out` the callbacks of the
last call. A frame is what its soft bits decode to: an LSF, garbage (the CRC refuses), a frame
number with its LICH chunk, a packet chunk with its control field. `OnLSF`, `OnPacket`, `OnStream`
and `OnEOT` are the cases; `RxTimeout` is the test that ends every call. `packetData` has a slot for
every 25 bytes: a chunk goes to the slot its number says, and a CRC is right when the slots hold the
chunks of one packet, each in its place. Counters keep their width: `FNMod` is 2^15 and `ByteMod` 2^8
in the code, and both are parameters; a slice expression whose bounds wrap in their byte panics
(`crashed`). Reassembled LSFs are good only when all chunks are of one LSF, which is what the CRC
makes of a mixture.

**RFAir.** The overs in `Overs` are sent round and round, a unit a step. Their lengths have no bound: the
frame number of a long over wraps, as on the air. `entry` is history, how the decoder came to the over:
by its own link setup (`"own"`), without it but with nothing left of the over before (`"late"`), or
otherwise (`"stale"`); `flipped` says that a flag of this over came out inverted, `ends` counts the ends
that were reported since it began.

**InetServer.** `hnd` is where `handle` is: between a look-up and what is done to the client it
found, timers may run. `obj` holds client objects, each with its timers and where their functions
are. `CONN` overwrites the map entry and forgets the old object, as the code does, and its timers
run on. A map written while it is walked may stop the program (`up`); what the walk finds is
nondeterministic for entries deleted meanwhile. The modules are one sender that walks the map. History:
`silent` counts the ticks since an address sent a keep-alive or a CONN, `joined` those since a CONN.

**InetClient.** `handler` and `loop` hold as many goroutines as the program may have started. The
handler reads `r.conn` anew in each round. A step is one access to the shared fields; sleeps are
counted in ticks. A read returns whatever the reflector can send, or fails. `UserSend` is what the
gateway sends while the client is open (`internet.go:213-234`). A method call on a nil `r.conn` sets `crashed`;
`denied` is history: a retry could not have a socket.

**NetVoice.** The places of `HandlerPlaces` and `CallPlaces` are the statements of
`gateway.go:437-471` and `450-459`. Timer objects are allocated by `Arm`, and one may run on after
it was replaced. `raced` is history: whether both were ever at work at a time. `NoStream`, 0xFFFF, may be
the identifier of a stream. There is one handler; what two of them (`internet.go:189`) do to the fields
is not modelled.

**Gateway.** A step is one `DecodeFrame` with its callbacks, applied in order to `gw`, or one step
of a goroutine: `tasks` counts how many echoes and replies are where. `NetTimeout` is what the
timer's function does to the gateway's state; when it happens is `NetVoice`'s affair, and here it
may be at any time. `unended` marks a busy gateway whose over was given up or replaced by the
decoder without an end being reported; until it is Idle again nothing is claimed of it. No over
has to end: an over that holds the state may do so for ever.

**Frame.** A behaviour sends one frame over a burst. The encoders are functions of a bit's place, so
that a frame is composed as the air sees it: `AppendBits` is what `RandomizedBit` makes of what
`interleaveSequence` makes of the punctured code (`codec.go`) or of the Golay words (`golay.go`). The
decoder is stepped: `decodeBit` is one call of `ViterbiDecoder`'s, `chainback` one turn of its loop.
The CRC is computed over a table as in `crc.go`, on sets of bits, and so are Golay words. Costs are exact:
`softTrue` is 0xFFFF, and `softMaybe` its half. `FrameAssumption` gives the contents of frames the
code's sizes, and leaves bursts any length.

**SX1255.** `pc` says where a goroutine is in `startTX`, the writing of its blocks or `stopTX`; the
lock is held at the places of `InStart` and `InStop`. `sx1255SetMode` is a read and a write of
`ctrl`, which `Start` and `Close` do without the lock. The readback of `EnableTX` fails if somebody
wrote between. `burst` is what went on air since the last start. `TimerRuns` bounds how many runs of the
timer's function exist at a time. History: `cut` (somebody writes on in a transmission that was
stopped), `overlap` (two calls of one kind), `stray` (why the transmitter is on without a start).

**CC1200.** `todo` is what a goroutine's operation has still to do. A command begins with dropping what
the channel holds (`Clear`); then it is written (`Send`), answered by the firmware (`Answer`) into
`cmdSource`, and taken (`Receive`) or given up (`TimeOut`). Answers may come between all of these, and debug
texts of the firmware (`Texts`), which pass for an answer or a refusal. `stopRX`, `stopTX` and `start` decide first
whether there is a command to send (`Proceed`), and others may come between. The firmware's refusals and
its full buffer are what the code is prepared for. `worst` is history, the worst that has happened to the
commands: `"crossed"` is a command that was begun while another was under way, given up or not.

**MMDVM.** `modemSend` is three steps (`Check`, `Write`, `Decrement`), for `modemReceive` may store a new
`space` between them. Answers in the line carry, as history, how many frames were written since
they were asked for. With `ShortStatus` a status of protocol 1 has no byte for the room M17 has, and counts
as one of no room (`RoomIn`).

**APRSModule.** A tick is a unit of the periods. The server forwards what `filter` names, from the login
(`connect`) or from `updateFilter`; a line sent to a connection that broke unnoticed is lost. A user that
goes stale takes the time of its last position report with it, so that reports are as far apart as
`Spacing` says: `ReportPeriod`, or `StaleTimeout` where that is configured to be less.

## 3. What TLC checks

| Run | Bounds | What it shows |
|---|---|---|
| `air` | 2 voice overs, of 3 and 4 frames, with frame numbers below 3, and 2 packets, of 2 and 4 chunks of 3 bytes counted in 3 bits; 2 LICH chunks, timeout of 2 calls; any unit lost, link setups garbled, any flag inverted (523,000 states) | no use of an unchecked LSF (`LSFKnown`), chunks in their places (`PacketInOrder`), what becomes of packets (`PacketHandled`), `RFSession` implemented (`ImplementsSession`), `RightStation`, `HeardIsForwarded`, `EndsOnce`, `MarkerTerminates`, and `SyncReleased` under fairness |
| `last_flag` | voice overs of 5 and 7 frames that do not wrap; voice lost, flags inverted | refutes `FlagDoesNotMute` (section 6) |
| `server` | 1 address, 1 module, 2 client objects alive, pong 2 ticks, ping 1, any number of CONNs (561,000 states) | `EntriesTimed`, `DroppedWhenSilent`, and `SilentIsDropped` under fairness |
| `reconnect` | the same | refutes `OnlySilentDropped` (section 6) |
| `client` | 3 sockets, 2 handlers, 2 loops, period 2, 2 retries | `ConnectedIsWatched`, `PanicNeedsDenial` |
| `net_voice` | 3 streams, one identified by `NoStream`, 3 timer objects, 2 calls (814,000 states) | `BackstopArmed`, `PanicNeedsRace`, and `StreamEnds` under fairness |
| `gateway` | one LSF of each kind, 2 goroutines that answer (109,000 states) | `StateMatchesSession`, `RecordingOfOneStation`, `CommandsStayLocal`, `BackToIdle` |
| `frame` | one frame of each kind in real sizes, 101 bursts each: 4 symbols opposite at 0, 4, 8 and so on, mirrored at 2, 10, 18, lost at 6, 14, 22, and 19 symbols at 10 places (122,800 states) | `SurvivesBurst`, `LICHSurvives`, `ErrorsBounded`, `WrongLSFRefused` |
| `sx1255` | 2 callers, 2 runs of the timer's function, 1 chunk, with symmetry (2.3 million states) | `Guarded`, `NeverDeaf`, `BurstOfOneKind`, `LinkSetupFirst`, `WaitersWoken` |
| `cc1200` | 1 caller, timer and program, 1 setting, 1 chunk, 1 command on the line (1.1 million states) | `QuietAgrees`, `MixupNeedsCrossing`, and `StopsTransmitting` under fairness |
| `mmdvm` | 1 caller, overs of 2 frames, queue of 2, buffer of 3, 2 tries, 2 requests on the line, firmwares of both protocols, the first with short statuses, and of an unknown one (838,000 states) | `OverrunNeedsStale`, `RunsConfigured`, and `QueueMoves` under fairness |
| `aprs` | 3 stations with 2 APRS callsigns, users stale after 1 tick, reports due after 2 (82,000 states) | `FilterCoversUsers`, `PositionRate`, and `UserReached` under fairness |

Why the bounds are enough. `air`: three frame numbers and the flag hold every relation between
expected number, received number and sentinel; one over wraps and one does not; each voice over carries
the LICH at least once, and two LICH chunks can come from two stations; one packet fits its byte and
one does not; a timeout of two is reached in every state. Garbled LICH and packet chunks, and frames in an
order no station sends, are left to the theorems. `server`: with two objects a new client meets the timers of
the one it replaced; one address suffices, for entries of different addresses share nothing but
the walk. What the walk finds, `RelayScope`, needs two addresses and two modules: `InetServerRelay.cfg`
checks it in about 6 minutes, and the theorem `RelaysScoped` says it of all. Liveness is checked without
symmetry.
`client`: two loops and two handlers are what the code tries to exclude; two retries end a loop.
`net_voice`: a frame needs one timer object, an orphan another, the replacement a third; two streams
follow each other, and the third has the identifier that stands for none. `gateway`:
two goroutines suffice for one to finish under the other. `frame`: the sizes are the code's; the data
are three scrambled sequences, for the code is linear; the bursts of four symbols lie end to end and take
turns in kind, so that every symbol is damaged in one of them, but no place in all three kinds (trying all
takes longer than a run may). `SurvivesBurst` spares the first symbols of a link setup frame, which the code
hardly protects, and the count of errors of a packet frame (section 6). What holds of all contents and
all bursts is proved (section 5). `sx1255`: two callers meet each other in every place, and two runs of the timer
let one find what the other left. `cc1200`: timer, program and caller are three goroutines whose
commands cross; a line of one holds a command that was given up while the next has dropped old answers and
waits to write, and what happens once commands overlap is excused by the properties. `mmdvm`: the caller may fill
queue and buffer again and again; three places distinguish a used, a spare and a last one. `aprs`:
one station shares its callsign with another, one does not; users go stale before reports are due, the
setting in which the time of a report is lost too early.

The mutants in `PROJECT.json` each change one definition the way a slip in the code would; each
property is violated by its mutant, under the same configuration. They stand next to what they change.

`CHECK_DEADLOCK FALSE` is given where the program may stop: `server` and `reconnect` (the runtime stops a program that
writes a map being walked, or it is closed), `client` (a nil pointer, or closed), `net_voice` (nil
pointer), `sx1255`, `cc1200` and `mmdvm` (bring-up fails, or the modem is closed), `frame` (the frame is
decoded).

## 4. Fairness

* `InetServer`: goroutines that have a step to do are scheduled, and time passes. Nothing is asked of
  the clients or of the modules.
* `NetVoice`: the same for the handler in the middle of a call, the timers and their functions.
  Nothing is asked of the reflector: a stream may stop at any frame.
* `RFAir`: sync words keep being found. The decoder has no clock, its timeout counts calls
  (`decoder.go:211`): on a silent channel, where correlation finds nothing, it is not reached.
* `Gateway`: goroutines go on. No over has to end, and no end has to be reported: `BackToIdle` says nothing
  of an over that holds the state, nor of one whose end the decoder did not report (`unended`).
* `CC1200`: goroutines go on, the timer's function runs when it is due, the firmware answers, and does
  not stay full (`Accepted`, strongly: the buffer empties while it transmits). `StopsTransmitting`
  excuses commands that are given up, refused or overlap, and debug texts.
* `MMDVM`: the loops and the firmware go on, a request for a status is made when it is due, and an
  answer gets through at last (`Receive`, strongly, for `Lose` competes with it). `QueueMoves` excuses a
  firmware of protocol 1 that reports no room for M17.
* `APRSModule`: a read ends after `readTimeout` (strongly, for `Acknowledge` may come between), and an
  attempt to connect succeeds at last, which `readLoop` repeats for ever. Nothing is asked of users.

## 5. What is proved

| Theorem | Says, for all constants | Argument |
|---|---|---|
| `RFDecoder_proofs!DecoderSafe` | `[](TypeOK /\ LSFKnown)` | `Good(s)`, types and a known LSF, is kept by every function `DecodeFrame` is composed of; a lemma each |
| `RFDecoder_proofs!DecoderImplementsSession` | `Spec => RFSession` under the mapping session = LSF if `gotLSF`, next number = `lastStreamFN + 1` | each case maps to one step of `RFSession` or to a silent one; the timeout composes with those that report nothing |
| `RFDecoder_proofs!PacketChunksInOrder` | `[]PacketInOrder` | only `StoreChunk` writes a slot in packet mode, and only the one after `lastPacketFN`, whose offset it has found not to wrap; a link setup blanks them all |
| `RFDecoder_proofs!PacketsHandled` | `PacketHandled` | the frame that is due finds its slot (`PacketChunksInOrder`); bounds of a slice that reach `ByteMod` wrap below where they began |
| `RFDecoder_proofs!VoiceOfRightStation`, `VoiceForwarded`, `OverEndsOnce`, `MarkerEnds` | `RightStation`, `HeardIsForwarded`, `EndsOnce`, `MarkerTerminates` of `RFAir` | `AirInv`: unless the end of an over was missed, the decoder has nothing of the over on the air but its LICH chunks, or it is in a stream under the station's link setup and expects a frame no later than the one to come, unless a flag was inverted or the number wrapped; one lemma per unit that is sent says how it moves between these |
| `InetServer_proofs!ClientsTimed` | `[](TypeOK /\ EntriesTimed)` | `EntriesTimed` is `EntriesExpire` and `EntriesPinged`, a running timer of each kind; inductive with three strengthenings: whatever anything refers to was built (`Built`), an entry's client has the entry's address (`EntryAddr`), the handler holds a client where it uses one (`HandlerClient`) |
| `InetServer_proofs!RelaysScoped` | `RelayScope` | `WalkSeen`: what a walk saw are clients of different addresses, for only the handler connects clients, and it is the one that walks |
| `InetServer_proofs!SilentDropped` | `DroppedWhenSilent` | `TimerFollows`: what the timer of the client that holds the entry has still to run and what its address was silent add up to the period, or a keep-alive is about to reset it; `LeftTimers`: a timer that an earlier CONN left running was not started after the last one |
| `Gateway_proofs!ConnectionWatched` | `[](ClientTypeOK /\ ConnectedIsWatched)` of `InetClient` | inductive as it stands |
| `Gateway_proofs!PanicsNeedDenial` | `[]PanicNeedsDenial` of `InetClient` | `HasSocket`: unless a retry was denied a socket there is one, or nothing runs that would call a method on it (`Idle`): before `Connect`, and when the first one failed |
| `NetVoice_proofs!StreamsBackedUp` | `[]BackstopArmed` | with `Closed`: once the last frame cleared identifier and LSF, they stay clear until the handler is done |
| `NetVoice_proofs!PanicsNeedRace` | `[]PanicNeedsRace` | `Turns`: while the two have only taken turns, the three fields are set together or clear together but for the statements in the middle, and the only timer that runs is the one held (`InHandler`, `InCall`, `OnlyTimer`). A stream identified by 0xFFFF that comes when none is open finds them clear, up to its last frame |
| `Gateway_proofs!GatewayConsistent` | `[](StateMatchesSession /\ RecordingOfOneStation)` | `Good(g, s)`, gateway g is right in session s, is kept by each callback; the callbacks of a call are composed as the decoder makes them. A session that ends unreported either did not hold the gateway (`AnySession`) or is excused by `unended` |
| `Gateway_proofs!CommandsLocal` | `CommandsStayLocal` | the same invariant: `Good` also bounds what a step relays |
| `Gateway_proofs!RecordingsOfOneStation`, `Gateway_proofs!GatewayTypes`, `NetVoice_proofs!NetVoiceTypes` | `[]RecordingOfOneStation`, `[]TypeOK` | read off the same invariants |
| `Frame_proofs!FrameInvariant` | `[]FrameInv`: what was heard is what the channel left of the interleaved code, and the metric of the path that was sent is bounded | two tables first: the interleaver is its own inverse (`Involution`), and what it is given less than 8 bits apart it puts 39 places apart at least (`Spread`); the n-th bit that puncturing keeps is where the decoder looks for it (`PlaceOfRank`). Then `DecodeHears`, a bit's way through symbols and randomizing, and `MetricsStep`: a step of the decoder adds to the metric of `SentState`, the state the encoder was in, no more than its two bits cost |
| `Frame_proofs!ErrorsStayBounded` | `[]ErrorsBounded` | after the last bit the path that was sent has cost half a bit for each that was punctured, a whole one for each that is damaged (`PathBound`), and a rounding error for each other; the least metric is no more, and the division drops the rounding errors |
| `Frame_proofs!ErrorsStayApart` | `[]ErrorsApart`: what a burst of up to 4 symbols makes wrong is 39 places apart | a bit heard wrong was struck (`WrongIsStruck`); `Spread` |
| `Frame_proofs!GolayCorrects` | `SoftDecode24` returns the data of any word with three bits wrong at most | the checksum is linear (`ChecksumIsLinear`), and no data have a word of fewer than seven ones (`WordsAreHeavy`, a statement on twelve bits and twelve parities that the SMT solver decides): two patterns that explain the same word would differ in six bits at most |
| `Frame_proofs!LICHStaysWhole` | `[]LICHSurvives` | `Spread` read backwards: bits of the LICH less than 8 places apart are 39 bits apart on the air, so what 19 symbols, 38 bits, make wrong is 8 places apart, three in a word of 24 at most (`FarApart`); then `GolayCorrects`. At 20 symbols it fails |
| `Frame_proofs!MetricsStayFit` | `[]MetricsFit`: no metric is above two whole bits for every position, so that no `uint32` wraps | each step adds two whole bits at most |
| `Frame_proofs!ChainbackStaysInRange` | `[]ChainbackInRange`: the loop back stays among the states and positions there are, and returns as many bits as were sent | the history has grown to its full length |
| `SX1255_proofs!SX1255Types` | `[]TypeOK` | with `LockHeld` (steps that need the lock have it) and `SomethingTodo` (who writes has something to write): `IType`, on which the others rest |
| `SX1255_proofs!TransmitterGuarded` | `[]Guarded` | `Watched`: what is on without being excused has a stop coming that will find `txState` set, or the holder of the lock is switching it. A stop that finds `"idle"` with the lock free has nothing to switch |
| `SX1255_proofs!ReceiverStaysOn` | `[]NeverDeaf` | `Hears`: whoever is about to write the mode has read both bits set; before bring-up ends nobody else is there |
| `SX1255_proofs!BurstsUnmixed` | `[]BurstOfOneKind` | `Unmixed`: unless something was cut, writers are of the transmission's kind, nobody writes while it is enabled, and a call's blocks are of its kind |
| `SX1255_proofs!LinkSetupsFirst` | `[]LinkSetupFirst` | on `Unmixed`, and three more: who holds the lock to start or stop finds `"idle"`, and a started transmission whose bit is missing has sent nothing (`Prepared`); without an overlap a transmission has one call of its kind (`Alone`), and until its link setup is out that call is still there with the setup ahead of it (`First`) |
| `SX1255_proofs!AllWoken` | `[]WaitersWoken` | `stopTX` is the only way to `"idle"`, and wakes all |
| `CC1200_proofs!CC1200Types` | `[]TypeOK` | with `WaitersBusy` |
| `CC1200_proofs!AnswersFindTheirCommand` | `MixupNeedsCrossing` | `OneAtATime`: unless commands crossed, at most one is begun, written, or answered and not taken, and who waits waits for it; who is about to write finds neither a command on the line nor an answer to one in the channel. A command that is given up counts as under way until it is answered, and an answer that lies in the channel is dropped by the next `Clear` |
| `CC1200_proofs!QuietModemAgrees` | `[]QuietAgrees` | `Orderly`: unless something went wrong, one goroutine is busy, its commands are in an order in which each may follow the one before (`InOrder`), and the modem is what the one under way expects, before its answer and after (`Meets`); when none is busy the modem rests. One lemma per action moves the one busy goroutine along its series |
| `MMDVM_proofs!TypeCorrect` | `[]TypeOK` | with `Trusted`: who takes a frame believes in room for it |
| `MMDVM_proofs!RoomRespected` | `[]OverrunNeedsStale` | `LineCounts`: every request for a status knows how many frames were written after it. `Believed`: what a status reports, and what is believed, exceeds the room that will be left by no more than was written since (`stale`); with one frame since there is still room |
| `MMDVM_proofs!BroughtUp` | `[]RunsConfigured` | `BringUp`: while the modem configures there is at most one command or one answer of the step under way, and no other verdict; a step is left with what it asked for configured |
| `InetServer_proofs!FilterKept` | `[](APRSTypeOK /\ FilterCoversUsers)` of `APRSModule` | inductive |
| `InetServer_proofs!PositionsRated` | `PositionRate` of `APRSModule` | `APRSAges`: who is no user reported longer ago than `Spacing`, because it was not heard for longer than that; the user being handled was heard just now |

Assumptions are those of the `ASSUME`s: values that stand for "none" differ from the others (but for
`NoStream`, which may be a stream's identifier), periods and widths are positive, a Go byte cannot point
past `packetData` and counts the chunks of a packet, though not its bytes. No theorem assumes more.

The inductive invariants of `QuietModemAgrees` and `LinkSetupsFirst` were model-checked on the bounds of
their runs before they were proved. Neither property is inductive by itself: that a command ends its
series only where the modem may rest, or that a call still has its link setup to send, is known only
of the series the code begins, and the invariants carry it along.

`FrameInv` holds of every frame and every burst: contents, frame numbers and bursts are constants of
which only the sizes are assumed. Nothing about the tables is assumed either: that Golay words
differ in seven bits and that the interleaver spreads what is close are proved from the formula of
`codec.go` and the rows of `golay.go`.

Only model-checked: liveness (`SilentIsDropped`, `StreamEnds`, `SyncReleased`, `BackToIdle`,
`StopsTransmitting`, `QueueMoves`, `UserReached`), which is out of the prover's reach, and two properties of
`Frame`. `SurvivesBurst` says that the Viterbi decoder finds the path that was sent; that no other path
costs less needs the least distance of the punctured code, over paths of every length, which is an
induction over data. `WrongLSFRefused` is true of the frames and bursts that are tried and could
not be a theorem: one wrong link setup in 65536 has a CRC that is right. Every other property of a
passing run is a theorem.

## 6. What the code does that it should not

Two runs expect a violation and two findings of `PROJECT.json` quote what the code says of itself:

* `last_flag` (`RFAirLastFlag.cfg`): a voice frame whose last-frame flag was inverted, and is not
  honoured, becomes `lastStreamFN` with bit 15 set (198); no later frame of the over passes the test
  of line 154, which is what refusing it was to avoid (174-178). `HeardIsForwarded` says that only this
  and the wrap of the frame number make the decoder refuse a frame it hears.
* `reconnect` (`InetServerReConnect.cfg`): a second CONN leaves the timers of the first client
  running; the old pong timer deletes the new client (`inet_server.go:263`), though its message says that no
  PONG came for 30 seconds. `DroppedWhenSilent` says when.

A third finding belongs to run `air`, whose `PacketHandled` states what the code does: slice bounds of
packet chunks are computed in a byte (`decoder.go:129`) and wrap at 256, so that the eleventh chunk
panics, while the text client speaks of packets up to 823 bytes.

Four configurations beside the runs are kept for reference (`tlc -config <name>.cfg <module>`):

* `RFPacketLong.cfg` with `MCRFPacket` refutes `WholePacketDelivered` with a packet of 825 bytes in real
  sizes, in about 80 seconds.
* `InetServerRelay.cfg` with `MCInetServer` checks `RelayScope`, in about 6 minutes, and holds.
* `InetServerRelayLen.cfg` with `MCInetServer` refutes `RelayedIsReadable`: relayed stream datagrams begin with
  the magic twice (`inet_server.go:230`) and are refused by `NewStreamDatagramFromBytes`.
* `InetClientTwoLoops.cfg` with `MCInetClient` refutes `OneHandler`: a PING during a retry starts a second retry
  loop and a second handler (`internet.go:189`).

Met while modelling. Decoder, frames:

* Late entry through the LICH leaves `syncedType` at zero, so that neither the marker
  (`decoder.go:201`) nor the timeout closes the session; the comment at 181-184 calls the marker the
  reliable path. `MarkerTerminates` is stated for overs whose link setup was heard. Nor is `streamID`
  drawn for such an over (94): it goes out under that of the one before.
* The errors reported for a packet frame are 18 too many: 8 is taken off (`decoder.go:297`) where the
  punctured bits cost 26. `SurvivesBurst` leaves the count of packets out, `ErrorsBounded` allows for it.
* The Viterbi decoder starts with no state preferred (`codec.go:379`), although the encoder starts in
  state 0: the first coded bits of a link setup frame are hardly protected. `SurvivesBurst` leaves out
  bursts that strike them (`Spared`).
* `HardDecode24` (`golay.go:383`), which only tests use, refuses words with a single data bit in error,
  although its code corrects three.

Network and gateway:

* `Connect` leaves `r.conn` nil if the socket cannot be had (`internet.go:118`), and the next round
  of the retry loop panics on it (87). In the model: `crashed`; `PanicNeedsDenial` says that this is the
  only way to a nil `r.conn`. A lost CONN or ACKN is not repeated, for
  the timer is not running yet (124); `Close` stops the timer but not a retry loop that runs (134).
* The timers of a client start before the variable they use holds it (`inet_server.go:253`). A ping function
  that was due when DISC stopped its timer starts it again (268): an address that has left is pinged for ever.
* Stream identifier 0xFFFF is the gateway's value for "no stream" (`gateway.go:369`): the last frame
  of such a stream meets a nil LSF (464). `PanicNeedsRace` names it.
* The fields of `NetVoice` are read and written by two goroutines; `PanicNeedsRace` says that this is
  the only other way to the nil pointers at 438, 443, 452, 464 and 467, and TLC finds that way. A timer that was
  reset when it had just fired runs on as an orphan and ends the next stream early.
* LocalCommand and RFStreamRX are left only by a reported end: when it is lost the gateway is not
  Idle again before the end of another over. `BackToIdle` says nothing of such overs.
* A net stream that times out while an over is recorded for /ECHO plays and clears the recording under the
  speaking station (`gateway.go:456`); a goroutine of an echo before sets Idle whatever the state is by then.
* `playMessage` reads and stores the clips of a map from goroutines that may overlap (`audio.go:152`).

Modems:

* SX1255: `Start` and `Close` change the control register without the lock. `SafetyTimeout`, the comment
  of `txTimeoutSX1255` as a formula, is defined and no property of a run: a `Start` that read the
  register before a `stopTX` turns the transmitter on again, and no timer runs. `Guarded` excuses it.
* CC1200: an answer that comes after the next command has dropped old ones is taken for that command's
  (787); a debug text of the firmware passes for an answer or a refusal (367). `MixupNeedsCrossing`
  excuses the first and knows the second. An answer of four bytes is decoded into something that is no pointer (806), which always fails;
  that of a ping is not looked at; an empty answer to data panics (741).
* MMDVM: a status of protocol 1 that has no byte for M17 sets the room to 0 (299), and nothing is ever
  transmitted; `QueueMoves` excuses it. Frames that find the queue full are dropped, the link setup or the
  end of an over like any other (1035). `readVersion` returns no error when all tries failed (422), and the configuration fails instead;
  a command sent after `Close` panics; a length byte below 3 puts `getResponse` (808) out of range;
  `modemSend` spins while there is no room.

APRS module:

* If users go stale sooner than reports are due (`bridge.go:166` takes any number of minutes), a position is
  reported earlier than every 5 minutes, for the time of the last report goes with the user. `Spacing`.
* `removeStaleUsers` sends no filter when no user is left: the server goes on forwarding.
* A message is acknowledged before its user is looked up: one let through by the wildcard for another
  SSID is acknowledged and dropped. Of two M17 callsigns with one APRS callsign, either gets a message.
* `connect` dials with `m.mu` held, so that the reflector's handler waits for it.

## 7. What is not modelled

* The bridge, the command-line programs, the message GUI, configuration and start-up: around what is
  modelled, with no state that lasts.
* The modem emulator and the dummy modem, which are test tools.
* IRC and Discord: only that they send packets to the clients of their module. Their connections are
  libraries'.
* Malformed packet datagrams, the contents of payloads, META fields, GNSS, the codec of callsigns,
  callsign rewriting, logging, the dashboard log.
* Filters, correlation, DSP and gains: arithmetic on floats. ALSA, SPI and GPIO calls, beyond whether
  they succeed.
* In modelled files: `gateway.go`'s `TransmitPacket` (passes a packet on), `Close` and argument
  handling; what `internet.go`'s `SendPacket` and `SendStream` write to the socket; in `audio.go` which
  clips a message is made of, and the unprotected map they are kept in; in `sx1255_modem.go` `Reset`
  and the time `Drain` takes with the lock held; in `cc1200_modem.go` the receive pipeline and the
  pins; in `mmdvm_modem.go` the passing on of received frames.

## 8. Plan

Done, in this order: `RFSession`, `RFDecoder`, `RFAir` (what the gateway hears is the core of
everything); `InetServer`, `InetClient` (timers and goroutines); `NetVoice`, `Gateway` (what connects
the two); `SX1255`, `CC1200`, `MMDVM` (what transmits); `APRSModule`; `Frame` (what is transmitted).

Then theorems, the most important properties first, until every safety property that can be one
was one; those about `Frame` came last.

What would be worth adding:

1. **Link**: client and reflector composed over a network that loses, with membership as the
   abstract specification: who takes itself for connected is in the map, or will learn.
2. **Transmitter**: an abstract exclusive transmitter that `SX1255` implements where nothing is excused.
3. **Viterbi**: the least distance of the punctured codes, with which `SurvivesBurst` could be proved for
   all contents.
