# LoRaPeerLink in TLA+

A verification development kept beside LoRaPeerLink 2.0, a C++ library that lets
battery-powered LoRa nodes exchange messages by name without a server. It models
the library's protocol logic in TLA+, checks it with TLC on small instances and
proves its central invariants with TLAPS for every size.

## 1. The system

Each node runs one stack; nodes share nothing but the air.

| Layer (file) | State it keeps | Operations | Interacts with |
|---|---|---|---|
| `EncryptedLoRaLink` | keys, IV counter | `sendPacket`, `receivePacket`, `seal`, `open` | wraps any `ILoRaLink` |
| `PeerMessenger` | pending queue of 16 messages | `sendMessage` (id, name), `broadcast`, `receiveMessage`, `processMessages` | calls `RollCall` for addresses, gets its data frames by callback |
| `RollCall` | own address and name, table of peers, announcement timer | `begin`, `processMessages`, `whoIs`, `whereIs`, `queryAndWait` and the handlers of HELLOIAM, WHOIS, WHEREIS and responses | sends and receives through an `ILoRaLink`, hands other data up by callback |
| `LoRaLinkCore` (`LoRaBasicLink`, `LoRaBackoffLink`) | address, sequence number, receive queue, table of acknowledged frames | `setLocalId`, `sendPacket`, `receivePacket` | blocks in `IRadio::send`/`receive`; ACKs travel node to node |
| `IRadio` driver (`SemtechRadio`, on the vendor's `radio.c`) | one received frame, event flags; below it the chip's registers, `IrqFired`, a timer | `begin`, `send`, `receive`, `timeOnAirMs`, interrupt callbacks | the chip, the medium |
| `LplCrypto` | none between calls | AES-128-CBC, SHA-256, HMAC, PBKDF2 | called by `EncryptedLoRaLink` |
| `tests/sim` (test support) | virtual time, programs, transmissions | `spawn`, `run`, `send`, `receive`, `sleepMs` | is the `IRadio`, clock and sleep of the library's own tests |

A node is single-threaded: concurrency is between nodes, and between a node and
frames that arrive while it is inside another call. What is hard:

* **The link.** A half-duplex, lossy medium; a lost ACK makes the sender
  retransmit a frame the receiver has delivered; two nodes may wait for each
  other's ACK; frames come in during a wait or a backoff and have to be kept, in
  order, in a bounded queue; the receiver remembers what it acknowledged in a
  bounded table for a bounded time, and that time has to cover the sender's
  random backoff. Correct when: a message is delivered at most once and in order;
  a sender is told "delivered" only for a message that was; what was confirmed
  reaches the application; every call returns.
* **RollCall.** Two nodes may choose one address or one name at once, and their
  announcements cross or get lost. Correct when: the two views of the table stay
  inverse; of two claimants exactly one gives way; claims become distinct once
  messages get through.
* **PeerMessenger.** A name lookup inside a send processes whatever arrives. A full
  queue drops the oldest message. Correct when: messages come out in order, and
  only the oldest are lost, a message by name reaches no other node, and a lookup
  that handles other traffic still returns.
* **EncryptedLoRaLink.** Correct when: no IV repeats under one key; sizes agree;
  a payload that does not open costs neither the call nor the remaining time; what
  `LplCrypto` makes of inputs of any length is what its standards say.
* **SemtechRadio.** One thread gives the chip one command at a time while frames
  complete, an edge-triggered interrupt fires and a timer runs. Correct when: no
  interrupt is lost for good; `send()` returns true only for its own frame; the chip
  listens whenever nobody sends; a frame is handed over once, in order.
* **The simulator.** Threads take turns in virtual time. Correct when: the clock
  passes nobody, what it decides about a frame agrees with everything that was on the air,
  and every run ends. The library's protocol tests are worth what this is.

`PROJECT.json` lists every component with its status and every hazard at the line
where it bites.

## 2. Modules

| Module | Models |
|---|---|
| `LinkTiming` | `slotMs`, `retryDelayMs`, `effectiveDupWindowMs`, `effectiveAckTimeoutMs`, `randomBelow`, `preSendDelayMs` as functions of the time on air |
| `DuplicateTable` | `_seen`, `_seenNext`; `isDuplicate()` with its sweep and refresh, `remember()` with its choice of slot |
| `LoRaLinkCore` | all nodes: one `LoRaLinkCore` each, the driver's buffer, the medium and time |
| `AckedDelivery` | the abstract service: no radio, frames, timers or retries |
| `PeerTable` | what one RollCall node knows: its identity and the maps `_nameToId`, `_idToName`; `learn()`, `registerSelf()`, `changeId()`, `changeName()`, the choice of fresh addresses and names |
| `RollCall` | all nodes: `begin()`, `processMessages()`, queries, the message handlers, announcement times, restarts |
| `PeerMessenger` | the messenger on top of `RollCall`: sending by address and by name, the bounded queue, reading |
| `EncryptedLoRaLink` | all nodes: `sendPacket()`, `receivePacket()`, their arithmetic of lengths, vectors and time, over a link that is external here |
| `LplCrypto` | how `Sha256`, `HmacSha256` and AES-CBC divide inputs into blocks, and what the standards say of a whole input |
| `SealedFrames` | `seal()`, `open()` and `nextIv()` out of `LplCrypto`, next to the frames of `EncryptedLoRaLink` |
| `SemtechRadio` | one node's driver, the functions of `radio.c` under it, the chip and the frames that reach it |
| `SimWorld` | the simulator: scheduler, virtual time, medium, both kinds of radio |
| `MCLink`, `MCLinkIdentity`, `MCLinkDelivery`, `MCRollCall`, `MCRollConverge`, `MCPeerMessenger`, `MCEncryptedLink`, `MCSemtechRadio`, `MCSimWorld` | instances for TLC; `MCLinkDelivery` and `MCRollConverge` assume of theirs what the theorems on delivery and on names ask for, so that TLC checks that these hypotheses can be met |
| `LoRaLinkCoreProofs` | theorems: the timing rules, type correctness, ACKs and duplicate suppression never mistake one message for another |
| `LinkDeliveryProofs` | theorems: at most once and in order, what was confirmed is read, the link implements `AckedDelivery` |
| `RollCallProofs` | lemmas: each change of a table leaves it in order and within its limit; theorems: type correctness, tables inverse, bounded and true, somebody keeps a shared name |
| `PeerMessengerProofs` | theorems: the messenger implements RollCall; queues within their limit; messages by name and names of senders are right; only the oldest messages are lost |
| `EncryptedLoRaLinkProofs` | theorems: sizes, listening times, authenticity, vectors; frames open exactly as they were sealed |
| `LplCryptoProofs` | theorems: a streamed hash is the hash of the whole, the HMAC is that of RFC 2104 and tells messages apart, AES-CBC gives back what it was given |
| `SemtechRadioProofs` | theorems: interrupts, what `send()` and `receive()` tell their caller, which frames are handed over |
| `SimWorldProofs` | theorems: types, the clock, the time at which `receive()` returns, what becomes of a frame |

`PeerMessenger` EXTENDS `RollCall`: each step of the messenger is a step of
RollCall together with what happens to the messages. `LoRaLinkCore` and
`EncryptedLoRaLink` are modules of their own, not composed with these. RollCall sends
broadcasts only, which the link neither acknowledges nor retries, so that what it
needs of the link is "some nodes hear it, and keep a few frames until they read";
`EncryptedLoRaLink` promises the interface it uses, and needs of it only what
`ILoRaLink.h` says. `SemtechRadio` is what `OnAir` and `ReadFrame` of `LoRaLinkCore`
stand for, at the grain of commands to the chip; its properties are the contract that
those two actions assume: a node that does not transmit hears, an unread frame stays
until a newer one comes, a frame is read once. `SealedFrames` EXTENDS
`EncryptedLoRaLink`, so that one run checks both on the same states.

### How `LoRaLinkCore` corresponds to the code

State. `localId`, `seqNum`, `queue`, `seen`, `seenNext` are the fields of
`LoRaLinkCore` of the same names (`_queue` with its head and count is a sequence;
a `Seen` holds its age, `now - timeMs`, rather than a clock reading). `inbox` is
the driver's one-frame buffer. `pc` is where the node's thread is blocked and
`timer` for how much longer; `job` holds the locals of that call. `calls`,
`accepted`, `delivered`, `acked` are history and nothing is decided by them.

Steps. A step runs from one blocking call of the radio to the next, which is
where frames of other nodes can come in between:

| Code | Actions |
|---|---|
| `sendPacket()` up to the first wait, and each wait before `send()` | `SendPacket`, `StartTransmit` |
| `IRadio::send()` returning | `FinishTransmit` (the frame reaches, damages or misses each node), `FailTransmit` |
| `waitForAck()` | `HearAck`, `AckTimeout`, `HearDataWhileBusy`, `HearOtherWhileBusy` |
| `listenFor()` | `HearDataWhileBusy`, `HearOtherWhileBusy`, ends with `StartTransmit` |
| `receivePacket()`, `popPending()` | `ReceivePending`, `StartReceive`, `HearDataInReceive`, `HearOtherInReceive`, `ReceiveTimeout` |
| `acceptData()` | its three outcomes `Suppress`, `Refuse`, `TakeIn`, inside the two `HearData...` actions |
| `setLocalId()` | `SetLocalId` |

Abstractions, and why they keep what the properties tell apart:

* A payload is its length. Two payloads of one length count as equal, so that a
  CRC agrees as often as it possibly can: the worst case for suppression.
  Accidental agreement of CRCs of different headers is left out.
* A damaged frame is `Garbled`, and every check `decode()` makes rejects it.
* An ACK takes no time on the air: `sendAck()` is part of the step that calls it.
  Timing rules still count `AckAirTime`.
* A node whose own transmitter is on hears nothing. The medium otherwise decides
  per receiver; collisions are the case that all receivers miss a frame.
* Time passes (`Tick`) only when no blocked call has anything to do. The two waits
  between attempts (`retryDelayMs`, then `preSendDelayMs`) are one.
* Argument checks (null pointers, `len > MAX_PAYLOAD`), statistics, the guard
  against a clock that stands still, and a `receive()` that reports an error are
  left out.

### How `RollCall` corresponds to the code

State. `book[n]` is `_nodeName`, `_nodeId` and the two maps (an absent key is 0),
`nonce` is `_nonce`. `due` is `_nextAnnounceAt` minus the clock and 0 when overdue;
`call` and `left` are the call the thread is in and the time it has left;
`query` holds the arguments of `queryAndWait()` and its `sends`; `call[n] = "query"`
is `_holdAnnouncements > 0`. `inbox` is what the link and the driver keep unread.
`held` and `boots` are history.

| Code | Actions |
|---|---|
| `begin()` | `Begin` (identity, first listening), `Introduce` or `IntroduceFails`, `Settle` |
| `processMessages()` | `Serve`, one of the reads, `Announce` (the loop round), `ServeTimeout` |
| `announceIfDue()` | `AnnounceIfDue`, at the start of `Serve` and in `Announce` |
| `handleHelloIam()` | `RecogniseSelf`, `GiveWay` (with `changeId`, `changeName`, `learn`, the new schedule), `StandFirm`, `LearnPeer` |
| `handleWhois()`, `handleWhereis()`, `handleResponse()` | `HearQuery`, `HearResponse` |
| `whoIs()`, `whereIs()`, `queryAndWait()` | `Ask`, `AskAgain`, `QueryTimeout`; a found answer ends the call in `AfterFrame` |
| `listenFor()` | the calls `hush` and `probe`, which read until their time is over |

Abstractions:

* Names are numbers in the order of `std::string`. `Suffixed` says which names a
  suffix makes of a name; a name of full length may get itself back, as
  `generateSuffixedName()` erases it from the table first. The fallbacks for a random
  source that is stuck are left out: an address or name that is free is found.
* A broadcast is heard by any subset of the running nodes; a failing send is the
  empty one, except in `begin()`, which returns early on it.
* What is done without waiting takes no time: `Tick` waits until every node is
  outside RollCall or listening with nothing to read.
* A payload for the data handler carries the address of its sender and of its
  receiver. `Overhear` is the link below passing over what is for others;
  `HearData` ends the call as any other frame does. `Next` is RollCall on its own,
  `Step` adds that the layer above sends payloads, `Settling` is the part of `Next` in
  which nobody asks or loses power.
* Left out: malformed messages, announcements without a nonce, calls before
  `begin()`, the exits for a clock that stands still.

### How `PeerMessenger` corresponds to the code

`queue` and `dropped` are `_queue` and `_dropped`. `outgoing` holds the arguments of
the `sendMessage()` that waits in `whoIs()`. `sent`, `taken`, `shown` and `lived` are
history.

| Code | Actions |
|---|---|
| `sendMessage(id)`, `broadcastMessage()` | `SendToId` |
| `sendMessage(name)` | `SendToKnown`, or `StartSend` (the first transmission of `whoIs()`) and, when RollCall is done, `FinishSend` or `GiveUp` |
| `handleData()` | `HearMessage`: RollCall's `HearData` and the queue, in one step |
| `receiveMessage()` | `ReceiveMessage` |
| `processMessages()` and the calls of RollCall | `Inside`, `OtherCall` |
| loss of power | `Crash` |

While `outgoing` is set the application's thread is inside `sendMessage()`, so that no
other call of it starts. Each text is sent at most once (a bound); a message that
is too long, or has not the prefix of a user message, and the link's acknowledgements
are left out.

### How `EncryptedLoRaLink` corresponds to the code

`ivCounter` is `_ivCounter`. `listening` holds the arguments and `start` of
`receivePacket()`, `left` is the time the link below still listens, `clock` is
`getTime()` and wraps. `room` is `maxPayloadSize()` of the link below. `spent`,
`result`, `sealed`, `ivs`, `sends` and `boots` are history.

| Code | Actions |
|---|---|
| `sendPacket()` with `nextIv()` and `seal()` | `SendPacket`, or `SendFails` when sealing or the link fails: both take a vector |
| `receivePacket()` up to the link's | `StartReceive` |
| a payload that opens; one that does not; none | `Deliver`; `Reject`; `ReceiveTimeout` |
| loss of power | `Restart` |

The ciphers are perfect: a tag verifies if and only if it was made with that key over
what arrived, source address included (`SealedFrames` says how far that follows from the
code). A payload is its length and a vector what it is computed from. The link below, its medium, and a node that sends without encryption
are external. A frame that is recorded and sent again is left out: the header
says there is no protection from that.

### How `LplCrypto` and `SealedFrames` correspond to the code

Bytes are tokens that say where they come from, so that two inputs are equal only if
the code put the same bytes in the same places. A hash is the sequence of blocks that went
through `compress()`, an encrypted block its key, contents and chain: what happens inside
a block is perfect, what happens between blocks is the code's.

| Code | Definitions |
|---|---|
| `Sha256::reset`, `update`, `finish` | `Reset`, `Update` (`Absorbed`: `Turns` times `Pass`, one turn of its loop; `Copied`, `Compressed`), `Finish` |
| `HmacSha256` | `PadKey`, `Xored`, `Hmac` |
| `pbkdf2HmacSha256`, its first round | `FirstRound` |
| `aesCbcEncrypt`, `aesCbcDecrypt` | `CbcEncrypt` (`Padded`, `BlockCount`, `BlockAt`), `Decrypted` (`Joined`), `CbcDecrypt` |
| `seal`, `open`, `nextIv` | `SealedWire`, `OpenedWire`, `Tag`; `Label` and `Material`, what `nextIv()` hashes |

`HashOf` and `HmacOf` are the standards' definitions for a whole message. The loops of
`update()` and `aesCbcEncrypt()` are recursive functions over their turns, so that the theorems
can be about them; a tag stands for the whole HMAC, of which the code sends 8 bytes. The tables
behind `MacsAreHmac` and `CiphersKeepFaith` are constants, which TLC works out once. Left
out: the rounds of PBKDF2 after the first, AES and `compress()` inside a block, which the
repository tests against published vectors. A wrong key or chain decrypts to bytes that
no padding has: that real noise may look like a padding is one of the things the tag,
checked first, is there for.

### How `SemtechRadio` corresponds to the code

State. `receiving`, `txDone`, `txFailed`, `rxReady`, `rxFrame` are the driver's fields;
`irqFired` is `IrqFired` of `radio.c`, `irqRegs` the local of `RadioIrqProcess`, `timer`
is `TxTimeoutTimer`; `mode`, `mask`, `flags`, `buffer` are the chip. `pc` and `irqStep` say
where the thread is, `left` how long its loop goes on. `result`, `got`, `owed`, `racing`,
`aired`, `lastOk` are history.

| Code | Actions |
|---|---|
| `begin()`; a reset of the processor | `Begin`; `Reboot` (the chip goes on) |
| `send()` with `RadioSend` | `SendCall`, `SendClear`, `SendBuffer`, `SendTx`, `SendTimer`, `SendPoll`, `SendLeave` |
| `Radio.Standby()`, `startReceiving()` at its end | `SendStandby`, `SendRxMask`, `SendRx` |
| `receive()` | `ReceiveCall`, `ReceivePoll`, `ReceiveTakes`, `ReceiveTimesOut`, `ReceiveWaits` |
| `RadioIrqProcess` and the callbacks | `CallIrq`, `IrqRead`, `IrqClear`, `IrqServe` |
| `RadioOnTxTimeoutIrq` | `TimerFires` |
| the chip, other nodes, `delay(1)` | `FrameStarts`, `FrameEnds`, `TxEnds`, `Tick` |

* A step is one command to the chip. Frames, interrupts and the timer come between any
  two. Time passes only in `delay(1)` and between calls: commands take microseconds.
* `SendBuffer` may or may not overwrite a frame that is still unread in the chip, as
  frames need not lie where the payload goes.
* With the settings of `begin()` (continuous receive, no timeout of the chip) the chip
  raises neither `RX_TX_TIMEOUT` nor a header error, so that `_receiving` is never reset
  by a callback and the branch of `receive()` for a chip that dropped out is not reached.
* What the properties leave out is what the code does: a frame that ends in the
  microseconds between `IrqProcess()` in `send()` and the command to transmit, or
  between reading and clearing the chip's register, is lost; one that ends between clearing
  and reading the buffer is read twice, in place of the one before; a damaged frame
  that ends before a good one, both before the interrupts are served, hides it, although
  SemtechRadio.h:18-19 promises every frame that completes between two calls.
* Left out: time on air, counters, RSSI, SNR, modem settings.

### How `SimWorld` corresponds to the code

`wake`, `priority`, `order` and `alive` are the fields of `Task`, `running`, `now` and
`stopping` those of `World`; `doing` is the call a program's thread is blocked in;
`listenStart`, `ready`, `buffer` are the radio's. A frame is its index in
`transmissions`, its length its time on air. The mutex makes every step from one
`blockUntil()` to the next atomic: nobody else runs until `scheduleNext()` says so.

| Code | Actions |
|---|---|
| `run()`; a program that returns | `Run`; `Exit` |
| `SimStop` at the end of the time | `Unwind` |
| `SimRadio::send()` up to and after its wait | `Send`; `SendReturns` with `FinishTransmission` |
| `SimRadio::receive()` | `Receive` and `ReceiveReturns`, or `ReceiveBuffered` |
| `sleepMs()` | `SleepMs` |

Loss and the delivery filter are a choice (`lost`). `overflow` and the outcome letters
are the simulator's own records; `windows` holds what `recordWindows` does, and with it the
time asked for. Left out: topologies that change during a run, two programs on one radio,
programs that throw, the filter changing bytes, counters, observers.

Definitions marked `seeded fault` are the ones a run must be able to tell from the
code's: each replaces one definition and makes the named property fail.

## 3. Runs

Constants of an instance keep the order of the code's numbers, not their size:
a tick is a slot's worth of time unless the run is about several ticks per frame.

| Run | Shows | Bounds |
|---|---|---|
| `LinkPair` | what was confirmed is read, suppression hits copies only, and the refinement of `AckedDelivery`, which has at-most-once, order and true confirmations in it; two nodes sending to each other, loss, damage, failing radio | 2 calls and 1 call of up to 2 attempts, a backoff of up to 16 slots, queue 1, table 2, sequence numbers modulo 2 |
| `LinkTrio` | a receiver of two senders that also broadcasts; everybody overhears everybody; no time-on-air reports | 1 call each, table 2 |
| `LinkBackoff` | the backoff link: access delay, frames of 4 ticks, 3 attempts with growing backoff of up to 8 slots, failing radio, changing addresses, a long payload that is refused; with the inductive invariant of the proofs and the return of every call | 1 call each, two addresses for one of the nodes |
| `LinkEmptyPayload` | *violated*: an acknowledged empty payload heard while busy is lost | payload lengths 0, 1 |
| `LinkMixedLengths` | *violated*: the window of a short frame expires the entry of a long one, and it is delivered twice | 3 nodes, air time 1 and 3 |
| `MessengerPair` | tables inverse, bounded, true; frames within their limit; messages by name reach no node but one of that name, and are shown with a name of their sender | 2 nodes of one name, one of which restarts or boots again; 3 names, 3 addresses, tables of 2; each asks for one thing and sends one text; 1 unread frame; a query sent 3 times |
| `MessengerQueue` | a full queue loses the oldest only, the others are read in order; every call returns | as before, without restarts; 3 texts for a queue of 2; 2 addresses; one node asks, and its query is sent twice, 0 or 1 ticks apart; the other announces itself and sends |
| `RadioDriver` | interrupts never stuck, `send()` truthful, frames kept and given in order, once but for the named race; calls return | 3 frames of 1 tick; transmissions of 1 or 2 ticks or without end, a limit of 2, a timer of 3; receive timeouts 0 and 2; any number of restarts |
| `SimWorldRun` | the simulator's clock, outcomes, hand-over and end | 3 programs with 3, 2 and 2 calls, one of which listens only; frames of 2 and 4, the longest allowed; one radio that receives all the time, with 2 slots; hidden nodes or not; 10 ms |
| `EncryptedPair` | only genuine payloads, full timeouts, sizes, vectors; hashes, tags and ciphers keep what the model takes for granted, for all payloads up to 47 bytes, keys and names up to 130 | 4 nodes: two of one network, one with a clock and one without, one of another network, one without encryption; clock modulo 4; frames of 39, 55 or 72 bytes; payloads of 40 bytes (sealed they fit the last only), buffers of 20 and 255 |
| `RollConverge` | collisions are resolved, and not by both nodes moving | 2 nodes of one name, 3 addresses, 2 nonces; 2 unread frames; moves announced after 1 or 2 ticks; no queries, no restarts |
| `RollBothMove` | *violated*: both claimants of a name give it up | 3 nodes, of which two configured with one name; symmetric in these |

Why the bounds are enough: a duplicate needs one message and two of its
transmissions; a misdirected ACK needs two exchanges; suppression of a new message
needs two messages of one sender; eviction needs one more live frame than slots;
a full queue needs one payload kept and one more heard. In RollCall a collision
needs two nodes and a third address to move to; a full table the node itself
and one other; a stale entry a node that moves or restarts with another name or
address. A full queue needs one message more than it holds, and has to hold two for the oldest to be one
of several; with two nodes, the one that moves always finds one of two addresses free. Elapsed time that is
computed wrongly needs a clock that wraps inside a call, and two rejected
payloads. A lost interrupt needs one event between two commands, and a stale one the
end of an earlier `send()`: two calls and three frames. A collision the simulator's scan
might forget needs the longest frame and two shorter ones. Where a hash goes wrong depends
on the length modulo 64, and the lengths cover two blocks. Each bound allows those and one step more. `SeqMod` is 2 so that
neighbouring calls differ and the third wraps (only in the theorem `IdentityKept`
do numbers come round many times). `MaxCalls`, `MaxFrames`, `MaxBoots`, `MaxSends` and that a text is sent once are the only
bounds that the code does not have.

`PromptReaders` says that an application reads what its radio holds before it
sends or time passes. The passing runs of duplicate suppression need it: the
window is measured from when a frame is read (`isDuplicate()`, line 342), so that a
copy left in the driver for longer is delivered again. `RadioFails` lets
`IRadio::send()` return false.

When the middle one of three transmissions is lost, the copies a receiver hears are two
gaps apart, and `effectiveDupWindowMs()` covers one. With three attempts and a backoff of
up to 4 slots `OnceInOrder` fails on `LoRaLinkCore` for that reason, so that the
passing runs keep to two attempts, or to a limit of the backoff that these never reach. With `MAX_BACKOFF_SLOTS` at
16 the window covers two gaps while backoffs are still short (theorem `CodeTimesSuffice`): in the
code it takes five attempts or more, where the default of `maxRetries` is 3.

Two nodes cannot both give up a name in `RollConverge`: that takes an
announcement read after its sender has lost its *address* to a third node, which is
`RollBothMove`. A restart can take the third node's part, which is why
`RollConverge` has none. Its nodes may draw one nonce; then `Converges` asks nothing
of them, as the code has no rule for two nodes that agree in all three.
`RollConverge` has no queries: a driver that keeps only the newest frame lets
queries that never stop replace every announcement before it is read.

Fairness of the link (`FairSpec`). Weak fairness of each node's link steps: a call that is
blocked keeps running, which is what the thread does. Strong fairness of `Tick`: time
is enabled only between the steps of blocked calls, yet a clock advances
whatever the applications do, also when one calls `receivePacket()` in a loop.
Where an instance says `PromptReaders`, an application that has an unread frame does read
it (`PromptRead`), as time stands still until then. Nothing else is assumed of the
applications, and nothing of the medium.

Fairness of the driver. Weak fairness of `Thread` (the thread runs), of `Tick` (time
passes) and of `Events` (what is due happens); nothing of the chip ever ending a
transmission. Fairness of the simulator. Weak fairness of its steps: the operating system
runs the one thread that may run, and at the end those that are released.

Fairness of RollCall (`FairSpec`). Weak fairness of each node's `Runs`: its thread
goes on, and its application calls `processMessages()` again and again, as
RollCall.h:105 asks ("Call this regularly"). Strong fairness of `Tick`, as above; the
instances call `processMessages()` with a timeout above 0, since a call with 0 takes
no time in the model and calls without end would keep the clock from advancing.
Strong fairness of `AnnounceTo(n, m)`: of the announcements a node makes over and
over, each other node hears one now and then. The code justifies it with
randomised periods and delays (RollCall.cpp:517, 96-99): two nodes do not collide for
ever. It is stated for a network that only settles (`Settling`): a node that never stops
sending or asking would fill every inbox, and then nothing converges.

Fairness of the messenger (`MFairSpec`). Strong fairness of time, weak fairness of
`RunsOn`: the thread of a node goes on inside the call it is in. That an application
ever reads, sends or listens again is not assumed, and `SendReturns`, which is about every
call of the node and not only about sending, holds without it.

`RightReceiver` and `RightSender` are asked for behaviours in which no two nodes ever went
by one address (`AddressesDistinct`). While two nodes share an address, or after one has
moved to an address another gave up, nothing in a frame tells them apart, and the
library does not claim to. What is left is what the code is responsible for: that a
name is resolved to an address its bearer had, in whatever order answers, moves and
restarts come in.

## 4. Proofs

All with TLAPS, for every number of nodes, addresses, queue and table size,
payload lengths, timing constants, and whatever the medium does.

* `TypeCorrect`: `Spec => []TypeOK`. Inductive as it stands: it ties `job` to
  `pc`, which is what makes a blocked call find the data of its kind.
* `WindowCoversRetry`: between the ends of two consecutive transmissions of a frame
  there pass at most `effectiveDupWindowMs()`, for every attempt and random choice,
  if a slot is no shorter than the frame. That is what the comment in
  `effectiveDupWindowMs()` asks for; `LinkMixedLengths`, and what section 3 says of
  lost copies, show what it does not give.
* `IdentityKept`: `Spec => []IdentityInv` when no two nodes use one address. On
  the air a message is named by source and sequence number. The invariant says
  that every frame in a driver, every call in progress, every table entry names
  its message, and that ACKs and entries exist only for messages taken in. It is
  needed because the two properties below talk of the end of an exchange only: an
  ACK in flight must be known to come from an acceptance, a suppressed copy's ACK
  must be traced through the table entry back to one, and an entry keeps its
  key while it is swept, refreshed, evicted or ages.
* `AckedWasAccepted` and `SuppressedWasAccepted`: `AckedMeansAccepted` and
  `OnlyCopiesSuppressed` for behaviours in which no node makes more calls than there
  are sequence numbers, so that a name is a message. Beyond that `IdentityKept`
  still ties the ACK to a message of the same name.
* `DeliveredOnceInOrder`: `OnceInOrder`, whatever is lost, damaged or retransmitted. The
  invariant behind it, `CopyInv`, is about time. A node that took a message in whose sender
  may transmit again has an entry for it that lives as long as the last copy may still
  need (`Remaining`) and the node's own transmissions may keep it from reading
  (`UnreadTime`); a copy that is already in the driver needs the second part only. From
  that, a copy is never taken in again, and `Lined` puts what is queued and
  delivered of each sender in the order of its calls.
* `AckedWasDelivered`: `AckedReachesReader`. `LineKept` says that nothing is taken in and
  then dropped: it was returned, or is in the queue of a busy link.
* `LinkImplementsDelivery`: `ImplementsDelivery`, the link under the mapping of
  `LoRaLinkCore` implements `AckedDelivery`. Each step is matched by a call, an acceptance,
  a confirmation or a read of the abstract service, or by nothing; `CopyInv` makes
  an acceptance the first one, `AckedMeansAccepted` a confirmation a true one.
* `CodeTimesSuffice`: with the numbers the code comes with and at most three attempts,
  `OnceInOrder` without any assumption on gaps: two of them, with backoffs below two and four
  slots, and three transmissions of the receiver's own take less than the window,
  which is 18 slots longer than the ACK wait and at least four times as long as that.

The hypotheses of these four, each needed because the code does fail without it:

| Hypothesis | Means | Without it |
|---|---|---|
| `PromptReaders` | an application reads what its radio holds before it sends or time passes | a copy that waited in the driver past the window is delivered again |
| `OneAsker` | no two nodes ask one node for ACKs | messages of another sender fill the table and push a live entry out (cpp:361); the next copy is delivered again |
| `OneWindow` | frames of all lengths are remembered equally long, as with one length, or a `setDuplicateWindowMs()` above what the link computes | `LinkMixedLengths` |
| `CopiesInTime` | all retransmissions of a call, and the receiver's own, are over within the window; `CodeTimes` and `OneWindow` imply it | `worstGap` (cpp:116) covers one gap: five attempts or more, on a modem slow enough that it is above the configured window, outlast it |
| `ReadsFit` (not for order) | no empty payloads, and buffers that hold any payload | `LinkEmptyPayload`; a longer payload is dropped after it was acknowledged (cpp:330) |
| `DistinctIds`, `NoWrap` (not for order) | as above | a name is more than one message |

`LinkPair` meets all of them, `CodeTimes` included: TLC evaluates the ASSUMEs in `MCLinkDelivery`.

The type invariants of `EncryptedLoRaLink`, `SemtechRadio` and `SimWorld` are
theorems (`EncryptedTypeCorrect`, `TypeCorrect`) and take no part in the runs.

For RollCall, for every number of nodes, names, addresses, frames, any delays and
timeouts, and whatever subset of nodes hears a frame:

* `TypeCorrect`, `TablesStayInverse`, `TablesStayBounded`, `EntriesStayTrue`:
  `TypeOK`, `TablesAgree`, `TableFits` and `EntriesWereTrue` of `RollCall`. All four
  follow from one invariant, `IInv` (theorem `Invariance`). For
  `TablesAgree` it adds that a running node has an address; the rest needs more: that
  an entry is true follows from the announcement it was learned from, so
  `IInv` says that every frame under way claims an identity on record, which holds
  as a running node is itself on record. That a node which moves still fits into its
  table follows from its own entry being there, which it gives up first.
  The lemmas on single tables come first, among them that `learn()`,
  `changeId()` and `changeName()` add no entry but the one they are called for
  (`AddsOnly`).
* `NameIsKept`: `SomeoneKeepsName`, when all nodes are configured with one name
  (`NamesAlike`) or each with its own (`NamesApart`). In the second case a claim to somebody's
  name is never made; in the first, the node that began with the smallest address,
  and nonce among equals, never gives way: an announcement of the shared name always
  carries the address and nonce its sender began with, since a node that loses its
  address to another claimant of the name loses the name with it (`KeepsName`). With
  several names this fails: a third node with a name of its own takes an address
  away and leaves the name, which is `RollBothMove`. `OneBoot`: a restarted node begins with another
  pair, while the announcement of the smaller one it had is still unread, and makes others
  give way to nobody. `RoomForSuffix`: a name of full length loses its end to the suffix,
  and may come to sort before the name it was made from, or be that name again.

For the messenger, for every number of nodes, names, addresses, texts and queue sizes:

* `MessengerIsRollCall`: `MSpec => Spec`. Every step of the messenger is a step of
  RollCall or leaves it alone, so that the theorems above hold with messages under way.
* `MessengerTypeCorrect`, `MessagesReachTheName`, `SendersAreNamedRight`: `MailOK`,
  `RightReceiver` and `RightSender`, from one invariant, `MInv`, which contains `IInv`. Its
  argument follows the address: a name is resolved to an address on record with it
  (`EntriesWereTrue`), the frame carries that address, and only a node that goes by it
  takes the frame in. So `MInv` says of every frame under way, queued message and
  message shown what is on record about its text. The record only grows (`Grows`),
  but for the texts sent, where it is needed that a text on hold in `outgoing` is not
  yet on the air; otherwise the name it will be sent to could contradict frames
  under way.
* `NewestStayInOrder`: `NewestKept`, from a second invariant, `KInv`. A text goes on the air
  once, so what a node has taken in tells its messages apart (`Apart`, `Unheard`); the queue is the
  end of that, everything before it was read or pushed out by as many newer ones as the
  queue holds (`Gone`, `Pushed`), and each push was counted (`Tally`).

For `EncryptedLoRaLink`, for every number of nodes and networks, sizes of frames, clock
widths, timeouts and whatever is lost, damaged or rejected:

* `EncryptedTypeCorrect`, `PayloadsFit`, `ListensItsTimeout`, `OnlySealedReturned`,
  `VectorsDiffer`: types, sizes, times, authenticity and vectors, from one invariant. Its part on
  time ties the ticks that passed, the ticks left to the link below and the difference of
  a clock that wraps: the difference is right as long as fewer ticks pass than the
  clock has values, which holds because a timeout is below that. Its part on frames says
  that every frame under way which verifies under a key was sealed under it; its part on
  vectors that the `i`-th vector of a power cycle carries the counter `i - 1`.
* `KeysVectorsTagsHmac`: `MacsAreHmac`. The tables of lengths behind it are filled in by
  `HmacIsRfc2104`, which is about keys and data of any length.
* `OpensAsSealed`: with the tag of a sealed payload `open()` accepts that payload's vector
  and cipher under its key and source, and nothing else of that length. Equal HMACs of messages
  of one length are HMACs of equal messages (`HmacBinds`), and the source, the vector
  and the cipher can be read off the message (`AuthenticatedBinds`).
* `CiphersFaithful`: `CiphersKeepFaith`, that a frame opens if and only if it is whole, of
  the same network and fits. What was sealed comes back by `CbcRoundTrip`; a changed vector or
  block, another key or another source makes another tag; a shortened tag is no HMAC
  at all (`TailIsNoHmac`).

For `LplCrypto`, for keys and messages of any length, with a perfect `compress()` and a perfect
cipher of one block:

* `StreamedHash`: a message handed to `update()` in two parts of any length gets the digest of
  the whole. `Taken` says what the loop keeps: the blocks compressed and the filled
  part of the buffer are what went in so far. One turn (`PassHolds`) keeps that and shortens
  the rest; `Turns` of them leave nothing. `FinishIsHash` is the case distinction of `finish()`, whether
  the marker leaves room for the length in its block.
* `HmacIsRfc2104`, from three such streams: key, first and second part.
* `CbcRoundTrip`: decrypting block by block gives back the padded text, and the padding read
  off its last byte is the padding that was put there, since there always is one.

They rest on `EveryNatural`: a set with 0 and every successor is all of `Nat`, since of what is missing one
number would be the least (`WFMin` of the library). From it the recursive functions get a
value at every turn (`TurnsComputed`, `CipherComputed`).

For `SemtechRadio`, for every length of frames, transmissions, limits and timeouts, and
every number of frames, from one invariant:

* `InterruptsNeverStuck` holds because `RadioIrqProcess` resets `IrqFired` before it reads
  the chip and `begin()` resets the chip; with the reset at the end the run finds it violated.
* `SentWasAired` needs that `_txDone` and an unserved `TxDone` between the flags being
  reset and the transmission being ended come from this call: a late one from an
  earlier call was cut off by `Standby()`, or is served by the first line of `send()`.
* `EarlyFailures` needs that a timer left running belongs to a send that failed, and that
  the timer of this one outlasts its limit (`TimesAssumption`).
* `QuietFramesKept`: `KeptWhileQuiet`. A second invariant, `KeptInv`, follows the frame that
  `receive()` owes: it is in the chip with its interrupt pending, or that has been read and
  the buffer not yet, or the driver has it. Both calls serve the interrupts first, and
  `IrqNeverStuck` makes that serve this one, so that only the last is left when
  `send()` writes to the buffer or `receive()` returns.
* `TypeCorrect`, `AlwaysListens`, `NeverReplayed`, `ReceptionOnlyCutBySend`.

For `SimWorld`, for any number of programs and radios, topologies, times on air, timeouts:
`TypeCorrect`, `NoOversleeping`, `ReturnsOnTime`. Their invariant says who may be due
before the clock (nobody but the one that runs), that a receiver with a frame is due at the
instant the frame ended, and that a sender is due when its frame ends; it needs that the choice of the
next program is well defined (`BestIsFirst`). A second invariant, `AirInv`, on top of it is
about the air, and gives `OutcomesStand` (`OutcomeFinal`), `WindowsTell` (`WindowsDecide`) and
`HandedOver` (`HandedOverInOrder`): frames that end at one instant overlapped, so that no node
got two of them; the end of a frame comes before a timeout of the same instant, so that a
window that is still open reaches over every frame that is not over; and what a node got it
holds, has buffered or was handed, in the order the frames ended.

Assumptions: the named ASSUMEs of `LinkTiming`, `LoRaLinkCore`, `PeerTable`, `RollCall`,
`PeerMessenger`, `EncryptedLoRaLink`, `SemtechRadio` and `SimWorld` (evaluated by TLC on every run), and
where a theorem says so `DistinctIds`, `NoWrap`, the hypotheses of the table above, or those of `NameIsKept`.

Only model-checked: liveness (`CallsReturn`, `SendReturns`, `Converges`, `RunEnds`), which
is beyond the prover. That the primitives are perfect inside a block is
an assumption of the model, not a result. Every other property of a passing run is
a theorem. `OnceInOrder` and `AckedReachesReader` remain model-checked where the hypotheses
above do not hold, as in `LinkTrio`, where two senders ask one receiver.

## 5. Not modelled, and the plan

Done: every component of the library, its reference driver and the simulator its tests
run on, as far as the notes in `PROJECT.json` say.

What is left, in this order:

1. `OneAsker` and `OneWindow` replaced by what they stand for: no more entries of other
   senders than the table has room for while a copy may still come, and windows
   that differ by less than the retransmissions leave.
2. At-most-once delivery beyond the wrap of sequence numbers for confirmations too
   (`NoWrap`), from the time a name rests before it is used again.
3. The link on top of the driver: `SemtechRadio` under `LoRaLinkCore` with the frames it
   loses, instead of the contract.
4. Smaller extensions: announcements without a nonce, clocks of the link that wrap,
   a driver that underestimates the time on air, topologies that change during a
   simulated run.

Not modelled:

* The vendored LoRaWAN stack (`lib/LoraWan102`), the display and crypto libraries and
  fonts: third-party code, about nine tenths of the repository's source lines. The driver
  calls a dozen functions of its radio layer, of which those that act on the chip after
  its configuration are in `SemtechRadio`; the MAC layer, the
  regions, the drivers of other chips and the board support are never called. A
  model of them would say nothing about LoRaPeerLink, and so the share of all
  lines that the models cover stays small, while it is high for `src/src`,
  `SemtechRadio.cpp` and `tests/sim`.
* AES rounds and the compression function: bit arithmetic with published test vectors.
* The applications under `examples`, `MockRadio` and the tests: they only call the rest.
