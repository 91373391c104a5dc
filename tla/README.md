# TLA+ models of Soft-Phone

This directory holds TLA+ specifications of the two parts of the repository
that have behaviour of their own: the SIP stack under `src/siplib` (mjSIP,
`org.mjsip.sip.*`, with `org.zoolu.util.Timer`), and the voice codecs under
`src/voipcodec/src/main/jni`, with the JNI wrappers around them. It holds the TLC
configurations that check them, and TLAPS proofs. Java paths are relative to
`src/siplib/src/main/java/org/mjsip/sip/`, C paths to
`src/voipcodec/src/main/jni/`, unless they say otherwise; `File:n` is a line.

`tlc -config X.cfg M` repeats a run of section 5, `tlapm M.tla` the proofs of
a module of section 6. `PROJECT.json` lists the runs, the lines each definition
models, a faulty variant of the code that each property detects, the hazards
and the theorems.

## 1. The system and its parts

The Android application (`src/app`) is a user interface over Telecom stubs that
does not drive the stack yet; the logic is in the libraries.

    user ── Call ── InviteDialog ── transactions ── SipProvider ── transports ── network
                                        │
                                      Timer (scheduler thread)

    user ── Codec.kt ── JNI wrapper ── encoder ── packets ── decoder ── JNI wrapper ── user
                                         │                      │
                                   basic operators,  bit stream, quantisers

### SIP

| component | state it keeps | operations and events | how it talks to others |
|---|---|---|---|
| **INVITE transactions** `transaction/InviteTransactionClient`, `InviteTransactionServer` | status (Idle … Terminated), timers A/B/D and G/H/I, listener, connection id, last response | `request`, `listen`, `respondWith`, `terminate`, received responses/INVITE/ACK, three timeouts each | registered in the provider's table; calls its listener (the dialog), which may call `terminate()` from within the callback |
| **Non-INVITE transactions** `TransactionClient`, `TransactionServer`, `CancelTransactionServer` | as above, timers E/F/K and J | as above | as above; used for BYE, CANCEL, REGISTER … |
| **2xx and ACK transactions** `AckTransactionServer`, `AckTransactionClient` | status, two timers, the 2xx | `respond`, `terminate`, a duplicate INVITE, timeouts | created by the callee's dialog to carry a 2xx; the ACK itself comes through the dialog |
| **Timers and threads** `org/zoolu/util/Timer` | `is_running`, the monitor of the timer | `start`, `halt`, expiry | one scheduler thread calls `onTimeout()` with the timer's monitor held; a receiver thread per transport calls `onReceivedMessage()`; the user calls from his own thread |
| **INVITE dialog** `dialog/InviteDialog`, `Dialog` | thirteen states, a field per pending transaction, local and remote CSeq | `listen`, `invite`, `reInvite`, `accept`, `refuse`, `cancel`, `bye`, `terminate`; INVITE, ACK, CANCEL, BYE and all answers and timeouts | owns transactions, is registered under its dialog id, calls the call |
| **Call** `call/Call` | `call_state` (Idle, Incoming, Outgoing, Active, Closed) | `listen`, `call`, `accept`, `refuse`, `redirect`, `modify`, `hangup`; the dialog's callbacks | calls its dialog, whose listener it is |
| **Default servers** `call/NotImplementedServer`, `OptionsServer`, `CancelServer` | none | answer a message nobody else takes | listeners of the provider by method |
| **SIP provider** `provider/SipProvider` | table of selective listeners, transports | `addSelectiveListener`, `removeSelectiveListener`, `sendMessage`, routing of a received message by transaction, dialog, method | called by everybody |
| **Connection-oriented transport** `provider/SipTransportCO` | table of at most `nmax_connections` connections | send, accept, evict, terminate | callbacks from connection threads |
| **Registration client** `call/RegistrationClient` | attempt counter, loop flag, expiry | `register`, `unregister`, `loopRegister`, `halt`, responses, timeouts | a `TransactionClient` per REGISTER |
| **Reliable provisional responder** `transaction/ReliableProvisionalResponder` | queue of unacknowledged 1xx | `respond`, `processPrack`, `terminate`, timeout | takes its own monitor and the timer's, in both orders |
| **Extended dialog and call** `dialog/ExtendedInviteDialog`, `call/ExtendedCall` | table of transactions, authentication attempts | REFER, NOTIFY, requests with credentials | extends the dialog |

### Codecs

`Android.mk` builds narrowband Speex with `-DFIXED_POINT`, BroadVoice16 and
bcg729 (G.729 with Annex B).

| component | state it keeps | operations | how it talks to others |
|---|---|---|---|
| **Fixed-point operators** `bx16_fixedp/itug191lib/basop32.c`, `itug729ilib/oper_32b.c` | the global flags `Overflow` and `Carry` | `L_mac`, `L_shl`, `shr_r`, `div_s`, `norm_l`, `Mpy_32` … | every line of BroadVoice16 is written with them |
| **Speex bit stream** `speex-1.2rc1/libspeex/bits.c` | buffer, length, cursor, owner and overflow flags | `pack`, `insert_terminator`, `write`, `write_whole_bytes`, `read_from`, `read_whole_bytes`, `unpack`, `peek`, `advance`, `rewind`, `reset` | between encoder, packets and decoder |
| **Speex codec** `nb_celp.c`, `modes.c`, `quant_lsp.c`, `vq.c`, `lsp.c`, `ltp.c`, `speex_callbacks.c` | encoder: submode, VBR/VAD/DTX settings and count, old LSPs; decoder: loss count, DTX flag, old LSPs, last pitch gains | `nb_encode`, `nb_decode`, both `ctl`s, in-band requests | only through packets |
| **G.729 codec** `bcg729/src` | four words of LSF prediction, four gain errors, seeds and gains of the comfort noise, the detector's means | `bcg729Encoder`, `bcg729Decoder`, `bcg729_vad`, `encodeSIDFrame`, `decodeSIDframe` | only through packets |
| **BroadVoice16 codec** `bx16_fixedp/bv16` | memories of the LSP and gain predictors, the level estimate | `BV16_Encode`, `BV16_Decode`, `BV16_PLC`, `BV16_BitPack` | only through packets |
| **Codec wrappers** `g729_jni.cpp`, `bv16_jni.cpp`, `speex_jni.cpp`, `Codec.kt` | `codec_open` and one global encoder and decoder | `open`, `encode`, `decode`, `close` | called by `Codec.kt` |
| **Filters and analysis**, **G.711** | signals; tables | numeric | what they find is an input of the codecs |

### What is hard here, and what makes each part right

* *Transactions.* A response, timer B and the user's `terminate()` race to end
  a transaction; a callback may re-enter it; every path must leave the provider's
  table. Right: the outcomes agree (nothing twice, a refusal with nothing else),
  in the table exactly while alive, both sides end.
* *Threads.* The handlers of a transaction are not synchronized. All the order
  there is comes from the timer's monitor. Right: `halt()` is final, no user
  hears both of a refusal and of a timeout, no deadlock.
* *2xx and ACK.* The 2xx and the ACK are end to end and may be lost or doubled.
  A re-INVITE may come before the ACK of the INVITE. Right: the transaction lives exactly
  while its dialog awaits the ACK, or for ever where the dialog lost sight of it.
* *Dialog.* CANCEL crosses the answer, BYEs and re-INVITEs cross each other,
  an answer comes for a dialog that has moved on. Right: no INVITE has two final
  answers unless a CANCEL met its `accept()`, a closed dialog stays closed, both sides agree on the end.
* *Call.* The user hangs up at any time, the answer on its way. Right: no
  established dialog is left behind a closed call, and a closed call stays closed.
* *Operators.* Saturation, rounding and carry differ at the corners of a
  word, and one flag is tested after a whole loop. Right: without the flag the
  value is the exact one.
* *Bit stream.* Packing ORs into memory that must have been cleared, in a buffer that may
  grow, may fail to, or is borrowed. Right: it is a queue of bits.
* *Codecs.* Both ends predict from what they have sent or received, frames have neither
  lengths nor numbers, silence is not sent at all. A lost frame leaves the ends with different
  memories; a frame of silence withheld looks like one lost. Right: every field is read as it was
  written; a loss does its damage for as long as the memories last; silence and speech
  are the same thing to both ends; a code's own test for bit errors raises no false alarm.
* *Wrappers.* All calls share one encoder and one decoder, counted by their users.

## 2. The modules

| module | models | composed of |
|---|---|---|
| `TransactionNet` | what a transaction sees of `SipProvider.sendMessage` and of the transport: the network, and whether a connection carried the message | – |
| `InviteTransactionClient` | its class, with the handlers of three threads in steps | `TransactionNet` |
| `InviteTransactionServer` | its class | `TransactionNet` |
| `InviteTransaction` | a client and the server it reaches | both |
| `NonInviteTransaction` | `TransactionClient` and `TransactionServer` | `TransactionNet` |
| `OutcomePromise` | abstract: one outcome, asked for and then told or dropped; `NonInviteTransaction` implements it, at handler grain | – |
| `TransactionThreads` | the final-response, timer B and `terminate()` paths of `InviteTransactionClient`, one action per statement, with `Timer`'s monitor | – |
| `AckTransaction` | `AckTransactionServer` and `AckTransactionClient` of an INVITE and its re-INVITEs, between two dialogs, over a network that counts copies | – |
| `InviteDialog` | a caller's and a callee's `InviteDialog` with the transactions each owns | – |
| `DialogPair` | both dialogs under free users | `InviteDialog` |
| `Call` | both calls over their dialogs | `InviteDialog` |
| `BasicOps` | the operators, for words of any width, and when each sets `Overflow` | – |
| `FixedPointUnit` | a computation written with them, beside the same one on unbounded integers | `BasicOps` |
| `BitQueue` | abstract: a string of bits with a read position | – |
| `SpeexBits` | `bits.c` bit by bit; implements `BitQueue` | – |
| `SpeexFrame` | submodes, and the fields of a frame as they are packed and, separately, as they are unpacked | – |
| `SpeexQuantisers` | LSP stages, interpolation, codebook searches | – |
| `SpeexEncoder`, `SpeexDecoder` | the two state machines | `SpeexFrame` |
| `SpeexSession` | an encoder, packets that are lost or withheld, a decoder | all Speex modules but the bits |
| `G729Frame` | parameters, their bits, delays, pulses, gain codes, LSF words | – |
| `G729Vad` | the voice activity detector | – |
| `G729Encoder`, `G729Decoder` | the two channels, with DTX, comfort noise and erasures | `G729Frame`, `G729Vad` |
| `BV16Codec` | both ends of BroadVoice16, the log-gain in the code's own fixed point | – |
| `LspOrder` | how both codecs put decoded LSPs in order and apart | – |
| `VoiceLink` | wrappers, a sender and a receiver of G.729 or BV16 | all of the last six |
| `*_proofs` | theorems and lemmas | the module they name; `InviteTransaction_proofs` also `AckTransaction`, `InviteDialog_proofs` also `Call` and `DialogPair` |
| `MC*` | values of the constants | the module they name |

### How state and actions correspond to the code: SIP

**Transactions.** `tc` and `ts` are the two objects as records: `status`,
`timers` (those that are running), `conn` (`connection_id != null`), `registered`
(in the provider's table) and `listener` (not null). `outcomes` is the history
of final callbacks; for an INVITE it counts them, by kind. There is one action for each branch of
`onReceivedMessage` and of `onTimeout` and one for each public method. `terminate()` called by the
user's own callback is the choice in `ClientAfterCallback`: the handler goes on
afterwards, as the code does, so `end_to` may be started on a terminated transaction.
`ServerRespond` overwrites `response` in every state, as `respondWith` does
before it looks at the status. The length of a retransmission interval is not
modelled: a timer that runs may expire at any time.

The handlers of `InviteTransactionClient` are not atomic. `rx` is where the receiver is in
`onReceivedMessage()`, `timerB` where the scheduler is in timer B's branch of `onTimeout()`, and
`leaving` the user between the two statements of `terminate()`. The steps are the test of the
status (`ClientReceives`), the acts on the transaction (`ClientProvisional`, `ClientFailure`, `ClientSuccess`),
the test of the listener, the callback, and the reset of the listener (`ClientChecks`, `ClientTells`,
`ClientForgets`; `Timeout...` likewise). The scheduler holds the timer's monitor through timer B's handler, so a receiver that
halts the timer waits for `timerB = "idle"`; `doTerminate()` of a terminated transaction halts nothing
and does not wait.

`AckTransaction` counts INVITEs: `ats[n]` is the transaction of the nth, `ackTs` the dialog's one field for them.
`respond()` is two steps, the status and then the new transaction (`answering`), since an ACK may come between
them. A re-INVITE is taken in any state but D_CLOSE, as `verifyStatus()` only logs; the caller may
leave at any time. `forgotten` is a history variable: the transactions whose ACK the dialog will not pass on.

**Network.** Over UDP a message, once sent, stays in `net`: it may be delivered
any number of times, in any order, or never. Over a reliable transport
(`Reliable = TRUE`, which the proofs cover and the runs no longer repeat) delivery
consumes it, and a send may fail: `sendRawMessage` swallows the `IOException`
and returns null, which the transaction takes for "unreliable", so that `conn`
is FALSE and it retransmits. `AckTransaction` counts copies instead, because
there it matters that the last one may be lost.

**Dialog.** `ua[p]` is the dialog of party `p`: its `status` without the prefix
`D_`, the CSeq numbers, and the status of every transaction it has made, by
CSeq. Numbers are needed since a transaction may outlive the field that
named it: `invOut` and `invIn` say which one `invite_tc` and `invite_ts` name now.
A handler takes as `cbs` the callbacks that its listener is ready for, and
happens only if it makes one of them: `DialogPair` passes all of them, as a user who may do
anything afterwards; `Call` passes one and reacts to it in the same
step, as the code does, on one thread. A 180 of `ring()` is not a message of
its own: the automatic 100 has the same effect on the caller's transaction, and
is in `net` already. The re-INVITE and UPDATE paths check `verifyStatus()`,
which only logs; so `ReceiveReInvite` has no guard on the status.
`DefaultServers` are the sides where a `NotImplementedServer` listens: nothing under
`src` creates one, but it is what the stack offers for a request nobody takes. It answers 501 to a BYE and to
an INVITE, a repeated one included, unless a transaction or the dialog takes it (`Taken`).
`respond()` runs on the user's thread and the CANCEL handler on the receiver's: `CancelMeetsAccept` is the two past their
tests of the status together, when both a 2xx and a 487 go out.

**Call.** `call[p]` is `call_state`. The user calls `accept()` and `refuse()`
only for what the listener offered (an incoming call; `accept()` also for a
modification), `modify()` and `hangup()` at any time. `hangup()` closes
the call whatever its dialog does, and the dialog often does nothing.

**Threads.** The handlers hold no lock, so where two of them meet, one action for a handler is too coarse. Three
modules go below it: `TransactionThreads` takes the paths of a final response, of timer B and of
`terminate()` statement by statement, with the timer's monitor; `InviteTransactionClient` takes them in the steps between
which another thread matters, with the server, the network and the other paths around them; `AckTransaction` splits
`respond()`, and `InviteDialog` has the pair that matters most there, a CANCEL and `accept()`.
Everything else — `NonInviteTransaction`, `InviteTransactionServer`, the other handlers of the dialog, `Call` — is at the grain of a
handler. `TransactionClient` has the same tests without a lock as `InviteTransactionClient`, so that `OneOutcome` and
`KeepsPromise` of `noninvite_udp` hold of handlers that do not overlap: a final response past its test
when timer F expires may be told beside the timeout (section 7).

### How state and actions correspond to the code: codecs

**What is an input.** A codec's control depends on the sound only through what the
analysis makes of it. That is an argument of the encoder (`Analysis` in `SpeexSession`, `Sounds` in
`VoiceLink`): LSP indexes, delays, pulses, gains, energies. All that the
program then does with them — which submode or kind of frame, which bits, which memories of both
ends — is computed as the code does.

**Fixed point.** `BasicOps` has the word width `W` as a parameter and every literal of the source
as the expression in `W` that it stands for; the library is `W = 16`. Each operator that may set
`Overflow` has a predicate `..._ovf` that says when. `FixedPointUnit` keeps `exact`, the
integer that the same steps compute without a bound, for as long as the flag is clear.

**Speex bits.** `b` is the structure: `buf` bit by bit, `nbBits`, the cursor
`ptr` (`charPtr` and `bitPtr` together), `owner`, `overflow`. A `realloc` may fail, or yield memory that holds
anything. `phase` is how the owner uses the stream: a coder resets it before it packs again after `write`, whose
terminator bits stay ORed in. `read_whole_bytes` without room (`NoneLeft`) takes what its own arithmetic leaves (`Taken`), which
may be less than nothing: the stream is then `"spoilt"`, its string no longer what was sent, or `"overrun"`, when a borrowed buffer was
written behind its end (`Outside`). `Hang` is the endless loop of `insert_terminator` on a full
buffer that cannot grow.

**Speex codec.** `enc` and `dec` are the two states; `out` is the packet being packed, `net` what the
decoder has not read of one, `owed` how many frames it must make up because a packet was lost or
withheld. `Read(b)` is how far the decoder moves its cursor over a block, `Bits(b)` how many bits the
block has. The count `20` of null frames is `DtxRefresh`. `cut` is a history variable: the application turned detection
off in a silence. `Refused` says that a packet holds a layer whose submode has no size, or one layer too many, at which the decoder gives the packet up;
`Astray` that it holds a request whose handler does not read all of it, after which the decoder may read anything (`DecodeAstray`).
The application's `SPEEX_SET_MODE`, and requests that set a mode of the encoder, are not among the controls.

**G.729.** A quantised LSF vector is the function of its indexes and of the four words before it that it is in the
code, not its numbers, together with the coefficient that the lower limit raised: the decoder's `computeqLSF` looks at the first, the
encoder's `LSPQuantization` at the second, and the vectors whose first is too low are the constant `BelowMin` (every third one in `MCVoiceLink`); `previousLCodeWord` and `previousGainPredictionError` are the memories of the decoder. The seed of the comfort noise
is counted in frames drawn. The detector is in the code's own numbers, for its decisions hang on them; its
periods of 32 and 128 frames are `Ni` and `N0`.

**BroadVoice16.** The gain's predictor, the level estimate and the test `lgclimit` are in the code's own Q11 and
Q25; an LSP vector is a label, and whether its sum is in order is an input. A decoder whose memory differs from the
encoder's may find an ordered vector out of order and the reverse (`Orders`).

**Wrappers.** `codec_open[side]` counts users; the first `open()` initialises, and a restart of one side alone is
a mishap like a lost packet. Through the wrappers (`link.library = FALSE`) the decoder is not told of a lost
packet, as no wrapper has a call for it. `tie` is a history variable: how many entries of the memories both
ends have had from the same frames.

## 3. Bounds

| bound | where | why it is enough |
|---|---|---|
| `Codes` = {180, 200, 486, 603} or {100, 200, 404} | transactions | the code looks only at the class of a code; two refusals let a second, different one arrive in Completed. The theorems hold for any set within 100..699 |
| one transaction on each side | transactions | a transaction shares nothing with another but the provider's table, which is keyed by its id |
| `MaxInvites` = 2, `MaxCopies` = 2 | `AckTransaction` | an INVITE and a re-INVITE that crosses its ACK; one copy lost or used while another is still in transit. The theorems hold for any number |
| `MaxCSeq` = 2 | `InviteDialog` | an INVITE and one more request from each side, a re-INVITE or a BYE, so that these cross in all ways. The theorems hold for any number |
| `ReInviters` both, `DefaultServers` the caller (dialogs), both (calls) | `InviteDialog` | either side re-invites; one side with a 501 and one without tell what the server changes |
| one dialog on each side | dialogs and calls | no forking: a second early dialog of one INVITE needs a proxy |
| `W` = 7; operands at and next to the corners | fixed point | each operator's cases are by sign, by saturation and by which bit is shifted out; seven bits have room for all of them, the accumulator takes every value of 14 bits, and of these seven bits or more remain above the error bounds of `DpfIsPrecise`, which do not grow with the width |
| `C` = 3, `MaxChars` = 2, `Widths` {1, 2}, `MaxBits` = 7 | bit stream | fields within a char, ending at its end and across two, and one bit more than the first buffer has, so that it must grow |
| `DtxRefresh` = 2, two LSP vectors, `MaxFrames` = `MaxBlocks` = 2, `MaxLost` = 2 | Speex session | a refresh, two null frames and the next refresh; two vectors tell a stale one from the last; a packet with a frame and what stands before or after it. The vectors are symmetric: no action tells one from the other. `MCExtras` has layers that are passed, too many of them, one without a size, and requests that are served, ignored and misread. `InStep` compares every submode that VBR, the qualities and the ceiling choose |
| `VbrModes` {0, 5}, `Qualities` {0, 8}, `Ceilings` {0, 6000} | Speex session | silence and speech; the lowest submodes and one above the ceiling |
| `MaxMishaps` = 2, `MaxUsers` = 2, sounds of 7 to 25 frames | voice link | a second loss while the first has not healed; one user more than the one whose `open()` counts; longer than the ten frames that the longest memory lasts. Sounds are listed in `MCVoiceLink`, each for a case: no two speech frames alike, a pause with a hum, a call that begins in silence, gains at the limit of a bit error |
| `Ni` = 2, `N0` = 3 | voice link | the periods pass within a sound |

`CHECK_DEADLOCK FALSE` is in a configuration where the system really
stops: transactions ended, dialogs closed, the sound at its end, the bound on CSeq numbers reached, or a
bit stream that hangs.

## 4. Fairness

Only the program's own threads are fair: the scheduler thread, so that a timer
which was started and which nobody halts expires (`TimerFairness`, `CallFairSpec`:
weak fairness, because a running timer stays running until it fires or is halted), and
a thread within a handler, which goes on to its end: the receiver and the scheduler in `invite_udp`
(`ClientReceiver`, `ClientScheduler`), every thread in `TransactionThreads`. Nothing is assumed of the
network, of the peer or of the user: any message may be lost and any user may stay
silent for ever. Retransmission timers need no fairness either: they only repeat.
The codecs are called by their users and have nothing that must happen by itself; their properties are safety properties.

## 5. Runs

| run | module, configuration | checks |
|---|---|---|
| `invite_udp` | `MCInviteTransaction`, Udp | over threads that overlap: `OutcomesAgree`, `RegisteredWhileAlive`, `AckMeansRefused`; `BothSettle` (what is not waiting for a peer or a user ends) (44 735 states) |
| `noninvite_udp` | `MCNonInviteTransaction` | one outcome, the table; `BothEnd`: unlike an INVITE's, these transactions end whatever they hear; `KeepsPromise` |
| `ack` | `AckTransaction` | `LivesWhileAccepted`, over an INVITE and a re-INVITE |
| `threads` | `TransactionThreads` | `HaltIsFinal`, `RefusedOrTimedOut`, `ThreadsFinish` (no deadlock between handlers and timer) |
| `dialog` | `MCDialogPair` | the callee listens or is created by the INVITE, both may re-invite, a CANCEL meets `accept()`, one side answers 501: `OneFinalAnswer`, `CallIsMutual`, `ByeAgreement`, `CloseIsFinal` (2 180 142 states) |
| `call` | `MCCall` | both modify the call and hang up at any time, both answer 501: `ActiveWasAccepted`, `CallerHangsUp`, `ClosedIsFinal`, `HangupCloses` (102 037 states) |
| `fixed_point` | `MCFixedPointUnit` | `ExactUnlessOverflow` over computations of any length; `DpfIsPrecise` and `OperatorsAreExact` of each operator |
| `speex_bits` | `MCSpeexBits` | `RoomToWrite`; `IsBitQueue` (refinement of `BitQueue`) |
| `speex_session` | `MCSpeexSession` | `InStep`, `QuantisersAgree`, `InterpolatesAlike`, `SilenceIsComfortNoise`, `ComfortNoiseIsRefreshed`, `CeilingHolds` (2 581 441 states) |
| `voice_link` | `MCVoiceLink` | `WordsReadBack`, `VectorsStayApart` of the formats; `Resynchronises`, `NoiseStaysInTune`, `TalkIsSent` of G.729, `Resynchronises`, `CleanLinkNeverAlarms`, `LevelFromCleanGains` of BroadVoice16 (382 311 states) |
| `ack_gives_up`, `g729_sharpening` | | each shows one divergence of section 7 |

Where the code has an exception, the property states it, and section 7 says what it is:

* `OutcomesAgree`: a 2xx and a timeout that cross;
* `LivesWhileAccepted`: what is `forgotten`;
* `OneFinalAnswer`: a dialog whose peer has sent a CANCEL;
* `HangupCloses`: D_BYEING does not last, but may end in D_CALL (the BYE was refused) or in a re-INVITE of the peer;
* `ClosedIsFinal` excludes a call whose own re-INVITE is pending, and `CallerHangsUp` the answer to one;
* `CeilingHolds` allows the lowest quality, which `SET_BITRATE` falls back to;
* `RoomToWrite`: a borrowed buffer that was appended to without room;
* `ComfortNoiseIsRefreshed`: an encoder whose detection was `cut` off;
* `InStep` is about a packet up to a request that the decoder misreads or a layer that it refuses;
* `Resynchronises` counts a descriptor that the encoder garbled as a mishap, and excepts a first coefficient below the limit.

Each property has a faulty variant of the code, named in a comment "Faulty
variant", that breaks it: a timer not started, a listener not removed, a test of
the status dropped, a char not cleared, a seed that is not reset. They are part of no specification.

## 6. Proofs

TLC checks the instances above; the theorems hold for every set of codes, either
transport, any number of copies, of INVITEs and of CSeq numbers, default servers on any side,
whoever may re-invite; for every table of ceilings and qualities and any period of the refresh; for chars, buffers, fields and packets of any size and whatever `realloc()` gives; for any sounds,
of any length, any number of users, losses and restarts, and any periods of the detector; for LSPs of any number and any limits that leave room for them; for words of 3 to 16 bits (the library's have 16) and any operands.
The only assumptions are the named `ASSUME`s on the constants, which the runs evaluate: those of the types
(`ReliableAssumption`, `AutoTryingAssumption`, `CodesAssumption`, `PartyAssumption`, `MaxCSeqAssumption`,
`OptionAssumption`, `VadAssumption`, `MaxAssumption`, `HandlersAssumption`), `BitsAssumption` (a field has 1 to 31 bits and fits in four chars, a packet is a string of whole chars), `SessionAssumption` (a quality is 0 to 10, a ceiling a number), `WidthAssumption` and `OperandsAssumption` (operands are words, a shift is at most the width) and `LinkAssumption`
(what the analysis finds is in the ranges that the searches of the code run over, `G729Findings` and `BV16Findings`).

| module | theorems | inductive invariant and why it is needed |
|---|---|---|
| `InviteTransaction_proofs` | `TypeCorrect`, `OutcomesAgreeAlways`, `RegisteredAlways`, `AckMeansRefusedAlways` | `IInv` says what each thread may rely on where it is (`Threads`): timer B's handler runs once (`TimerBOnce`); a receiver past `halt()` with a refusal is alone in telling (`RefusingAlone`); one with a 2xx has ended the transaction (`SucceedingEnded`); while a response is awaited and no thread is telling, nothing was told (`SilentWhileListening`). An ACK, in transit or received, exists only once a refusal was taken (`AckAfterFailure`). `ClientStepInv` takes the steps of the three threads one by one; each server handler has one of the effects in `ServerStepEffect`, which keep the invariant (`ServerEffectInv`). |
| `NonInviteTransaction_proofs` | `TypeCorrect`, `OneOutcomeAlways`, `RegisteredAlways`, `Refinement` | Here the listener is not reset after a final answer, so the argument is about timers: `transaction_to` runs only while an answer is awaited (`TimersFit`), and while one is awaited nothing was told (`TellsLast`). `Answered` (a server that answered has a response to repeat) is needed for the types. `Refinement` shows that each handler is `Ask`, `Tell`, `Drop` or a stutter of `OutcomePromise`. |
| `TransactionThreads_proofs` | `HaltIsFinalAlways`, `RefusedOrTimedOutAlways` | The monitor is the scheduler's exactly from expiry to the end of `onTimeout()` (`MonitorHeld`), so a thread past `halt()` finds the timer quiet (`HaltedIsQuiet`). A receiver about to tell a refusal thus knows that no timeout was told, because a finished timeout has taken the listener away (`TimeoutTold`, `RefusalTellsFirst`). |
| `InviteTransaction_proofs`, of `AckTransaction` | `LivesWhileAcceptedAlways` | `AckInv`: besides the property, a dialog that awaits an ACK has an `ack_ts`, and a caller in a call has confirmed one INVITE. `AckTsEnds` says what terminating `ack_ts` leaves of the others. |
| `InviteDialog_proofs` | `TypeCorrect`, `OneFinalAnswerAlways`, `CallIsMutualAlways`, `ByeAgreementAlways`, `CloseIsFinalAlways`; `ActiveWasAcceptedAlways`, `CallerHangsUpAlways`, `ClosedIsFinalAlways` | Two dialogs (`DialogPair`): `DInv`. The calls above them (`Call`): `CInv`, which is `DInv` and how far a call may be from its dialog (`CallFollows`). Both below. |
| `SpeexSession_proofs` | `SilenceIsRefreshed`, `VbrKeepsItsCeiling`, `BothInterpolateAlike`, `SilenceIsPlayedAsNoise`, `FramesAreReadAsPacked` | `Inv`: each frame follows from the one before it, from the encoder's end to the decoder's (`Chain`); for the last, `Served`: what the blocks of a packet are. Both below. |
| `SpeexBits_proofs` | `TypeCorrect`, `RoomToWriteAlways`, `Refinement` | `IInv`: what is `Good` in each phase, and `Sound` in a spoilt one, below. |
| `FixedPointUnit_proofs` | `TypeCorrect`, `ExactAlways`, `OperatorsExactAlways` | `UInv`: while `Overflow` is clear the accumulator is the exact value, which needs that it is a `Word32`. Below. |
| `VoiceLink_proofs` | `EndsStayTied`, `MishapsAreForgotten`, `NoiseIsTheSenders`, `DetectorSendsTalk`, `NoFalseAlarm`, `MinimumIsBelieved`; `LspsAlwaysApart`, `VectorsAlwaysApart`, `TheCodecsVectorsApart` | `Tied`: what the history `tie` says of both ends, below. The vectors need no invariant. |

The modules of transactions prove `Init => IInv` (`InitInv`) and `IInv /\ [Next]_vars => IInv'`
(`StepInv`), with a step for each action.

**Dialogs.** Some twenty handlers act on a record of a dozen fields, so the effect of a step is bounded
once, for all: `Moves(p, v, u)` says how the dialog `v` of `p` may become `u`, `Says(p, v, u, M)`
what may be sent in that step. Each handler has a lemma that it stays within both (`...Acts`), and
`ActsKeepInv` shows, without looking at any handler, that such a step keeps `DInv`. Its parts:

* `Fit`: a dialog that may answer an INVITE has that transaction waiting, and no INVITE is taken with a number that was taken before;
* `AnswersKnown`: what a party may have been answered agrees with the server transaction that
  answered, which is final: a 2xx only from one that is Done, a refusal never beside a 2xx unless a CANCEL was sent, the 200 of
  a BYE only from a closed dialog;
* `CallerFirst`: until its first INVITE is answered, the caller has sent nothing else that could establish the
  callee's dialog, and no INVITE comes to it.

`OneFinalAnswer` and `ByeAgreement` are parts of `AnswersKnown`, `CallIsMutual` follows from `CallerFirst`,
and `CloseIsFinal` from `Moves` and `Says` of each step. `CrossingActs` is the lemma for the CANCEL that meets `accept()`, `CrossingMeans` the one for the call above it.

**Calls.** A handler tells its call of what it did: `Told` says which callbacks a step of the dialog may make and
what the dialog is then, one lemma per handler. `CallFollows` adds what the call makes of it in the same
step; `StepsFollow` keeps `CInv`.

**Bit stream.** The string is the bits before `nbBits`, whatever is behind them, so most of the proof is about what is behind. ORing a bit in
is storing it only over a 0: `Clear` says that the bits of the cursor's char are 0 from the cursor on, `PackBitStores` that a bit keeps this, because a
char that becomes full clears the next. A field needs its room and one char more (`PackStores`); the buffer that grows gets it from
`(Size + 5) * 3 / 2` chars, and what the heap leaves in them is cleared in time (`EnlargedIsClear`). A terminator needs only a 0 for its first bit:
a stream that was written twice has its old ones there, and they are the ones to be written (`Endable`, `TerminatorPads`). The loop bodies are
recursive functions of the number of bits; a property of each of their values follows from `Induction`, which `WFMin` gives for a set, not for an
operator. Each operation then has a lemma that it keeps `IInv` and is one step of `BitQueue` (`PackPuts`, `WriteWrites`, `WriteWholeShips`,
`ReadFromLoads`, `ReadWholeExtends`, `UnpackGets`); a refused field and a terminator that hangs write nothing out. An append without room may spoil the
stream (`ReceiveMoreSpoils`): the string is then the empty one, whatever is read is a stutter of the queue (`SpoiltStutters`), and
`read_from` or `reset` begins another (`SpoiltEnds`). `Sound` keeps cursor and length of an owned buffer within it there, too; `AppendShapes` has the
cases of the arithmetic of `read_whole_bytes`.

**Speex.** That both ends interpolate alike is about the encoder now and the decoder some packets later, so
the invariant goes along the frames between them: `Chain` says that each frame on the way was interpolated from
the one before it and that a null frame was announced (`Follows`), that the last one left the encoder as it is (`Ends`),
that the first one finds the decoder as it needs it (`Starts`), and, with none on the way, that the two are in the
same state (`Tuned`). A packet that is lost or withheld puts `owed` in the place of its frames. `Detects` is what VBR, VAD
and the submode leave of the count of null frames. The proof goes one frame at a time at either end, and a
lemma for each way in which a frame comes and goes.

`FramesAreReadAsPacked` is about the formats, which `nb_encode` and `nb_decode` write down twice. `WidthOfConcat` and `WidthOfRepeat` add up
fields; `TableAddsUp` says that the fields of each submode are as many bits as `bits_per_frame`, and `FrameReadBack` that for each
both ends have the same fields in the same order: submode 1, whose extra bits are written last and read first, has none in its subframes.
Between the frames each block is `Served` (a layer of a submode that has a size, or a request whose handler reads all of it), or the packet is given up
there, or the decoder goes astray: `AheadIsServed` has this for all that stands before the next frame, `BlockReadBack` for one block, and `DecodeAstrayKeeps` for what is left after a
request that was misread. §7 says which these are.

**Fixed point.** Every operator has a lemma that says what it computes of the integers (`SumIs`, `MultIs`, `DoubledIs`, `LongDownIs`,
`SaturateIs`, `HighHalf`, ...), so that each action of `FixedPointUnit` is one application of `DoKeeps`. The widths are the only thing taken one
by one (`Widths`: `Quarter` is the square of `Half`). The loops are followed turn by turn: `L_shl` doubles n times, with `KeptFlag` after each
(`DoubledByTurns`, `TwiceKept`), and after i turns of the long division the numerator times 2^i is the quotient so far times the
denominator and a remainder (`DivideByTurns`, `DivideIs`). The rest of `OperatorsAreExact` is the arithmetic of quotients that are rounded down (`DivIs`,
`HalfUp`), of the one product that does not fit (`ProductBelow`), of sums that wrap (`WrapOfSum`, `AddCarryExact`, `SatIs`) and of
the top bit (`LongNormIs`, `WordNormIs`, `Scaled`).

**Voice link.** A frame is first shown to be read back, field by field, for all values that the searches may find
(`SpeechReadsBack`, `DescriptorReadsBack`, `FrameReadsBack`); the four, eight or ten entries of a memory then agree in one entry
more for each frame that both ends shift in (`AgreeMore`). `TiedG729` and `TiedBV16` say this of all memories of the predictors, of
the comfort noise's seed and gains, and for BroadVoice16 of the two counters that `estlevel()` looks at (`HeardOf`). They are kept by a
frame that arrives, and after a mishap hold of none of them. Two parts need the code's own arithmetic:
`EncoderNeverClips` (the gain that `gainquan()` picks is below the limit that `gaindec()` tests, or the smallest) uses every entry of the tables, and
`LevelKept` that the rounding of `Mpy_32_16` takes the minimum of the level estimate by one at most below where it was and the mean. `TalkFollows` relates the
counters of the detector's last two stages to the frames heard since the last voice.

`TalkIsSent`, `Resynchronises` and the others follow from the parts of `Tied`; `LevelFromCleanGains`, of two states, from
each action.

`LspsAlwaysApart` takes the loops over a vector index by index (`InductionTo`, `StepByStep`). `insertionSort()` puts each number in its place
and keeps their sum (`PlaceIs`, `InsertedIs`, `InsertedAdds`, `SortIs`); `stblz_lsp()` keeps each number below what leaves room for the rest (`FitIs`, `StabilizedIsApart`);
pushing up leaves what is apart alone, so that the two ends differ only where the sorted vector begins below its limit (`PushIs`,
`DecodedIsApart`); and what rearranging takes from one it gives to the next (`RaisedIs`, `RearrangedSum`). The hypothesis is that the limits leave room for the vector,
`LeavesRoom`. `TheCodecsVectorsApart` discharges it for the lengths and limits of both codecs, for all integers, and so
for the 16 bits of the code where none of its sums wraps.

**Only model-checked.**

* Every liveness property (`BothSettle`, `BothEnd`, `ThreadsFinish`, `HangupCloses`): fairness and ENABLED are beyond this prover.
* `QuantisersAgree` and `WordsReadBack` are about tables and small ranges, which TLC evaluates in full but for
  the frames of `WordsReadBack`, which it takes bit by bit. `VoiceLink_proofs` has the frames for all
  values of the fields that the predictors need.
* `DpfIsPrecise`: the error of the double precision products and of the Newton step of `Div_32`, which TLC takes for every
  accumulator of seven bits' words.

## 7. Where code and comments disagree, and what looks like a slip

Two disagreements are runs that end in a counterexample:

* `ack_gives_up`: `AckTransactionServer.init()` makes its two timers without a
  listener (AckTransactionServer.java:85-86), so nothing happens when they
  expire: the 2xx is repeated only when the INVITE is, and after a lost ACK the dialog stays in D_ACCEPTED.
  The class comment (40-41) says that the 2xx is repeated until the timeout fires.
* `g729_sharpening`: the encoder sharpens the pulses by a pitch gain of up to 1.2
  (encoder.c:347), the decoder by at most 0.8 (decoder.c:264), the bound that typedef.h:99 gives.

The others were met while modelling. The models behave as the code does, or
leave the case out where this is said; no run is devoted to them.

**SIP.**

* A 2xx that passes the status test just before timer B ends the
  transaction is told to the user, too: `doTerminate()` skips the `halt()`s of a
  terminated transaction, and with them the wait (InviteTransactionClient.java:135, 187;
  TransactionClientListener.java:37-44). `invite_udp` reaches it; hence the exception in `OutcomesAgree`, and `RefusedOrTimedOut`
  is about refusals. `TransactionClient` has the same race, which its model, at handler grain, has not.
* In the same window a receiver past its first test gives a terminated transaction a status again (a 1xx, 103-110; a refusal, 112-118), or finds
  an `ack` that is null (132), and a listener reset between its test and its use throws. The model has all three.
* A re-INVITE taken in D_ACCEPTED, before the ACK (InviteDialog.java:866-872; `verifyStatus()` only logs), lets the next `accept()` overwrite
  `ack_ts`: the first `AckTransactionServer` stays alive and registered for ever. So does the one that `respond()` makes after an
  ACK of an earlier 2xx has moved the dialog on. `AckTransaction` has both, as `forgotten`.
* `respond()` (520-595) holds no lock against the CANCEL handler (1144-1147): a 2xx and a 487 of one INVITE may both go out, and the 2xx's `ack_ts` stays. If the ACK of the
  487 comes before `respond()` goes on, it sets the status of a closed dialog; that last step is not in the model.
* A `NotImplementedServer` (86-96) answers every request but ACK and CANCEL, so also an INVITE that comes again when its transaction has
  ended, with a 501 after its final answer. `OneFinalAnswer` is about the dialog's own answers.
* `Call.hangup()` of an active call sends no BYE unless the
  dialog is in D_CALL (Call.java:354), against the comment at 341-342: nothing is sent between
  `accept()` and the ACK, nor while a `modify()` is pending, and the call is Closed above a
  dialog that the answer establishes (466-475).
* A hung-up dialog does not always close, which `HangupCloses` excepts twice. A failed BYE puts the dialog back into D_CALL (InviteDialog.java:1032); the comment at 995-996
  says that the dialog is closed.
* A re-INVITE received in D_BYEING moves the dialog to D_ReINVITED (869), and the
  200 of the BYE is then ignored (1089), against the comment at 1044-1045.
* `isConfirmed()` (236) compares with D_CLOSE, and the re-INVITE states have larger
  numbers, so a re-inviting dialog is not "confirmed". It matters only for UPDATE.
* A re-INVITE that expires closes the dialog and the call (1103-1110);
  `onDlgReInviteTimeout()` (InviteDialogListener.java:93) is never called.
* `hangup()` of an outgoing call before the first 1xx sends no CANCEL
  (InviteDialog.java:703-709): the INVITE transaction is dropped, the callee may still answer, and
  the dialog stays in D_INVITING. Call.java:341 says that a CANCEL is sent.
* The refusal of a `modify()` makes a call active again that was hung up
  meanwhile (Call.java:480); hence the exception in `ClosedIsFinal`.
* A refusal whose ACK is lost leaves the dialog in D_REFUSED: timer H of
  `InviteTransactionServer` tells nobody.
* Not modelled yet, read for the plan: `RegistrationClient.halt()` (374-376) "halts the periodic registration" only
  while `is_running`, which `run()` alone sets and nobody calls. A timer of `ReliableProvisionalResponder` expires with
  its own monitor held and waits for the responder's (171), while `processPrack()` and `terminate()` hold the responder's
  and halt the timer (200-201): if they meet, both threads wait for ever.

**G.729** (`bcg729/src/`).

* `encodeSIDFrame` takes the upper bits of L2 by `% 0x03` (dtx.c:428), where its comment says two bits: 3
  becomes 0 and the decoder makes another vector of the descriptor, so that the two ends of a link without a loss play
  different noise. The model garbles it as the code does, and `Resynchronises` counts such a frame as a mishap: it fails without this exception.
  `CNGparametersArray2BitStream` (utils.c:317-337), which would mask the bits, is called by nobody.
* The encoder's lower limit looks at `qLSF[1]` (LSPQuantization.c:219, 444); its comment and the decoder
  (decodeLSP.c:96) say `qLSF[0]`. So equal words give equal vectors only where the first coefficient is not below the limit (`SameFilter`). `LspOrder` has both; the noise quantiser's search takes `L1[L1index]`, not the subset's entry, for the second half.
* On a noise frame the decoder resets the sharpening gain (decoder.c:196), the encoder does not.
* vad.c: conditions 12 to 14 of B3.5 compare `deltaEl` with itself (145-156).
* A first SID frame that is lost leaves the decoder concealing speech through the whole pause: nothing
  tells it of the silence before the next SID. `G729Withheld` counts this as a mishap.
* A SID in the format of RFC 3389 is not shifted into the decoder's LSF predictor, and the encoder's
  `bcg729GetRFC3389Payload` reads a null DTX context when VAD is off. Not modelled.

**BroadVoice16** (`bx16_fixedp/bv16/`).

* `svqwmse` falls back on entry 0 when no vector of the second stage is in order, and tests `xa ± shr(code, 2)` while
  the sum it sends is `shr(add(eq1, eq2), 2)`: an encoder may send a vector that it or the decoder finds out of order. Here
  whether the vector is ordered is an input, and the sound `bursts` has one that is not.
* The minimum of the level estimate, which levelest.c (79-83) draws towards the mean, may come to one below both:
  `Mpy_32_16` of -1 and 32760 is -2. `FollowsCleanGain` allows for the one.
* The packer masks no field (bitpack.c); `WordsReadBack` shows that the fields fit.
* `bv16_jni.cpp`: `decode` writes its output at `lin_pos` with the whole `size`, and its `jbyte` loop counters end at 127 bytes;
  `close` frees the encoder's state with the decoder's sizes; no wrapper calls `BV16_PLC`. Beyond the control that `VoiceLink` has.

**Wrappers.** A second `open()` returns before the first has initialised, `close()` may free a state in use, and the counter is
not atomic: `Codec.init()` (Codec.kt) is the only caller under `src`, on one thread. `close()` without `open()` makes
the count -1, and the next `open()` then initialises nothing.
`speex_jni.cpp` packs several frames into a packet, and its `decode` plays one.

**Speex** (`speex-1.2rc1/libspeex/`).

* VBR sets the mode by `SPEEX_SET_MODE`, which overwrites the application's `submodeSelect` (nb_celp.h says "mode chosen by the
  user"): VAD or VBR turned off in silence leaves the encoder mute, in speech too (nb_celp.c:491, 587), until a quality is set or
  detection, on again, finds speech. Turned on again in silence, it goes on with the old `dtx_count` and announces nothing, so that the decoder
  conceals. VBR alone turned off, with VAD on, keeps the null submode until VAD finds speech. These are `cut` in the model.
* A low bit-rate frame may reach one sample into the previous one (`pit_max = offset`, nb_celp.c:786), although
  `bounded_pitch` (nb_celp.h:62) says that it may not.
* Of the wideband submodes 0 and 5 to 7 the skip table holds 0, so that the cursor goes back over the header, meets it again and at the
  third time gives the packet up (nb_celp.c:1081): the frame behind it is lost (`Refused`). A VBR request
  has four bits, and its handler reads one (speex_callbacks.c:103): what stands behind is read at the wrong place (`Astray`).
* `SPEEX_RESET_STATE` makes the next frame a first one for the encoder, and leaves the decoder's `first` and `old_qlsp` as they are: `ResetEncoder`
  counts as a gap.

**Bit stream and operators.**

* `speex_bits_insert_terminator` (bits.c:366-372) never returns when the buffer is full and cannot grow: the
  action `Hang`. `speex_bits_write` leaves the bits of its terminator in the stream: to be reset before more is packed, as the coders do.
  `speex_bits_read_whole_bytes` that finds no room takes the whole of a borrowed buffer for the room
  that is left in it, and writes behind its end; when `realloc` fails it may count -1 chars (bits.c:170-182). Phases `"overrun"` and `"spoilt"`; `RoomToWrite` excepts the first.
  `speex_bits_write_whole_bytes` into a buffer that is too short keeps a full char and ORs into it, and
  `speex_bits_read_whole_bytes` does not clear `overflow`: the model has the second as the code does, and not the first.
* `negate`, `abs_s`, `L_negate` and `L_abs` saturate without setting `Overflow`; `L_add_c` and `L_sub_c` set a wrong flag at the
  corner values (basop32.c). `FixedPointUnit` does not take these corners.

## 8. Not modelled

* UPDATE, INFO, PRACK, session timers and an offer in the ACK within the dialog; the tags
  and the route set of `DialogInfo` (a dialog is identified by its two parties here).
* `RegistrationClient`, `ReliableProvisionalResponder`, `SipTransportCO`,
  `ExtendedInviteDialog` and `ExtendedCall`: see the plan.
* Parsing and formatting of messages, digest authentication, SDP and RTP: text and
  bytes without protocol state.
* The signal processing of the codecs (LPC analysis, pitch and codebook searches but for
  `vq_nbest`, filters, postfilters, preprocessing): numbers without control, whose result is an
  input. Wideband Speex is compiled but never called; `speex_jni.cpp` opens the narrowband mode only.
* UDP sockets and the keep-alive, G.711's tables, the Android user interface.

## 9. Plan

Done: transactions, threads, the ACK handshake, dialog and call, with proofs of all their safety
properties; operators, bit stream, Speex, G.729 and BroadVoice16 with their wrappers, with proofs of what
both ends of a coded call keep in step, of the bit buffer and of the operators.

Next, in this order:

1. `ReliableProvisionalResponder`: the queue of 1xx, PRACK, `terminate()`; at thread grain, its lock order
   against `Timer`.
2. `RegistrationClient`: REGISTER and its retries, the periodic loop, `halt()` racing the
   answer, over `NonInviteTransaction`.
3. `SipTransportCO`: the connection table, eviction at `nmax_connections`, the termination
   callback that may come late; property: a connection in use is not lost,
   and the table agrees with the live connections.
4. `TransactionClient` and the other pairs of the dialog's handlers at thread grain, as
   `InviteTransactionClient` has them.
5. UPDATE in `InviteDialog`, then `ExtendedInviteDialog`: a request repeated with credentials while
   `cancel()` names the old transaction.

A new module brings runs of its own; to keep the whole set at a dozen short runs, its run takes the
place of the plainest one it composes with.
