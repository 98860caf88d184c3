# Verification of the Ouroboros network crate

The crate (`src/`, Rust, tokio) is the networking layer of a Cardano client: a
multiplexer that carries several mini-protocols over one socket, a driver that
runs a mini-protocol over one of its channels, and four mini-protocols.  This
directory holds TLA+ modules translated from that code, the TLC configurations
that check them on small instances, and proofs that TLAPS checks for every
value of the constants.  Line numbers below are those of `src/src/`.

## 1. Inventory

| part | state it keeps | operations | correct when | status |
|---|---|---|---|---|
| mux, receiving half (`mux.rs`) | `channels` map index -> sender, the mpsc queues, `Weak<Demux>`, strong counts and aborts of demux tasks, the locked read half and what has been read of a frame | `channel` = `register` + `run_demux`, `recv`, drop of a `Channel`, the demux task's loop, abort | no `unwrap` of a queue fails; frames reach the right channel in order, once, without gaps; an open channel has a reader | `Mux`, proved in `MuxProof` |
| mux, sending half (`mux.rs:154-164`) | the locked write half, the bytes written | `send` | the peer reads what was sent; a send ends | `Egress`, proved in `EgressProof` |
| connection setup (`mux.rs:92-130`) | none | `tcp_connect`, `unix_connect`, `from_*` | - | not modelled: pure I/O around `Connection::new` |
| protocol driver (`protocols.rs:43-138`) | the unfinished bytes of a channel, a local copy while it awaits a frame | `execute`, `send_bytes`, `receive_bytes` | every message is handled once and in order, however it is cut into frames | `Driver` |
| handshake (`handshake.rs`) | `state`, `version`, `versions`, `network_magic` | `negotiate`, as client and as server | an `Ok` means that both ends agree; each side speaks once; both come to an end | `Handshake`, proved in `HandshakeProof` |
| chain-sync (`chainsync.rs`) | `state`, `query`, `intersect`, `reply` | `find_intersect`, `request_next` | a call gets its own answer; the rolls come in the server's order; no `unwrap` fails | `ChainSync`, proved in `ChainSyncProof` |
| block-fetch (`blockfetch.rs`) | `state`, `running`, `done`, `result` | `run`, `BlockStream::next`, drop of the stream, `done` | every block once and in order; `None` only at the end; no panic | `BlockFetch`, proved in `BlockFetchProof` |
| tx-submission (`txsubmission.rs`) | `state` | `new`; `agency` is always `None`, so `execute` would return at once | its channel disturbs no other | partly: a client of `Session`, its messages in `Codec` |
| codecs (`from_iter`, `to_values`, `Values`, `Version`, `Point`, `Tip`, headers) | none | pure conversions | decoding inverts encoding; what is damaged is refused, never taken for something else | `Codec`, proved in `CodecProof` |
| `model.rs`, `lib.rs` | none | records and their conversions | - | the records in `Codec`; the field-by-field conversions are left out |
| examples: programs (`ping`, `local`, `server`, `blockfetch`, `sync`, `tip`) | a connection, one client at a time | open a client, call, drop it, open the next | every client gets the answers to its own calls; the program ends | `Session`, proved in `SessionProof` |
| examples: `common.rs`, `blockread.rs` | a configuration, a sled store | - | - | not modelled: I/O of other crates |

How they interact.  A client struct owns a `Channel`; a `Channel` borrows its
`Connection` mutably, so a connection has one channel at a time, and many one
after the other.  The demux task, spawned by `run_demux`, runs on any thread of
the runtime next to the owner; they share the `channels` map behind a mutex,
the read half behind an async mutex, and the mpsc queues.  Dropping the last
`Arc<Demux>` aborts the task, which ends at its next await: tasks of several
channels can be alive at once.  A client's call sets a field or two (`running`,
`query`), runs `execute`, and takes the result out of another field; the server
at the other end runs at its own pace, and its answers are cut into frames in
any way.  All calls are futures: the program may drop one at any await (a
timeout around it, a `select!`) and call again.

What is hard: aborts inside a frame; the hand-over of the socket between tasks;
the race between a push and the drop of a channel; state that is advanced
before the message is written; bytes kept in a local across an await; answers
that arrive after the call they belong to was given up; a new call on the state
an earlier one left; frames that hold half a message or three; casts at the ends
of the integers' ranges; lists that are read without a check of their end.
`PROJECT.json`
lists each with its line and the properties that would notice it going wrong.

## 2. Modules

- **`Mux`** is the receiving half.  The owner's actions follow the code between
  two points where another thread can see a difference: `Register`, `RunDemux`
  (`Connection::channel`), `Recv`, then the drop of a channel in the order Rust
  runs it: `Unregister` (`Drop::drop`), `DropReceiver`, `DropDemux` (the
  fields, in declaration order; the last one aborts the task).  A demux task
  does `Acquire`, `ReadHeader` and `ReadPayload` byte by byte (each byte is a
  point where an abort can take effect), `Dispatch` (the map's lock is held:
  one step), `Cancel` (the runtime drops an aborted task) and `Fail` (end of the
  stream).  The peer writes any frame at any time and goes away at any time,
  possibly inside a frame.  The byte stream is the frames the peer wrote and
  the place of the next byte; a header read anywhere but at the start of a
  frame decodes to an arbitrary index and length.
- **`Egress`** is `Connection::send` and the peer's view of it: lock, header
  byte by byte, payload with one `write` that may be short, the length modulo
  2^16 (`Modulus`).  `Received` is the demux loop applied to the wire.  In it
  one step writes what the socket takes of a payload.
- **`Driver`** is `execute` with `send_bytes` and `receive_bytes`, a module with
  the protocol as operator parameters, as it is a trait in the code.  A message
  travels in two pieces and a frame carries any run of pieces (at least one),
  which gives frames with half a message, several, or the end of one and the
  beginning of another.  `Abandon` drops the future at an await; what it loses
  sets the history variable `hurt`.  Misplaced bytes are parsed as anything
  (`Misparse`).
- **`BlockFetch`**, **`ChainSync`** instantiate `Driver` with the client's
  `agency`, `send` and `recv` and add the program that makes the calls and a
  server that follows the protocol.  **`Handshake`** instantiates it twice, as
  client and as server of the crate, composed over two message sequences; the
  client may talk to a node instead, which accepts a version with parameters in the
  form they were proposed in; where that form is no array, `from_iter` cannot read the
  acceptance (`NodeAccept`).
- **`Session`** extends `Mux` with the programs of `src/examples`: lists of
  clients that are opened one after the other, each with calls that take a
  number of frames to answer.  The program calls, waits for its answers, drops
  the client and opens the next (`OpenNext`, `Call`, `DropClient`); the peer
  writes nothing but answers (`Answer`).  `SingleThread` tells the two runtimes
  apart: where the runtime has one thread, nothing is polled while the owner
  drops a channel, so an aborted task never reads again (`MayRun`); where it has
  several (`#[tokio::main]`), the task may be in the middle of a poll.
- **`Codec`** is the messages' way to the wire and back: for each mini-protocol
  and the block headers, `to_values` and `from_iter` down to serde_cbor's values,
  with the casts at their widths.  A decoder returns a set, {m} for `Ok(m)` and
  {} for an error or a panic.  The machine has three steps: a message is damaged
  at any place down to the third level (`Damage`), or written the way a node
  writes it (`FromNode`), and read (`Receive`).
- **`Fifo`** is what the user of a connection relies on, with no tasks, locks,
  queues or bytes: the frames the peer wrote are taken one after the other, and
  each goes to the channel that is open at that moment, if it is for it; once
  `broken`, the open channel may be given anything.  `Mux!ImplementsFifo` states
  that `Mux` implements it.  The refinement mapping: a frame is taken in the
  step that dispatches it, so `cursor` is `Dispatched` (the frames before the
  place in the stream, less the one that was read and not dispatched yet); a
  channel is open from `Register` to `Unregister`; `broken` is `torn`; `sent`,
  `index` and `log` stand for themselves.  Everything else `Mux` does stutters.
- **`Selection`** is `Among`, the items of a sequence that are in a set, in their
  order: the requests, the blocks and the rolls that `BlockFetch` and `ChainSync`
  pick out among the messages.  It is a function on the places of the sequence where
  the community modules' `SelectSeq` is recursive, which no proof can reach.
- **`MuxProof`**, **`SessionProof`**, **`EgressProof`**, **`HandshakeProof`**,
  **`BlockFetchProof`**, **`ChainSyncProof`** and **`CodecProof`** hold the theorems
  about the modules they are named for, `MuxProof` also the one that `Mux` implements
  `Fifo`; **`SelectionProof`** has the lemmas about `Among`, and the induction over
  the natural numbers that they and `EgressProof` rest on.
- `MCMux`, `MCSession`, `MCCodec`, `MCEgress`, `MCChainSync`, `MCHandshake` give
  values to constants that a configuration cannot write down.

The drivers' channels are sequences of messages read in pieces: a lossless FIFO
byte stream for one index.  That is what `Mux` shows of an untorn stream to a
channel that stays open (`FramesInOrder`, `Gapless`, `EventuallyDelivered`) and
`Egress` of an unspoilt one (`ReceivedAsSent`).  That a client starts with none of
the frames of the client before it, and leaves none behind, is `Session`'s
`OwnAnswers`.  The messages the drivers handle are values; that they arrive as
what they were is `Codec`'s `RoundTrip`.  A definition marked as a mutant
is a bug the code could have; no specification uses it, and each one breaks the
property named for it in `PROJECT.json`.

## 3. Runs

Runs that pass:

| run | bounds | shows |
|---|---|---|
| `Mux` | 1 protocol (2 indices), payloads of 0 and 1 bytes, headers of 2 bytes, 2 frames, 2 channels | `SendNeverFails`, `RecvNeverFails` (the unwraps at mux.rs:188 and 166), `OpenChannelHasReader` (the `Weak` never revives an aborted task), `FramesInOrder`, `Gapless`, `NoGarbage`, `EventuallyDelivered`, and that all of it is a FIFO (`ImplementsFifo`) |
| `Session` | the programs of the examples, up to 3 clients and 7 frames, one thread | `OwnAnswers` (every client gets exactly the answers to its own calls), `NeverTorn` (no abort costs the framing), `SessionEnds` |
| `Codec` | every type of message, numbers at both ends of their ranges, widths scaled to 16 / 128 / 512, lists of up to 2 points | `RoundTrip`, `NeverMistaken` (a damaged wire is read as what was meant, as what it says or not at all; a swallowed last value of a `FindIntersect` costs just that value), `Strict` (what is missing, too much or of another kind is refused), `AcceptanceRead` (the casts of an acceptance), `ParamsReadBack` (which acceptances of a node are understood) |
| `Egress` | lengths 1 to 4 around a modulus of 3, 3 sends, 2 given up | `ReceivedAsSent`, `SendEnds` |
| `BlockFetch` | 2 runs, batches of up to 2 blocks, 1 call given up | `NoPanic`, `BlocksInOrder`, `WritesOnlyToIdle`, `NoneMeansEnd`, `CallsReturn` |
| `ChainSync` | 3 calls, 2 lists of points, 1 call given up | `NoPanic`, `OwnAnswer`, `RollsInOrder`, `WritesOnlyToIdle`, `CallsReturn` |
| `Handshake` | the builder's two version lists, 2 magics, 2 calls given up | `Agreement`, `FailsForAReason`, `OneRound`, `BothEnd` |

Each also checks its module's `TypeOK`.  Runs that TLC must find violated, each
a place where the code does not do what the repository says of it:

| run | what happens |
|---|---|
| `SessionThreads` | the programs of the examples on several threads: an aborted task that is still being polled reads the beginning of the next client's answer, and the next task takes the rest of it for a header (mux.rs:65, 189) |
| `MuxEof` | the peer goes away; the task panics but the channel's sender stays in the map, and `recv` waits for ever (mux.rs:179, 217) |
| `EgressShort` | the socket takes a part of a payload; `send` returns as if it had taken all (mux.rs:163, 223) |
| `BlockFetchDone` | after a stream dropped half-read, `done` returns `Ok` without a `ClientDone` (blockfetch.rs:139, 346) |
| `ChainSyncUnwrap` | `request_next` is given up; its late answer ends the next `find_intersect`, which has no intersection to take (chainsync.rs:172) |

One more disagreement is shown by runs that pass.  `examples/local.rs` is to "test a
handshake with the local node's unix socket" (20) with `client_to_node()` and to end in
"Ping UNIX socket success" (38).  `from_iter` reads the parameters of an acceptance as
an array (handshake.rs:62), and those of node-to-client versions, and of node-to-node
1 to 3, are the magic alone where they are proposed (138, 146).  A node that accepts in
the form of the proposal is not understood (`ParamsReadBack`), and the client panics
(protocols.rs:90; the case `Unread` of `FailsForAReason`, which the run `Handshake`
reaches with the list `<<C2N 9>>`).

Behaviour that no line of the repository speaks against, and that the passing
runs contain: `run` after a stream dropped half-read sends no request and goes on
with the old batch (blockfetch.rs:132, 296); a server of the crate answers with
its own last version whatever was proposed, so a handshake can be `Ok` on its
side and "Handshake failed." on the client's (handshake.rs:320-327, 275), and a
client of another network panics (protocols.rs:90); a `Refuse` of the crate has
the tag of an acceptance and cannot be read (handshake.rs:95); the last
value of a `FindIntersect` may be anything that is no array (chainsync.rs:62); a call
or a send that is given up inside a message or a frame loses a part of it
(protocols.rs:120, blockfetch.rs:201, mux.rs:155).  No line says that a call may be
given up there, so what comes of it contradicts nothing: the models have it, the
history variables mark it, and these hazards of `PROJECT.json` name no property that
would exclude it.

Why the bounds are enough.  In `Mux`, the interesting cases need two
generations of tasks (the second waits for the first's lock), a header that can
be cut, a payload that can be empty, and two frames, so that the first can be
torn and the second misread, or one dispatched and the other lost; the proofs
cover every larger instance.  `Session` has every program of the examples with its
loop run twice, which puts an answer of one frame and of two before and after
the same call, and three generations of tasks; the proof covers all programs.
In `Codec` every width keeps its place between its neighbours (`CodecAssumption`),
and a number is damaged by each of the widths in both directions, so every cast
is met on both sides of every bound it has; two points tell an empty list, a
first and a last apart.  In `Egress` the lengths include the modulus minus one,
the modulus, and one more, and three sends put a whole frame before and after a
spoilt one.  In `BlockFetch` two runs give a second call on whatever the first
left, and two blocks a queue that can be read in the wrong order; in `ChainSync`
three calls put one between, before and after one that is given up.  In
`Handshake` the lists share no version, so that failure is possible; one of them has
two, so that first and last differ, and the other one whose acceptance a node writes
as a number.

`CHECK_DEADLOCK FALSE` throughout: peers and programs may stop.

**Fairness.**  Weak fairness of what the runtime polls: a demux task that can go
on, an aborted task's cancellation, the synchronous halves of opening and
dropping a channel, a client future that is kept.  Of servers: that they answer
what they have read and end their batches.  Of sockets: that they take bytes
while the peer is there.  Nothing makes a program call, drop a channel or give
a call up, or a peer write or leave, with two exceptions: in `Handshake` the
programs call `negotiate` until that returns, and in `Session` the program goes
on as the examples do, which have no timeouts and wait for nothing but their
answers.

**History variables.**  `torn`, `hurt` and `spoilt` are set when an abort or a
dropped future lost a part of a frame or of a message, `spoilt` also by a payload the
socket took in part (mux.rs:163) or whose length does not fit its field (162).  Most properties hold
until then only; the violation runs show what happens afterwards, or why the
code should not let it come to that.

## 4. Proofs

`MuxProof` proves the safety properties of `Mux` for every set of protocols and
payload lengths, every header length above zero, and any number of frames and
channels; its only assumptions are `MuxAssumption` (the constants are naturals,
lengths included).

| theorem | statement |
|---|---|
| `Invariance` | `Spec => []IInv` |
| `TypeCorrect` | `Spec => []TypeOK` |
| `SendSafe`, `RecvSafe` | `[]SendNeverFails`, `[]RecvNeverFails` |
| `ReaderAlive` | `[]OpenChannelHasReader` |
| `OrderSafe` | `[]FramesInOrder` |
| `FramingSafe` | `[]NoGarbage` |
| `GapSafe` | `[]Gapless` |
| `Implementation` | `ImplementsFifo` |

None of the properties is inductive by itself.  `IInv` adds:
`OwnerInv` (the map holds exactly the open channel's entry, and the live
receiver is the one of the channel being used or dropped), from which
`SendNeverFails` and `RecvNeverFails` follow; `DemuxInv` (a strong count is 1 for
the task the channel holds and 0 for all others, and a channel about to call
`run_demux` has a task number left), from which it follows that the `Weak` can
never be upgraded (`NoUpgrade`); `ReaderInv` (the lock's holder is the one task
that reads, and nobody holds it inside a frame and lets go); `PlaceInv` (the
holder's progress and the place in the stream agree); `LogInv` (what was
delivered lies before the place in the stream); and `AlignInv` (an untorn stream
is read at frame boundaries).  `FramesInOrder` rests on `PlaceInv` and `LogInv`: a
frame that is dispatched is newer than all that was dispatched.  `Gapless` rests
on `AlignInv`, `PlaceInv` and `OwnerInv`: a reader that starts on frame n+1 has
read frame n to its end, and a dispatch finds the open channel in the map.
Each part has a step lemma with one step per action that can disturb it.
`IInv` was checked by TLC on the instance of the run before it was proved.

`Implementation` shows that initial states map to initial states and every step
to a step of `Fifo` or a stutter, with `IInv` before and after the step.
Registering and unregistering are `Open` and `Close` (`OwnerMaps`), the peer's
writes are `Write` (`PeerMaps`); a demux task that reads leaves `Dispatched`
alone (`ReadingTakesNothing`, from `PlaceInv` and `AlignInv`), its `Dispatch` is
`Take` (`DispatchTakes`: `OwnerInv` says that the map has the open channel's
entry and no other), and all it does from the abort inside a frame on is `Break`
(`TornBreaks`).

`SessionProof` takes the theorems of `MuxProof` over, as a session makes no step
that `Mux` does not, and proves for every set of programs, of any number of
clients, under `MuxAssumption`, `SessionAssumption` and `SingleThread`:

| theorem | statement |
|---|---|
| `OwnAnswersSafe` | `[]OwnAnswers` |
| `NeverTornSafe` | `[]NeverTorn` |
| `SessionTyped` | `[]SessionTypeOK` |

Its invariant `SInv` is `IInv` and four parts that count.  `CountInv`: the stream
has not ended, is not torn, and holds no more than what is owed.  `ClientInv`: the
open channel is the program's current client.  `RunInv`: while a client is open
it has been given the frames behind `base` up to the one dispatched last, and
the frames behind `base` are for it; while none is, everything owed has been
written and dispatched and the reader stands at the end of a frame (`AtRest`).
`AbortInv`: an aborted task that has the read half is at a frame boundary.  Opening
a client keeps `RunInv` because `AtRest` makes `base` equal to what has been
dispatched; dropping it does because a program that waits for its answers drops
it when all of them are taken (`Finished`); an abort tears nothing because it
comes at `AtRest`, and with one thread the task never reads again.  Without
`SingleThread` the last step fails, which is the run `SessionThreads`.

`HandshakeProof` proves for all lists that are not empty, of versions that `to_values`
encodes (`Supported`), all magics and any number of calls given up
(`HandshakeAssumption`):

| theorem | statement |
|---|---|
| `HandshakeTyped` | `[]TypeOK` |
| `AgreementSafe` | `[]Agreement` |
| `FailsForAReasonSafe` | `[]FailsForAReason` |
| `OneRoundSafe` | `[]OneRound` |

Its invariant `HInv` follows each side through `Propose`, `Confirm` and `Done`:
what it has written (`ClientInv` and `ServerInv` say that `toServer` is empty or
the one `Proposal`, and `toClient` empty or the one `Answer`), how much of the other
side's message it has read, and what it has made of it (`Concluded`).  A side that
was hurt may wait for what it has lost or take the rest of a message for a whole
one, so the parts that say what it has read hold of one that was not; that it
writes once holds of both.  `Agreement` follows as `Concluded` gives the client's
version as the one in `Answer`, which the server has settled on; `FailsForAReason`
because a client panics only at a message it does not accept, which is an acceptance
with another magic (`OtherNetwork`) or one that a node wrote without an array
(`Unread`), and concludes without a version only from a `Refuse` or a version that is
none of its own.
Each side's steps leave the other side's part alone (`ServerUntouched`,
`ClientUntouched`).

`BlockFetchProof` proves for batches of any length and any number of runs and of
calls given up; the bounds are naturals (`BlockFetchAssumption`) and nothing else:

| theorem | statement |
|---|---|
| `BlockFetchInvariant` | `Spec => []BInv` |
| `NoPanicSafe` | `[]NoPanic` |
| `WritesOnlyToIdleSafe` | `[]WritesOnlyToIdle` |
| `FetchInvariant` | `Spec => []FetchInv` |
| `TypesSafe` | `[]TypeOK` |
| `BlocksInOrderSafe` | `[]BlocksInOrder` |
| `NoneMeansEndSafe` | `[]NoneMeansEnd` |

A panic is `recv` refusing a message in a state that does not expect it, `send` in
another state than `Idle`, or a `next` with no block queued in a state that is neither
`Streaming` nor `Idle` (its `panic!`, blockfetch.rs:157).  To exclude them `BInv` has to say which message comes next:
`Ordered`, every message of the server opens a batch exactly where the one before
has ended one, and no message that ends a batch lies before the last of those not
handled yet (the server is at most one turn ahead); `ProtocolInv`, the client is
`Streaming` exactly inside a batch, and while it is `Idle` the server has neither
written more nor anything to read; `ProgramInv`, what `running`, `done` and the
stream may be at each step of a call.  All three hold until giving up costs a part of a
message; `Typed` always does.

`FetchInv` adds the contents.  `RunsInv` counts: no more ranges were asked for than
there were runs, the one being written and the one this run has still to write
included, and a server in a batch has read a request; `TypeOK`, which bounds the
number of a batch by the requests read, needs it.  `QueueInv` is the order:
what `next` returned, followed by what is queued, is the blocks among the messages
handled, and a `next` that finds neither a block nor a run under way is in `Idle`.
A block handled goes to the end of the queue and `next` takes the first; nothing
else moves either side (`QueueMessage`, `Popping`).  `BlocksInOrder` follows, as
the blocks among the messages handled are the first of the blocks written
(`HandledFirst`).  `NoneMeansEnd` is about the states in which `next` would return `None`, at
once (blockfetch.rs:156, a step that changes nothing, so that no action property could
speak of it) or after `execute` (160-164), and follows from the same facts: there the
queue is empty and the client `Idle`, so the server is `Idle` too and has nothing written
that was not handled.

`ChainSyncProof` proves for all lists of points and any number of calls, made in any
order and given up or not (`ChainSyncAssumption`):

| theorem | statement |
|---|---|
| `ChainSyncInvariant` | `Spec => []CInv` |
| `ChainSyncTyped` | `[]TypeOK` |
| `WritesOnlyToIdleSafe` | `[]WritesOnlyToIdle` |
| `NoPanicSafe` | `[]NoPanic` |
| `OwnAnswerSafe` | `[]OwnAnswer` |
| `FollowInvariant` | `Spec => []FollowInv` |
| `RollsInOrderSafe` | `[]RollsInOrder` |

`CInv` has three parts.  `Typed` always holds, also when misplaced bytes are taken
for a message; it needs `CountInv`, that no call writes more than one request.
`ProtocolInv` holds while nothing was lost: the client's request is being written,
not read yet, not answered yet, or answered by the last message and by no other
that is not handled.  `CallInv` holds while nothing was given up: what is on its
way is an answer to the call in progress (`Asked`), and once the client has handled
the last of it the one field that the call takes is filled and the other is empty
(`Answered`).  `recv` never looks at what was asked, so this comes from the server's
side: it has read the request of this call (`Turns`) and speaks only the words of
it (`Expected`).  Giving a call up breaks just that, which is the run
`ChainSyncUnwrap`.

`RollsInOrder` speaks of programs that do give calls up, of which `CallInv` says nothing.
`FollowInv` has `RollsInv` for them, until something is lost: an answer that was
received waits in one of the two fields, and while it does the client is `Idle`, has
no query and has not gone on to await anything, so no other can overwrite it; and the
rolls returned, followed by the one that waits, are the rolls among the messages
handled.

`EgressProof` proves for all sets of lengths, every modulus and header length above
zero, and any number of sends, given up or not (`EgressAssumption`):

| theorem | statement |
|---|---|
| `EgressInvariant` | `Spec => []EInv` |
| `EgressTyped` | `[]TypeOK` |
| `ReceivedAsSentSafe` | `[]ReceivedAsSent` |

`ReceivedAsSent` compares what was sent with what a reader of the whole wire makes of
it, frame by frame.  `EInv` says what the wire looks like: there are places, one for
each intact frame and one behind the last, such that the frames stand at them byte
by byte and each place is its predecessor's plus a header and a payload (`Frames`); and
until a frame is spoilt nothing is behind the last but what has been written of the
frame under way (`LastFrame`).  A byte of a header keeps that (`HeaderByte`), as do
the bytes the socket takes of a payload (`PayloadWritten`); a payload taken whole makes
one frame more (`FrameAdded`); what is written behind a spoilt frame changes nothing in
front of it (`FramesStay`).  The second half is about `Received` alone: it is a
recursive function over the places of the wire, so that it satisfies its equation
(`ReadFromExists`), that it reads a whole frame at each of the places (`FrameRead`),
and that from the first place it reads all of them (`FramesRead`), are inductions.

`CodecProof` proves for all widths in their order, all slots, numbers and magics
within their ranges, any hashes and lists of points of any length
(`CodecAssumption`):

| theorem | statement |
|---|---|
| `WireInvariant` | `Spec => []WireInv` |
| `CodecTyped` | `[]TypeOK` |
| `RoundTripSafe` | `[]RoundTrip` |
| `NeverMistakenSafe` | `[]NeverMistaken` |
| `StrictSafe` | `[]Strict` |
| `AcceptanceReadSafe` | `[]AcceptanceRead` |
| `ParamsReadBackSafe` | `[]ParamsReadBack` |

The machine has three steps, so its invariant is short: `WireInv` says where the wire
comes from (the encoding of the message meant, that with one thing wrong, or a
node's own), that it is a list of values of the kinds CBOR has, at every depth
(`Sound`), and that what was read is what the decoder makes of it.  The work is in the
lemmas about encoders and decoders.  Each type of message is read back: a point, a
list of points, a tip, the nested arrays of a header, a version's number and
parameters, with the casts that leave a number of their range as it is
(`CutKeeps`).  Damage leaves a sound list of values, of which at most one message is
made.  And damaged values are gone through type by type: what is cut, retyped or
extended changes the length or a kind at one place of a list that the decoder
compares as a whole, so the decoder refuses it, or is applied one level down, where
the same holds (`HeaderLost`).  Where it does not refuse, what it makes is what the
wire says, as a list that got longer by a point is that list of points, or what the
wire says without the last value of a `FindIntersect` (`Shortened`).  No lemma goes
through a list item by item: lists are compared by their lengths and their values at
an index.

All these invariants were checked by TLC on the instances of their runs before they
were proved, `EInv` with the places computed from the lengths of the frames.

**Induction over data.**  The library's induction theorems take an operator as a
parameter and cannot be used.  `SelectionProof` has the principle as a statement about
sets, which needs none: a set of naturals that holds 0 and every successor is `Nat`,
from the well-foundedness of `<`.  A recursive function is handled the same way: the
numbers up to which a function with its equations exists are such a set, and `CHOOSE`
takes one for the whole domain (`KeptExists`, `ReadFromExists`).

Only model-checked: liveness (`EventuallyDelivered`, `SessionEnds`, `SendEnds`,
`CallsReturn`, `BothEnd`), as TLAPS has no `ENABLED`.  Every
invariant of the passing runs, and `ImplementsFifo`, is also proved.  What the violation runs show is
a counterexample each and needs no proof.

## 5. Plan

Done, in order of importance:

1. `Mux`, its safety and delivery, its proofs.
2. `Driver`; `BlockFetch`, `ChainSync` on it, each with a server, and their proofs.
3. `Handshake`, two drivers composed, and with a node, and its proofs.
4. `Egress` and the peer's view.
5. Runs for the disagreements met on the way.
6. `Fifo`, the abstract specification that `Mux` implements, as a `PROPERTY` and
   as a theorem.
7. `Codec`, decoding against encoding.
8. `Session`, the programs of the examples over `Mux`, and its proofs.

9. Proofs of the remaining invariants: what counts or selects over a sequence
   (`BlockFetch`, `ChainSync`), `Egress`, `Codec`, the types of `Session`.

Left:

10. An abstract specification of `Egress` (the peer receives a prefix of what was
    sent, until spoilt) as a `PROPERTY`, and the proof that `Egress` implements it.
11. In `ChainSync`, a client that is dropped with an unanswered call, and another
    one that is built on the same connection.

## 6. Not modelled

Connection setup and timing (`start_time`, the header's time stamp, which nobody
reads); logging; poisoning of the `channels` mutex (it needs a panic inside
`Dispatch`, which `SendSafe` excludes); the mpsc queue's memory, which is unbounded
in the code and has no effect the properties see.  Of tx-submission, `send` and
`recv` (txsubmission.rs:123-174): `agency` is `None` in every state, so `execute`
returns before it comes to them, and nothing else calls them.  Of the codecs, the
bytes below serde_cbor's values, Blake2b (a free constructor in `Codec`) and the
hex crate.  The examples' configuration and storage (`common.rs`,
`blockread.rs`).  In the client modules a send is one step: it succeeds, or the
call is given up in it and nothing of it counts as received (`hurt`); what a send
does in detail is `Egress`.  Servers that break the protocol are not modelled,
but for what `Codec` makes of damaged messages.
