-------------------------------- MODULE Mux --------------------------------
(***************************************************************************)
(* The receiving half of a connection (src/src/mux.rs).                    *)
(*                                                                         *)
(* The program owns a Connection and opens one Channel after another on it *)
(* (a Channel borrows the Connection mutably, so two never coexist).  Each *)
(* Channel registers an mpsc sender in the shared `channels` map and keeps *)
(* a demux task alive; the task holds the socket's read half behind an     *)
(* async mutex, reads frames, and pushes each payload to the sender        *)
(* registered for its index.  Dropping a Channel unregisters it, drops the *)
(* mpsc receiver, and aborts the task, which ends at its next await.  So   *)
(* tasks of several generations can be alive at once, on other threads     *)
(* than the owner's.                                                       *)
(*                                                                         *)
(* The byte stream is represented by the frames the peer wrote, `sent`,    *)
(* and the place of the next byte to read, (rdFrame, rdOff).  A task that  *)
(* starts a header anywhere but at offset 0 of a frame decodes garbage: an *)
(* arbitrary index and length.  A frame is identified by its position in   *)
(* `sent`; a payload cut out of the stream at the wrong place is Garbage.  *)
(***************************************************************************)
EXTENDS Naturals, Sequences

CONSTANTS
  Protocols,    \* mini-protocol numbers that appear on the wire
  Lens,         \* payload lengths a frame header can announce
  HeaderLen,    \* bytes of a frame header
  MaxFrames,    \* bound: frames the peer writes
  MaxChannels   \* bound: channels the program opens on the connection

ASSUME MuxAssumption ==
  /\ Lens \subseteq Nat
  /\ HeaderLen \in Nat \ {0}
  /\ MaxFrames \in Nat
  /\ MaxChannels \in Nat

(* A channel index is a protocol number and the direction bit 0x8000. *)
Ids == Protocols \X {0, 1}
FlipByAdding(i) == <<i[1], 1 + i[2]>>  \* mutant: + 0x8000 for ^ 0x8000
Flip(i) == <<i[1], 1 - i[2]>>
NoIndex == << >>

Frames == [id : Ids, len : Lens]
Channels == 1..MaxChannels
Tasks == 1..MaxChannels
None == 0
Garbage == 0
NoEof == <<0, 0>>

VARIABLES
  pc,         \* where the owner is in opening, using or dropping a Channel
  nChan,      \* Channels opened so far; the current one is number nChan
  index,      \* the index each Channel was opened with
  channels,   \* index -> the Channel whose sender is registered, or None
  rx,         \* Channels whose mpsc receiver still exists
  log,        \* frames pushed to each Channel's mpsc queue, oldest first
  taken,      \* how many of them the current Channel has received
  held,       \* the task the current Channel's Arc<Demux> keeps alive
  weak,       \* Connection::demux: the task the Weak points to
  arcs,       \* strong count of each task's Arc<Demux>
  nTasks,     \* demux tasks spawned so far
  aborted,    \* tasks whose JoinHandle was aborted
  task,       \* state of each demux task
  holder,     \* the task that holds the read half, or None
  stage,      \* what the holder reads: "header" or "payload"
  got,        \* bytes of it read so far
  from,       \* frame whose header is being read, Garbage if misaligned
  dest, need, \* index and length decoded from the header
  sent,       \* frames the peer wrote
  eof,        \* where the stream ends, NoEof while the peer is connected
  rdFrame,    \* the next byte to read is byte rdOff of frame rdFrame
  rdOff,
  torn        \* history: a task was cancelled inside a frame

ownerVars == <<pc, nChan, index, taken, held>>
tableVars == <<channels, rx>>
demuxVars == <<weak, arcs, nTasks, aborted>>
readVars  == <<stage, got, from, dest, need>>
placeVars == <<rdFrame, rdOff>>
peerVars  == <<sent, eof>>
vars == <<ownerVars, tableVars, demuxVars, readVars, placeVars, peerVars,
          log, task, holder, torn>>

(***************************************************************************)
(* The byte stream.                                                        *)
(***************************************************************************)
FrameLen(n) == HeaderLen + sent[n].len

HasByte == rdFrame <= Len(sent) /\ <<rdFrame, rdOff>> # eof
AtEof == <<rdFrame, rdOff>> = eof

(* read_exact takes the next byte of the stream. *)
Advance ==
  IF rdOff + 1 = FrameLen(rdFrame)
    THEN rdFrame' = rdFrame + 1 /\ rdOff' = 0
    ELSE rdFrame' = rdFrame /\ rdOff' = rdOff + 1

(* Where a stream that ends now can end: a peer that goes away may take    *)
(* any part of what was not yet read with it.                              *)
EofPlaces ==
  {<<Len(sent) + 1, 0>>} \cup
  { p \in UNION { {n} \X (0..(FrameLen(n) - 1)) : n \in rdFrame..Len(sent) } :
      p[1] > rdFrame \/ p[2] >= rdOff }

Init ==
  /\ pc = "free"
  /\ nChan = 0
  /\ index = [c \in Channels |-> NoIndex]
  /\ channels = [i \in Ids |-> None]
  /\ rx = {}
  /\ log = [c \in Channels |-> << >>]
  /\ taken = 0
  /\ held = None
  /\ weak = None
  /\ arcs = [t \in Tasks |-> 0]
  /\ nTasks = 0
  /\ aborted = {}
  /\ task = [t \in Tasks |-> "none"]
  /\ holder = None
  /\ stage = "header"
  /\ got = 0
  /\ from = Garbage
  /\ dest = NoIndex
  /\ need = 0
  /\ sent = << >>
  /\ eof = NoEof
  /\ rdFrame = 1
  /\ rdOff = 0
  /\ torn = FALSE

-----------------------------------------------------------------------------
(***************************************************************************)
(* The owner: Connection::channel, Channel::recv, and the drop of a        *)
(* Channel, whose fields are dropped in declaration order after Drop::drop *)
(* has run.  A definition marked as a mutant is a bug the code could have  *)
(* and has not: it belongs to no behaviour of Spec, and shows that a       *)
(* property below would notice that bug.                                   *)
(***************************************************************************)
(* Mutant: under the peer's index.                                        *)
InsertFlipped(i) == channels' = [channels EXCEPT ![Flip(i)] = nChan + 1]
Insert(i) == channels' = [channels EXCEPT ![i] = nChan + 1]

(* Connection::channel, first half: register.                              *)
Register(i) ==
  /\ pc = "free"
  /\ nChan < MaxChannels
  /\ pc' = "registered"
  /\ nChan' = nChan + 1
  /\ index' = [index EXCEPT ![nChan + 1] = i]
  /\ Insert(i)
  /\ rx' = rx \cup {nChan + 1}
  /\ taken' = 0
  /\ UNCHANGED <<held, demuxVars, readVars, placeVars, peerVars, log, task,
                 holder, torn>>

(* Mutant: any demux there ever was will do.                               *)
HasDemux == weak # None

(* Connection::channel, second half: run_demux takes the running demux     *)
(* over if the Weak can be upgraded, or spawns a new one.                  *)
CanUpgrade == weak # None /\ arcs[weak] > 0

RunDemux ==
  /\ pc = "registered"
  /\ pc' = "open"
  /\ LET t == IF CanUpgrade THEN weak ELSE nTasks + 1
     IN  /\ held' = t
         /\ weak' = t
         /\ arcs' = [arcs EXCEPT ![t] = @ + 1]
         /\ nTasks' = IF CanUpgrade THEN nTasks ELSE nTasks + 1
         /\ task' = IF CanUpgrade THEN task
                           ELSE [task EXCEPT ![t] = "waiting"]
  /\ UNCHANGED <<nChan, index, taken, tableVars, aborted, readVars, placeVars,
                 peerVars, log, holder, torn>>

Recv ==
  /\ pc = "open"
  /\ taken < Len(log[nChan])
  /\ taken' = taken + 1
  /\ UNCHANGED <<pc, nChan, index, held, tableVars, demuxVars, readVars,
                 placeVars, peerVars, log, task, holder, torn>>

(* Mutant: the receiver is dropped while the sender is registered.         *)
UnregisterLate ==
  /\ pc = "open"
  /\ pc' = "unregistered"
  /\ rx' = rx \ {nChan}
  /\ UNCHANGED <<nChan, index, taken, held, channels, demuxVars, readVars,
                 placeVars, peerVars, log, task, holder, torn>>

Unregister ==
  /\ pc = "open"
  /\ pc' = "unregistered"
  /\ channels' = [channels EXCEPT ![index[nChan]] = None]
  /\ UNCHANGED <<nChan, index, taken, held, rx, demuxVars, readVars, placeVars,
                 peerVars, log, task, holder, torn>>

DropReceiver ==
  /\ pc = "unregistered"
  /\ pc' = "closed"
  /\ rx' = rx \ {nChan}
  /\ UNCHANGED <<nChan, index, taken, held, channels, demuxVars, readVars,
                 placeVars, peerVars, log, task, holder, torn>>

DropDemux ==
  /\ pc = "closed"
  /\ pc' = "free"
  /\ held' = None
  /\ arcs' = [arcs EXCEPT ![held] = @ - 1]
  /\ aborted' = IF arcs[held] = 1 THEN aborted \cup {held} ELSE aborted
  /\ UNCHANGED <<nChan, index, taken, tableVars, weak, nTasks, readVars,
                 placeVars, peerVars, log, task, holder, torn>>

-----------------------------------------------------------------------------
(***************************************************************************)
(* A demux task.                                                           *)
(***************************************************************************)
FrameReadShort == stage = "payload" /\ got + 1 >= need  \* mutant: off by one
FrameRead == stage = "payload" /\ got = need
InFrame == stage = "payload" \/ got > 0

NextFrame ==
  /\ stage' = "header"
  /\ got' = 0
  /\ UNCHANGED <<from, dest, need>>

(* The guard of the read half is dropped with the task. *)
KeepLocked == UNCHANGED holder  \* mutant
Release == holder' = None

(* receiver.lock().await *)
Acquire(t) ==
  /\ task[t] = "waiting"
  /\ holder = None
  /\ holder' = t
  /\ task' = [task EXCEPT ![t] = "reading"]
  /\ UNCHANGED <<ownerVars, tableVars, demuxVars, readVars, placeVars,
                 peerVars, log, torn>>

Decodings(n) ==
  IF n # Garbage THEN {<<Flip(sent[n].id), sent[n].len>>} ELSE Ids \X Lens

(* read_exact(&mut header), one byte; the last one gives index and length. *)
ReadHeader(t) ==
  /\ task[t] = "reading"
  /\ stage = "header"
  /\ HasByte
  /\ Advance
  /\ from' = IF got = 0 THEN (IF rdOff = 0 THEN rdFrame ELSE Garbage) ELSE from
  /\ IF got + 1 < HeaderLen
       THEN /\ got' = got + 1
            /\ UNCHANGED <<stage, dest, need>>
       ELSE \E h \in Decodings(from') :
              /\ stage' = "payload"
              /\ got' = 0
              /\ dest' = h[1]
              /\ need' = h[2]
  /\ UNCHANGED <<ownerVars, tableVars, demuxVars, peerVars, log, task, holder,
                 torn>>

(* read_exact(&mut payload), one byte. *)
ReadPayload(t) ==
  /\ task[t] = "reading"
  /\ stage = "payload"
  /\ got < need
  /\ HasByte
  /\ Advance
  /\ got' = got + 1
  /\ UNCHANGED <<ownerVars, tableVars, demuxVars, stage, from, dest, need,
                 peerVars, log, task, holder, torn>>

(* The Channel whose sender is registered for the frame. *)
NewestChannel == nChan  \* mutant: the last one opened
Addressee == channels[dest]

(* Mutant: a queue that holds one frame and drops what does not fit.       *)
PushIfRoom(c) ==
  log' = IF c \in rx /\ Len(log[c]) < taken + 1
           THEN [log EXCEPT ![c] = Append(@, from)] ELSE log
Push(c) == log' = IF c \in rx THEN [log EXCEPT ![c] = Append(@, from)] ELSE log

(* channels.lock(), then push to the registered sender or report that none *)
(* is attached.  A send to a dropped receiver is an error, which unwrap    *)
(* turns into a panic of the task.                                         *)
Dispatch(t) ==
  /\ task[t] = "reading"
  /\ FrameRead
  /\ Push(Addressee)
  /\ IF Addressee = None \/ Addressee \in rx
       THEN UNCHANGED <<task, holder>>
       ELSE task' = [task EXCEPT ![t] = "panicked"] /\ Release
  /\ NextFrame
  /\ UNCHANGED <<ownerVars, tableVars, demuxVars, placeVars, peerVars, torn>>

(* The runtime drops an aborted task that is suspended at an await: at the *)
(* mutex or inside a read_exact, which loses what the read had consumed.   *)
Cancel(t) ==
  /\ t \in aborted
  /\ \/ /\ task[t] = "waiting"
        /\ UNCHANGED <<readVars, holder, torn>>
     \/ /\ task[t] = "reading"
        /\ ~FrameRead
        /\ Release
        /\ torn' = (torn \/ InFrame)
        /\ NextFrame
  /\ task' = [task EXCEPT ![t] = "cancelled"]
  /\ UNCHANGED <<ownerVars, tableVars, demuxVars, placeVars, peerVars, log>>

(* read_exact reports the end of the stream, and unwrap ends the task.     *)
Fail(t) ==
  /\ task[t] = "reading"
  /\ ~FrameRead
  /\ AtEof
  /\ task' = [task EXCEPT ![t] = "panicked"]
  /\ Release
  /\ NextFrame
  /\ UNCHANGED <<ownerVars, tableVars, demuxVars, placeVars, peerVars, log,
                 torn>>

-----------------------------------------------------------------------------
(***************************************************************************)
(* The peer: it may write a frame for any channel at any time, and go away *)
(* at any time.                                                            *)
(***************************************************************************)
PeerSend(f) ==
  /\ eof = NoEof
  /\ Len(sent) < MaxFrames
  /\ sent' = Append(sent, f)
  /\ UNCHANGED <<ownerVars, tableVars, demuxVars, readVars, placeVars, eof,
                 log, task, holder, torn>>

PeerClose ==
  /\ eof = NoEof
  /\ eof' \in EofPlaces
  /\ UNCHANGED <<ownerVars, tableVars, demuxVars, readVars, placeVars, sent,
                 log, task, holder, torn>>

-----------------------------------------------------------------------------
Owner ==
  \/ \E i \in Ids : Register(i)
  \/ RunDemux
  \/ Recv
  \/ Unregister
  \/ DropReceiver
  \/ DropDemux

Demux(t) ==
  \/ Acquire(t)
  \/ ReadHeader(t)
  \/ ReadPayload(t)
  \/ Dispatch(t)
  \/ Cancel(t)
  \/ Fail(t)

Peer ==
  \/ \E f \in Frames : PeerSend(f)
  \/ PeerClose

Next ==
  \/ Owner
  \/ \E t \in Tasks : Demux(t)
  \/ Peer

Spec == Init /\ [][Next]_vars

(***************************************************************************)
(* What the runtime guarantees: a task that can run is polled, an aborted  *)
(* task is dropped, and the synchronous code that opens and drops a        *)
(* Channel runs to its end.  Nothing forces the owner to open or drop a    *)
(* Channel or the peer to do anything.                                     *)
(***************************************************************************)
Fairness ==
  /\ WF_vars(RunDemux)
  /\ WF_vars(DropReceiver)
  /\ WF_vars(DropDemux)
  /\ \A t \in Tasks :
       /\ WF_vars(Acquire(t))
       /\ WF_vars(ReadHeader(t))
       /\ WF_vars(ReadPayload(t))
       /\ WF_vars(Dispatch(t))
       /\ WF_vars(Cancel(t))
       /\ WF_vars(Fail(t))

FairSpec == Spec /\ Fairness

-----------------------------------------------------------------------------
(***************************************************************************)
(* Types.                                                                  *)
(***************************************************************************)
PeerTypeOK ==
  /\ sent \in Seq(Frames)
  /\ eof \in Nat \X Nat
  /\ rdFrame \in Nat \ {0}
  /\ rdOff \in Nat

TypeOK ==
  /\ pc \in {"free", "registered", "open", "unregistered", "closed"}
  /\ nChan \in 0..MaxChannels
  /\ index \in [Channels -> Ids \cup {NoIndex}]
  /\ channels \in [Ids -> Channels \cup {None}]
  /\ rx \subseteq Channels
  /\ log \in [Channels -> Seq(Nat)]
  /\ taken \in Nat
  /\ held \in Tasks \cup {None}
  /\ weak \in Tasks \cup {None}
  /\ arcs \in [Tasks -> Nat]
  /\ nTasks \in 0..MaxChannels
  /\ aborted \subseteq Tasks
  /\ task \in [Tasks -> {"none", "waiting", "reading", "cancelled",
                         "panicked"}]
  /\ holder \in Tasks \cup {None}
  /\ stage \in {"header", "payload"}
  /\ got \in Nat
  /\ from \in Nat
  /\ dest \in Ids \cup {NoIndex}
  /\ need \in Nat
  /\ torn \in BOOLEAN
  /\ PeerTypeOK

(***************************************************************************)
(* The mpsc send at mux.rs:188 is unwrapped while the `channels` lock is   *)
(* held, so an error would end the demux task and poison the map.  It      *)
(* cannot fail, whatever generations of tasks are still running: a sender  *)
(* that is registered always has its receiver.                             *)
(***************************************************************************)
SendNeverFails == \A i \in Ids : channels[i] # None => channels[i] \in rx

(***************************************************************************)
(* The mpsc receive at mux.rs:166 is unwrapped too: it returns None when   *)
(* the last sender is gone.  While a Channel is open its own sender stays  *)
(* registered, so a receive either gets a frame or waits.                  *)
(***************************************************************************)
RecvNeverFails == pc = "open" => channels[index[nChan]] = nChan

(***************************************************************************)
(* Dropping a Channel aborts the task it kept alive; the task of the next  *)
(* Channel is never that one.  An open Channel has a reader that nobody    *)
(* aborted, and the reader is gone only if the peer went away.             *)
(***************************************************************************)
OpenChannelHasReader ==
  pc = "open" => /\ held # None
                 /\ held \notin aborted
                 /\ task[held] = "panicked" => eof # NoEof

(***************************************************************************)
(* Order across generations: of two whole frames delivered to one Channel, *)
(* or to an earlier and a later one, the first was written first, and no   *)
(* frame is delivered twice; each went to the Channel of its own protocol  *)
(* in the opposite direction.                                              *)
(***************************************************************************)
Delivered(c) == { k \in 1..Len(log[c]) : log[c][k] # Garbage }

RightChannel ==
  \A c \in Channels : \A k \in Delivered(c) :
    log[c][k] <= Len(sent) /\ Flip(sent[log[c][k]].id) = index[c]

InOrder ==
  \A c, d \in Channels : \A j \in Delivered(c), k \in Delivered(d) :
    c < d \/ (c = d /\ j < k) => log[c][j] < log[d][k]

FramesInOrder == RightChannel /\ InOrder

(***************************************************************************)
(* All this implements a FIFO of frames that takes one after the other and *)
(* gives each to the Channel open at that moment (mux.rs:132-231): a frame *)
(* is taken when it is dispatched, a Channel is open from register to      *)
(* unregister, and the FIFO breaks when an abort tears a frame.            *)
(***************************************************************************)
Dispatched == IF FrameRead THEN rdFrame - 2 ELSE rdFrame - 1

F == INSTANCE Fifo WITH
  cursor <- Dispatched,
  opened <- nChan,
  open <- pc \in {"registered", "open"},
  broken <- torn

ImplementsFifo == F!Spec

(***************************************************************************)
(* Framing is lost only by an abort inside a frame: until then no Channel  *)
(* receives bytes cut out of the stream at the wrong place, however the    *)
(* tasks of successive Channels hand the socket over.                      *)
(***************************************************************************)
NoGarbage ==
  ~torn => \A c \in Channels : Delivered(c) = 1..Len(log[c])

(***************************************************************************)
(* A Channel that has received a frame misses none of the frames for it    *)
(* that were read afterwards, whichever task read them: what it gets is a  *)
(* contiguous run of what the peer wrote for it, up to the frame that is   *)
(* read but not dispatched yet (mux.rs:176-191).                           *)
(***************************************************************************)
Got(n) == \E k \in 1..Len(log[nChan]) : log[nChan][k] = n

Gapless ==
  pc \in {"registered", "open"} /\ ~torn /\ log[nChan] # << >> =>
    \A n \in (log[nChan][1])..Len(sent) :
      n < rdFrame /\ Flip(sent[n].id) = index[nChan] =>
        Got(n) \/ (FrameRead /\ from = n)

(***************************************************************************)
(* A frame written for the open Channel reaches it, even when the socket   *)
(* is still in the hands of an aborted task of an earlier Channel -- unless *)
(* the Channel is dropped, the peer goes away or that abort tears a frame. *)
(***************************************************************************)
Deliverable(n) ==
  /\ pc = "open"
  /\ n \in rdFrame..Len(sent)
  /\ Flip(sent[n].id) = index[nChan]

EventuallyDelivered ==
  \A n \in 1..MaxFrames :
    Deliverable(n) ~>
      \/ pc # "open"
      \/ Got(n)
      \/ torn
      \/ eof # NoEof

(***************************************************************************)
(* Statements of the repository that the code does not meet.               *)
(*                                                                         *)
(* A frame nobody is registered for is reported and skipped as a whole     *)
(* (mux.rs:189): every header is read at a frame boundary.                 *)
(***************************************************************************)
HeadersAligned == InFrame => from # Garbage

(***************************************************************************)
(* A receive that cannot succeed any more returns an error (the Result of  *)
(* Channel::recv, mux.rs:217, propagated by execute, protocols.rs:121): an *)
(* owner that waits when the peer has gone away does not wait for ever.    *)
(***************************************************************************)
WaitsAtEof ==
  /\ pc = "open"
  /\ held # None /\ task[held] = "panicked"
  /\ taken = Len(log[nChan])

EofIsReported == WaitsAtEof ~> ~WaitsAtEof
=============================================================================
