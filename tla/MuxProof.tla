------------------------------ MODULE MuxProof ------------------------------
(***************************************************************************)
(* What is proved of Mux for every set of protocols and lengths, every     *)
(* header length and any number of frames and Channels.                    *)
(*                                                                         *)
(* The inductive invariant has one conjunct per concern: OwnerInv ties the *)
(* `channels` map and the live receivers to the owner's program counter,   *)
(* DemuxInv the Arc counts and aborts to the Channel in use, ReaderInv the *)
(* lock to the one task that reads, PlaceInv the reader's progress to the  *)
(* place in the stream, LogInv what was delivered to what was read, and    *)
(* AlignInv says what is known of the alignment of an untorn stream.  With *)
(* it, every step of Mux is a step of Fifo or a stutter.                   *)
(***************************************************************************)
EXTENDS Mux, TLAPS

LiveRx == {"registered", "open", "unregistered"}

OwnerInv ==
  /\ pc # "free" => nChan \in Channels /\ index[nChan] \in Ids
  /\ rx = IF pc \in LiveRx THEN {nChan} ELSE {}
  /\ \A i \in Ids :
       channels[i] = IF pc \in {"registered", "open"} /\ i = index[nChan]
                       THEN nChan ELSE None

DemuxInv ==
  /\ held = None <=> pc \in {"free", "registered"}
  /\ held # None => held <= nTasks /\ arcs[held] = 1 /\ held \notin aborted
  /\ \A t \in Tasks : t # held => arcs[t] = 0
  /\ nTasks <= nChan
  /\ pc = "registered" => nTasks < nChan
  /\ \A t \in aborted : t <= nTasks

PanicInv == \A t \in Tasks : task[t] = "panicked" => eof # NoEof

ReaderInv ==
  /\ \A t \in Tasks : task[t] = "reading" <=> holder = t
  /\ \A t \in Tasks : t > nTasks => task[t] = "none"
  /\ holder = None => ~InFrame

(* Where the reader of an aligned frame is in the stream. *)
PlaceInv ==
  /\ InFrame /\ from # Garbage =>
       /\ stage = "header" => rdFrame = from /\ rdOff = got
       /\ stage = "payload" => /\ dest = Flip(sent[from].id)
                               /\ need = sent[from].len
       /\ stage = "payload" /\ got < need =>
            rdFrame = from /\ rdOff = HeaderLen + got
       /\ FrameRead => rdFrame = from + 1 /\ rdOff = 0
  /\ stage = "header" => got < HeaderLen
  /\ stage = "payload" => got <= need

LogInv ==
  /\ \A c \in Channels : c > nChan => log[c] = << >>
  /\ \A c \in Channels : \A k \in 1..Len(log[c]) : log[c][k] < rdFrame
  /\ InFrame /\ from # Garbage =>
       \A c \in Channels : \A k \in 1..Len(log[c]) : log[c][k] < from

AlignInv ==
  ~torn => IF InFrame THEN from # Garbage ELSE rdOff = 0 \/ AtEof

TypeInv ==
  /\ TypeOK
  /\ from <= Len(sent)
  /\ rdFrame <= Len(sent) + 1
  /\ stage = "payload" => dest \in Ids

IInv ==
  /\ TypeInv
  /\ OwnerInv
  /\ DemuxInv
  /\ PanicInv
  /\ ReaderInv
  /\ PlaceInv
  /\ LogInv
  /\ RightChannel
  /\ InOrder
  /\ AlignInv
  /\ NoGarbage
  /\ Gapless

-----------------------------------------------------------------------------
(* The direction bit is flipped within the set of indices. *)
LEMMA FlipType == \A i \in Ids : Flip(i) \in Ids
BY DEF Ids, Flip

(* The peer writes frames. *)
LEMMA SentType ==
  ASSUME TypeInv, NEW n \in 1..Len(sent)
  PROVE  sent[n].id \in Ids /\ sent[n].len \in Lens
  <1>1. sent[n] \in Frames
    BY DEF TypeInv, TypeOK, PeerTypeOK
  <1> QED
    BY <1>1 DEF Frames

(* The stream ends, if it ends, at a place of the stream. *)
LEMMA EofType ==
  ASSUME TypeInv, PeerClose
  PROVE  eof' \in Nat \X Nat
  <1>1. Len(sent) \in Nat /\ rdFrame \in Nat
    BY DEF TypeInv, TypeOK, PeerTypeOK
  <1>2. \A n \in rdFrame..Len(sent) : 0..(FrameLen(n) - 1) \subseteq Nat
    OBVIOUS
  <1>3. \A n \in rdFrame..Len(sent) : n \in Nat
    BY <1>1
  <1>4. <<Len(sent) + 1, 0>> \in Nat \X Nat
    BY <1>1
  <1> QED
    BY <1>2, <1>3, <1>4 DEF PeerClose, EofPlaces

(* The program starts in a state that satisfies the invariant.             *)
LEMMA InitIInv == Init => IInv
  <1> SUFFICES ASSUME Init PROVE IInv
    OBVIOUS
  <1> USE MuxAssumption DEF Init, None, Garbage, NoEof, NoIndex
  <1>1. TypeInv
    <2>1. log \in [Channels -> Seq(Nat)] /\ sent \in Seq(Frames)
      <3>1. << >> \in Seq(Nat) /\ << >> \in Seq(Frames)
        OBVIOUS
      <3> QED
        BY <3>1
    <2>2. arcs \in [Tasks -> Nat] /\ index \in [Channels -> Ids \cup {NoIndex}]
      OBVIOUS
    <2>3. /\ channels \in [Ids -> Channels \cup {None}]
          /\ task \in [Tasks -> {"none", "waiting", "reading", "cancelled",
                                 "panicked"}]
      OBVIOUS
    <2>4. Len(sent) = 0
      OBVIOUS
    <2> QED
      <3>1. PeerTypeOK
        BY <2>1 DEF PeerTypeOK
      <3>2. /\ nChan \in 0..MaxChannels /\ nTasks \in 0..MaxChannels
            /\ from <= Len(sent) /\ rdFrame <= Len(sent) + 1
        BY <2>4
      <3> QED
        BY <2>1, <2>2, <2>3, <3>1, <3>2 DEF TypeInv, TypeOK
  <1>2. OwnerInv
    BY DEF OwnerInv, LiveRx
  <1>3. DemuxInv
    BY DEF DemuxInv, Tasks
  <1>4. PanicInv /\ ReaderInv
    BY DEF PanicInv, ReaderInv, InFrame, Tasks
  <1>5. PlaceInv /\ LogInv /\ AlignInv
    BY DEF PlaceInv, LogInv, AlignInv, InFrame, FrameRead, Channels
  <1>6. RightChannel /\ InOrder /\ NoGarbage /\ Gapless
    BY DEF RightChannel, InOrder, NoGarbage, Gapless, Delivered, Channels
  <1> QED
    BY <1>1, <1>2, <1>3, <1>4, <1>5, <1>6 DEF IInv

(* The Weak that run_demux tries is always dead: the last Channel that kept *)
(* its task alive is gone when the next one is opened.                     *)
LEMMA NoUpgrade ==
  ASSUME IInv, RunDemux
  PROVE  ~CanUpgrade /\ nTasks + 1 \in Tasks
BY MuxAssumption
   DEF IInv, TypeInv, TypeOK, DemuxInv, RunDemux, CanUpgrade, Tasks, None

(* The types by the variables that change together.                       *)
OwnerType ==
  /\ pc \in {"free", "registered", "open", "unregistered", "closed"}
  /\ nChan \in 0..MaxChannels
  /\ index \in [Channels -> Ids \cup {NoIndex}]
  /\ taken \in Nat
  /\ held \in Tasks \cup {None}
TableType == channels \in [Ids -> Channels \cup {None}] /\ rx \subseteq Channels
DemuxType ==
  /\ weak \in Tasks \cup {None}
  /\ arcs \in [Tasks -> Nat]
  /\ nTasks \in 0..MaxChannels
  /\ aborted \subseteq Tasks
TaskType ==
  /\ task \in [Tasks -> {"none", "waiting", "reading", "cancelled", "panicked"}]
  /\ holder \in Tasks \cup {None}
  /\ torn \in BOOLEAN
LogsType == log \in [Channels -> Seq(Nat)]
ReadType ==
  /\ stage \in {"header", "payload"}
  /\ got \in Nat
  /\ from \in Nat
  /\ dest \in Ids \cup {NoIndex}
  /\ need \in Nat
  /\ stage = "payload" => dest \in Ids
PlaceType ==
  /\ from <= Len(sent)
  /\ rdFrame \in Nat \ {0} /\ rdFrame <= Len(sent) + 1
  /\ rdOff \in Nat
WrittenType == sent \in Seq(Frames) /\ eof \in Nat \X Nat

LEMMA TypeParts ==
  TypeInv <=> /\ OwnerType /\ TableType /\ DemuxType /\ TaskType
              /\ LogsType /\ ReadType /\ PlaceType /\ WrittenType
BY DEF TypeInv, TypeOK, PeerTypeOK, OwnerType, TableType, DemuxType, TaskType,
   LogsType, ReadType, PlaceType, WrittenType

LEMMA TypePartsAfter ==
  TypeInv' <=> /\ OwnerType' /\ TableType' /\ DemuxType' /\ TaskType'
               /\ LogsType' /\ ReadType' /\ PlaceType' /\ WrittenType'
BY DEF TypeInv, TypeOK, PeerTypeOK, OwnerType, TableType, DemuxType, TaskType,
   LogsType, ReadType, PlaceType, WrittenType

(* What a step leaves alone keeps its types.                               *)
LEMMA SameTypes ==
  ASSUME TypeInv
  PROVE  /\ UNCHANGED ownerVars => OwnerType'
         /\ UNCHANGED tableVars => TableType'
         /\ UNCHANGED demuxVars => DemuxType'
         /\ UNCHANGED <<task, holder, torn>> => TaskType'
         /\ UNCHANGED log => LogsType'
         /\ UNCHANGED readVars => ReadType'
         /\ UNCHANGED <<from, sent, placeVars>> => PlaceType'
         /\ UNCHANGED peerVars => WrittenType'
  <1>1. /\ OwnerType /\ TableType /\ DemuxType /\ TaskType
        /\ LogsType /\ ReadType /\ PlaceType /\ WrittenType
    BY TypeParts
  <1>2. UNCHANGED ownerVars => OwnerType'
    BY <1>1 DEF ownerVars, OwnerType
  <1>3. UNCHANGED tableVars => TableType'
    BY <1>1 DEF tableVars, TableType
  <1>4. UNCHANGED demuxVars => DemuxType'
    BY <1>1 DEF demuxVars, DemuxType
  <1>5. UNCHANGED <<task, holder, torn>> => TaskType'
    BY <1>1 DEF TaskType
  <1>6. UNCHANGED log => LogsType'
    BY <1>1 DEF LogsType
  <1>7. UNCHANGED readVars => ReadType'
    BY <1>1 DEF readVars, ReadType
  <1>8. UNCHANGED <<from, sent, placeVars>> => PlaceType'
    BY <1>1 DEF placeVars, PlaceType
  <1>9. UNCHANGED peerVars => WrittenType'
    BY <1>1 DEF peerVars, WrittenType
  <1> QED
    BY <1>2, <1>3, <1>4, <1>5, <1>6, <1>7, <1>8, <1>9

(* The owner keeps the types: in particular the strong count of a task     *)
(* that a Channel gives back was not zero (mux.rs:168-206).                *)
LEMMA OwnerTypes ==
  ASSUME IInv, Owner
  PROVE  TypeInv'
  <1>0. TypeInv /\ DemuxInv
    BY DEF IInv
  <1>1. OwnerType /\ TableType /\ DemuxType /\ TaskType
    BY <1>0, TypeParts
  <1>2. /\ UNCHANGED <<readVars, placeVars, peerVars, log, holder, torn>>
        /\ UNCHANGED <<from, sent, placeVars>>
    BY DEF Owner, Register, RunDemux, Recv, Unregister, DropReceiver,
       DropDemux, readVars, peerVars
  <1>3. LogsType' /\ ReadType' /\ PlaceType' /\ WrittenType'
    BY <1>0, <1>2, SameTypes
  <1>4. OwnerType' /\ TableType' /\ DemuxType' /\ TaskType'
    <2>1. ASSUME NEW i \in Ids, Register(i)
          PROVE  OwnerType' /\ TableType' /\ DemuxType' /\ TaskType'
      <3>1. DemuxType' /\ TaskType'
        BY <1>0, <2>1, SameTypes DEF Register
      <3>2. nChan + 1 \in Channels
        BY <1>1, <2>1, MuxAssumption DEF OwnerType, Register, Channels
      <3>3. TableType'
        BY <1>1, <2>1, <3>2 DEF TableType, Register, Insert
      <3>4. OwnerType'
        BY <1>1, <2>1, <3>2 DEF OwnerType, Register, Channels
      <3> QED
        BY <3>1, <3>3, <3>4
    <2>2. CASE RunDemux
      <3>1. ~CanUpgrade /\ nTasks + 1 \in Tasks
        BY <2>2, NoUpgrade
      <3>2. TableType'
        BY <1>0, <2>2, SameTypes DEF RunDemux
      <3>3. OwnerType' /\ TaskType'
        BY <1>1, <2>2, <3>1 DEF OwnerType, TaskType, RunDemux
      <3>4. DemuxType'
        BY <1>1, <2>2, <3>1 DEF DemuxType, RunDemux, Tasks
      <3> QED
        BY <3>2, <3>3, <3>4
    <2>3. CASE Recv \/ Unregister \/ DropReceiver
      <3>1. DemuxType' /\ TaskType'
        BY <1>0, <2>3, SameTypes DEF Recv, Unregister, DropReceiver
      <3>2. OwnerType'
        BY <1>1, <2>3 DEF OwnerType, Recv, Unregister, DropReceiver
      <3>3. TableType'
        BY <1>1, <2>3 DEF TableType, Recv, Unregister, DropReceiver, tableVars
      <3> QED
        BY <3>1, <3>2, <3>3
    <2>4. CASE DropDemux
      <3>1. TableType' /\ TaskType'
        BY <1>0, <2>4, SameTypes DEF DropDemux
      <3>2. held \in Tasks /\ arcs[held] = 1
        BY <1>0, <1>1, <2>4 DEF DropDemux, DemuxInv, OwnerType
      <3>3. OwnerType'
        BY <1>1, <2>4 DEF OwnerType, DropDemux
      <3>4. DemuxType'
        BY <1>1, <2>4, <3>2 DEF DemuxType, DropDemux
      <3> QED
        BY <3>1, <3>3, <3>4
    <2> QED
      BY <2>1, <2>2, <2>3, <2>4 DEF Owner
  <1> QED
    BY <1>3, <1>4, TypePartsAfter

(* What a header is read as (mux.rs:180-183).                              *)
LEMMA HeaderTypes ==
  ASSUME TypeInv, NEW t \in Tasks, ReadHeader(t)
  PROVE  ReadType' /\ from' <= Len(sent)
  <1>1. ReadType /\ PlaceType
    BY TypeParts
  <1>2. from' \in 0..Len(sent)
    BY <1>1 DEF ReadHeader, HasByte, ReadType, PlaceType, Garbage
  <1>3. CASE got + 1 < HeaderLen
    BY <1>1, <1>2, <1>3 DEF ReadHeader, ReadType
  <1>4. CASE ~(got + 1 < HeaderLen)
    <2>1. Decodings(from') \subseteq Ids \X Lens
      <3>1. CASE from' = Garbage
        BY <3>1 DEF Decodings
      <3>2. CASE from' # Garbage
        <4>1. from' \in 1..Len(sent)
          BY <1>2, <3>2 DEF Garbage
        <4>2. sent[from'].id \in Ids /\ sent[from'].len \in Lens
          BY <4>1, SentType
        <4> QED
          BY <3>2, <4>2, FlipType DEF Decodings
      <3> QED
        BY <3>1, <3>2
    <2>2. PICK h \in Decodings(from') :
            /\ stage' = "payload" /\ got' = 0
            /\ dest' = h[1] /\ need' = h[2]
      BY <1>4 DEF ReadHeader
    <2>3. h[1] \in Ids /\ h[2] \in Nat
      BY <2>1, MuxAssumption
    <2> QED
      BY <1>2, <2>2, <2>3 DEF ReadType
  <1> QED
    BY <1>2, <1>3, <1>4

(* The next byte is one of a frame that was written, or the first after it.*)
LEMMA AdvanceTypes ==
  ASSUME TypeInv, HasByte, Advance
  PROVE  /\ rdFrame' \in Nat \ {0} /\ rdFrame' <= Len(sent) + 1
         /\ rdOff' \in Nat
  <1>1. PlaceType /\ Len(sent) \in Nat
    BY TypeParts DEF WrittenType
  <1> QED
    BY <1>1 DEF PlaceType, HasByte, Advance

LEMMA DemuxTypes ==
  ASSUME IInv, NEW t \in Tasks, Demux(t)
  PROVE  TypeInv'
  <1>0. TypeInv
    BY DEF IInv
  <1>1. TaskType /\ LogsType /\ ReadType /\ PlaceType
    BY <1>0, TypeParts
  <1>2. UNCHANGED <<ownerVars, tableVars, demuxVars, peerVars>> /\ sent' = sent
    BY DEF Demux, Acquire, ReadHeader, ReadPayload, Dispatch, Cancel, Fail,
       peerVars
  <1>3. OwnerType' /\ TableType' /\ DemuxType' /\ WrittenType'
    BY <1>0, <1>2, SameTypes
  <1>4. TaskType' /\ LogsType' /\ ReadType' /\ PlaceType'
    <2>1. CASE Acquire(t)
      <3>1. LogsType' /\ ReadType' /\ PlaceType'
        BY <1>0, <1>2, <2>1, SameTypes DEF Acquire, readVars
      <3>2. TaskType'
        BY <1>1, <2>1 DEF Acquire, TaskType
      <3> QED
        BY <3>1, <3>2
    <2>2. CASE ReadHeader(t)
      <3>1. TaskType' /\ LogsType'
        BY <1>0, <2>2, SameTypes DEF ReadHeader
      <3>2. PlaceType'
        BY <1>0, <1>2, <2>2, HeaderTypes, AdvanceTypes DEF ReadHeader, PlaceType
      <3> QED
        BY <1>0, <2>2, <3>1, <3>2, HeaderTypes
    <2>3. CASE ReadPayload(t)
      <3>1. TaskType' /\ LogsType'
        BY <1>0, <2>3, SameTypes DEF ReadPayload
      <3>2. ReadType'
        BY <1>1, <2>3 DEF ReadPayload, ReadType
      <3>3. from' <= Len(sent')
        BY <1>1, <1>2, <2>3 DEF ReadPayload, PlaceType
      <3>4. PlaceType'
        BY <1>0, <1>2, <2>3, <3>3, AdvanceTypes DEF ReadPayload, PlaceType
      <3> QED
        BY <3>1, <3>2, <3>4
    <2>4. CASE Dispatch(t)
      <3>1. UNCHANGED <<from, placeVars, torn>> /\ NextFrame
        BY <2>4 DEF Dispatch, NextFrame
      <3>2. ReadType' /\ PlaceType'
        BY <1>0, <1>1, <1>2, <3>1, SameTypes DEF NextFrame, ReadType
      <3>3. LogsType'
        <4>1. log \in [Channels -> Seq(Nat)] /\ from \in Nat
          BY <1>1 DEF LogsType, ReadType
        <4>2. ASSUME NEW c \in Channels
              PROVE  [log EXCEPT ![c] = Append(@, from)] \in [Channels -> Seq(Nat)]
          BY <4>1
        <4>3. Addressee \in rx => Addressee \in Channels
          BY <1>0, TypeParts DEF TableType
        <4>4. Push(Addressee)
          BY <2>4 DEF Dispatch
        <4> QED
          BY <4>1, <4>2, <4>3, <4>4 DEF Push, LogsType
      <3>4. TaskType'
        BY <1>1, <2>4, <3>1 DEF Dispatch, Release, TaskType
      <3> QED
        BY <3>2, <3>3, <3>4
    <2>5. CASE Cancel(t) \/ Fail(t)
      <3>1. /\ UNCHANGED <<from, placeVars, log>>
            /\ UNCHANGED readVars \/ NextFrame
        BY <2>5 DEF Cancel, Fail, NextFrame, readVars
      <3>2. LogsType' /\ ReadType' /\ PlaceType'
        BY <1>0, <1>1, <1>2, <3>1, SameTypes DEF NextFrame, ReadType
      <3>3. torn' \in BOOLEAN
        BY <1>1, <2>5 DEF Cancel, Fail, InFrame, TaskType
      <3>4. TaskType'
        BY <1>1, <2>5, <3>3 DEF Cancel, Fail, Release, TaskType
      <3> QED
        BY <3>2, <3>4
    <2> QED
      BY <2>1, <2>2, <2>3, <2>4, <2>5 DEF Demux
  <1> QED
    BY <1>3, <1>4, TypePartsAfter

LEMMA PeerTypes ==
  ASSUME IInv, Peer
  PROVE  TypeInv'
  <1>0. TypeInv
    BY DEF IInv
  <1>1. PlaceType /\ WrittenType /\ from \in Nat
    BY <1>0, TypeParts DEF ReadType
  <1>2. UNCHANGED <<ownerVars, tableVars, demuxVars, readVars, placeVars, log,
                    task, holder, torn>>
    BY DEF Peer, PeerSend, PeerClose
  <1>3. /\ OwnerType' /\ TableType' /\ DemuxType' /\ TaskType'
        /\ LogsType' /\ ReadType'
    BY <1>0, <1>2, SameTypes
  <1>4. PlaceType' /\ WrittenType'
    <2>1. ASSUME NEW f \in Frames, PeerSend(f) PROVE PlaceType' /\ WrittenType'
      <3>1. sent' \in Seq(Frames) /\ Len(sent') = Len(sent) + 1 /\ eof' = eof
        BY <1>1, <2>1 DEF PeerSend, WrittenType
      <3>2. Len(sent) \in Nat
        BY <1>1 DEF WrittenType
      <3>3. UNCHANGED <<from, rdFrame, rdOff>>
        BY <1>2 DEF readVars, placeVars
      <3>4. from <= Len(sent) + 1
        BY <1>1, <3>2 DEF PlaceType
      <3>5. PlaceType'
        BY <1>1, <3>1, <3>2, <3>3, <3>4 DEF PlaceType
      <3> QED
        BY <1>1, <3>1, <3>5 DEF WrittenType
    <2>2. CASE PeerClose
      <3>1. eof' \in Nat \X Nat /\ sent' = sent
        BY <1>0, <2>2, EofType DEF PeerClose
      <3> QED
        BY <1>1, <1>2, <3>1 DEF PlaceType, WrittenType, readVars, placeVars
    <2> QED
      BY <2>1, <2>2 DEF Peer
  <1> QED
    BY <1>3, <1>4, TypePartsAfter

(* Every step keeps the variables in their types.                          *)
LEMMA TypeStep ==
  ASSUME IInv, [Next]_vars
  PROVE  TypeInv'
  <1>1. CASE UNCHANGED vars
    <2>1. /\ UNCHANGED <<ownerVars, tableVars, demuxVars, readVars, peerVars>>
          /\ UNCHANGED <<task, holder, torn>> /\ UNCHANGED log
          /\ UNCHANGED <<from, sent, placeVars>>
      BY <1>1 DEF vars, readVars, peerVars
    <2> QED
      BY <2>1, SameTypes, TypePartsAfter DEF IInv
  <1> QED
    BY <1>1, OwnerTypes, DemuxTypes, PeerTypes DEF Next

-----------------------------------------------------------------------------
(***************************************************************************)
(* What the steps of each party leave alone.                               *)
(***************************************************************************)
(* The owner touches neither the byte stream nor the tasks' progress.      *)
LEMMA OwnerFrame ==
  Owner => UNCHANGED <<readVars, placeVars, peerVars, log, holder, torn>>
BY
   DEF Owner, Register, RunDemux, Recv, Unregister, DropReceiver, DropDemux

(* A task touches neither what the owner holds nor the map of Channels.    *)
LEMMA DemuxFrame ==
  ASSUME NEW t \in Tasks, Demux(t)
  PROVE  UNCHANGED <<ownerVars, tableVars, demuxVars, peerVars>>
BY DEF Demux, Acquire, ReadHeader, ReadPayload, Dispatch, Cancel, Fail,
   peerVars

(* The peer touches nothing but the stream's far end.                      *)
LEMMA PeerFrame ==
  Peer => UNCHANGED <<ownerVars, tableVars, demuxVars, readVars, placeVars,
                      log, task, holder, torn>>
BY DEF Peer, PeerSend, PeerClose

-----------------------------------------------------------------------------
(***************************************************************************)
(* The owner and the tasks' life cycle.                                    *)
(***************************************************************************)
(* Opening and dropping a Channel keep the map, the receivers and the      *)
(* indices together (mux.rs:132-153, 200-206, 227-231).                    *)
LEMMA OwnerStep ==
  ASSUME IInv, [Next]_vars
  PROVE  OwnerInv'
  <1> USE MuxAssumption
      DEF IInv, TypeInv, TypeOK, OwnerInv, LiveRx, None, Channels,
          ownerVars, tableVars
  <1>1. CASE UNCHANGED <<ownerVars, tableVars>>
    BY <1>1
  <1>2. ASSUME NEW i \in Ids, Register(i) PROVE OwnerInv'
    BY <1>2 DEF Register, Insert
  <1>3. CASE RunDemux
    BY <1>3 DEF RunDemux
  <1>4. CASE Recv
    BY <1>4 DEF Recv
  <1>5. CASE Unregister
    BY <1>5 DEF Unregister
  <1>6. CASE DropReceiver
    BY <1>6 DEF DropReceiver
  <1>7. CASE DropDemux
    BY <1>7 DEF DropDemux
  <1> QED
    BY <1>1, <1>2, <1>3, <1>4, <1>5, <1>6, <1>7, DemuxFrame, PeerFrame
       DEF Next, Owner, vars

(* The strong count of a task is 1 while its Channel lives and 0 afterwards,*)
(* when the task has been aborted (mux.rs:63-67, 168-197).                 *)
LEMMA DemuxStep ==
  ASSUME IInv, [Next]_vars
  PROVE  DemuxInv'
  <1> USE MuxAssumption
      DEF IInv, TypeInv, TypeOK, OwnerInv, DemuxInv, None, Tasks,
          ownerVars, demuxVars
  <1>1. CASE UNCHANGED <<ownerVars, demuxVars>>
    BY <1>1
  <1>2. ASSUME NEW i \in Ids, Register(i) PROVE DemuxInv'
    BY <1>2 DEF Register
  <1>3. CASE RunDemux
    <2>1. ~CanUpgrade /\ nTasks + 1 \in Tasks
      BY <1>3, NoUpgrade
    <2> QED
      BY <1>3, <2>1 DEF RunDemux
  <1>4. CASE Recv
    BY <1>4 DEF Recv
  <1>5. CASE Unregister
    BY <1>5 DEF Unregister
  <1>6. CASE DropReceiver
    BY <1>6 DEF DropReceiver
  <1>7. CASE DropDemux
    BY <1>7 DEF DropDemux
  <1> QED
    BY <1>1, <1>2, <1>3, <1>4, <1>5, <1>6, <1>7, DemuxFrame, PeerFrame
       DEF Next, Owner, vars

(* Only a lost peer ends a task with a panic: the send cannot fail.        *)
LEMMA PanicStep ==
  ASSUME IInv, [Next]_vars
  PROVE  PanicInv'
  <1> USE DEF IInv, TypeInv, TypeOK, PeerTypeOK, PanicInv, None, peerVars
  <1>1. CASE UNCHANGED <<task, eof>>
    BY <1>1
  <1>2. CASE RunDemux
    BY <1>2 DEF RunDemux
  <1>3. ASSUME NEW t \in Tasks, Acquire(t) PROVE PanicInv'
    BY <1>3 DEF Acquire
  <1>4. ASSUME NEW t \in Tasks, Dispatch(t) PROVE PanicInv'
    <2>1. FrameRead => channels[dest] = None \/ channels[dest] \in rx
      BY DEF OwnerInv, LiveRx, FrameRead
    <2> QED
      BY <1>4, <2>1 DEF Dispatch, Addressee
  <1>5. ASSUME NEW t \in Tasks, Cancel(t) PROVE PanicInv'
    BY <1>5 DEF Cancel
  <1>6. ASSUME NEW t \in Tasks, Fail(t) PROVE PanicInv'
    BY <1>6 DEF Fail, AtEof, NoEof
  <1>7. CASE PeerClose
    BY <1>7 DEF PeerClose
  <1>8. CASE Owner /\ ~RunDemux
    BY <1>8
       DEF Owner, Register, Recv, Unregister, DropReceiver, DropDemux
  <1>9. ASSUME NEW t \in Tasks, ReadHeader(t) \/ ReadPayload(t)
        PROVE  PanicInv'
    BY <1>9 DEF ReadHeader, ReadPayload
  <1>10. ASSUME NEW f \in Frames, PeerSend(f) PROVE PanicInv'
    BY <1>10 DEF PeerSend
  <1> QED
    BY <1>1, <1>2, <1>3, <1>4, <1>5, <1>6, <1>7, <1>8, <1>9, <1>10
       DEF Next, Demux, Peer, vars

-----------------------------------------------------------------------------
(***************************************************************************)
(* One reader at a time, and its place in the stream.                      *)
(***************************************************************************)
(* One task holds the read half, and it is the one that reads (mux.rs:176).*)
LEMMA ReaderStep ==
  ASSUME IInv, [Next]_vars
  PROVE  ReaderInv'
  <1> USE DEF IInv, TypeInv, TypeOK, ReaderInv, InFrame, None, Tasks,
              demuxVars, readVars
  <1>1. CASE UNCHANGED <<demuxVars, readVars, task, holder>>
    BY <1>1
  <1>2. CASE RunDemux
    <2>1. ~CanUpgrade /\ nTasks + 1 \in Tasks
      BY <1>2, NoUpgrade
    <2> QED
      BY <1>2, <2>1, OwnerFrame DEF RunDemux
  <1>3. CASE DropDemux
    BY <1>3 DEF DropDemux
  <1>4. ASSUME NEW t \in Tasks, Acquire(t) PROVE ReaderInv'
    BY <1>4 DEF Acquire
  <1>5. ASSUME NEW t \in Tasks, ReadHeader(t) \/ ReadPayload(t)
        PROVE  ReaderInv'
    <2>1. holder = t /\ UNCHANGED <<task, holder, nTasks>>
      BY <1>5 DEF ReadHeader, ReadPayload
    <2> QED
      BY <2>1
  <1>6. ASSUME NEW t \in Tasks, Dispatch(t) PROVE ReaderInv'
    <2>1. CASE UNCHANGED <<task, holder>>
      BY <1>6, <2>1 DEF Dispatch, NextFrame
    <2>2. CASE task' = [task EXCEPT ![t] = "panicked"] /\ holder' = None
      BY <1>6, <2>2 DEF Dispatch, NextFrame
    <2> QED
      BY <1>6, <2>1, <2>2 DEF Dispatch, Release
  <1>7. ASSUME NEW t \in Tasks, Cancel(t) PROVE ReaderInv'
    BY <1>7, DemuxFrame DEF Cancel, NextFrame, Release
  <1>8. ASSUME NEW t \in Tasks, Fail(t) PROVE ReaderInv'
    BY <1>8 DEF Fail, NextFrame, Release
  <1>9. CASE Owner /\ ~RunDemux /\ ~DropDemux
    BY <1>9 DEF Owner, Register, Recv, Unregister, DropReceiver
  <1>10. CASE Peer
    BY <1>1, <1>10, PeerFrame
  <1> QED
    BY <1>1, <1>2, <1>3, <1>4, <1>5, <1>6, <1>7, <1>8, <1>9, <1>10
       DEF Next, Demux, vars

(* The steps that release the lock start the next reader on a new header.  *)
LEMMA ReleaseSteps ==
  ASSUME IInv, NEW t \in Tasks,
         Dispatch(t) \/ Fail(t) \/ (Cancel(t) /\ task[t] = "reading")
  PROVE  NextFrame /\ UNCHANGED <<ownerVars, tableVars, placeVars, sent>>
BY DEF Dispatch, Fail, Cancel, peerVars

(* The place of the next byte and the reader's progress stay within the    *)
(* stream (mux.rs:177-186).                                                *)
LEMMA PlaceStep ==
  ASSUME IInv, [Next]_vars
  PROVE  PlaceInv'
  <1>0. /\ PlaceInv /\ TypeInv
        /\ stage \in {"header", "payload"}
        /\ got \in Nat /\ from \in Nat /\ need \in Nat
        /\ from <= Len(sent) /\ Len(sent) \in Nat
        /\ rdFrame \in Nat \ {0} /\ rdOff \in Nat
        /\ HeaderLen \in Nat \ {0}
    BY MuxAssumption DEF IInv, TypeInv, TypeOK, PeerTypeOK
  <1> USE <1>0 DEF PlaceInv, InFrame, FrameRead, Garbage, readVars, placeVars
  <1>1. CASE UNCHANGED <<readVars, placeVars, sent>>
    BY <1>1
  <1>2. ASSUME NextFrame PROVE PlaceInv'
    BY <1>2 DEF NextFrame
  <1>3. ASSUME NEW t \in Tasks, ReadHeader(t) PROVE PlaceInv'
    <2>1. rdFrame \in 1..Len(sent) /\ UNCHANGED sent /\ stage = "header"
      BY <1>3 DEF ReadHeader, HasByte, peerVars
    <2>2. sent[rdFrame].len \in Nat
      BY <2>1, SentType, MuxAssumption
    <2>3. CASE got + 1 < HeaderLen
      <3>1. from' # 0 => from' = rdFrame /\ rdOff = got
        BY <1>3, <2>1 DEF ReadHeader
      <3>2. from' # 0 => rdFrame' = rdFrame /\ rdOff' = rdOff + 1
        BY <1>3, <2>2, <2>3, <3>1 DEF ReadHeader, Advance, FrameLen
      <3> QED
        BY <1>3, <2>1, <2>3, <3>1, <3>2 DEF ReadHeader
    <2>4. CASE ~(got + 1 < HeaderLen)
      <3>1. PICK h \in Decodings(from') :
              /\ stage' = "payload"
              /\ got' = 0
              /\ dest' = h[1]
              /\ need' = h[2]
        BY <1>3, <2>4 DEF ReadHeader
      <3>2. from' # 0 => /\ from' = rdFrame
                         /\ dest' = Flip(sent[from'].id)
                         /\ need' = sent[from'].len
        BY <1>3, <3>1 DEF ReadHeader, Decodings
      <3>3. need' \in Nat
        BY TypeStep DEF TypeInv, TypeOK
      <3>4. from' # 0 => rdOff + 1 = HeaderLen
        BY <1>3, <2>4 DEF ReadHeader
      <3> QED
        BY <1>3, <2>1, <2>2, <2>4, <3>1, <3>2, <3>3, <3>4
           DEF ReadHeader, Advance, FrameLen
    <2> QED
      BY <2>3, <2>4
  <1>4. ASSUME NEW t \in Tasks, ReadPayload(t) PROVE PlaceInv'
    <2>1. rdFrame \in 1..Len(sent) /\ UNCHANGED sent
      BY <1>4 DEF ReadPayload, HasByte, peerVars
    <2>2. sent[rdFrame].len \in Nat
      BY <2>1, SentType, MuxAssumption
    <2> QED
      <3>1. UNCHANGED <<stage, from, dest, need>> /\ got' = got + 1
        BY <1>4 DEF ReadPayload
      <3>2. got < need /\ stage = "payload"
        BY <1>4 DEF ReadPayload
      <3>3. CASE from = 0
        BY <3>1, <3>2, <3>3
      <3>4. CASE from # 0
        <4>1. /\ from = rdFrame
              /\ rdOff = HeaderLen + got
              /\ need = sent[from].len
              /\ dest = Flip(sent[from].id)
          BY <3>2, <3>4
        <4>2. IF got + 1 = need
                THEN rdFrame' = rdFrame + 1 /\ rdOff' = 0
                ELSE rdFrame' = rdFrame /\ rdOff' = rdOff + 1
          <5>1. Advance
            BY <1>4 DEF ReadPayload
          <5>2. FrameLen(rdFrame) = HeaderLen + need
            BY <4>1 DEF FrameLen
          <5>3. rdOff + 1 = FrameLen(rdFrame) <=> got + 1 = need
            BY <4>1, <5>2
          <5> QED
            BY <5>1, <5>3 DEF Advance
        <4> QED
          BY <2>1, <2>2, <3>1, <3>2, <3>4, <4>1, <4>2
      <3> QED
        BY <3>3, <3>4
  <1>5. ASSUME NEW f \in Frames, PeerSend(f) PROVE PlaceInv'
    <2>1. \A n \in 1..Len(sent) : sent'[n] = sent[n]
      BY <1>5 DEF PeerSend
    <2> QED
      BY <1>5, <2>1 DEF PeerSend
  <1>6. CASE PeerClose
    BY <1>1, <1>6 DEF PeerClose
  <1>7. CASE Owner
    BY <1>1, <1>7, OwnerFrame DEF peerVars
  <1>8. ASSUME NEW t \in Tasks,
               Acquire(t) \/ (Cancel(t) /\ task[t] = "waiting")
        PROVE  PlaceInv'
    BY <1>1, <1>8 DEF Acquire, Cancel, peerVars
  <1>9. ASSUME NEW t \in Tasks, Cancel(t)
        PROVE  task[t] \in {"waiting", "reading"}
    BY <1>9 DEF Cancel
  <1> QED
    BY <1>1, <1>2, <1>3, <1>4, <1>5, <1>6, <1>7, <1>8, <1>9, ReleaseSteps
       DEF Next, Demux, Peer, vars, peerVars

-----------------------------------------------------------------------------
(***************************************************************************)
(* What reaches the Channels.                                              *)
(***************************************************************************)

(* A dispatch pushes the frame to the Channel in use, or to nobody.        *)
LEMMA DispatchPush ==
  ASSUME IInv, NEW t \in Tasks, Dispatch(t)
  PROVE  \/ log' = log
         \/ /\ nChan \in Channels
            /\ dest = index[nChan]
            /\ log' = [log EXCEPT ![nChan] = Append(@, from)]
  <1>1. dest \in Ids
    BY DEF IInv, TypeInv, Dispatch, FrameRead
  <1>2. channels[dest] \in rx =>
          /\ channels[dest] = nChan
          /\ nChan \in Channels
          /\ dest = index[nChan]
    BY <1>1 DEF IInv, TypeInv, TypeOK, OwnerInv, LiveRx, None, Channels
  <1> QED
    BY <1>2 DEF Dispatch, Push, Addressee

(* The logs hold naturals. *)
LEMMA LogType ==
  ASSUME IInv, NEW c \in Channels
  PROVE  /\ Len(log[c]) \in Nat
         /\ \A k \in 1..Len(log[c]) : log[c][k] \in Nat
  <1>1. log[c] \in Seq(Nat)
    BY DEF IInv, TypeInv, TypeOK
  <1> QED
    BY <1>1

(* After a push an entry of a log is an old one, or the pushed frame at    *)
(* the end of the log of the Channel in use.                               *)
LEMMA PushedEntry ==
  ASSUME IInv, NEW t \in Tasks, Dispatch(t), log' # log,
         NEW c \in Channels, NEW k \in 1..Len(log'[c])
  PROVE  \/ k \in 1..Len(log[c]) /\ log'[c][k] = log[c][k]
         \/ c = nChan /\ k = Len(log[c]) + 1 /\ log'[c][k] = from
  <1>1. /\ nChan \in Channels
        /\ log' = [log EXCEPT ![nChan] = Append(@, from)]
    BY DispatchPush
  <1>2. log \in [Channels -> Seq(Nat)] /\ from \in Nat
    BY DEF IInv, TypeInv, TypeOK
  <1>3. CASE c # nChan
    BY <1>1, <1>2, <1>3
  <1>4. CASE c = nChan
    <2>1. log'[c] = Append(log[c], from) /\ log[c] \in Seq(Nat)
      BY <1>1, <1>2, <1>4
    <2> QED
      BY <1>2, <1>4, <2>1
  <1> QED
    BY <1>3, <1>4

(* Only a dispatch changes a log.                                          *)
LEMMA LogFrame ==
  ASSUME [Next]_vars
  PROVE  log' = log \/ \E t \in Tasks : Dispatch(t)
BY OwnerFrame, PeerFrame
   DEF Next, Demux, Acquire, ReadHeader, ReadPayload, Cancel, Fail, vars

(* What was pushed to a Channel was read before, and came to a Channel that*)
(* was open then (mux.rs:187-188).                                         *)
LEMMA LogStep ==
  ASSUME IInv, [Next]_vars
  PROVE  LogInv'
  <1>0. /\ rdFrame \in Nat /\ rdFrame' \in Nat
        /\ from \in Nat
        /\ nChan \in Nat /\ nChan' \in Nat
        /\ LogInv
    BY MuxAssumption, TypeStep DEF IInv, TypeInv, TypeOK, PeerTypeOK
  <1> USE DEF LogInv, InFrame, Garbage, Channels, readVars, placeVars,
              ownerVars
  <1>1. CASE UNCHANGED <<nChan, readVars, placeVars, log>>
    BY <1>0, <1>1
  <1>2. ASSUME NextFrame, UNCHANGED <<ownerVars, placeVars, log>> PROVE LogInv'
    BY <1>0, <1>2 DEF NextFrame
  <1>3. ASSUME NEW t \in Tasks, ReadHeader(t) PROVE LogInv'
    <2>1. rdFrame' >= rdFrame /\ UNCHANGED <<nChan, log>>
      BY <1>0, <1>3 DEF ReadHeader, Advance
    <2>2. from' = IF got = 0 THEN (IF rdOff = 0 THEN rdFrame ELSE 0) ELSE from
      BY <1>3 DEF ReadHeader
    <2>3. got \in Nat
      BY DEF IInv, TypeInv, TypeOK
    <2>4. \A c \in Channels : \A k \in 1..Len(log[c]) :
            /\ log[c][k] \in Nat
            /\ log[c][k] < rdFrame'
      <3>1. ASSUME NEW c \in Channels, NEW k \in 1..Len(log[c])
            PROVE  log[c][k] \in Nat /\ log[c][k] < rdFrame
        BY <1>0, <3>1, LogType
      <3> QED
        BY <1>0, <2>1, <3>1
    <2> QED
      BY <1>0, <2>1, <2>2, <2>3, <2>4
  <1>4. ASSUME NEW t \in Tasks, ReadPayload(t) PROVE LogInv'
    <2>1. rdFrame' >= rdFrame /\ UNCHANGED <<nChan, log, from>>
      BY <1>0, <1>4 DEF ReadPayload, Advance
    <2>2. stage = "payload"
      BY <1>4 DEF ReadPayload
    <2>3. \A c \in Channels : \A k \in 1..Len(log[c]) : log[c][k] < rdFrame'
      <3>1. ASSUME NEW c \in Channels, NEW k \in 1..Len(log[c])
            PROVE  log[c][k] \in Nat /\ log[c][k] < rdFrame
        BY <1>0, <3>1, LogType
      <3> QED
        BY <1>0, <2>1, <3>1
    <2> QED
      BY <1>0, <2>1, <2>2, <2>3
  <1>5. ASSUME NEW t \in Tasks, Dispatch(t), log' # log PROVE LogInv'
    <2>1. from < rdFrame
      BY <1>5 DEF Dispatch, IInv, TypeInv, TypeOK, PeerTypeOK, PlaceInv,
                  FrameRead
    <2>2. UNCHANGED <<ownerVars, placeVars>> /\ ~InFrame'
      BY <1>5 DEF Dispatch, NextFrame
    <2>3. \A c \in Channels : \A k \in 1..Len(log'[c]) : log'[c][k] < rdFrame
      BY <1>0, <1>5, <2>1, PushedEntry
    <2>4. \A c \in Channels : c > nChan => log'[c] = << >>
      <3>1. log' = [log EXCEPT ![nChan] = Append(@, from)]
        BY <1>5, DispatchPush
      <3> QED
        BY <1>0, <3>1 DEF IInv, TypeInv, TypeOK
    <2> QED
      BY <2>2, <2>3, <2>4
  <1>6. ASSUME NEW i \in Ids, Register(i) PROVE LogInv'
    BY <1>0, <1>6 DEF Register
  <1>7. CASE Owner /\ ~(\E i \in Ids : Register(i))
    <2>1. UNCHANGED nChan
      BY <1>7 DEF Owner, RunDemux, Recv, Unregister, DropReceiver, DropDemux
    <2> QED
      BY <1>1, <1>7, <2>1, OwnerFrame
  <1>8. CASE Peer
    BY <1>1, <1>8, PeerFrame
  <1>9. ASSUME NEW t \in Tasks, Demux(t), log' = log PROVE LogInv'
    <2>1. CASE Acquire(t) \/ (Cancel(t) /\ task[t] = "waiting")
      BY <1>1, <2>1 DEF Acquire, Cancel
    <2>2. CASE Dispatch(t) \/ Fail(t) \/ (Cancel(t) /\ task[t] = "reading")
      BY <1>2, <1>9, <2>2, ReleaseSteps
    <2>3. Cancel(t) => task[t] \in {"waiting", "reading"}
      BY DEF Cancel
    <2> QED
      BY <1>3, <1>4, <1>9, <2>1, <2>2, <2>3 DEF Demux
  <1> QED
    BY <1>1, <1>5, <1>6, <1>7, <1>8, <1>9, LogFrame DEF Next, vars

(* Each frame went to a Channel that was opened for its index.             *)
LEMMA RightStep ==
  ASSUME IInv, [Next]_vars
  PROVE  RightChannel'
  <1> USE DEF RightChannel, Delivered, Garbage
  <1>0. RightChannel /\ from \in Nat
    BY DEF IInv, TypeInv, TypeOK
  <1>1. CASE UNCHANGED <<sent, index, log>>
    BY <1>0, <1>1
  <1>2. ASSUME NEW t \in Tasks, Dispatch(t), log' # log PROVE RightChannel'
    <2>1. UNCHANGED <<sent, index>>
      BY <1>2 DEF Dispatch, ownerVars, peerVars
    <2>2. from # 0 => from <= Len(sent) /\ Flip(sent[from].id) = index[nChan]
      BY <1>2, DispatchPush
         DEF IInv, TypeInv, PlaceInv, Dispatch, FrameRead, InFrame
    <2> QED
      BY <1>0, <1>2, <2>1, <2>2, PushedEntry
  <1>3. ASSUME NEW f \in Frames, PeerSend(f) PROVE RightChannel'
    <2>1. /\ UNCHANGED <<index, log>>
          /\ Len(sent') = Len(sent) + 1
          /\ \A n \in 1..Len(sent) : sent'[n] = sent[n]
      BY <1>3 DEF PeerSend, IInv, TypeInv, TypeOK, PeerTypeOK, ownerVars
    <2>2. Len(sent) \in Nat
      BY DEF IInv, TypeInv, TypeOK, PeerTypeOK
    <2> SUFFICES ASSUME NEW c \in Channels, NEW k \in 1..Len(log[c]),
                        log[c][k] # 0
                 PROVE  log[c][k] <= Len(sent') /\
                        Flip(sent'[log[c][k]].id) = index[c]
      BY <2>1
    <2>3. log[c][k] \in Nat /\ log[c][k] <= Len(sent)
      BY <1>0, LogType
    <2>4. sent'[log[c][k]] = sent[log[c][k]]
      BY <2>1, <2>2, <2>3
    <2> QED
      BY <1>0, <2>1, <2>2, <2>3, <2>4
  <1>4. ASSUME NEW i \in Ids, Register(i) PROVE RightChannel'
    <2>1. /\ UNCHANGED <<sent, log>>
          /\ \A c \in Channels : c # nChan + 1 => index'[c] = index[c]
      BY <1>4 DEF Register, IInv, TypeInv, TypeOK, peerVars
    <2>2. Delivered(nChan + 1) = {} \/ nChan + 1 \notin Channels
      BY DEF IInv, TypeInv, TypeOK, LogInv
    <2> QED
      BY <1>0, <2>1, <2>2
  <1>5. CASE Owner /\ ~(\E i \in Ids : Register(i))
    <2>1. UNCHANGED index
      BY <1>5 DEF Owner, RunDemux, Recv, Unregister, DropReceiver, DropDemux
    <2> QED
      BY <1>1, <1>5, <2>1, OwnerFrame DEF peerVars
  <1>6. CASE PeerClose
    BY <1>1, <1>6 DEF PeerClose, ownerVars
  <1>7. ASSUME NEW t \in Tasks, Demux(t), log' = log PROVE RightChannel'
    BY <1>1, <1>7, DemuxFrame DEF ownerVars, peerVars
  <1>8. CASE UNCHANGED vars
    BY <1>1, <1>8 DEF vars, ownerVars, peerVars
  <1> QED
    BY <1>2, <1>3, <1>4, <1>5, <1>6, <1>7, <1>8, LogFrame DEF Next, Peer

(* A pushed frame is newer than everything pushed before it.               *)
LEMMA OrderStep ==
  ASSUME IInv, [Next]_vars
  PROVE  InOrder'
  <1>0. InOrder
    BY DEF IInv
  <1>1. CASE log' = log
    BY <1>0, <1>1 DEF InOrder, Delivered
  <1>2. ASSUME NEW t \in Tasks, Dispatch(t), log' # log PROVE InOrder'
    <2>1. from # 0 => \A c \in Channels : \A k \in 1..Len(log[c]) :
                        log[c][k] < from
      BY <1>2
         DEF IInv, LogInv, Dispatch, FrameRead, InFrame, Garbage
    <2>2. \A c \in Channels : c > nChan => Len(log[c]) = 0
      BY DEF IInv, LogInv
    <2>3. nChan \in Channels /\ nChan \in Nat /\ Channels \subseteq Nat
      BY <1>2, DispatchPush DEF Channels
    <2> SUFFICES ASSUME NEW c \in Channels, NEW d \in Channels,
                        NEW j \in 1..Len(log'[c]), NEW k \in 1..Len(log'[d]),
                        log'[c][j] # 0, log'[d][k] # 0,
                        c < d \/ (c = d /\ j < k)
                 PROVE  log'[c][j] < log'[d][k]
      BY DEF InOrder, Delivered, Garbage
    <2>4. Len(log[c]) \in Nat /\ Len(log[d]) \in Nat
      BY LogType
    <2>5. CASE k \in 1..Len(log[d]) /\ log'[d][k] = log[d][k]
      <3>1. d <= nChan
        BY <2>2, <2>3, <2>4, <2>5
      <3>2. j \in 1..Len(log[c]) /\ log'[c][j] = log[c][j]
        BY <1>2, <2>3, <2>4, <2>5, <3>1, PushedEntry
      <3> QED
        BY <1>0, <2>5, <3>2 DEF InOrder, Delivered, Garbage
    <2>6. CASE d = nChan /\ k = Len(log[d]) + 1 /\ log'[d][k] = from
      <3>1. j \in 1..Len(log[c]) /\ log'[c][j] = log[c][j]
        BY <1>2, <2>3, <2>4, <2>6, PushedEntry
      <3> QED
        BY <2>1, <2>6, <3>1
    <2> QED
      BY <1>2, <2>5, <2>6, PushedEntry
  <1> QED
    BY <1>1, <1>2, LogFrame

(* Until a frame is torn, readers start every frame at its first byte.     *)
LEMMA AlignStep ==
  ASSUME IInv, [Next]_vars
  PROVE  AlignInv'
  <1> USE DEF AlignInv, InFrame, AtEof, Garbage, readVars, placeVars
  <1>0. /\ AlignInv
        /\ rdFrame \in Nat \ {0}
        /\ got \in Nat
        /\ HeaderLen \in Nat \ {0}
    BY MuxAssumption DEF IInv, TypeInv, TypeOK, PeerTypeOK
  <1>1. CASE UNCHANGED <<readVars, placeVars, eof, torn>>
    BY <1>0, <1>1
  <1>2. ASSUME NEW t \in Tasks, ReadHeader(t) PROVE AlignInv'
    <2>1. ~AtEof /\ UNCHANGED torn
      BY <1>2 DEF ReadHeader, HasByte
    <2>2. from' = IF got = 0 THEN (IF rdOff = 0 THEN rdFrame ELSE 0) ELSE from
      BY <1>2 DEF ReadHeader
    <2>3. InFrame'
      BY <1>0, <1>2 DEF ReadHeader
    <2>4. stage = "header"
      BY <1>2 DEF ReadHeader
    <2> QED
      BY <1>0, <2>1, <2>2, <2>3, <2>4
  <1>3. ASSUME NEW t \in Tasks, ReadPayload(t) PROVE AlignInv'
    BY <1>0, <1>3 DEF ReadPayload
  <1>4. ASSUME NEW t \in Tasks, Dispatch(t) PROVE AlignInv'
    <2>1. from # 0 => rdOff = 0
      BY <1>4 DEF Dispatch, FrameRead, IInv, PlaceInv
    <2> QED
      BY <1>0, <1>4, <2>1
         DEF Dispatch, FrameRead, NextFrame
  <1>5. ASSUME NEW t \in Tasks, Cancel(t) PROVE AlignInv'
    <2>1. CASE task[t] = "waiting"
      BY <1>1, <1>5, <2>1 DEF Cancel, peerVars
    <2>2. CASE task[t] = "reading"
      <3>1. ~torn' => ~torn /\ ~InFrame
        BY <1>5, <2>2 DEF Cancel
      <3>2. ~InFrame' /\ UNCHANGED <<placeVars, eof>>
        BY <1>5, <2>2 DEF Cancel, NextFrame, peerVars
      <3> QED
        BY <1>0, <3>1, <3>2
    <2> QED
      BY <1>5, <2>1, <2>2 DEF Cancel
  <1>6. ASSUME NEW t \in Tasks, Fail(t) PROVE AlignInv'
    BY <1>6 DEF Fail, NextFrame, peerVars
  <1>7. CASE PeerClose
    BY <1>0, <1>7 DEF PeerClose, NoEof
  <1>8. ASSUME NEW t \in Tasks, Acquire(t) PROVE AlignInv'
    BY <1>1, <1>8 DEF Acquire, peerVars
  <1>9. ASSUME NEW f \in Frames, PeerSend(f) PROVE AlignInv'
    BY <1>1, <1>9 DEF PeerSend
  <1>10. CASE Owner \/ UNCHANGED vars
    BY <1>1, <1>10, OwnerFrame DEF vars, peerVars
  <1> QED
    BY <1>2, <1>3, <1>4, <1>5, <1>6, <1>7, <1>8, <1>9, <1>10
       DEF Next, Demux, Peer

(* A payload that is pushed while no frame was torn is a whole frame's.    *)
LEMMA GarbageStep ==
  ASSUME IInv, [Next]_vars
  PROVE  NoGarbage'
  <1> USE DEF NoGarbage, Delivered, Garbage
  <1>0. NoGarbage
    BY DEF IInv
  <1>1. torn => torn'
    BY OwnerFrame, PeerFrame
       DEF Next, Demux, Acquire, ReadHeader, ReadPayload, Dispatch, Cancel,
           Fail, vars
  <1>2. CASE log' = log
    BY <1>0, <1>1, <1>2
  <1>3. ASSUME NEW t \in Tasks, Dispatch(t), log' # log PROVE NoGarbage'
    <2>1. ~torn => from # 0
      BY <1>3
         DEF IInv, AlignInv, Dispatch, FrameRead, InFrame
    <2> QED
      BY <1>0, <1>1, <1>3, <2>1, PushedEntry
  <1> QED
    BY <1>2, <1>3, LogFrame

(* A reader that moves on to the next frame has read the one before it to  *)
(* its end, and a frame that is dispatched reaches the Channel in use.     *)
LEMMA GapStep ==
  ASSUME IInv, [Next]_vars
  PROVE  Gapless'
  <1> USE DEF Garbage
  <1>0. /\ rdFrame \in Nat /\ got \in Nat /\ need \in Nat /\ from \in Nat
        /\ HeaderLen \in Nat \ {0}
        /\ Len(sent) \in Nat /\ rdFrame <= Len(sent) + 1
        /\ Gapless
    BY MuxAssumption DEF IInv, TypeInv, TypeOK, PeerTypeOK
  <1>1. CASE /\ UNCHANGED <<nChan, index, log, sent, rdFrame, torn>>
             /\ pc' \in {"registered", "open"} => pc \in {"registered", "open"}
             /\ FrameRead => FrameRead' /\ UNCHANGED from
    BY <1>0, <1>1 DEF Gapless, Got
  <1>2. ASSUME UNCHANGED <<ownerVars, log, sent, torn>>,
               ~FrameRead, PlaceInv', AlignInv', ~torn,
               InFrame', from' # 0 => from' = rdFrame,
               rdFrame' = rdFrame \/ rdFrame' = rdFrame + 1
        PROVE  Gapless'
    <2>1. from' = rdFrame /\ from' # 0
      BY <1>2 DEF AlignInv
    <2>2. rdFrame' = rdFrame + 1 => FrameRead'
      <3>1. got' \in Nat /\ need' \in Nat /\ stage' \in {"header", "payload"}
        BY TypeStep DEF TypeInv, TypeOK
      <3>2. /\ stage' = "header" => rdFrame' = from'
            /\ stage' = "payload" /\ got' < need' => rdFrame' = from'
            /\ stage' = "payload" => got' <= need'
        BY <1>0, <1>2, <2>1 DEF PlaceInv
      <3> QED
        BY <1>0, <2>1, <3>1, <3>2 DEF FrameRead
    <2> QED
      BY <1>0, <1>2, <2>1, <2>2 DEF Gapless, Got, ownerVars
  <1>3. ASSUME NEW t \in Tasks, ReadHeader(t) PROVE Gapless'
    <2>1. UNCHANGED <<ownerVars, log, sent, torn>> /\ ~FrameRead
      BY <1>3 DEF ReadHeader, FrameRead, peerVars
    <2>2. rdFrame' = rdFrame \/ rdFrame' = rdFrame + 1
      BY <1>3 DEF ReadHeader, Advance
    <2>3. InFrame'
      BY <1>0, <1>3 DEF ReadHeader, InFrame
    <2>4. from' # 0 => from' = rdFrame
      BY <1>0, <1>3 DEF ReadHeader, IInv, PlaceInv, InFrame
    <2>5. CASE torn
      BY <2>1, <2>5 DEF Gapless
    <2> QED
      BY <1>2, <2>1, <2>2, <2>3, <2>4, <2>5, PlaceStep, AlignStep
  <1>4. ASSUME NEW t \in Tasks, ReadPayload(t) PROVE Gapless'
    <2>1. UNCHANGED <<ownerVars, log, sent, torn>> /\ ~FrameRead
      BY <1>0, <1>4 DEF ReadPayload, FrameRead, peerVars
    <2>2. rdFrame' = rdFrame \/ rdFrame' = rdFrame + 1
      BY <1>4 DEF ReadPayload, Advance
    <2>3. InFrame'
      BY <1>4 DEF ReadPayload, InFrame
    <2>4. from' # 0 => from' = rdFrame
      BY <1>4 DEF ReadPayload, IInv, PlaceInv, InFrame
    <2>5. CASE torn
      BY <2>1, <2>5 DEF Gapless
    <2> QED
      BY <1>2, <2>1, <2>2, <2>3, <2>4, <2>5, PlaceStep, AlignStep
  <1>5. ASSUME NEW t \in Tasks, Dispatch(t) PROVE Gapless'
    <2> SUFFICES ASSUME pc \in {"registered", "open"}, ~torn,
                        log'[nChan] # << >>,
                        NEW n \in (log'[nChan][1])..Len(sent),
                        n < rdFrame, Flip(sent[n].id) = index[nChan]
                 PROVE  \E k \in 1..Len(log'[nChan]) : log'[nChan][k] = n
      BY <1>5
         DEF Gapless, Got, Dispatch, ownerVars, peerVars, placeVars
    <2>1. nChan \in Channels /\ index[nChan] \in Ids
      BY DEF IInv, OwnerInv
    <2>2. log[nChan] \in Seq(Nat) /\ log \in [Channels -> Seq(Nat)]
      BY <2>1 DEF IInv, TypeInv, TypeOK
    <2>3. from # 0 /\ rdFrame = from + 1 /\ dest = Flip(sent[from].id)
      BY <1>5
         DEF Dispatch, FrameRead, IInv, AlignInv, PlaceInv, InFrame
    <2>4. CASE dest = index[nChan]
      <3>1. channels[dest] = nChan /\ nChan \in rx
        BY <2>1, <2>4 DEF IInv, OwnerInv, LiveRx
      <3>2. log'[nChan] = Append(log[nChan], from)
        BY <1>5, <2>1, <2>2, <3>1 DEF Dispatch, Push, Addressee
      <3>3. CASE n = from
        <4>1. /\ Len(log[nChan]) + 1 \in 1..Len(log'[nChan])
              /\ log'[nChan][Len(log[nChan]) + 1] = from
          BY <1>0, <2>2, <3>2
        <4> QED
          BY <3>3, <4>1
      <3>4. CASE n # from
        <4>1. n < from
          BY <1>0, <2>2, <2>3, <3>2, <3>4
        <4>2. log[nChan] # << >> /\ log'[nChan][1] = log[nChan][1]
          BY <1>0, <2>2, <3>2, <4>1
        <4>3. Got(n)
          BY <1>0, <2>3, <3>4, <4>2 DEF Gapless
        <4> QED
          BY <1>0, <2>2, <3>2, <4>3 DEF Got
      <3> QED
        BY <3>3, <3>4
    <2>5. CASE dest # index[nChan]
      <3>1. log' = log
        BY <1>5, <2>5, DispatchPush
      <3>2. n # from
        BY <2>3, <2>5
      <3> QED
        BY <1>0, <3>1, <3>2 DEF Gapless, Got
    <2> QED
      BY <2>4, <2>5
  <1>6. ASSUME NEW t \in Tasks, Cancel(t) PROVE Gapless'
    <2>1. UNCHANGED <<ownerVars, log, sent, rdFrame>>
      BY <1>6 DEF Cancel, peerVars, placeVars
    <2>3. torn => torn'
      BY <1>6 DEF Cancel
    <2>2. FrameRead => FrameRead' /\ UNCHANGED from
      BY <1>6 DEF Cancel, FrameRead, readVars
    <2> QED
      BY <1>0, <2>1, <2>2, <2>3 DEF Gapless, Got, ownerVars
  <1>7. ASSUME NEW t \in Tasks, Fail(t) PROVE Gapless'
    BY <1>1, <1>7 DEF Fail, ownerVars, peerVars, placeVars
  <1>8. ASSUME NEW t \in Tasks, Acquire(t) PROVE Gapless'
    BY <1>1, <1>8 DEF Acquire, ownerVars, peerVars, placeVars, readVars,
                      FrameRead
  <1>9. ASSUME NEW f \in Frames, PeerSend(f) PROVE Gapless'
    <2>1. /\ UNCHANGED <<ownerVars, readVars, log, rdFrame, torn>>
          /\ Len(sent') = Len(sent) + 1
          /\ \A n \in 1..Len(sent) : sent'[n] = sent[n]
      BY <1>9 DEF PeerSend, placeVars, IInv, TypeInv, TypeOK, PeerTypeOK
    <2> SUFFICES ASSUME pc \in {"registered", "open"}, ~torn,
                        log[nChan] # << >>,
                        NEW n \in (log[nChan][1])..Len(sent'),
                        n < rdFrame, Flip(sent'[n].id) = index[nChan]
                 PROVE  Got(n) \/ (FrameRead /\ from = n)
      BY <2>1 DEF Gapless, Got, FrameRead, ownerVars, readVars
    <2>2. nChan \in Channels
      BY DEF IInv, OwnerInv
    <2>3. log[nChan] \in Seq(Nat)
      BY <2>2 DEF IInv, TypeInv, TypeOK
    <2>4. log[nChan][1] \in Nat
      BY <2>3
    <2>5. n = 0 \/ n \in 1..Len(sent)
      BY <1>0, <2>1, <2>4
    <2>6. n # 0
      <3>1. Delivered(nChan) = 1..Len(log[nChan])
        BY <2>2 DEF IInv, NoGarbage
      <3>2. 1 \in 1..Len(log[nChan])
        BY <2>3
      <3>3. log[nChan][1] # 0
        BY <3>1, <3>2 DEF Delivered
      <3> QED
        BY <2>4, <3>3
    <2> QED
      BY <1>0, <2>1, <2>4, <2>5, <2>6 DEF Gapless
  <1>10. CASE PeerClose
    BY <1>1, <1>10 DEF PeerClose, ownerVars, readVars, placeVars, FrameRead
  <1>11. ASSUME NEW i \in Ids, Register(i) PROVE Gapless'
    <2>1. nChan' \in Channels /\ nChan' > nChan /\ log' = log
      BY <1>11, MuxAssumption
         DEF Register, Channels, IInv, TypeInv, TypeOK
    <2>2. log'[nChan'] = << >>
      BY <2>1 DEF IInv, LogInv
    <2> QED
      BY <2>2 DEF Gapless
  <1>12. CASE Owner /\ ~(\E i \in Ids : Register(i))
    <2>1. /\ UNCHANGED <<nChan, index>>
          /\ pc' \in {"registered", "open"} => pc \in {"registered", "open"}
      BY <1>12 DEF Owner, RunDemux, Recv, Unregister, DropReceiver, DropDemux
    <2> QED
      BY <1>1, <1>12, <2>1, OwnerFrame
         DEF readVars, placeVars, peerVars, FrameRead
  <1>13. CASE UNCHANGED vars
    BY <1>1, <1>13
       DEF vars, ownerVars, readVars, placeVars, peerVars, FrameRead
  <1> QED
    BY <1>3, <1>4, <1>5, <1>6, <1>7, <1>8, <1>9, <1>10, <1>11, <1>12, <1>13
       DEF Next, Demux, Peer

-----------------------------------------------------------------------------
(***************************************************************************)
(* The invariant is inductive, and what follows from it.                   *)
(***************************************************************************)
(* The invariant is inductive: the step lemmas of its parts together.      *)
LEMMA StepIInv ==
  ASSUME IInv, [Next]_vars
  PROVE  IInv'
BY TypeStep, OwnerStep, DemuxStep, PanicStep, ReaderStep, PlaceStep, LogStep,
   RightStep, OrderStep, AlignStep, GarbageStep, GapStep DEF IInv

(* The inductive invariant holds in every reachable state of the receiving *)
(* half, for any number of protocols, payload lengths, frames and Channels *)
(* (mux.rs:132-231).                                                       *)
THEOREM Invariance == Spec => []IInv
BY InitIInv, StepIInv, PTL DEF Spec

(* Every variable has its type, for any number of Channels and frames.     *)
THEOREM TypeCorrect == Spec => []TypeOK
  <1>1. IInv => TypeOK
    BY DEF IInv, TypeInv
  <1> QED
    BY <1>1, Invariance, PTL

(* The unwrap of the mpsc send in the demux task (mux.rs:188) never fails, *)
(* however many generations of tasks are still running when a Channel is   *)
(* opened or dropped.                                                      *)
THEOREM SendSafe == Spec => []SendNeverFails
  <1>1. IInv => SendNeverFails
    BY DEF IInv, OwnerInv, LiveRx, SendNeverFails, None
  <1> QED
    BY <1>1, Invariance, PTL

(* The unwrap of the mpsc receive (mux.rs:166) never fails: a Channel in   *)
(* use keeps its own sender registered.                                    *)
THEOREM RecvSafe == Spec => []RecvNeverFails
  <1>1. IInv => RecvNeverFails
    BY DEF IInv, OwnerInv, RecvNeverFails
  <1> QED
    BY <1>1, Invariance, PTL

(* A Channel in use has a demux task of its own that nobody aborted, and   *)
(* that ends only when the peer goes away (mux.rs:63-67, 168-197).         *)
THEOREM ReaderAlive == Spec => []OpenChannelHasReader
  <1>1. IInv => OpenChannelHasReader
    BY DEF IInv, TypeInv, TypeOK, DemuxInv, PanicInv, OpenChannelHasReader,
           None
  <1> QED
    BY <1>1, Invariance, PTL

(* Frames reach the Channels of their index, in the order they were        *)
(* written and at most once, across any number of Channels and of demux    *)
(* tasks taking over the socket from each other (mux.rs:176-191).          *)
THEOREM OrderSafe == Spec => []FramesInOrder
  <1>1. IInv => FramesInOrder
    BY DEF IInv, FramesInOrder
  <1> QED
    BY <1>1, Invariance, PTL

(* Bytes cut out of the stream at the wrong place reach a Channel only     *)
(* after an abort inside a frame (mux.rs:65, 179, 186).                    *)
THEOREM FramingSafe == Spec => []NoGarbage
  <1>1. IInv => NoGarbage
    BY DEF IInv
  <1> QED
    BY <1>1, Invariance, PTL

(* What a Channel receives has no hole: once it got a frame, every later   *)
(* frame for it that a task has read and dispatched is there, even when    *)
(* the task of an earlier Channel did the reading (mux.rs:176-191).        *)
THEOREM GapSafe == Spec => []Gapless
  <1>1. IInv => Gapless
    BY DEF IInv
  <1> QED
    BY <1>1, Invariance, PTL

-----------------------------------------------------------------------------
(***************************************************************************)
(* Mux implements Fifo, for every value of the constants: the detailed     *)
(* receiving half, with its tasks, locks and bytes, behaves like a FIFO of *)
(* whole frames until an abort tears one.                                  *)
(*                                                                         *)
(* A frame is taken in the step that dispatches it.  The invariant says    *)
(* what that step needs: the holder of the read half is past the last byte *)
(* of frame `from`, all frames before it were dispatched, and the map      *)
(* holds the open Channel's entry and no other.                            *)
(***************************************************************************)
OpenPc == pc \in {"registered", "open"}

(* Reading moves no frame: the place of the next byte is past frame `from` *)
(* exactly when its last byte was read (mux.rs:178-186).                   *)
LEMMA ReadingTakesNothing ==
  ASSUME IInv, IInv', NEW t \in Tasks, ReadHeader(t) \/ ReadPayload(t), ~torn
  PROVE  UNCHANGED <<Dispatched, torn>>
  <1> USE DEF Dispatched, InFrame, FrameRead, Garbage
  <1>1. /\ rdFrame \in Nat \ {0} /\ rdOff \in Nat /\ got \in Nat
        /\ stage \in {"header", "payload"}
        /\ HeaderLen \in Nat \ {0}
        /\ rdFrame' \in Nat \ {0} /\ got' \in Nat
        /\ stage' \in {"header", "payload"}
        /\ need \in Nat /\ need' \in Nat /\ from \in Nat /\ from' \in Nat
    BY MuxAssumption DEF IInv, TypeInv, TypeOK, PeerTypeOK
  <1>2. ~torn' /\ UNCHANGED torn
    BY DEF ReadHeader, ReadPayload
  <1>3. ~AtEof
    BY DEF ReadHeader, ReadPayload, HasByte, AtEof
  <1>4. InFrame'
    BY <1>1 DEF ReadHeader, ReadPayload
  <1>5. from' # Garbage
    BY <1>2, <1>4 DEF IInv, AlignInv
  <1>6. Dispatched' = from' - 1
    BY <1>1, <1>4, <1>5 DEF IInv, PlaceInv
  <1>7. CASE InFrame
    <2>1. from # Garbage /\ from' = from
      BY <1>1, <1>7 DEF IInv, AlignInv, ReadHeader, ReadPayload
    <2>2. ~FrameRead
      BY <1>1 DEF ReadHeader, ReadPayload
    <2>3. rdFrame = from
      BY <1>1, <1>7, <2>1, <2>2 DEF IInv, PlaceInv
    <2> QED
      BY <1>1, <1>2, <1>6, <2>1, <2>2, <2>3
  <1>8. CASE ~InFrame
    <2>1. ReadHeader(t) /\ got = 0 /\ rdOff = 0 /\ from' = rdFrame
      BY <1>1, <1>3, <1>8 DEF IInv, AlignInv, ReadHeader, ReadPayload
    <2> QED
      BY <1>1, <1>2, <1>6, <1>8, <2>1
  <1> QED
    BY <1>7, <1>8

(* The step that dispatches a frame takes it (mux.rs:187-191).             *)
LEMMA DispatchTakes ==
  ASSUME IInv, IInv', NEW t \in Tasks, Dispatch(t), ~torn
  PROVE  F!Take
  <1>1. /\ rdFrame \in Nat \ {0} /\ from \in Nat /\ from <= Len(sent)
        /\ Len(sent) \in Nat
    BY DEF IInv, TypeInv, TypeOK, PeerTypeOK
  <1>2. FrameRead /\ from # Garbage
    BY DEF Dispatch, IInv, AlignInv, InFrame, FrameRead
  <1>3. rdFrame = from + 1 /\ dest = Flip(sent[from].id) /\ dest \in Ids
    BY <1>2 DEF IInv, PlaceInv, TypeInv, InFrame, FrameRead
  <1>4. Dispatched = from - 1 /\ Dispatched' = from
    BY <1>1, <1>2, <1>3
       DEF Dispatched, Dispatch, NextFrame, FrameRead, placeVars
  <1>5. ~torn /\ Dispatched < Len(sent) /\ Dispatched' = Dispatched + 1
    BY <1>1, <1>2, <1>4 DEF Garbage
  <1>6. UNCHANGED <<sent, nChan, pc, index, torn>>
    BY DEF Dispatch, ownerVars, peerVars
  <1>7. channels[dest] = IF OpenPc /\ dest = index[nChan] THEN nChan ELSE None
    BY <1>3 DEF IInv, OwnerInv, OpenPc
  <1>8. OpenPc => nChan \in Channels /\ nChan \in rx /\ nChan # None
    BY MuxAssumption DEF IInv, OwnerInv, LiveRx, OpenPc, Channels, None
  <1>9. rx \subseteq Channels /\ None \notin Channels
    BY DEF IInv, TypeInv, TypeOK, Channels, None
  <1>10. log' = IF OpenPc /\ Flip(sent[from].id) = index[nChan]
                  THEN [log EXCEPT ![nChan] = Append(@, from)]
                  ELSE log
    BY <1>3, <1>7, <1>8, <1>9 DEF Dispatch, Push, Addressee
  <1> QED
    BY <1>4, <1>5, <1>6, <1>10 DEF F!Take, F!ForOpen, OpenPc

(* What a step does once a frame is torn, or in tearing it (mux.rs:65).    *)
LEMMA TornBreaks ==
  ASSUME IInv, NEW t \in Tasks, Demux(t), torn'
  PROVE  F!Break
  <1>1. UNCHANGED <<sent, nChan, pc, index>>
    BY DemuxFrame DEF ownerVars, peerVars
  <1>2. \/ log' = log
        \/ /\ OpenPc
           /\ \E x \in 0..Len(sent) : log' = [log EXCEPT ![nChan] = Append(@, x)]
    <2>1. CASE log' # log
      <3>1. Dispatch(t)
        BY <2>1 DEF Demux, Acquire, ReadHeader, ReadPayload, Cancel, Fail
      <3>2. from \in 0..Len(sent)
        BY DEF IInv, TypeInv, TypeOK, PeerTypeOK
      <3>3. log' = [log EXCEPT ![nChan] = Append(@, from)]
        BY <2>1, <3>1, DispatchPush
      <3>4. dest \in Ids /\ channels[dest] \in rx /\ rx \subseteq Channels
        BY <2>1, <3>1 DEF Dispatch, FrameRead, IInv, TypeInv, TypeOK, Push, Addressee
      <3>5. OpenPc
        BY <3>4 DEF IInv, OwnerInv, OpenPc, Channels, None
      <3> QED
        BY <3>2, <3>3, <3>5
    <2> QED
      BY <2>1
  <1> QED
    BY <1>1, <1>2 DEF F!Break, OpenPc

(* A task that dispatches nothing and tears nothing is not seen.           *)
LEMMA DemuxStutters ==
  ASSUME IInv, IInv', NEW t \in Tasks, Demux(t), ~Dispatch(t), ~torn'
  PROVE  UNCHANGED F!vars
  <1>1. UNCHANGED <<sent, nChan, pc, index>>
    BY DemuxFrame DEF ownerVars, peerVars
  <1>2. ~torn /\ UNCHANGED <<log, torn>>
    BY DEF Demux, Acquire, ReadHeader, ReadPayload, Cancel, Fail, IInv, TypeInv,
           TypeOK
  <1>3. UNCHANGED Dispatched
    <2>1. CASE Acquire(t)
      BY <2>1 DEF Acquire, Dispatched, FrameRead, readVars, placeVars
    <2>2. CASE ReadHeader(t) \/ ReadPayload(t)
      BY <1>2, <2>2, ReadingTakesNothing
    <2>3. CASE Cancel(t)
      BY <2>3
         DEF Cancel, NextFrame, Dispatched, FrameRead, InFrame, readVars,
             placeVars
    <2>4. CASE Fail(t)
      BY <2>4 DEF Fail, NextFrame, Dispatched, FrameRead, placeVars
    <2> QED
      BY <2>1, <2>2, <2>3, <2>4 DEF Demux
  <1> QED
    BY <1>1, <1>2, <1>3 DEF F!vars

(* The owner opens and closes, and does nothing else that is seen.         *)
LEMMA OwnerMaps ==
  ASSUME IInv, Owner
  PROVE  [F!Next]_(F!vars)
  <1>1. UNCHANGED <<sent, Dispatched, log, torn>>
    BY OwnerFrame
       DEF Dispatched, FrameRead, readVars, placeVars, peerVars
  <1>2. ASSUME NEW i \in Ids, Register(i) PROVE F!Open(i)
    BY <1>1, <1>2 DEF Register, F!Open
  <1>3. CASE Unregister
    <2>1. pc \in {"registered", "open"}
      BY <1>3 DEF Unregister
    <2>2. (pc' \in {"registered", "open"}) = FALSE
      BY <1>3 DEF Unregister
    <2>3. UNCHANGED <<sent, Dispatched, nChan, index, log, torn>>
      BY <1>1, <1>3 DEF Unregister
    <2>4. F!Close
      BY <2>1, <2>2, <2>3 DEF F!Close
    <2> QED
      BY <2>4 DEF F!Next
  <1>4. CASE RunDemux \/ Recv \/ DropReceiver \/ DropDemux
    BY <1>1, <1>4 DEF RunDemux, Recv, DropReceiver, DropDemux, F!vars
  <1> QED
    BY <1>2, <1>3, <1>4 DEF Owner, F!Next

(* The peer writes frames; that it goes away is not seen.                  *)
LEMMA PeerMaps ==
  ASSUME Peer
  PROVE  [F!Next]_(F!vars)
  <1>1. UNCHANGED <<Dispatched, nChan, pc, index, log, torn>>
    BY PeerFrame DEF Dispatched, FrameRead, readVars, placeVars, ownerVars
  <1>2. ASSUME NEW f \in Frames, PeerSend(f) PROVE F!Write(f)
    BY <1>1, <1>2 DEF PeerSend, F!Write
  <1>3. CASE PeerClose
    BY <1>1, <1>3 DEF PeerClose, F!vars
  <1> QED
    BY <1>2, <1>3 DEF Peer, F!Next

(* The receiving half implements the FIFO of frames (mux.rs:132-231): its  *)
(* initial states map to the initial state, its steps to steps or stutters.*)
THEOREM Implementation == Spec => ImplementsFifo
  <1>1. Init => F!Init
    BY DEF Init, F!Init, Dispatched, FrameRead
  <1>2. ASSUME IInv, IInv', [Next]_vars PROVE [F!Next]_(F!vars)
    <2>1. ASSUME NEW t \in Tasks, Demux(t) PROVE [F!Next]_(F!vars)
      <3>1. CASE torn'
        BY <1>2, <2>1, <3>1, TornBreaks DEF F!Next
      <3>2. CASE ~torn' /\ Dispatch(t)
        <4>1. ~torn
          BY <3>2 DEF Dispatch
        <4> QED
          BY <1>2, <3>2, <4>1, DispatchTakes DEF F!Next
      <3>3. CASE ~torn' /\ ~Dispatch(t)
        BY <1>2, <2>1, <3>3, DemuxStutters
      <3> QED
        BY <3>1, <3>2, <3>3
    <2>2. CASE UNCHANGED vars
      BY <2>2
         DEF vars, ownerVars, readVars, placeVars, peerVars, F!vars, Dispatched,
             FrameRead
    <2> QED
      BY <1>2, <2>1, <2>2, OwnerMaps, PeerMaps DEF Next
  <1> QED
    BY <1>1, <1>2, Invariance, PTL DEF Spec, ImplementsFifo, F!Spec
=============================================================================
