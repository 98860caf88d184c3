---------------------------- MODULE SessionProof ----------------------------
(***************************************************************************)
(* On a runtime of one thread a session keeps the framing, and every       *)
(* client gets its own answers: for all programs, frame lengths, header    *)
(* lengths and bounds.                                                     *)
(*                                                                         *)
(* A session takes only steps of Mux, so what is proved of Mux holds of    *)
(* it.  Its own invariant counts: while a client is open, it has been      *)
(* given the frames behind `base` up to the one dispatched last; while     *)
(* none is, everything owed has been written and dispatched, and the       *)
(* reader is at the end of the last frame.  A task is aborted in such a    *)
(* state only, and never reads again.                                      *)
(***************************************************************************)
EXTENDS Session, MuxProof

AtRest ==
  /\ Dispatched = owed
  /\ Len(sent) = owed
  /\ ~InFrame

CountInv ==
  /\ eof = NoEof
  /\ ~torn
  /\ program \in Programs
  /\ calls \in Nat
  /\ base \in Nat
  /\ owed \in Nat
  /\ base <= owed
  /\ Len(sent) <= owed

ClientInv ==
  pc # "free" => nChan \in 1..Len(program) /\ index[nChan] = program[nChan].id

RunInv ==
  IF pc \in {"registered", "open"}
    THEN /\ Len(log[nChan]) = Dispatched - base
         /\ \A k \in 1..Len(log[nChan]) : log[nChan][k] = base + k
         /\ taken <= Len(log[nChan])
         /\ \A n \in 1..Len(sent) :
              n > base => sent[n].id = Flip(index[nChan])
    ELSE AtRest

AbortInv == \A t \in aborted : task[t] = "reading" => ~InFrame

SInv == IInv /\ CountInv /\ ClientInv /\ RunInv /\ AbortInv

-----------------------------------------------------------------------------
(* The direction bit is flipped back: an answer goes to the index of the   *)
(* client (mux.rs:182).                                                    *)
LEMMA FlipTwice == \A i \in Ids : Flip(Flip(i)) = i /\ Flip(i) \in Ids
BY DEF Ids, Flip

(* What a frame that is pushed behind a queue makes of it (mux.rs:188).    *)
LEMMA Pushed ==
  ASSUME NEW S, NEW s \in Seq(S), NEW e \in S, NEW k \in 1..Len(Append(s, e))
  PROVE  /\ Len(Append(s, e)) = Len(s) + 1
         /\ \/ k = Len(s) + 1 /\ Append(s, e)[k] = e
            \/ k \in 1..Len(s) /\ Append(s, e)[k] = s[k]
OBVIOUS

(* What a session says of its numbers.                                     *)
LEMMA Ranges ==
  ASSUME SInv
  PROVE  /\ sent \in Seq(Frames) /\ Len(sent) \in Nat
         /\ log \in [Channels -> Seq(Nat)]
         /\ rdFrame \in Nat \ {0} /\ rdFrame <= Len(sent) + 1 /\ rdOff \in Nat
         /\ taken \in Nat /\ nChan \in Nat /\ got \in Nat /\ from \in Nat
         /\ from <= Len(sent)
         /\ stage \in {"header", "payload"}
         /\ pc \in {"free", "registered", "open", "unregistered", "closed"}
         /\ base \in Nat /\ owed \in Nat /\ base <= owed
         /\ Len(sent) <= owed
         /\ Len(program) \in Nat
         /\ pc # "free" => nChan \in Channels
  <1>1. TypeInv /\ TypeOK /\ PeerTypeOK /\ CountInv
    BY DEF SInv, IInv, TypeInv, TypeOK
  <1>2. /\ sent \in Seq(Frames) /\ Len(sent) \in Nat
        /\ rdFrame \in Nat \ {0} /\ rdOff \in Nat
    BY <1>1 DEF PeerTypeOK
  <1>3. /\ log \in [Channels -> Seq(Nat)]
        /\ taken \in Nat /\ got \in Nat /\ from \in Nat
        /\ stage \in {"header", "payload"}
        /\ pc \in {"free", "registered", "open", "unregistered", "closed"}
    BY <1>1 DEF TypeOK
  <1>4. nChan \in Nat
    <2>1. nChan \in 0..MaxChannels
      BY <1>1 DEF TypeOK
    <2> QED
      BY <2>1, MuxAssumption
  <1>5. rdFrame <= Len(sent) + 1 /\ from <= Len(sent)
    BY <1>1 DEF TypeInv
  <1>6. base \in Nat /\ owed \in Nat /\ base <= owed /\ Len(sent) <= owed
    BY <1>1 DEF CountInv
  <1>7. Len(program) \in Nat
    <2>1. \A p \in Programs : Len(p) \in Nat
      <3> DEFINE Client == [id : Ids, answers : Seq(SUBSET Nat)]
      <3>1. Programs \subseteq Seq(Client)
        BY SessionAssumption
      <3> HIDE DEF Client
      <3> QED
        BY <3>1
    <2> QED
      BY <1>1, <2>1 DEF CountInv
  <1>8. pc # "free" => nChan \in Channels
    BY DEF SInv, IInv, OwnerInv
  <1> QED
    BY <1>2, <1>3, <1>4, <1>5, <1>6, <1>7, <1>8

(* The programs are lists of clients.                                      *)
LEMMA ClientType ==
  ASSUME SInv, NEW k \in 1..Len(program)
  PROVE  program[k].id \in Ids /\ program[k].answers \in Seq(SUBSET Nat)
  <1> DEFINE Client == [id : Ids, answers : Seq(SUBSET Nat)]
  <1>1. program \in Seq(Client)
    BY SessionAssumption DEF SInv, CountInv
  <1>2. program[k] \in Client
    <2> HIDE DEF Client
    <2> QED
      BY <1>1
  <1> QED
    BY <1>2

(* In a session the stream is whole: the reader is inside the frame after  *)
(* the one dispatched last, or at the end of that one (mux.rs:176-191).    *)
LEMMA Where ==
  ASSUME SInv
  PROVE  /\ ~AtEof
         /\ InFrame => /\ from # Garbage
                       /\ from = Dispatched + 1
                       /\ FrameRead => rdFrame = from + 1
                       /\ ~FrameRead => rdFrame = from
         /\ ~InFrame => Dispatched = rdFrame - 1 /\ rdOff = 0 /\ ~FrameRead
         /\ Dispatched \in Nat /\ Dispatched <= Len(sent)
  <1>1. ~AtEof
    BY Ranges DEF SInv, CountInv, AtEof, NoEof
  <1>2. InFrame => from # Garbage
    BY DEF SInv, IInv, CountInv, AlignInv
  <1>3. InFrame => /\ from = Dispatched + 1
                   /\ FrameRead => rdFrame = from + 1
                   /\ ~FrameRead => rdFrame = from
    BY <1>2, Ranges
       DEF SInv, IInv, PlaceInv, TypeInv, TypeOK, InFrame, FrameRead, Dispatched
  <1>4. ~InFrame => Dispatched = rdFrame - 1 /\ rdOff = 0 /\ ~FrameRead
    BY <1>1, Ranges
       DEF SInv, IInv, CountInv, AlignInv, InFrame, FrameRead, Dispatched
  <1>5. Dispatched \in Nat /\ Dispatched <= Len(sent)
    <2>1. CASE InFrame
      <3>1. from # 0 /\ from = Dispatched + 1
        BY <2>1, <1>2, <1>3 DEF Garbage
      <3>2. Dispatched = rdFrame - 1 \/ Dispatched = rdFrame - 2
        BY DEF Dispatched
      <3>3. rdFrame \in Nat /\ rdFrame <= Len(sent) + 1 /\ Len(sent) \in Nat
            /\ from \in Nat
        BY Ranges
      <3> QED
        BY <3>1, <3>2, <3>3
    <2>2. CASE ~InFrame
      <3>1. Dispatched = rdFrame - 1
        BY <2>2, <1>4
      <3>2. rdFrame \in Nat \ {0} /\ rdFrame <= Len(sent) + 1 /\ Len(sent) \in Nat
        BY Ranges
      <3> QED
        BY <3>1, <3>2
    <2> QED
      BY <2>1, <2>2
  <1> QED
    BY <1>1, <1>2, <1>3, <1>4, <1>5

(* While no client is open, everything owed has been dispatched; so there  *)
(* is nothing to read and nothing to write.                                *)
LEMMA Rest ==
  ASSUME SInv, pc \notin {"registered", "open"}
  PROVE  AtRest /\ ~HasByte /\ ~FrameRead
  <1>1. AtRest
    BY DEF SInv, RunInv
  <1>2. ~FrameRead /\ rdFrame = Len(sent) + 1
    BY <1>1, Where, Ranges DEF AtRest
  <1> QED
    BY <1>1, <1>2, Ranges DEF HasByte

(* A session starts where the receiving half starts (mux.rs:78-90).        *)
LEMMA SessionStarts == SessionInit => SInv
  <1> SUFFICES ASSUME SessionInit PROVE SInv
    OBVIOUS
  <1>1. IInv
    BY InitIInv DEF SessionInit
  <1>2. CountInv /\ ClientInv
    BY DEF SessionInit, Init, CountInv, ClientInv
  <1>3. RunInv /\ AbortInv
    BY DEF SessionInit, Init, RunInv, AbortInv, AtRest, Dispatched, FrameRead,
       InFrame
  <1> QED
    BY <1>1, <1>2, <1>3 DEF SInv

(* A session moves as the receiving half does (mux.rs:132-231).            *)
LEMMA SessionIsMux ==
  ASSUME SInv, [SessionNext]_sessionVars
  PROVE  [Next]_vars
  <1>1. CASE UNCHANGED sessionVars
    BY <1>1 DEF sessionVars
  <1>2. CASE Program
    <2>1. CASE OpenNext
      <3>1. nChan + 1 \in 1..Len(program)
        BY <2>1, Ranges DEF OpenNext
      <3>2. program[nChan + 1].id \in Ids
        BY <3>1, ClientType
      <3> QED
        BY <2>1, <3>2 DEF OpenNext, Next, Owner
    <2>2. CASE Call
      BY <2>2 DEF Call
    <2>3. CASE DropClient
      BY <2>3 DEF DropClient, Next, Owner
    <2>4. CASE RunDemux \/ Recv \/ DropReceiver \/ DropDemux
      BY <2>4 DEF Next, Owner
    <2> QED
      BY <1>2, <2>1, <2>2, <2>3, <2>4 DEF Program
  <1>3. ASSUME NEW t \in Tasks, Task(t) PROVE [Next]_vars
    BY <1>3 DEF Task, Next, Demux
  <1>4. CASE Answer
    <2>1. pc # "free"
      BY <1>4, Rest, Ranges DEF Answer, AtRest
    <2>2. Flip(Current.id) \in Ids
      BY <2>1, ClientType, FlipTwice DEF SInv, ClientInv, Current
    <2>3. PICK n \in Lens : PeerSend([id |-> Flip(Current.id), len |-> n])
      BY <1>4 DEF Answer
    <2>4. [id |-> Flip(Current.id), len |-> n] \in Frames
      BY <2>2 DEF Frames
    <2> QED
      BY <2>3, <2>4 DEF Next, Peer
  <1> QED
    BY <1>1, <1>2, <1>3, <1>4 DEF SessionNext

-----------------------------------------------------------------------------
(***************************************************************************)
(* The steps, one lemma per actor.                                         *)
(***************************************************************************)
(* The steps of the program keep the count (src/examples).                 *)
LEMMA ProgramStep ==
  ASSUME SInv, Program, IInv'
  PROVE  CountInv' /\ ClientInv' /\ RunInv' /\ AbortInv'
  <1>0. CountInv /\ ClientInv /\ RunInv /\ AbortInv /\ IInv
    BY DEF SInv
  <1>1. CASE OpenNext
    <2>a. pc = "free" /\ nChan < MaxChannels /\ nChan < Len(program)
      BY <1>1 DEF OpenNext, Register
    <2>b. nChan + 1 \in Channels /\ nChan + 1 <= Len(program)
      <3>1. nChan \in Nat /\ MaxChannels \in Nat /\ Len(program) \in Nat
        BY Ranges, MuxAssumption
      <3> QED
        BY <2>a, <3>1 DEF Channels
    <2>c. /\ pc' = "registered" /\ nChan' = nChan + 1
          /\ index' = [index EXCEPT ![nChan + 1] = program[nChan + 1].id]
          /\ taken' = 0 /\ calls' = 0 /\ base' = owed
          /\ UNCHANGED <<program, owed, log, sent, eof, torn, rdFrame, stage,
                         got, need, task, aborted>>
      BY <1>1 DEF OpenNext, Register, demuxVars, readVars, placeVars, peerVars
    <2>1. /\ pc = "free" /\ pc' = "registered" /\ nChan' = nChan + 1
          /\ nChan + 1 \in Channels /\ nChan + 1 <= Len(program)
          /\ index' = [index EXCEPT ![nChan + 1] = program[nChan + 1].id]
          /\ taken' = 0 /\ calls' = 0 /\ base' = owed
          /\ UNCHANGED <<program, owed, log, sent, eof, torn, rdFrame, stage,
                         got, need, task, aborted>>
      BY <2>a, <2>b, <2>c
    <2>2. AtRest
      BY <2>1, <1>0 DEF RunInv
    <2>3. log[nChan + 1] = << >>
      BY <1>0, <2>1, Ranges DEF IInv, LogInv
    <2>4. UNCHANGED <<Dispatched, InFrame>>
      BY <2>1 DEF Dispatched, FrameRead, InFrame
    <2>5. index \in [Channels -> Ids \cup {NoIndex}]
      BY <1>0 DEF IInv, TypeInv, TypeOK
    <2>6. RunInv'
      BY <2>1, <2>2, <2>3, <2>4 DEF RunInv, AtRest
    <2>7. CountInv' /\ ClientInv' /\ AbortInv'
      BY <2>1, <2>4, <2>5, <1>0, Ranges DEF CountInv, ClientInv, AbortInv
    <2> QED
      BY <2>6, <2>7
  <1>2. CASE Call
    <2>1. /\ pc = "open" /\ calls' = calls + 1
          /\ calls + 1 \in 1..Len(Current.answers)
          /\ UNCHANGED <<vars, program, base>>
      BY <1>2, <1>0 DEF Call, CountInv
    <2>2. PICK n \in Current.answers[calls + 1] : owed' = owed + n
      BY <1>2 DEF Call
    <2>3. Current.answers \in Seq(SUBSET Nat)
      BY <2>1, <1>0, ClientType DEF ClientInv, Current
    <2>4. n \in Nat
      BY <2>1, <2>3
    <2>5. UNCHANGED <<Dispatched, InFrame>>
      BY <2>1 DEF Dispatched, FrameRead, InFrame, vars, readVars, placeVars
    <2> QED
      BY <2>1, <2>2, <2>4, <2>5, <1>0
         DEF CountInv, ClientInv, RunInv, AbortInv, vars, ownerVars, peerVars,
             demuxVars
  <1>3. CASE DropClient
    <2>1. /\ pc = "open" /\ pc' = "unregistered"
          /\ base + taken = owed
          /\ UNCHANGED <<nChan, index, program, calls, base, owed, log, sent,
                         eof, torn, rdFrame, stage, got, need, task, aborted>>
      BY <1>3 DEF DropClient, Unregister, Finished, Answered, programVars,
         demuxVars, readVars, placeVars, peerVars
    <2>2. UNCHANGED <<Dispatched, InFrame>>
      BY <2>1 DEF Dispatched, FrameRead, InFrame
    <2>3. taken <= Len(log[nChan]) /\ Len(log[nChan]) = Dispatched - base
      BY <2>1, <1>0 DEF RunInv
    <2>4. Dispatched = owed /\ Len(sent) = owed
      <3>1. /\ taken \in Nat /\ base \in Nat /\ owed \in Nat /\ Len(sent) \in Nat
            /\ Len(sent) <= owed
        BY Ranges
      <3>2. Dispatched \in Nat /\ Dispatched <= Len(sent)
        BY Where
      <3> QED
        BY <2>1, <2>3, <3>1, <3>2
    <2>5. ~InFrame
      <3>1. InFrame => from = Dispatched + 1 /\ from <= Len(sent)
        BY Ranges, Where
      <3>2. owed \in Nat
        BY Ranges
      <3> QED
        BY <2>4, <3>1, <3>2
    <2> QED
      BY <2>1, <2>2, <2>4, <2>5, <1>0
         DEF CountInv, ClientInv, RunInv, AbortInv, AtRest
  <1>4. CASE (RunDemux \/ Recv) /\ UNCHANGED programVars
    <2>1. /\ pc \in {"registered", "open"} /\ pc' = "open"
          /\ taken' = taken \/ (taken' = taken + 1 /\ taken < Len(log[nChan]))
          /\ UNCHANGED <<nChan, index, program, calls, base, owed, log, sent,
                         eof, torn, rdFrame, stage, got, need, aborted>>
          /\ \A t \in Tasks : task'[t] = "reading" => task[t] = "reading"
      BY <1>4, <1>0 DEF RunDemux, Recv, programVars, demuxVars, readVars,
         placeVars, peerVars, IInv, TypeInv, TypeOK
    <2>2. UNCHANGED <<Dispatched, InFrame>>
      BY <2>1 DEF Dispatched, FrameRead, InFrame
    <2>3. aborted \subseteq Tasks
      BY <1>0 DEF IInv, TypeInv, TypeOK
    <2>4. RunInv'
      <3>1. taken' <= Len(log[nChan])
        <4>1. log[nChan] \in Seq(Nat) /\ taken <= Len(log[nChan])
          BY <2>1, <1>0, Ranges DEF RunInv
        <4> QED
          BY <4>1, <2>1, Ranges
      <3> QED
        BY <2>1, <2>2, <3>1, <1>0 DEF RunInv
    <2> QED
      BY <2>1, <2>2, <2>3, <2>4, <1>0
         DEF CountInv, ClientInv, AbortInv
  <1>5. CASE (DropReceiver \/ DropDemux) /\ UNCHANGED programVars
    <2>1. /\ pc \in {"unregistered", "closed"} /\ pc' \in {"closed", "free"}
          /\ UNCHANGED <<nChan, index, program, calls, base, owed, log, sent,
                         eof, torn, rdFrame, stage, got, need, task>>
      BY <1>5 DEF DropReceiver, DropDemux, programVars, demuxVars, readVars,
         placeVars, peerVars
    <2>2. UNCHANGED <<Dispatched, InFrame>>
      BY <2>1 DEF Dispatched, FrameRead, InFrame
    <2>3. AtRest
      BY <2>1, <1>0 DEF RunInv
    <2> QED
      BY <2>1, <2>2, <2>3, <1>0
         DEF CountInv, ClientInv, RunInv, AbortInv, AtRest
  <1> QED
    BY <1>1, <1>2, <1>3, <1>4, <1>5 DEF Program

(* The peer answers the client that is open (mux.rs:182).                  *)
LEMMA AnswerStep ==
  ASSUME SInv, Answer, IInv'
  PROVE  CountInv' /\ ClientInv' /\ RunInv' /\ AbortInv'
  <1>0. CountInv /\ ClientInv /\ RunInv /\ AbortInv /\ IInv
    BY DEF SInv
  <1>1. PICK l \in Lens : PeerSend([id |-> Flip(Current.id), len |-> l])
    BY DEF Answer
  <1>2. /\ sent' = Append(sent, [id |-> Flip(Current.id), len |-> l])
        /\ Len(sent) < owed
        /\ UNCHANGED <<pc, nChan, index, taken, program, calls, base, owed, log,
                       eof, torn, rdFrame, stage, got, need, task, aborted>>
    BY <1>1 DEF Answer, PeerSend, programVars, ownerVars, demuxVars, readVars,
       placeVars
  <1>3. pc \in {"registered", "open"}
    BY <1>2, <1>0 DEF RunInv, AtRest
  <1>4. UNCHANGED <<Dispatched, InFrame>>
    BY <1>2 DEF Dispatched, FrameRead, InFrame
  <1>5. Len(sent') = Len(sent) + 1
    BY <1>2
  <1>6. \A n \in 1..Len(sent') : n > base => sent'[n].id = Flip(index[nChan])
    <2> TAKE n \in 1..Len(sent')
    <2>1. CASE n = Len(sent) + 1
      BY <2>1, <1>2, <1>3, <1>0 DEF ClientInv, Current
    <2>2. CASE n # Len(sent) + 1
      <3>1. n \in 1..Len(sent)
        BY <2>2, <1>5
      <3>2. sent'[n] = sent[n]
        BY <3>1, <1>2
      <3> QED
        BY <3>1, <3>2, <1>3, <1>0 DEF RunInv
    <2> QED
      BY <2>1, <2>2
  <1>7. RunInv'
    BY <1>2, <1>3, <1>4, <1>6, <1>0 DEF RunInv
  <1> QED
    BY <1>2, <1>4, <1>5, <1>7, <1>0 DEF CountInv, ClientInv, AbortInv

(* A demux task that reads or dispatches is not an aborted one, reads what *)
(* the client is owed and gives it to the client (mux.rs:175-193).         *)
LEMMA TaskStep ==
  ASSUME SInv, SingleThread, NEW t \in Tasks, Task(t), IInv'
  PROVE  CountInv' /\ ClientInv' /\ RunInv' /\ AbortInv'
  <1>0. CountInv /\ ClientInv /\ RunInv /\ AbortInv /\ IInv
    BY DEF SInv
  <1>1. UNCHANGED <<program, calls, base, owed>>
    BY DEF Task, programVars
  <1>a. aborted \subseteq Tasks /\ \A u \in Tasks : task[u] = "reading" => holder = u
    BY <1>0 DEF IInv, TypeInv, TypeOK, ReaderInv
  <1>2. CASE Acquire(t) /\ t \notin aborted
    <2>1. /\ task' = [task EXCEPT ![t] = "reading"]
          /\ UNCHANGED <<pc, nChan, index, taken, log, sent, eof, torn, rdFrame,
                         stage, got, need, aborted>>
      BY <1>2 DEF Acquire, ownerVars, demuxVars, readVars, placeVars, peerVars
    <2>2. UNCHANGED <<Dispatched, InFrame>>
      BY <2>1 DEF Dispatched, FrameRead, InFrame
    <2>3. \A u \in aborted : task'[u] = task[u]
      BY <1>2, <2>1, <1>a, <1>0 DEF IInv, TypeInv, TypeOK
    <2> QED
      BY <2>1, <2>2, <2>3, <1>1, <1>0
         DEF CountInv, ClientInv, RunInv, AbortInv, AtRest
  <1>3. CASE (ReadHeader(t) \/ ReadPayload(t)) /\ t \notin aborted
    <2>1. /\ task[t] = "reading" /\ HasByte /\ ~FrameRead
          /\ UNCHANGED <<pc, nChan, index, taken, log, sent, eof, torn, task,
                         aborted>>
      BY <1>3, Ranges DEF ReadHeader, ReadPayload, ownerVars, demuxVars, peerVars,
         FrameRead
    <2>2. pc \in {"registered", "open"}
      BY <2>1, Rest
    <2>a. /\ InFrame => from = rdFrame
          /\ ~InFrame => rdOff = 0
      BY <2>1, Where
    <2>b. got \in Nat
      BY Ranges
    <2>3. InFrame' /\ from' = rdFrame
      <3>1. CASE ReadHeader(t)
        <4>1. /\ from' = IF got = 0 THEN (IF rdOff = 0 THEN rdFrame ELSE Garbage)
                                    ELSE from
              /\ got' = got + 1 \/ stage' = "payload"
              /\ stage = "header"
          BY <3>1 DEF ReadHeader
        <4>2. InFrame'
          BY <2>b, <4>1 DEF InFrame
        <4>3. got = 0 => rdOff = 0
          BY <2>a, <4>1 DEF InFrame
        <4>4. got # 0 => from = rdFrame
          BY <2>a, <2>b DEF InFrame
        <4> QED
          BY <4>1, <4>2, <4>3, <4>4
      <3>2. CASE ReadPayload(t)
        <4>1. stage = "payload" /\ stage' = stage /\ from' = from
          BY <3>2 DEF ReadPayload
        <4> QED
          BY <2>a, <4>1 DEF InFrame
      <3> QED
        BY <1>3, <3>1, <3>2
    <2>4. rdFrame' \in Nat /\ rdFrame # 0
      BY <1>0 DEF IInv, TypeInv, TypeOK, PeerTypeOK
    <2>5. FrameRead' => rdFrame' = rdFrame + 1
      BY <2>3, Ranges DEF IInv, PlaceInv, FrameRead, Garbage
    <2>6. ~FrameRead' => rdFrame' = rdFrame
      BY <2>3, Ranges DEF IInv, PlaceInv, FrameRead, Garbage, TypeInv, TypeOK
    <2>7. Dispatched' = Dispatched
      <3>1. /\ rdFrame \in Nat /\ rdFrame' \in Nat
            /\ Dispatched = rdFrame - 1
        BY <2>1, <2>4, Ranges DEF Dispatched
      <3>2. CASE FrameRead'
        <4>1. Dispatched' = rdFrame' - 2
          BY <3>2 DEF Dispatched
        <4> QED
          BY <2>5, <3>1, <3>2, <4>1
      <3>3. CASE ~FrameRead'
        <4>1. Dispatched' = rdFrame' - 1
          BY <3>3 DEF Dispatched
        <4> QED
          BY <2>6, <3>1, <3>3, <4>1
      <3> QED
        BY <3>2, <3>3
    <2>8. RunInv'
      BY <2>1, <2>2, <2>7, <1>1, <1>0 DEF RunInv
    <2>9. AbortInv'
      BY <1>3, <2>1, <1>a DEF AbortInv
    <2> QED
      BY <2>1, <2>8, <2>9, <1>1, <1>0 DEF CountInv, ClientInv
  <1>4. CASE Dispatch(t) /\ t \notin aborted
    <2>1. /\ task[t] = "reading" /\ FrameRead /\ InFrame
          /\ Push(Addressee) /\ NextFrame
          /\ UNCHANGED <<pc, nChan, index, taken, sent, eof, torn, rdFrame,
                         aborted>>
      BY <1>4 DEF Dispatch, ownerVars, demuxVars, placeVars, peerVars, InFrame,
         FrameRead
    <2>2. pc \in {"registered", "open"}
      BY <2>1, Rest
    <2>3. from = Dispatched + 1 /\ from # 0 /\ from \in 1..Len(sent)
      BY <2>1, Ranges, Where DEF Garbage
    <2>4. from > base
      <3>1. Len(log[nChan]) = Dispatched - base
        BY <2>2, <1>0 DEF RunInv
      <3>2. nChan \in Channels /\ log \in [Channels -> Seq(Nat)]
        BY <2>2, Ranges
      <3>3. Len(log[nChan]) \in Nat
        BY <3>2
      <3>4. base \in Nat /\ Dispatched \in Nat
        BY Ranges, Where
      <3> QED
        BY <2>3, <3>1, <3>3, <3>4
    <2>5. dest = index[nChan]
      <3>1. dest = Flip(sent[from].id)
        BY <2>1, <2>3, <1>0 DEF IInv, PlaceInv, FrameRead, Garbage
      <3>2. sent[from].id = Flip(index[nChan])
        BY <2>2, <2>3, <2>4, <1>0 DEF RunInv
      <3>3. index[nChan] \in Ids
        BY <2>2, <1>0 DEF IInv, OwnerInv
      <3> QED
        BY <3>1, <3>2, <3>3, FlipTwice
    <2>6. log' = [log EXCEPT ![nChan] = Append(@, from)] /\ nChan \in Channels
      <3>1. index[nChan] \in Ids /\ nChan \in Channels
        BY <2>2, <1>0 DEF IInv, OwnerInv
      <3>2. Addressee = nChan
        BY <2>2, <2>5, <3>1, <1>0 DEF IInv, OwnerInv, Addressee
      <3>3. nChan \in rx
        BY <2>2, <1>0 DEF IInv, OwnerInv, LiveRx
      <3> QED
        BY <2>1, <3>1, <3>2, <3>3 DEF Push
    <2>7. Dispatched' = Dispatched + 1
      BY <2>1, <2>3, Ranges DEF Dispatched, FrameRead, NextFrame
    <2>8. log'[nChan] = Append(log[nChan], from) /\ log[nChan] \in Seq(Nat)
      BY <2>6, Ranges
    <2>9. /\ Len(log'[nChan]) = Dispatched' - base
          /\ \A k \in 1..Len(log'[nChan]) : log'[nChan][k] = base + k
          /\ taken <= Len(log'[nChan])
      <3>1. Len(log'[nChan]) = Len(log[nChan]) + 1
        BY <2>8
      <3>2. Len(log[nChan]) = Dispatched - base
        BY <2>2, <1>0 DEF RunInv
      <3>3. ASSUME NEW k \in 1..Len(log'[nChan])
            PROVE  log'[nChan][k] = base + k
        <4>1. \/ k = Len(log[nChan]) + 1 /\ log'[nChan][k] = from
              \/ k \in 1..Len(log[nChan]) /\ log'[nChan][k] = log[nChan][k]
          BY <2>8, Pushed
        <4>2. CASE k = Len(log[nChan]) + 1 /\ log'[nChan][k] = from
          <5>1. /\ Dispatched \in Nat /\ base \in Nat
                /\ Len(log[nChan]) = Dispatched - base
            BY <3>2, Ranges, Where
          <5>2. log'[nChan][k] = Dispatched + 1 /\ k = Len(log[nChan]) + 1
            BY <4>2, <2>3
          <5> QED
            BY <5>1, <5>2
        <4>3. CASE k \in 1..Len(log[nChan]) /\ log'[nChan][k] = log[nChan][k]
          BY <4>3, <2>2, <1>0 DEF RunInv
        <4> QED
          BY <4>1, <4>2, <4>3
      <3>4. taken <= Len(log[nChan])
        BY <2>2, <1>0 DEF RunInv
      <3>5. Len(log'[nChan]) = Dispatched' - base
        BY <3>1, <3>2, <2>7, Ranges, Where
      <3>6. taken <= Len(log'[nChan])
        BY <3>1, <3>4, <2>8, Ranges
      <3> QED
        BY <3>3, <3>5, <3>6
    <2>10. RunInv'
      BY <2>1, <2>2, <2>9, <1>1, <1>0 DEF RunInv
    <2>11. AbortInv'
      BY <2>1 DEF AbortInv, NextFrame, InFrame
    <2> QED
      BY <2>1, <2>10, <2>11, <1>1, <1>0 DEF CountInv, ClientInv
  <1>5. CASE Cancel(t)
    <2>1. /\ t \in aborted
          /\ UNCHANGED <<pc, nChan, index, taken, sent, eof, rdFrame, log,
                         aborted>>
          /\ task' = [task EXCEPT ![t] = "cancelled"]
      BY <1>5 DEF Cancel, ownerVars, demuxVars, placeVars, peerVars
    <2>2. task[t] = "reading" => ~InFrame
      BY <2>1, <1>0 DEF AbortInv
    <2>3. ~torn' /\ (InFrame' <=> InFrame) /\ (FrameRead' <=> FrameRead)
      <3>1. CASE task[t] = "waiting"
        BY <3>1, <1>5, <1>0
           DEF Cancel, CountInv, InFrame, FrameRead, readVars
      <3>2. CASE task[t] = "reading"
        <4>1. ~InFrame /\ NextFrame /\ torn' = (torn \/ InFrame)
          BY <3>2, <1>5, <2>2 DEF Cancel
        <4>2. ~torn'
          BY <4>1, <1>0 DEF CountInv
        <4>3. stage' = "header" /\ got' = 0
          BY <4>1 DEF NextFrame
        <4>4. stage = "header"
          BY <4>1, Ranges DEF InFrame
        <4> QED
          BY <4>1, <4>2, <4>3, <4>4 DEF InFrame, FrameRead
      <3> QED
        BY <3>1, <3>2, <1>5 DEF Cancel
    <2>4. Dispatched' = Dispatched
      BY <2>1, <2>3 DEF Dispatched
    <2>5. \A u \in Tasks : task'[u] = "reading" => task[u] = "reading"
      BY <2>1, <1>0 DEF IInv, TypeInv, TypeOK
    <2> QED
      BY <2>1, <2>3, <2>4, <2>5, <1>1, <1>a, <1>0
         DEF CountInv, ClientInv, RunInv, AbortInv, AtRest
  <1>6. CASE Fail(t)
    BY <1>6, Where DEF Fail
  <1> QED
    BY <1>2, <1>3, <1>4, <1>5, <1>6 DEF Task, Demux, MayRun

(* The invariant of a session is inductive.                                *)
LEMMA SessionStep ==
  ASSUME SInv, SingleThread, [SessionNext]_sessionVars
  PROVE  SInv'
  <1>1. IInv'
    BY SessionIsMux, StepIInv DEF SInv
  <1>2. CASE UNCHANGED sessionVars
    BY <1>1, <1>2
       DEF SInv, CountInv, ClientInv, RunInv, AbortInv, AtRest, Dispatched,
           FrameRead, InFrame, sessionVars, vars, programVars, ownerVars,
           demuxVars, readVars, placeVars, peerVars
  <1>3. CASE Program
    BY <1>1, <1>3, ProgramStep DEF SInv
  <1>4. ASSUME NEW t \in Tasks, Task(t) PROVE SInv'
    BY <1>1, <1>4, TaskStep DEF SInv
  <1>5. CASE Answer
    BY <1>1, <1>5, AnswerStep DEF SInv
  <1> QED
    BY <1>2, <1>3, <1>4, <1>5 DEF SessionNext

(* On one thread, a client gets exactly its own answers, in order, however *)
(* many clients follow each other on the connection (src/examples).        *)
THEOREM OwnAnswersSafe ==
  ASSUME SingleThread
  PROVE  SessionSpec => []OwnAnswers
  <1>1. SInv => OwnAnswers
    BY DEF SInv, RunInv, OwnAnswers
  <1>2. SInv /\ [SessionNext]_sessionVars => SInv'
    BY SessionStep
  <1> QED
    BY <1>1, <1>2, SessionStarts, PTL DEF SessionSpec

(* On one thread, no abort of a demux task (mux.rs:65) ever costs a        *)
(* program that waits for its answers the framing of the stream.           *)
THEOREM NeverTornSafe ==
  ASSUME SingleThread
  PROVE  SessionSpec => []NeverTorn
  <1>1. SInv => NeverTorn
    BY Where DEF SInv, CountInv, NeverTorn, HeadersAligned
  <1>2. SInv /\ [SessionNext]_sessionVars => SInv'
    BY SessionStep
  <1> QED
    BY <1>1, <1>2, SessionStarts, PTL DEF SessionSpec

(* On one thread the program stays one of the programs, and the answers    *)
(* that it asked for are counted in natural numbers that never shrink      *)
(* (src/examples).                                                         *)
THEOREM SessionTyped ==
  ASSUME SingleThread
  PROVE  SessionSpec => []SessionTypeOK
  <1>1. SInv => SessionTypeOK
    BY DEF SInv, IInv, TypeInv, CountInv, SessionTypeOK
  <1>2. SInv /\ [SessionNext]_sessionVars => SInv'
    BY SessionStep
  <1> QED
    BY <1>1, <1>2, SessionStarts, PTL DEF SessionSpec
=============================================================================
