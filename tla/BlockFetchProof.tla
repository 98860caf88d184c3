--------------------------- MODULE BlockFetchProof --------------------------
(***************************************************************************)
(* Block-fetch for any number of runs, batches of any length and any       *)
(* number of calls given up: until giving up costs a part of a message,    *)
(* the client does not panic, it writes to a server that waits for it, and *)
(* its streams return every block once, in order, and None at the end.     *)
(*                                                                         *)
(* The first invariant relates the client's state to the messages it has   *)
(* handled and to the server's state: the server is at most one turn       *)
(* ahead.  Which blocks the messages carry does not matter for that.  The  *)
(* second one does not look at the order of the messages: it follows the   *)
(* blocks from the messages through the queue to what next has returned.   *)
(***************************************************************************)
EXTENDS BlockFetch, SelectionProof

Handled == (taken - bytes) \div 2
AtEnd == Handled = Len(inbox)
Served == read = Len(outbox)

(* The server has ended its turn with the k-th message.                    *)
Turn(k) == k = 0 \/ Ends(inbox[k])

Types == {"NoBlocks", "StartBatch", "Block", "BatchDone"}
Opening == {"NoBlocks", "StartBatch"}

Typed ==
  /\ DOMAIN proto = {"state", "running", "done", "result"}
  /\ proto.state \in {"Idle", "Busy", "Streaming", "Done"}
  /\ proto.running \in BOOLEAN /\ proto.done \in BOOLEAN
  /\ exec \in {"idle", "loop", "sending", "await", "parse", "panicked"}
  /\ taken \in Nat /\ bytes \in Nat
  /\ bytes <= taken /\ taken <= 2 * Len(inbox)
  /\ hurt \in BOOLEAN
  /\ inbox \in Seq(ToSet(inbox))
  /\ \A k \in 1..Len(inbox) : inbox[k].type \in Types
  /\ outbox \in Seq({"RequestRange", "ClientDone"})
  /\ sending \in {<< >>, <<"RequestRange">>, <<"ClientDone">>}
  /\ call \in {"none", "run", "next", "done", "closed"}
  /\ stream \in BOOLEAN
  /\ srv \in {"Idle", "Busy", "Streaming", "Done"}
  /\ read \in Nat /\ read <= Len(outbox)

(* What the server writes, and how far it may be ahead of the client.      *)
Ordered ==
  /\ \A k \in 1..Len(inbox) :
       inbox[k].type \in Opening <=> Turn(k - 1)
  /\ \A k \in 1..Len(inbox) :
       k > Handled /\ Ends(inbox[k]) => k = Len(inbox)
  /\ srv = "Streaming" <=> ~Turn(Len(inbox))

(* Where the program is.                                                   *)
ProgramInv ==
  /\ exec # "panicked"
  /\ exec = "idle" <=> call \in {"none", "closed"}
  /\ exec = "sending" <=> sending # << >>
  /\ exec = "sending" => proto.state \in {"Busy", "Done"}
  /\ exec = "await" => proto.state \in {"Busy", "Streaming"}
  /\ call = "next" => stream
  /\ stream =>
       /\ call \in {"none", "next"}
       /\ proto.state \in {"Idle", "Streaming"}
       /\ ~proto.done
       /\ proto.state = "Idle" => ~proto.running
  /\ proto.done => call \in {"done", "closed"}
  /\ proto.state = "Done" => proto.done
  /\ proto.state = "Busy" => proto.running

(* Where client and server are in the protocol.                            *)
Requested ==
  IF sending # << >>
    THEN Served /\ srv = "Idle" /\ sending = <<"RequestRange">>
    ELSE \/ /\ read + 1 = Len(outbox) /\ srv = "Idle"
            /\ outbox[Len(outbox)] = "RequestRange"
         \/ Served /\ srv = "Busy"
Closed ==
  IF sending # << >>
    THEN Served /\ srv = "Idle" /\ sending = <<"ClientDone">>
    ELSE \/ /\ read + 1 = Len(outbox) /\ srv = "Idle"
            /\ outbox[Len(outbox)] = "ClientDone"
         \/ Served /\ srv = "Done"
ProtocolInv ==
  /\ Aligned
  /\ proto.state = "Idle" =>
       AtEnd /\ Turn(Handled) /\ Served /\ srv = "Idle"
  /\ proto.state = "Streaming" =>
       ~Turn(Handled) /\ Served /\ srv \in {"Idle", "Streaming"}
  /\ proto.state = "Busy" =>
       /\ Turn(Handled)
       /\ IF AtEnd THEN Requested
            ELSE Served /\ srv \in {"Idle", "Streaming"} /\ sending = << >>
  /\ proto.state = "Done" => AtEnd /\ Turn(Handled) /\ Closed

BInv == Typed /\ (~hurt => Ordered /\ ProgramInv /\ ProtocolInv)

-----------------------------------------------------------------------------
(* The messages handled are counted in pairs of pieces (protocols.rs:87).  *)
LEMMA Counting ==
  ASSUME Typed
  PROVE  /\ Handled \in Nat /\ Handled <= Len(inbox)
         /\ Aligned => taken - bytes = 2 * Handled
         /\ Len(inbox) \in Nat /\ Len(outbox) \in Nat
  <1>1. taken \in Nat /\ bytes \in Nat /\ bytes <= taken
        /\ taken <= 2 * Len(inbox) /\ Len(inbox) \in Nat /\ Len(outbox) \in Nat
    BY DEF Typed
  <1> QED
    BY <1>1 DEF Handled, Aligned, Pieces

(* A sequence is one of its own elements.                                  *)
LEMMA OwnElements ==
  ASSUME NEW S, NEW t \in Seq(S)
  PROVE  t \in Seq(ToSet(t))
  <1>1. t \in [1..Len(t) -> S] /\ Len(t) \in Nat
    OBVIOUS
  <1>2. \A k \in 1..Len(t) : t[k] \in ToSet(t)
    BY <1>1 DEF ToSet
  <1>3. t \in [1..Len(t) -> ToSet(t)]
    BY <1>1, <1>2
  <1> QED
    BY <1>1, <1>3

(* A list that grows keeps what it had.                                    *)
LEMMA Grown ==
  ASSUME NEW s, s \in Seq(ToSet(s)), NEW m
  PROVE  /\ Append(s, m) \in Seq(ToSet(Append(s, m)))
         /\ Len(Append(s, m)) = Len(s) + 1
         /\ Append(s, m)[Len(s) + 1] = m
         /\ \A k \in 1..Len(s) : Append(s, m)[k] = s[k]
  <1> DEFINE S == ToSet(s) \cup {m}
             t == Append(s, m)
  <1>1. s \in Seq(S) /\ m \in S
    OBVIOUS
  <1> HIDE DEF S
  <1>2. /\ t \in Seq(S) /\ Len(t) = Len(s) + 1
        /\ t[Len(s) + 1] = m
        /\ \A k \in 1..Len(s) : t[k] = s[k]
    BY <1>1
  <1>3. t \in Seq(ToSet(t))
    BY <1>2, OwnElements
  <1> QED
    BY <1>2, <1>3

(* Who may send (blockfetch.rs:180-190).                                   *)
LEMMA Agencies ==
  ASSUME NEW p, p.running \in BOOLEAN,
         p.state \in {"Idle", "Busy", "Streaming", "Done"}
  PROVE  /\ Agency(p) = "None" <=> ~p.running \/ p.state = "Done"
         /\ Agency(p) = "Client" <=> p.running /\ p.state = "Idle"
         /\ Agency(p) = "Server" <=> p.running /\ p.state \in {"Busy", "Streaming"}
BY DEF Agency

(* What a message received makes of the client (blockfetch.rs:208-240).    *)
LEMMA Receiving ==
  ASSUME NEW p, DOMAIN p = {"state", "running", "done", "result"},
         p.running \in BOOLEAN, NEW m, m.type \in Types
  PROVE  /\ DOMAIN AfterRecv(p, m) = {"state", "running", "done", "result"}
         /\ AfterRecv(p, m).state = IF Ends(m) THEN "Idle" ELSE "Streaming"
         /\ AfterRecv(p, m).running \in BOOLEAN
         /\ AfterRecv(p, m).running => m.type = "StartBatch"
         /\ AfterRecv(p, m).done = p.done
BY DEF AfterRecv, Types

(* ... and a message sent (blockfetch.rs:192-206).                         *)
LEMMA Sending ==
  ASSUME NEW p, DOMAIN p = {"state", "running", "done", "result"},
         p.done \in BOOLEAN
  PROVE  /\ DOMAIN AfterSend(p) = {"state", "running", "done", "result"}
         /\ AfterSend(p).state = IF p.done THEN "Done" ELSE "Busy"
         /\ AfterSend(p).running = p.running /\ AfterSend(p).done = p.done
         /\ ToSend(p) = IF p.done THEN "ClientDone" ELSE "RequestRange"
BY DEF AfterSend, ToSend

-----------------------------------------------------------------------------
(***************************************************************************)
(* What holds whether a part of a message was lost or not.                 *)
(***************************************************************************)
LEMMA BlockFetchStarts == Init => BInv
  <1> SUFFICES ASSUME Init PROVE BInv
    OBVIOUS
  <1>1. /\ proto = [state |-> "Idle", running |-> FALSE, done |-> FALSE,
                    result |-> << >>]
        /\ exec = "idle" /\ sending = << >> /\ taken = 0 /\ bytes = 0
        /\ hurt = FALSE /\ inbox = << >> /\ outbox = << >>
        /\ call = "none" /\ stream = FALSE /\ srv = "Idle" /\ read = 0
    BY DEF Init, DriverInit
  <1>2. Typed
    <2>1. inbox \in Seq(ToSet(inbox)) /\ Len(inbox) = 0 /\ Len(outbox) = 0
      BY <1>1
    <2>2. outbox \in Seq({"RequestRange", "ClientDone"})
      BY <1>1
    <2>3. /\ DOMAIN proto = {"state", "running", "done", "result"}
          /\ proto.state = "Idle" /\ proto.running = FALSE /\ proto.done = FALSE
      BY <1>1
    <2>4. \A k \in 1..Len(inbox) : inbox[k].type \in Types
      BY <2>1
    <2>5. /\ bytes <= taken /\ taken <= 2 * Len(inbox) /\ read <= Len(outbox)
          /\ taken \in Nat /\ bytes \in Nat /\ read \in Nat
      BY <1>1, <2>1
    <2>6. /\ exec = "idle" /\ sending = << >> /\ hurt = FALSE
          /\ call = "none" /\ stream = FALSE /\ srv = "Idle"
      BY <1>1
    <2> QED
      BY <2>1, <2>2, <2>3, <2>4, <2>5, <2>6 DEF Typed
  <1>3. Handled = 0 /\ Aligned
    BY <1>1 DEF Handled, Aligned, Pieces
  <1>4. Ordered
    BY <1>1, <1>3 DEF Ordered, Turn
  <1>5. ProgramInv
    BY <1>1 DEF ProgramInv
  <1>6. ProtocolInv
    BY <1>1, <1>3 DEF ProtocolInv, Turn, AtEnd, Served
  <1> QED
    BY <1>2, <1>4, <1>5, <1>6 DEF BInv

(* The types, but for those of the blocks.                                 *)
LEMMA TypedProgram ==
  ASSUME Typed,
         \/ Run \/ RunReturns \/ NextQueued \/ NextEmpty \/ NextReturns
         \/ DropStream \/ Done \/ DoneReturns \/ GiveUp
  PROVE  Typed'
  <1>1. CASE Run \/ Done
    BY <1>1 DEF Typed, Run, Done, Execute, serverVars
  <1>2. CASE RunReturns \/ DoneReturns \/ DropStream
    BY <1>2 DEF Typed, RunReturns, DoneReturns, DropStream, clientVars, serverVars
  <1>3. CASE NextQueued \/ NextReturns
    BY <1>3 DEF Typed, NextQueued, NextReturns, Pop, serverVars
  <1>4. CASE NextEmpty
    BY <1>4 DEF Typed, NextEmpty, Execute, serverVars
  <1>5. CASE GiveUp
    BY <1>5 DEF Typed, GiveUp, Abandon, serverVars
  <1> QED
    BY <1>1, <1>2, <1>3, <1>4, <1>5

LEMMA TypedClient ==
  ASSUME Typed, Client
  PROVE  Typed'
  <1> USE DEF Client, userVars, serverVars
  <1>1. CASE SendBytes
    BY <1>1, Sending DEF Typed, SendBytes
  <1>2. CASE Sent
    <2>1. outbox' \in Seq({"RequestRange", "ClientDone"}) /\ Len(outbox') >= Len(outbox)
      <3>1. /\ outbox \in Seq({"RequestRange", "ClientDone"})
            /\ sending \in Seq({"RequestRange", "ClientDone"})
        <4> DEFINE S == {"RequestRange", "ClientDone"}
        <4>1. /\ << >> \in Seq(S) /\ <<"RequestRange">> \in Seq(S)
              /\ <<"ClientDone">> \in Seq(S)
          OBVIOUS
        <4>2. outbox \in Seq(S)
          BY DEF Typed
        <4>3. sending \in {<< >>, <<"RequestRange">>, <<"ClientDone">>}
          BY DEF Typed
        <4> HIDE DEF S
        <4>4. sending \in Seq(S)
          BY <4>1, <4>3
        <4> QED
          BY <4>2, <4>4 DEF S
      <3> QED
        BY <1>2, <3>1 DEF Sent
    <2> QED
      BY <1>2, <2>1 DEF Typed, Sent
  <1>3. CASE AwaitFrame \/ Parsed
    BY <1>3 DEF Typed, AwaitFrame, Parsed
  <1>4. CASE RecvFrame
    BY <1>4 DEF Typed, RecvFrame, Pieces
  <1>5. CASE HandleMessage
    <2>1. bytes >= 2 /\ bytes' = bytes - 2 /\ Aligned
      BY <1>5 DEF HandleMessage, Complete, Pieces
    <2>2. NextMessage.type \in Types
      <3>1. taken - bytes = 2 * Handled /\ Handled \in Nat
        BY <2>1, Counting
      <3>2. Handled + 1 \in 1..Len(inbox)
        BY <2>1, <3>1 DEF Typed
      <3>3. NextMessage = inbox[Handled + 1]
        BY DEF NextMessage, Handled, Pieces
      <3> QED
        BY <3>2, <3>3 DEF Typed
    <2> QED
      BY <1>5, <2>1, <2>2, Receiving DEF Typed, HandleMessage
  <1>6. CASE Misparse
    <2>1. \A m \in ServerMessages : m.type \in Types
      BY DEF ServerMessages, BlockMessages, Plain, Block, Types
    <2>2. /\ bytes' \in Nat /\ bytes' <= bytes
          /\ exec' \in {"panicked", "loop", "parse"}
          /\ proto' = proto \/ \E m \in ServerMessages : proto' = AfterRecv(proto, m)
      BY <1>6 DEF Typed, Misparse
    <2>3. /\ DOMAIN proto' = {"state", "running", "done", "result"}
          /\ proto'.state \in {"Idle", "Busy", "Streaming", "Done"}
          /\ proto'.running \in BOOLEAN /\ proto'.done \in BOOLEAN
      BY <2>1, <2>2, Receiving DEF Typed
    <2> QED
      BY <1>6, <2>2, <2>3 DEF Typed, Misparse
  <1> QED
    BY <1>1, <1>2, <1>3, <1>4, <1>5, <1>6 DEF Drive

LEMMA TypedWrite ==
  ASSUME Typed, NEW m, m.type \in Types, Write(m),
         srv' \in {"Idle", "Streaming"}, read' = read
  PROVE  Typed'
  <1>1. /\ inbox' \in Seq(ToSet(inbox')) /\ Len(inbox') = Len(inbox) + 1
        /\ inbox'[Len(inbox) + 1] = m
        /\ \A k \in 1..Len(inbox) : inbox'[k] = inbox[k]
    BY Grown DEF Typed, Write
  <1>2. \A k \in 1..Len(inbox') : inbox'[k].type \in Types
    <2> SUFFICES ASSUME NEW k \in 1..Len(inbox') PROVE inbox'[k].type \in Types
      OBVIOUS
    <2>1. k = Len(inbox) + 1 \/ k \in 1..Len(inbox)
      BY <1>1, Counting
    <2> QED
      BY <1>1, <2>1 DEF Typed
  <1>3. taken <= 2 * Len(inbox')
    BY <1>1, Counting DEF Typed
  <1> QED
    BY <1>1, <1>2, <1>3 DEF Typed, Write, clientVars, userVars

LEMMA TypedServer ==
  ASSUME Typed,
         ServerRead \/ ServerRefuses \/ ServerStarts \/ ServerSendsBlock \/ ServerEnds
  PROVE  Typed'
  <1>1. CASE ServerRead
    BY <1>1, Counting DEF Typed, ServerRead, clientVars, userVars
  <1>2. CASE ServerRefuses \/ ServerStarts \/ ServerEnds
    BY <1>2, TypedWrite DEF ServerRefuses, ServerStarts, ServerEnds, Plain, Types
  <1>3. CASE ServerSendsBlock
    BY <1>3, TypedWrite DEF ServerSendsBlock, Block, Types, serverVars
  <1> QED
    BY <1>1, <1>2, <1>3

LEMMA TypedStep == Typed /\ [Next]_vars => Typed'
  <1> SUFFICES ASSUME Typed, [Next]_vars PROVE Typed'
    OBVIOUS
  <1>1. CASE UNCHANGED vars
    BY <1>1 DEF Typed, vars, clientVars, userVars, serverVars
  <1> QED
    BY <1>1, TypedProgram, TypedClient, TypedServer DEF Next

(* What was lost stays lost.                                               *)
LEMMA HurtStays == hurt /\ [Next]_vars => hurt'
BY DEF Next, vars, clientVars, userVars, serverVars, Run, RunReturns,
   NextQueued, NextEmpty, NextReturns, DropStream, Done, DoneReturns, GiveUp,
   Client, Drive, SendBytes, Sent, AwaitFrame, RecvFrame, HandleMessage,
   Parsed, Misparse, Abandon, Execute, Pop, Write, ServerRead, ServerRefuses,
   ServerStarts, ServerSendsBlock, ServerEnds

-----------------------------------------------------------------------------
(***************************************************************************)
(* What holds until a part of a message is lost.                           *)
(***************************************************************************)
(* A step that neither reads nor writes, and leaves the state where it is. *)
LEMMA Unmoved ==
  ASSUME Ordered, ProtocolInv, proto'.state = proto.state,
         UNCHANGED <<taken, bytes, inbox, outbox, sending, srv, read>>
  PROVE  Ordered' /\ ProtocolInv'
BY DEF Ordered, ProtocolInv, Turn, Handled, AtEnd, Served, Aligned, Requested,
   Closed

(* The program's calls (blockfetch.rs:127-165).                            *)
LEMMA ProgramKeeps ==
  ASSUME Typed, Ordered, ProgramInv, ProtocolInv, ~hurt',
         \/ Run \/ RunReturns \/ NextQueued \/ NextEmpty \/ NextReturns
         \/ DropStream \/ Done \/ DoneReturns \/ GiveUp
  PROVE  Ordered' /\ ProgramInv' /\ ProtocolInv'
  <1>1. CASE Run \/ Done
    <2>1. /\ exec = "idle" /\ exec' = "loop" /\ call = "none"
          /\ call' \in {"run", "done"}
          /\ ~stream /\ ~stream'
          /\ UNCHANGED <<taken, bytes, inbox, outbox, sending, srv, read>>
      BY <1>1 DEF Run, Done, Execute, serverVars
    <2>2. /\ proto'.state = proto.state /\ proto'.running
          /\ proto.done => proto'.done
          /\ proto'.done => call' = "done" \/ proto.done
      <3>1. CASE Run
        <4>1. proto' = [proto EXCEPT !.running = TRUE]
          BY <3>1 DEF Run, Execute
        <4> QED
          BY <4>1 DEF Typed
      <3>2. CASE Done
        <4>1. /\ proto' = [proto EXCEPT !.running = TRUE, !.done = TRUE]
              /\ call' = "done"
          BY <3>2 DEF Done, Execute
        <4> QED
          BY <4>1 DEF Typed
      <3> QED
        BY <1>1, <3>1, <3>2
    <2>3. ProgramInv'
      BY <2>1, <2>2 DEF ProgramInv
    <2> QED
      BY <2>1, <2>2, <2>3, Unmoved
  <1>2. CASE RunReturns
    <2>1. ~proto.running \/ proto.state = "Done"
      BY <1>2, Agencies DEF RunReturns, Executed, Typed
    <2>2. ProgramInv'
      BY <1>2, <2>1 DEF RunReturns, Executed, ProgramInv, Typed
    <2> QED
      BY <1>2, <2>2, Unmoved DEF RunReturns, serverVars
  <1>3. CASE NextQueued \/ NextReturns
    <2>1. /\ proto'.state = proto.state /\ proto'.running = proto.running
          /\ proto'.done = proto.done
          /\ call' = "none" /\ UNCHANGED stream
          /\ UNCHANGED <<taken, bytes, inbox, outbox, sending, srv, read>>
          /\ \/ call = "none" /\ exec' = exec
             \/ call = "next" /\ exec = "loop" /\ exec' = "idle"
      BY <1>3 DEF Typed, NextQueued, NextReturns, Executed, Pop, serverVars
    <2>2. ProgramInv'
      BY <2>1 DEF ProgramInv
    <2> QED
      BY <2>1, <2>2, Unmoved
  <1>4. CASE NextEmpty
    <2>1. proto.state \in {"Idle", "Streaming"} /\ exec = "idle"
      BY <1>4 DEF NextEmpty, ProgramInv
    <2>2. CASE proto.state = "Streaming"
      <3>1. /\ exec' = "loop" /\ call' = "next" /\ stream /\ stream'
            /\ proto'.state = "Streaming" /\ proto'.done = proto.done
            /\ UNCHANGED <<taken, bytes, inbox, outbox, sending, srv, read>>
        BY <1>4, <2>2 DEF Typed, NextEmpty, Execute, serverVars
      <3>2. ProgramInv'
        BY <2>1, <3>1 DEF ProgramInv
      <3> QED
        BY <2>2, <3>1, <3>2, Unmoved
    <2>3. CASE proto.state = "Idle"
      <3>1. UNCHANGED <<exec, call, stream, proto, taken, bytes, inbox, outbox,
                        sending, srv, read>>
        BY <1>4, <2>3 DEF NextEmpty, serverVars
      <3> QED
        BY <3>1, Unmoved DEF ProgramInv
    <2> QED
      BY <2>1, <2>2, <2>3
  <1>5. CASE DropStream
    <2>1. ProgramInv'
      BY <1>5 DEF DropStream, ProgramInv, clientVars
    <2> QED
      BY <1>5, <2>1, Unmoved DEF DropStream, clientVars, serverVars
  <1>6. CASE DoneReturns
    <2>1. ProgramInv'
      BY <1>6 DEF DoneReturns, Executed, ProgramInv
    <2> QED
      BY <1>6, <2>1, Unmoved DEF DoneReturns, serverVars
  <1>7. CASE GiveUp
    <2>1. exec = "await" /\ ~(bytes > 0)
      BY <1>7, Zenon DEF GiveUp, Abandon
    <2>2. bytes = 0 /\ bytes' = 0
      BY <1>7, <2>1 DEF GiveUp, Abandon, Typed
    <2>3. /\ exec' = "idle" /\ sending = << >> /\ sending' = << >>
          /\ UNCHANGED <<proto, taken, inbox, outbox, stream, srv, read>>
          /\ call' = IF call = "done" THEN "closed" ELSE "none"
      BY <1>7, <2>1 DEF GiveUp, Abandon, ProgramInv, serverVars
    <2>4. ProgramInv'
      BY <2>1, <2>3 DEF ProgramInv
    <2> QED
      BY <2>2, <2>3, <2>4, Unmoved
  <1> QED
    BY <1>1, <1>2, <1>3, <1>4, <1>5, <1>6, <1>7

(* A whole message is there, and the state is one that accepts it          *)
(* (blockfetch.rs:208-240).                                                *)
LEMMA MessageKeeps ==
  ASSUME Typed, Ordered, ProgramInv, ProtocolInv, Client, HandleMessage
  PROVE  Ordered' /\ ProgramInv' /\ ProtocolInv'
  <1> USE Counting
  <1> DEFINE n == Handled + 1
             m == inbox[n]
  <1>1. /\ exec = "parse" /\ bytes >= 2 /\ bytes' = bytes - 2
        /\ taken - bytes = 2 * Handled
        /\ UNCHANGED <<sending, taken, inbox, outbox, call, stream, srv, read>>
    BY DEF HandleMessage, Complete, Pieces, Client, userVars, serverVars
  <1>2. n \in 1..Len(inbox)
    BY <1>1 DEF Typed
  <1>3. NextMessage = m
    BY DEF NextMessage, Handled, Pieces
  <1>4. Handled' = n /\ Aligned'
    <2>1. taken' - bytes' = 2 * n
      BY <1>1 DEF Typed
    <2>2. (2 * n) \div 2 = n /\ (2 * n) % 2 = 0
      BY <1>2
    <2> QED
      BY <2>1, <2>2 DEF Handled, Aligned, Pieces
  <1>5. m.type \in Types /\ n - 1 = Handled
    BY <1>2 DEF Typed
  <1>6. ~AtEnd
    BY <1>2 DEF AtEnd
  <1>7. \/ proto.state = "Streaming" /\ m.type \notin Opening
        \/ proto.state = "Busy" /\ m.type \in Opening
    BY <1>2, <1>5, <1>6 DEF Typed, ProtocolInv, Ordered
  <1>8. /\ Served /\ srv \in {"Idle", "Streaming"}
        /\ sending = << >>
    BY <1>1, <1>6, <1>7 DEF ProtocolInv, ProgramInv
  <1>9. Accepts(proto, m)
    BY <1>5, <1>7 DEF Accepts, Types, Opening
  <1>10. /\ proto' = AfterRecv(proto, m) /\ exec' = "parse"
    BY <1>3, <1>9 DEF HandleMessage
  <1>11. /\ proto'.state = IF Ends(m) THEN "Idle" ELSE "Streaming"
         /\ proto'.running => m.type = "StartBatch"
         /\ proto'.done = proto.done
    BY <1>5, <1>10, Receiving DEF Typed
  <1>12. proto'.state = "Idle" => ~proto'.running
    BY <1>11 DEF Ends
  <1>13. ProgramInv'
    BY <1>1, <1>7, <1>8, <1>10, <1>11, <1>12 DEF ProgramInv
  <1>14. \A k : Turn(k)' <=> Turn(k)
    BY <1>1 DEF Turn
  <1>15. Ordered'
    <2>1. \A k \in 1..Len(inbox) : k > n => k > Handled
      OBVIOUS
    <2>2. /\ \A k \in 1..Len(inbox') : inbox'[k].type \in Opening <=> Turn(k - 1)'
          /\ \A k \in 1..Len(inbox') :
               k > Handled' /\ Ends(inbox'[k]) => k = Len(inbox')
      BY <1>1, <1>4, <1>14, <2>1 DEF Ordered
    <2> QED
      BY <1>1, <1>14, <2>2 DEF Ordered
  <1>16. Turn(n) <=> Ends(m)
    BY <1>2 DEF Turn
  <1>17. Ends(m) => n = Len(inbox) /\ srv = "Idle"
    <2>1. Ends(m) => n = Len(inbox)
      BY <1>2 DEF Ordered
    <2> QED
      BY <1>8, <1>16, <2>1 DEF Ordered
  <1>18. ProtocolInv'
    BY <1>1, <1>4, <1>8, <1>11, <1>14, <1>16, <1>17
       DEF ProtocolInv, AtEnd, Served
  <1> QED
    BY <1>13, <1>15, <1>18

(* The other steps of the driver (protocols.rs:68-133).                    *)
LEMMA ClientKeeps ==
  ASSUME Typed, Ordered, ProgramInv, ProtocolInv, Client
  PROVE  Ordered' /\ ProgramInv' /\ ProtocolInv'
  <1> USE DEF userVars, serverVars
  <1>0. UNCHANGED <<call, stream, srv, read>>
    BY DEF Client
  <1>1. CASE SendBytes
    <2>1. exec = "loop" /\ proto.running /\ proto.state = "Idle"
      BY <1>1, Agencies DEF SendBytes, Typed
    <2>2. /\ exec' = "sending" /\ proto' = AfterSend(proto)
          /\ sending' = <<ToSend(proto)>>
          /\ UNCHANGED <<taken, bytes, inbox, outbox>>
      BY <1>1, <2>1 DEF SendBytes, CanSend
    <2>3. /\ proto'.state = IF proto.done THEN "Done" ELSE "Busy"
          /\ proto'.running /\ proto'.done = proto.done
          /\ sending' = IF proto.done THEN <<"ClientDone">> ELSE <<"RequestRange">>
      BY <2>1, <2>2, Sending DEF Typed
    <2>4. ProgramInv'
      BY <1>0, <2>1, <2>2, <2>3 DEF ProgramInv, Typed
    <2>5. AtEnd /\ Turn(Handled) /\ Served /\ srv = "Idle" /\ Aligned
      BY <2>1 DEF ProtocolInv
    <2>6. Ordered' /\ AtEnd' /\ Turn(Handled)' /\ Served' /\ srv' = "Idle" /\ Aligned'
      BY <1>0, <2>2, <2>5 DEF Ordered, AtEnd, Turn, Handled, Served, Aligned
    <2>7. ProtocolInv'
      BY <2>3, <2>6, Typed DEF ProtocolInv, Requested, Closed, Typed
    <2> QED
      BY <2>4, <2>6, <2>7
  <1>2. CASE Sent
    <2>1. /\ exec = "sending" /\ exec' = "loop" /\ sending # << >>
          /\ sending' = << >> /\ outbox' = outbox \o sending
          /\ proto.state \in {"Busy", "Done"}
          /\ UNCHANGED <<proto, taken, bytes, inbox>>
      BY <1>2 DEF Sent, ProgramInv
    <2>2. ProgramInv'
      BY <1>0, <2>1 DEF ProgramInv
    <2>3. Ordered' /\ (AtEnd' <=> AtEnd) /\ (Turn(Handled)' <=> Turn(Handled)) /\ (Aligned' <=> Aligned)
      BY <1>0, <2>1 DEF Ordered, AtEnd, Turn, Handled, Aligned
    <2>4. /\ AtEnd /\ Served /\ srv = "Idle" /\ Aligned /\ Turn(Handled)
          /\ proto.state = "Busy" => sending = <<"RequestRange">>
          /\ proto.state = "Done" => sending = <<"ClientDone">>
      BY <2>1 DEF ProtocolInv, Requested, Closed
    <2>5. /\ Len(outbox') = Len(outbox) + 1
          /\ proto.state = "Busy" => outbox'[Len(outbox')] = "RequestRange"
          /\ proto.state = "Done" => outbox'[Len(outbox')] = "ClientDone"
      <3> DEFINE S == {"RequestRange", "ClientDone"}
      <3>1. outbox \in Seq(S)
        BY DEF Typed
      <3>2. ASSUME NEW x \in S, sending = <<x>>
            PROVE  /\ Len(outbox') = Len(outbox) + 1
                   /\ outbox'[Len(outbox')] = x
        <4> HIDE DEF S
        <4> QED
          BY <2>1, <3>1, <3>2
      <3> QED
        BY <2>1, <2>4, <3>2
    <2>6. read' + 1 = Len(outbox') /\ srv' = "Idle"
      BY <1>0, <2>4, <2>5 DEF Served
    <2>7. ProtocolInv'
      BY <2>1, <2>3, <2>4, <2>5, <2>6 DEF ProtocolInv, Requested, Closed
    <2> QED
      BY <2>2, <2>3, <2>7
  <1>3. CASE AwaitFrame
    <2>1. /\ exec = "loop" /\ exec' = "await"
          /\ proto.state \in {"Busy", "Streaming"}
          /\ UNCHANGED <<proto, sending, taken, bytes, inbox, outbox>>
      BY <1>3, Agencies DEF AwaitFrame, Typed
    <2>2. ProgramInv'
      BY <1>0, <2>1 DEF ProgramInv
    <2> QED
      BY <1>0, <2>1, <2>2, Unmoved
  <1>4. CASE RecvFrame
    <2>1. /\ exec = "await" /\ exec' = "parse"
          /\ UNCHANGED <<proto, sending, inbox, outbox>>
      BY <1>4 DEF RecvFrame
    <2>2. PICK n \in 1..(2 * Len(inbox) - taken) :
            taken' = taken + n /\ bytes' = bytes + n
      BY <1>4 DEF RecvFrame, Pieces
    <2>3. taken' - bytes' = taken - bytes
      BY <2>2, Counting DEF Typed
    <2>4. Handled' = Handled /\ (Aligned' <=> Aligned)
      BY <2>3 DEF Handled, Aligned
    <2>5. ProgramInv'
      BY <1>0, <2>1 DEF ProgramInv
    <2>6. Ordered' /\ ProtocolInv'
      BY <1>0, <2>1, <2>4
         DEF Ordered, ProtocolInv, Turn, AtEnd, Served, Requested, Closed
    <2> QED
      BY <2>5, <2>6
  <1>5. CASE HandleMessage
    BY <1>5, MessageKeeps
  <1>6. CASE Parsed
    <2>1. /\ exec = "parse" /\ exec' = "loop"
          /\ UNCHANGED <<proto, sending, taken, bytes, inbox, outbox>>
      BY <1>6 DEF Parsed
    <2>2. ProgramInv'
      BY <1>0, <2>1 DEF ProgramInv
    <2> QED
      BY <1>0, <2>1, <2>2, Unmoved
  <1>7. CASE Misparse
    BY <1>7 DEF Misparse, ProtocolInv
  <1> QED
    BY <1>1, <1>2, <1>3, <1>4, <1>5, <1>6, <1>7 DEF Client, Drive

(* What the server writes stands behind what it has written.               *)
LEMMA Written ==
  ASSUME Typed, NEW m, Write(m)
  PROVE  /\ Len(inbox') = Len(inbox) + 1
         /\ Handled' = Handled /\ (Aligned' <=> Aligned)
         /\ \A k \in 0..Len(inbox) : Turn(k)' <=> Turn(k)
         /\ Turn(Len(inbox))' <=> Ends(m)
         /\ inbox'[Len(inbox) + 1] = m
         /\ \A k \in 1..Len(inbox) : inbox'[k] = inbox[k]
         /\ UNCHANGED <<proto, exec, sending, call, stream, outbox>>
  <1>1. /\ Len(inbox') = Len(inbox) + 1
        /\ inbox'[Len(inbox) + 1] = m
        /\ \A k \in 1..Len(inbox) : inbox'[k] = inbox[k]
    BY Grown DEF Typed, Write
  <1>2. UNCHANGED <<proto, exec, sending, call, stream, outbox, taken, bytes>>
    BY DEF Write, clientVars, userVars
  <1>3. \A k \in 0..Len(inbox) : Turn(k)' <=> Turn(k)
    BY <1>1, Counting DEF Turn
  <1>4. Turn(Len(inbox))' <=> Ends(m)
    BY <1>1, Counting DEF Turn
  <1> QED
    BY <1>1, <1>2, <1>3, <1>4 DEF Handled, Aligned

LEMMA WriteOrdered ==
  ASSUME Typed, Ordered, NEW m, Write(m),
         m.type \in Opening <=> Turn(Len(inbox)),
         \A k \in 1..Len(inbox) : k > Handled => ~Ends(inbox[k]),
         srv' = "Streaming" <=> ~Ends(m)
  PROVE  Ordered'
  <1> USE Counting, Written
  <1>1. ASSUME NEW k \in 1..Len(inbox')
        PROVE  /\ inbox'[k].type \in Opening <=> Turn(k - 1)'
               /\ k > Handled' /\ Ends(inbox'[k]) => k = Len(inbox')
    <2>1. CASE k = Len(inbox) + 1
      BY <2>1
    <2>2. CASE k \in 1..Len(inbox)
      BY <2>2 DEF Ordered
    <2> QED
      BY <2>1, <2>2
  <1>2. srv' = "Streaming" <=> ~Turn(Len(inbox))'
    OBVIOUS
  <1> QED
    BY <1>1, <1>2 DEF Ordered

(* The server's turn: a client that has not asked is not written to.       *)
LEMMA ServerKeeps ==
  ASSUME Typed, Ordered, ProgramInv, ProtocolInv,
         ServerRead \/ ServerRefuses \/ ServerStarts \/ ServerSendsBlock \/ ServerEnds
  PROVE  Ordered' /\ ProgramInv' /\ ProtocolInv'
  <1> USE Counting
  <1>1. ProgramInv'
    BY DEF ServerRead, ServerRefuses, ServerStarts, ServerSendsBlock,
       ServerEnds, Write, clientVars, userVars, ProgramInv
  <1>2. CASE ServerRead
    <2>1. /\ srv = "Idle" /\ read < Len(outbox) /\ read' = read + 1
          /\ srv' = IF outbox[read + 1] = "RequestRange" THEN "Busy" ELSE "Done"
          /\ UNCHANGED <<proto, sending, taken, bytes, inbox, outbox>>
      BY <1>2 DEF ServerRead, clientVars
    <2>2. ~Served
      BY <2>1 DEF Served
    <2>3. /\ sending = << >> /\ read + 1 = Len(outbox) /\ AtEnd /\ Turn(Handled)
          /\ \/ proto.state = "Busy" /\ outbox[Len(outbox)] = "RequestRange"
             \/ proto.state = "Done" /\ outbox[Len(outbox)] = "ClientDone"
      BY <2>1, <2>2 DEF ProtocolInv, Requested, Closed, Typed
    <2>4. /\ AtEnd' /\ Turn(Handled)' /\ Aligned'
          /\ Turn(Len(inbox)) /\ Turn(Len(inbox))'
      BY <2>1, <2>3 DEF ProtocolInv, AtEnd, Turn, Handled, Aligned
    <2>5. srv' # "Streaming" /\ srv # "Streaming"
      BY <2>1
    <2>6. Ordered'
      BY <2>1, <2>4, <2>5 DEF Ordered, Turn, Handled
    <2>7. Served'
      BY <2>1, <2>3 DEF Served
    <2>8. ProtocolInv'
      BY <2>1, <2>3, <2>4, <2>7 DEF ProtocolInv, Requested, Closed
    <2> QED
      BY <1>1, <2>6, <2>8
  <1>3. CASE ServerRefuses \/ ServerStarts
    <2>1. PICK m :
            /\ Write(m) /\ srv = "Busy" /\ read' = read
            /\ m.type \in Opening
            /\ srv' = IF Ends(m) THEN "Idle" ELSE "Streaming"
      BY <1>3 DEF ServerRefuses, ServerStarts, Plain, Ends, Opening
    <2>2. /\ proto.state = "Busy" /\ sending = << >> /\ Served /\ AtEnd
          /\ Turn(Handled) /\ Aligned
      BY <2>1 DEF ProtocolInv, Requested, Closed, Typed
    <2>3. Turn(Len(inbox)) /\ \A k \in 1..Len(inbox) : ~(k > Handled)
      BY <2>2 DEF AtEnd
    <2>4. Ordered'
      BY <2>1, <2>3, WriteOrdered
    <2>5. ~AtEnd'
      BY <2>1, <2>2, Written DEF AtEnd
    <2>6. Turn(Handled)'
      BY <2>1, <2>2, Written DEF AtEnd
    <2>7. ProtocolInv'
      BY <2>1, <2>2, <2>5, <2>6, Written DEF ProtocolInv, Served
    <2> QED
      BY <1>1, <2>4, <2>7
  <1>4. CASE ServerSendsBlock \/ ServerEnds
    <2>1. PICK m :
            /\ Write(m) /\ srv = "Streaming" /\ read' = read
            /\ m.type \notin Opening
            /\ srv' = IF Ends(m) THEN "Idle" ELSE "Streaming"
      BY <1>4 DEF ServerSendsBlock, ServerEnds, Plain, Block, Ends, Opening,
         serverVars
    <2>2. ~Turn(Len(inbox))
      BY <2>1 DEF Ordered
    <2>3. /\ proto.state \in {"Busy", "Streaming"} /\ Served /\ Aligned
          /\ proto.state = "Busy" => ~AtEnd /\ Turn(Handled) /\ sending = << >>
          /\ proto.state = "Streaming" => ~Turn(Handled)
      BY <2>1 DEF ProtocolInv, Requested, Closed, Typed
    <2>4. \A k \in 1..Len(inbox) : k > Handled => ~Ends(inbox[k])
      BY <2>2 DEF Ordered, Turn
    <2>5. Ordered'
      BY <2>1, <2>2, <2>4, WriteOrdered
    <2>6. ~AtEnd' /\ (Turn(Handled)' <=> Turn(Handled))
      BY <2>1, Written DEF AtEnd
    <2>7. ProtocolInv'
      BY <2>1, <2>3, <2>6, Written DEF ProtocolInv, Served
    <2> QED
      BY <1>1, <2>5, <2>7
  <1> QED
    BY <1>2, <1>3, <1>4

(* Every step keeps the invariant.                                         *)
LEMMA BlockFetchStep == BInv /\ [Next]_vars => BInv'
  <1> SUFFICES ASSUME BInv, [Next]_vars PROVE BInv'
    OBVIOUS
  <1>1. Typed /\ Typed'
    BY TypedStep DEF BInv
  <1>2. ASSUME ~hurt' PROVE Ordered' /\ ProgramInv' /\ ProtocolInv'
    <2>1. Ordered /\ ProgramInv /\ ProtocolInv
      BY <1>2, HurtStays DEF BInv
    <2>2. CASE UNCHANGED vars
      <3>1. UNCHANGED <<proto, exec, sending, taken, bytes, inbox, outbox,
                        call, stream, srv, read>>
        BY <2>2 DEF vars, clientVars, userVars, serverVars
      <3> QED
        BY <2>1, <3>1, Unmoved DEF ProgramInv
    <2> QED
      BY <1>1, <1>2, <2>1, <2>2, ProgramKeeps, ClientKeeps, ServerKeeps DEF Next
  <1> QED
    BY <1>1, <1>2 DEF BInv

(* The client, its stream and the server keep step with the messages       *)
(* between them (blockfetch.rs:127-238), for any number of runs, dropped   *)
(* streams and calls given up.                                             *)
THEOREM BlockFetchInvariant == Spec => []BInv
  <1>1. Init => BInv
    BY BlockFetchStarts
  <1>2. BInv /\ [Next]_vars => BInv'
    BY BlockFetchStep
  <1> QED
    BY <1>1, <1>2, PTL DEF Spec

-----------------------------------------------------------------------------
(* No panic of the client is reached, for any number of runs, streams      *)
(* dropped and calls given up and batches of any length, until giving up   *)
(* costs a part of a message (blockfetch.rs:157, 236).                     *)
THEOREM NoPanicSafe == Spec => []NoPanic
  <1>1. BInv => NoPanic
    BY DEF BInv, ProgramInv, NoPanic
  <1> QED
    BY <1>1, BlockFetchInvariant, PTL

(* The client writes only to a server that waits for it                    *)
(* (blockfetch.rs:180-190, 219-238).                                       *)
THEOREM WritesOnlyToIdleSafe == Spec => []WritesOnlyToIdle
  <1>1. BInv => WritesOnlyToIdle
    <2> SUFFICES ASSUME BInv, ~hurt, read < Len(outbox) PROVE srv = "Idle"
      BY DEF WritesOnlyToIdle
    <2>1. Typed /\ ProtocolInv
      BY DEF BInv
    <2>2. ~Served
      BY <2>1, Counting DEF Served, Typed
    <2> QED
      BY <2>1, <2>2 DEF ProtocolInv, Requested, Closed, Typed
  <1> QED
    BY <1>1, BlockFetchInvariant, PTL
-----------------------------------------------------------------------------
(***************************************************************************)
(* The blocks.  A server is asked for no more batches than the program has *)
(* run, and so writes no other blocks than there are.                      *)
(***************************************************************************)
Protos == [state : {"Idle", "Busy", "Streaming", "Done"}, running : BOOLEAN,
           done : BOOLEAN, result : Seq(Blocks)]

Carried ==
  /\ proto \in Protos
  /\ inbox \in Seq(ServerMessages)
  /\ yielded \in Seq(Blocks)
  /\ runs \in Nat /\ runs <= MaxRuns
  /\ abandons \in Nat /\ abandons <= MaxAbandons

(* The requests written, being written, and to be written by this run.     *)
Asked == Len(Among(outbox, {"RequestRange"}))
ToAsk(p) == p.running /\ ~p.done /\ p.state = "Idle"
RunsInv ==
  /\ Asked + (IF sending = <<"RequestRange">> THEN 1 ELSE 0)
           + (IF ToAsk(proto) THEN 1 ELSE 0) <= runs
  /\ srv \in {"Busy", "Streaming"} => Requests >= 1

(* What is selected of the requests can be counted.                        *)
LEMMA RequestCounts ==
  ASSUME Typed
  PROVE  Asked \in Nat /\ Requests \in Nat /\ Requests <= Asked
  <1> DEFINE R == {"RequestRange", "ClientDone"}
             A(n) == AmongFirst(n, outbox, {"RequestRange"})
  <1>1. outbox \in Seq(R) /\ read \in 0..Len(outbox) /\ Len(outbox) \in 0..Len(outbox)
    BY DEF Typed
  <1>2. \A n \in 0..Len(outbox) : A(n) \in Seq(R \cap {"RequestRange"})
    BY <1>1, AmongType
  <1>3. IsPrefix(A(read), A(Len(outbox)))
    BY <1>1, AmongPrefix DEF Among
  <1> HIDE DEF R, A
  <1>4. \A n \in 0..Len(outbox) : Len(A(n)) \in Nat
    BY <1>2
  <1> QED
    BY <1>1, <1>3, <1>4 DEF Asked, Requests, Among, A, IsPrefix

(* The types of what is sent to the client.                                *)
LEMMA BlockTypes ==
  /\ \A m \in ServerMessages : m.type \in Types
  /\ \A m \in ServerMessages : m.type = "Block" => m.block \in Blocks
  /\ \A m \in ServerMessages : m.type = "Block" <=> m \in BlockMessages
BY DEF ServerMessages, BlockMessages, Plain, Block, Types

LEMMA CarriedRecv ==
  ASSUME NEW p \in Protos, NEW m \in ServerMessages
  PROVE  /\ AfterRecv(p, m) \in Protos
         /\ AfterRecv(p, m).result
              = IF m.type = "Block" THEN Append(p.result, m.block) ELSE p.result
         /\ ~ToAsk(AfterRecv(p, m))
  <1>1. p.result \in Seq(Blocks)
    BY DEF Protos
  <1>2. m.type = "Block" => Append(p.result, m.block) \in Seq(Blocks)
    BY <1>1, BlockTypes
  <1>3. ~ToAsk(AfterRecv(p, m))
    BY DEF AfterRecv, ToAsk, Protos, Ends
  <1> QED
    BY <1>1, <1>2, <1>3 DEF AfterRecv, Protos

(* The next message is one of the server's (protocols.rs:87).              *)
LEMMA NextIsWritten ==
  ASSUME Typed, inbox \in Seq(ServerMessages), Aligned, bytes >= 2
  PROVE  /\ Handled + 1 \in 1..Len(inbox)
         /\ NextMessage = inbox[Handled + 1] /\ NextMessage \in ServerMessages
  <1>1. taken - bytes = 2 * Handled /\ Handled \in Nat
    BY Counting
  <1>2. Handled + 1 \in 1..Len(inbox)
    BY <1>1 DEF Typed
  <1>3. NextMessage = inbox[Handled + 1]
    BY DEF NextMessage, Handled, Pieces
  <1> QED
    BY <1>2, <1>3

(* next takes the oldest block of the queue (blockfetch.rs:160).           *)
LEMMA Popping ==
  ASSUME Carried, proto.result # << >>, Pop
  PROVE  /\ proto' \in Protos /\ yielded' \in Seq(Blocks)
         /\ proto'.result = Tail(proto.result)
         /\ yielded' = Append(yielded, Head(proto.result))
         /\ proto'.state = proto.state /\ proto'.running = proto.running
         /\ proto'.done = proto.done
  <1>1. /\ proto.result \in Seq(Blocks) /\ Head(proto.result) \in Blocks
        /\ Tail(proto.result) \in Seq(Blocks)
    BY DEF Carried, Protos
  <1>2. proto' = [proto EXCEPT !.result = Tail(proto.result)]
    BY DEF Pop
  <1>3. yielded' = Append(yielded, Head(proto.result))
    BY DEF Pop
  <1>4. yielded' \in Seq(Blocks)
    BY <1>1, <1>3 DEF Carried
  <1>5. proto \in Protos
    BY DEF Carried
  <1>6. /\ proto' \in Protos /\ proto'.result = Tail(proto.result)
        /\ proto'.state = proto.state /\ proto'.running = proto.running
        /\ proto'.done = proto.done
    BY <1>1, <1>2, <1>5 DEF Protos
  <1> QED
    BY <1>3, <1>4, <1>6

LEMMA CarriedProgram ==
  ASSUME Typed, Carried, RunsInv,
         \/ Run \/ RunReturns \/ NextQueued \/ NextEmpty \/ NextReturns
         \/ DropStream \/ Done \/ DoneReturns \/ GiveUp
  PROVE  Carried' /\ RunsInv'
  <1> USE RequestCounts, BlockFetchAssumption
  <1>1. UNCHANGED <<inbox, outbox, srv, read>>
    BY DEF Run, RunReturns, NextQueued, NextEmpty, NextReturns, DropStream,
       Done, DoneReturns, GiveUp, Execute, Abandon, serverVars, clientVars
  <1>2. UNCHANGED <<Asked, Requests>>
    BY <1>1 DEF Asked, Requests
  <1>3. CASE Run \/ Done
    <2>1. /\ UNCHANGED <<yielded, abandons, sending>>
          /\ \/ /\ runs < MaxRuns /\ runs' = runs + 1
                /\ proto' = [proto EXCEPT !.running = TRUE]
             \/ /\ runs' = runs
                /\ proto' = [proto EXCEPT !.running = TRUE, !.done = TRUE]
      BY <1>3 DEF Run, Done, Execute
    <2>2. proto \in Protos /\ runs \in Nat
      BY DEF Carried
    <2>3. proto' \in Protos
      BY <2>1, <2>2 DEF Protos
    <2>4. runs' = runs => ~ToAsk(proto')
      <3>1. runs + 1 # runs
        BY <2>2
      <3>2. ASSUME proto' = [proto EXCEPT !.running = TRUE, !.done = TRUE]
            PROVE  ~ToAsk(proto')
        BY <2>2, <3>2 DEF Protos, ToAsk
      <3> QED
        BY <2>1, <3>1, <3>2
    <2>5. Carried'
      BY <1>1, <2>1, <2>3 DEF Carried
    <2>6. RunsInv'
      BY <1>1, <1>2, <2>1, <2>2, <2>4 DEF RunsInv
    <2> QED
      BY <2>5, <2>6
  <1>4. CASE RunReturns \/ DropStream \/ DoneReturns
    <2>1. UNCHANGED <<proto, yielded, runs, abandons, sending>>
      BY <1>4 DEF RunReturns, DropStream, DoneReturns, clientVars
    <2> QED
      BY <1>1, <1>2, <2>1 DEF Carried, RunsInv
  <1>5. CASE NextQueued \/ NextReturns
    <2>1. /\ UNCHANGED <<runs, abandons, sending>>
          /\ UNCHANGED <<proto, yielded>> \/ (Pop /\ proto.result # << >>)
      <3>1. CASE NextQueued
        BY <3>1 DEF NextQueued
      <3>2. CASE NextReturns
        BY <3>2 DEF NextReturns
      <3> QED
        BY <1>5, <3>1, <3>2
    <2>2. /\ proto' \in Protos /\ yielded' \in Seq(Blocks)
          /\ ToAsk(proto') <=> ToAsk(proto)
      BY <2>1, Popping DEF Carried, ToAsk
    <2> QED
      BY <1>1, <1>2, <2>1, <2>2 DEF Carried, RunsInv
  <1>6. CASE NextEmpty
    <2>1. /\ UNCHANGED <<yielded, runs, abandons, sending>>
          /\ \/ proto' = proto
             \/ /\ proto.state = "Streaming"
                /\ proto' = [proto EXCEPT !.running = TRUE]
      BY <1>6 DEF NextEmpty, Execute
    <2>2. proto' \in Protos /\ (proto' # proto => ~ToAsk(proto'))
      BY <2>1 DEF Carried, Protos, ToAsk
    <2> QED
      BY <1>1, <1>2, <2>1, <2>2 DEF Carried, RunsInv
  <1>7. CASE GiveUp
    <2>1. /\ UNCHANGED <<proto, yielded, runs>> /\ sending' = << >>
          /\ abandons < MaxAbandons /\ abandons' = abandons + 1
      BY <1>7 DEF GiveUp, Abandon
    <2>2. sending' # <<"RequestRange">>
      BY <2>1
    <2>3. abandons' \in Nat /\ abandons' <= MaxAbandons
      BY <2>1 DEF Carried
    <2> QED
      BY <1>1, <1>2, <2>1, <2>2, <2>3 DEF Carried, RunsInv
  <1> QED
    BY <1>3, <1>4, <1>5, <1>6, <1>7

LEMMA CarriedClient ==
  ASSUME Typed, Carried, RunsInv, Client
  PROVE  Carried' /\ RunsInv'
  <1> USE RequestCounts
  <1>0. UNCHANGED <<yielded, runs, abandons, srv, read>>
    BY DEF Client, userVars, serverVars
  <1>1. CASE SendBytes
    <2>1. UNCHANGED <<inbox, outbox>> /\ UNCHANGED <<Asked, Requests>>
      BY <1>0, <1>1 DEF SendBytes, Asked, Requests
    <2>2. proto.running /\ proto.state = "Idle"
      BY <1>1, Agencies DEF SendBytes, Typed
    <2>3. /\ proto' = [proto EXCEPT !.state = IF proto.done THEN "Done" ELSE "Busy"]
          /\ sending' = <<IF proto.done THEN "ClientDone" ELSE "RequestRange">>
      BY <1>1, <2>2 DEF SendBytes, CanSend, AfterSend, ToSend
    <2>4. /\ proto' \in Protos /\ ~ToAsk(proto')
          /\ sending' = <<"RequestRange">> => ToAsk(proto)
      BY <2>2, <2>3 DEF Carried, Protos, ToAsk
    <2> QED
      BY <1>0, <2>1, <2>4 DEF Carried, RunsInv
  <1>2. CASE Sent
    <2>1. /\ UNCHANGED <<proto, inbox>>
          /\ outbox' = outbox \o sending /\ sending' = << >>
      BY <1>2 DEF Sent
    <2>2. /\ Asked' = Asked + IF sending = <<"RequestRange">> THEN 1 ELSE 0
          /\ Requests' = Requests
      <3> DEFINE R == {"RequestRange", "ClientDone"}
      <3>1. outbox \in Seq(R) /\ read \in 0..Len(outbox)
        BY DEF Typed
      <3>2. CASE sending = << >>
        <4>1. outbox' = outbox
          BY <2>1, <3>1, <3>2
        <4>2. sending # <<"RequestRange">>
          BY <3>2
        <4> QED
          BY <1>0, <4>1, <4>2 DEF Asked, Requests
      <3>3. ASSUME NEW x \in R, sending = <<x>>
            PROVE  /\ Asked' = Asked + IF x = "RequestRange" THEN 1 ELSE 0
                   /\ Requests' = Requests
        <4>1. outbox' = Append(outbox, x)
          BY <2>1, <3>1, <3>3
        <4>2. /\ AmongFirst(read, Append(outbox, x), {"RequestRange"})
                   = AmongFirst(read, outbox, {"RequestRange"})
              /\ Among(Append(outbox, x), {"RequestRange"})
                   = IF x \in {"RequestRange"}
                       THEN Append(Among(outbox, {"RequestRange"}), x)
                       ELSE Among(outbox, {"RequestRange"})
          BY <3>1, AmongAppend
        <4>3. Among(outbox, {"RequestRange"}) \in Seq(R \cap {"RequestRange"})
          <5>1. Len(outbox) \in 0..Len(outbox)
            BY <3>1
          <5> QED
            BY <3>1, <5>1, AmongType DEF Among
        <4>4. Len(Append(Among(outbox, {"RequestRange"}), x))
                = Len(Among(outbox, {"RequestRange"})) + 1
          BY <4>3
        <4> QED
          BY <1>0, <4>1, <4>2, <4>4 DEF Asked, Requests
      <3>4. sending = << >> \/ \E x \in R : sending = <<x>>
        BY DEF Typed
      <3>5. \A x \in R : sending = <<x>> =>
              (sending = <<"RequestRange">> <=> x = "RequestRange")
        OBVIOUS
      <3> QED
        BY <3>2, <3>3, <3>4, <3>5
    <2>3. sending' # <<"RequestRange">>
      BY <2>1
    <2> QED
      BY <1>0, <2>1, <2>2, <2>3 DEF Carried, RunsInv
  <1>3. CASE AwaitFrame \/ RecvFrame \/ Parsed
    <2>1. UNCHANGED <<proto, sending, inbox, outbox>>
      BY <1>3 DEF AwaitFrame, RecvFrame, Parsed
    <2> QED
      BY <1>0, <2>1 DEF Carried, RunsInv, Asked, Requests
  <1>4. CASE HandleMessage \/ Misparse
    <2>1. /\ UNCHANGED <<sending, inbox, outbox>>
          /\ \/ proto' = proto
             \/ \E m \in ServerMessages : proto' = AfterRecv(proto, m)
      <3>1. CASE HandleMessage
        <4>1. Aligned /\ bytes >= 2
          BY <3>1 DEF HandleMessage, Complete, Pieces
        <4>2. NextMessage \in ServerMessages
          BY <4>1, NextIsWritten DEF Carried
        <4> QED
          BY <3>1, <4>2 DEF HandleMessage
      <3>2. CASE Misparse
        BY <3>2 DEF Misparse
      <3> QED
        BY <1>4, <3>1, <3>2
    <2>2. proto' \in Protos /\ (proto' # proto => ~ToAsk(proto'))
      BY <2>1, CarriedRecv DEF Carried
    <2>3. UNCHANGED <<Asked, Requests>>
      BY <1>0, <2>1 DEF Asked, Requests
    <2> QED
      BY <1>0, <2>1, <2>2, <2>3 DEF Carried, RunsInv
  <1> QED
    BY <1>1, <1>2, <1>3, <1>4 DEF Client, Drive

LEMMA CarriedServer ==
  ASSUME Typed, Carried, RunsInv,
         ServerRead \/ ServerRefuses \/ ServerStarts \/ ServerSendsBlock \/ ServerEnds
  PROVE  Carried' /\ RunsInv'
  <1> USE RequestCounts, BlockFetchAssumption
  <1>0. UNCHANGED <<proto, sending, outbox, yielded, runs, abandons, Asked>>
    BY DEF ServerRead, ServerRefuses, ServerStarts, ServerSendsBlock,
       ServerEnds, Write, clientVars, userVars, Asked
  <1>1. CASE ServerRead
    <2>1. /\ read < Len(outbox) /\ read' = read + 1 /\ inbox' = inbox
          /\ srv' = IF outbox[read + 1] = "RequestRange" THEN "Busy" ELSE "Done"
      BY <1>1 DEF ServerRead
    <2>2. outbox[read + 1] = "RequestRange" => Requests' >= 1
      <3> DEFINE A(n) == AmongFirst(n, outbox, {"RequestRange"})
                 R == {"RequestRange", "ClientDone"}
      <3>1. outbox \in Seq(R) /\ read \in 0..(Len(outbox) - 1) /\ read \in 0..Len(outbox)
        BY <2>1 DEF Typed
      <3>2. outbox[read + 1] = "RequestRange" =>
              A(read + 1) = Append(A(read), outbox[read + 1])
        BY <3>1, AmongNext
      <3>3. A(read) \in Seq(R \cap {"RequestRange"})
        BY <3>1, AmongType
      <3>4. Requests' = Len(A(read + 1)) /\ Requests = Len(A(read))
        BY <1>0, <2>1 DEF Requests
      <3> HIDE DEF A, R
      <3>5. Len(Append(A(read), outbox[read + 1])) = Len(A(read)) + 1
        BY <3>3
      <3> QED
        BY <3>2, <3>4, <3>5
    <2> QED
      BY <1>0, <2>1, <2>2 DEF Carried, RunsInv
  <1>2. ASSUME NEW m \in ServerMessages, Write(m), read' = read,
               srv' \in {"Busy", "Streaming"} => srv \in {"Busy", "Streaming"}
        PROVE  Carried' /\ RunsInv'
    <2>1. inbox' \in Seq(ServerMessages)
      BY <1>2 DEF Write, Carried
    <2>2. Requests' = Requests
      BY <1>0, <1>2 DEF Requests
    <2> QED
      BY <1>0, <1>2, <2>1, <2>2 DEF Carried, RunsInv
  <1>3. CASE ServerRefuses \/ ServerStarts \/ ServerEnds
    BY <1>2, <1>3 DEF ServerRefuses, ServerStarts, ServerEnds, ServerMessages
  <1>4. CASE ServerSendsBlock
    <2> DEFINE b == <<Requests, InBatch + 1>>
    <2>1. Requests >= 1 /\ Requests <= MaxRuns
      BY <1>4 DEF ServerSendsBlock, RunsInv, Carried
    <2>2. InBatch \in Nat
      <3>1. inbox \in Seq(ServerMessages) /\ Len(inbox) \in 0..Len(inbox)
        BY DEF Carried
      <3>2. Among(inbox, Batch) \in Seq(ServerMessages \cap Batch)
        BY <3>1, AmongType DEF Among
      <3> QED
        BY <3>2 DEF InBatch
    <2>3. InBatch + 1 \in 1..MaxBlocks
      BY <1>4, <2>2 DEF ServerSendsBlock
    <2>4. b \in Blocks
      BY <2>1, <2>3 DEF Blocks
    <2>5. Block(b) \in ServerMessages
      BY <2>4 DEF ServerMessages, BlockMessages
    <2> QED
      BY <1>2, <1>4, <2>5 DEF ServerSendsBlock, serverVars
  <1> QED
    BY <1>1, <1>3, <1>4
LEMMA CarriedStep ==
  Typed /\ Carried /\ RunsInv /\ [Next]_vars => Carried' /\ RunsInv'
  <1> SUFFICES ASSUME Typed, Carried, RunsInv, [Next]_vars
               PROVE  Carried' /\ RunsInv'
    OBVIOUS
  <1>1. CASE UNCHANGED vars
    BY <1>1 DEF Carried, RunsInv, Asked, Requests, vars, clientVars, userVars,
       serverVars
  <1> QED
    BY <1>1, CarriedProgram, CarriedClient, CarriedServer DEF Next

-----------------------------------------------------------------------------
(***************************************************************************)
(* The order of the blocks, until a part of a message is lost: those that  *)
(* next returned and those queued are those of the messages handled.       *)
(***************************************************************************)
BlocksHandled == BlocksOf(AmongFirst(Handled, inbox, BlockMessages))

QueueInv ==
  /\ yielded \o proto.result = BlocksHandled
  /\ call = "next" /\ ~proto.running /\ proto.result = << >> =>
       proto.state = "Idle"

(* The oldest of a queue goes behind what was taken before.                *)
LEMMA Taking ==
  ASSUME NEW B, NEW y \in Seq(B), NEW r \in Seq(B), r # << >>
  PROVE  Append(y, Head(r)) \o Tail(r) = y \o r
OBVIOUS

(* What is queued goes behind all there was.                               *)
LEMMA Queueing ==
  ASSUME NEW B, NEW y \in Seq(B), NEW r \in Seq(B), NEW b \in B
  PROVE  y \o Append(r, b) = Append(y \o r, b)
OBVIOUS

LEMMA BlocksOfList ==
  ASSUME NEW S, NEW s \in Seq(S), NEW m \in S
  PROVE  /\ BlocksOf(Append(s, m)) = Append(BlocksOf(s), m.block)
         /\ Len(BlocksOf(s)) = Len(s)
         /\ \A k \in 1..Len(s) : BlocksOf(s)[k] = s[k].block
  <1>1. /\ Len(Append(s, m)) = Len(s) + 1 /\ Len(s) \in Nat
        /\ Append(s, m)[Len(s) + 1] = m
        /\ \A k \in 1..Len(s) : Append(s, m)[k] = s[k]
    OBVIOUS
  <1> DEFINE B == { x.block : x \in S }
  <1>2. BlocksOf(s) \in Seq(B) /\ m.block \in B
    BY <1>1 DEF BlocksOf
  <1>3. Len(BlocksOf(s)) = Len(s) /\ \A k \in 1..Len(s) : BlocksOf(s)[k] = s[k].block
    BY <1>1 DEF BlocksOf
  <1> HIDE DEF B
  <1>4. /\ Append(BlocksOf(s), m.block) \in Seq(B)
        /\ Len(Append(BlocksOf(s), m.block)) = Len(s) + 1
        /\ Append(BlocksOf(s), m.block)[Len(s) + 1] = m.block
        /\ \A k \in 1..Len(s) : Append(BlocksOf(s), m.block)[k] = s[k].block
    BY <1>1, <1>2, <1>3
  <1>5. Append(BlocksOf(s), m.block)
          = [k \in 1..(Len(s) + 1) |-> Append(BlocksOf(s), m.block)[k]]
    BY <1>4
  <1>6. \A k \in 1..(Len(s) + 1) :
          Append(s, m)[k].block = Append(BlocksOf(s), m.block)[k]
    BY <1>1, <1>4
  <1>7. BlocksOf(Append(s, m)) = Append(BlocksOf(s), m.block)
    BY <1>1, <1>5, <1>6 DEF BlocksOf
  <1> QED
    BY <1>3, <1>7

(* A step that neither handles a message nor takes from the queue.         *)
LEMMA QueueUnmoved ==
  ASSUME QueueInv, Handled' = Handled, inbox' = inbox, yielded' = yielded,
         proto'.result = proto.result,
         \/ call' # "next" \/ proto'.running
         \/ UNCHANGED <<call, proto>>
  PROVE  QueueInv'
  <1>1. BlocksHandled' = BlocksHandled
    BY DEF BlocksHandled
  <1> QED
    BY <1>1 DEF QueueInv

LEMMA QueueProgram ==
  ASSUME Typed, Carried, ProgramInv, ProtocolInv, QueueInv, ~hurt',
         \/ Run \/ RunReturns \/ NextQueued \/ NextEmpty \/ NextReturns
         \/ DropStream \/ Done \/ DoneReturns \/ GiveUp
  PROVE  QueueInv'
  <1>0. proto \in Protos
    BY DEF Carried
  <1>1. CASE Run \/ Done \/ NextEmpty
    <2>1. /\ UNCHANGED <<taken, bytes, inbox, yielded>>
          /\ \/ proto' = [proto EXCEPT !.running = TRUE]
             \/ proto' = [proto EXCEPT !.running = TRUE, !.done = TRUE]
             \/ UNCHANGED <<call, proto>>
      BY <1>1 DEF Run, Done, NextEmpty, Execute
    <2>2. /\ proto'.result = proto.result
          /\ proto'.running \/ UNCHANGED <<call, proto>>
      BY <1>0, <2>1 DEF Protos
    <2> QED
      BY <2>1, <2>2, QueueUnmoved DEF Handled
  <1>2. CASE RunReturns \/ DoneReturns \/ DropStream
    <2>1. UNCHANGED <<taken, bytes, inbox, yielded, proto>> /\ call' # "next"
      BY <1>2 DEF RunReturns, DoneReturns, DropStream, clientVars
    <2> QED
      BY <2>1, QueueUnmoved DEF Handled
  <1>3. CASE GiveUp
    <2>1. exec = "await" /\ ~(bytes > 0)
      BY <1>3, Zenon DEF GiveUp, Abandon, ProgramInv
    <2>2. bytes = 0 /\ bytes' = 0
      BY <1>3, <2>1 DEF GiveUp, Abandon, Typed
    <2>3. UNCHANGED <<proto, taken, inbox, yielded>> /\ call' # "next"
      BY <1>3 DEF GiveUp, Abandon
    <2> QED
      BY <2>2, <2>3, QueueUnmoved DEF Handled
  <1>4. CASE NextQueued \/ NextReturns
    <2>1. /\ UNCHANGED <<taken, bytes, inbox>> /\ call' = "none"
          /\ UNCHANGED <<proto, yielded>> \/ (Pop /\ proto.result # << >>)
      <3>1. CASE NextQueued
        BY <3>1 DEF NextQueued
      <3>2. CASE NextReturns
        BY <3>2 DEF NextReturns
      <3> QED
        BY <1>4, <3>1, <3>2
    <2>2. CASE UNCHANGED <<proto, yielded>>
      BY <2>1, <2>2, QueueUnmoved DEF Handled
    <2>3. CASE Pop /\ proto.result # << >>
      <3>1. /\ proto'.result = Tail(proto.result)
            /\ yielded' = Append(yielded, Head(proto.result))
        BY <2>3, Popping
      <3>2. yielded \in Seq(Blocks) /\ proto.result \in Seq(Blocks)
        BY <1>0 DEF Carried, Protos
      <3>3. yielded' \o proto'.result = yielded \o proto.result
        BY <2>3, <3>1, <3>2, Taking
      <3>4. BlocksHandled' = BlocksHandled
        BY <2>1 DEF BlocksHandled, Handled
      <3> QED
        BY <2>1, <3>3, <3>4 DEF QueueInv
    <2> QED
      BY <2>1, <2>2, <2>3
  <1> QED
    BY <1>1, <1>2, <1>3, <1>4

(* A message handled adds its block, if it carries one, to the queue       *)
(* (blockfetch.rs:229).                                                    *)
LEMMA QueueMessage ==
  ASSUME Typed, Carried, Ordered, ProgramInv, ProtocolInv, QueueInv, Client,
         HandleMessage
  PROVE  QueueInv'
  <1> DEFINE m == NextMessage
  <1>1. /\ bytes >= 2 /\ bytes' = bytes - 2 /\ Aligned
        /\ UNCHANGED <<taken, inbox, yielded, call>>
    BY DEF HandleMessage, Complete, Pieces, Client, userVars
  <1>2. /\ Handled + 1 \in 1..Len(inbox) /\ m = inbox[Handled + 1]
        /\ m \in ServerMessages
    BY <1>1, NextIsWritten DEF Carried
  <1>3. /\ Handled \in Nat /\ Handled' = Handled + 1
    <2>1. /\ Handled \in Nat /\ taken - bytes = 2 * Handled
          /\ taken \in Nat /\ bytes \in Nat
      BY <1>1, Counting DEF Typed
    <2>2. taken' - bytes' = 2 * (Handled + 1)
      BY <1>1, <2>1
    <2>3. (2 * (Handled + 1)) \div 2 = Handled + 1
      BY <2>1
    <2> QED
      BY <2>1, <2>2, <2>3 DEF Handled
  <1>4. Accepts(proto, m) /\ proto' = AfterRecv(proto, m)
    <2>1. exec' # "panicked"
      BY MessageKeeps DEF ProgramInv
    <2> QED
      BY <2>1 DEF HandleMessage
  <1>5. /\ proto'.result = IF m.type = "Block" THEN Append(proto.result, m.block)
                                               ELSE proto.result
        /\ proto'.state = IF Ends(m) THEN "Idle" ELSE "Streaming"
        /\ proto \in Protos
    <2>1. proto \in Protos
      BY DEF Carried
    <2>2. DOMAIN proto = {"state", "running", "done", "result"} /\ proto.running \in BOOLEAN
      BY DEF Typed
    <2>3. m.type \in Types
      BY <1>2, BlockTypes
    <2> QED
      BY <1>2, <1>4, <2>1, <2>2, <2>3, CarriedRecv, Receiving
  <1>6. yielded \in Seq(Blocks) /\ proto.result \in Seq(Blocks)
    BY <1>5 DEF Carried, Protos
  <1>7. BlocksHandled' = IF m.type = "Block" THEN Append(BlocksHandled, m.block)
                                             ELSE BlocksHandled
    <2> DEFINE A(k) == AmongFirst(k, inbox, BlockMessages)
    <2>1. inbox \in Seq(ServerMessages) /\ Handled \in 0..(Len(inbox) - 1)
          /\ Handled \in 0..Len(inbox)
      BY <1>2, <1>3 DEF Carried
    <2>2. A(Handled + 1) = IF m \in BlockMessages THEN Append(A(Handled), m)
                                                  ELSE A(Handled)
      BY <1>2, <2>1, AmongNext
    <2>3. A(Handled) \in Seq(ServerMessages \cap BlockMessages)
      BY <2>1, AmongType
    <2>4. m.type = "Block" <=> m \in BlockMessages
      BY <1>2, BlockTypes
    <2>5. m \in BlockMessages =>
            BlocksOf(Append(A(Handled), m)) = Append(BlocksOf(A(Handled)), m.block)
      <3> HIDE DEF A
      <3>1. m \in BlockMessages => m \in ServerMessages \cap BlockMessages
        BY <1>2
      <3> QED
        BY <2>3, <3>1, BlocksOfList
    <2>6. BlocksHandled' = BlocksOf(A(Handled + 1)) /\ BlocksHandled = BlocksOf(A(Handled))
      BY <1>1, <1>3 DEF BlocksHandled
    <2> QED
      BY <2>2, <2>4, <2>5, <2>6
  <1>8. yielded' \o proto'.result = BlocksHandled'
    <2>1. CASE m.type = "Block"
      <3>1. m.block \in Blocks
        BY <1>2, <2>1, BlockTypes
      <3>2. yielded \o Append(proto.result, m.block)
              = Append(yielded \o proto.result, m.block)
        BY <1>6, <3>1, Queueing
      <3> QED
        BY <1>1, <1>5, <1>7, <2>1, <3>2 DEF QueueInv
    <2>2. CASE m.type # "Block"
      BY <1>1, <1>5, <1>7, <2>2 DEF QueueInv
    <2> QED
      BY <2>1, <2>2
  <1>9. ASSUME call' = "next", proto'.result = << >> PROVE proto'.state = "Idle"
    <2>1. m.type # "Block"
      <3>1. m.type = "Block" => m.block \in Blocks
        BY <1>2, BlockTypes
      <3>2. m.type = "Block" => Append(proto.result, m.block) # << >>
        BY <1>6, <3>1
      <3> QED
        BY <1>5, <1>9, <3>2
    <2>2. proto.state \in {"Idle", "Streaming"}
      BY <1>1, <1>9 DEF ProgramInv
    <2>3. Ends(m)
      BY <1>4, <2>1, <2>2 DEF Accepts, Ends
    <2> QED
      BY <1>5, <2>3
  <1> QED
    BY <1>8, <1>9 DEF QueueInv

LEMMA QueueClient ==
  ASSUME Typed, Carried, Ordered, ProgramInv, ProtocolInv, QueueInv, Client
  PROVE  QueueInv'
  <1>0. UNCHANGED <<call, yielded>> /\ proto \in Protos
    BY DEF Client, userVars, Carried
  <1>1. CASE SendBytes
    <2>1. proto.running /\ proto.state = "Idle"
      BY <1>1, Agencies DEF SendBytes, Typed
    <2>2. UNCHANGED <<taken, bytes, inbox>> /\ proto' = AfterSend(proto)
      BY <1>1, <2>1 DEF SendBytes, CanSend
    <2>3. proto'.result = proto.result /\ proto'.running
      BY <1>0, <2>1, <2>2 DEF AfterSend, Protos
    <2> QED
      BY <1>0, <2>2, <2>3, QueueUnmoved DEF Handled
  <1>2. CASE Sent \/ AwaitFrame \/ Parsed
    <2>1. UNCHANGED <<taken, bytes, inbox, proto>>
      BY <1>2 DEF Sent, AwaitFrame, Parsed
    <2> QED
      BY <1>0, <2>1, QueueUnmoved DEF Handled
  <1>3. CASE RecvFrame
    <2>1. UNCHANGED <<inbox, proto>>
      BY <1>3 DEF RecvFrame
    <2>2. PICK n \in 1..(2 * Len(inbox) - taken) :
            taken' = taken + n /\ bytes' = bytes + n
      BY <1>3 DEF RecvFrame, Pieces
    <2>3. taken' - bytes' = taken - bytes
      BY <2>2, Counting DEF Typed
    <2> QED
      BY <1>0, <2>1, <2>3, QueueUnmoved DEF Handled
  <1>4. CASE HandleMessage
    BY <1>4, QueueMessage
  <1>5. CASE Misparse
    BY <1>5 DEF Misparse, ProtocolInv
  <1> QED
    BY <1>1, <1>2, <1>3, <1>4, <1>5 DEF Client, Drive

LEMMA QueueServer ==
  ASSUME Typed, Carried, QueueInv, Carried',
         ServerRead \/ ServerRefuses \/ ServerStarts \/ ServerSendsBlock \/ ServerEnds
  PROVE  QueueInv'
  <1>1. CASE ServerRead
    BY <1>1, QueueUnmoved DEF ServerRead, clientVars, userVars, Handled
  <1>2. ASSUME NEW m, Write(m) PROVE QueueInv'
    <2>1. /\ inbox' = Append(inbox, m)
          /\ UNCHANGED <<proto, taken, bytes, call, yielded>>
      BY <1>2 DEF Write, clientVars, userVars
    <2>2. inbox \in Seq(ServerMessages \cup {m}) /\ m \in ServerMessages \cup {m}
      BY DEF Carried
    <2>3. Handled \in 0..Len(inbox) /\ Handled' = Handled
      BY <2>1, Counting DEF Handled
    <2>4. AmongFirst(Handled, Append(inbox, m), BlockMessages)
            = AmongFirst(Handled, inbox, BlockMessages)
      BY <2>2, <2>3, AmongAppend
    <2>5. BlocksHandled' = BlocksHandled
      BY <2>1, <2>3, <2>4 DEF BlocksHandled
    <2> QED
      BY <2>1, <2>5 DEF QueueInv
  <1>3. CASE ServerRefuses \/ ServerStarts \/ ServerEnds \/ ServerSendsBlock
    BY <1>2, <1>3 DEF ServerRefuses, ServerStarts, ServerEnds, ServerSendsBlock
  <1> QED
    BY <1>1, <1>3

(***************************************************************************)
(* All of it together.                                                     *)
(***************************************************************************)
FetchInv == BInv /\ Carried /\ RunsInv /\ (~hurt => QueueInv)

LEMMA FetchStarts == Init => FetchInv
  <1> SUFFICES ASSUME Init PROVE Carried /\ RunsInv /\ QueueInv
    BY BlockFetchStarts DEF FetchInv
  <1>1. /\ proto = [state |-> "Idle", running |-> FALSE, done |-> FALSE,
                    result |-> << >>]
        /\ sending = << >> /\ taken = 0 /\ bytes = 0
        /\ inbox = << >> /\ outbox = << >> /\ yielded = << >>
        /\ call = "none" /\ srv = "Idle" /\ read = 0 /\ runs = 0 /\ abandons = 0
    BY DEF Init, DriverInit
  <1>2. Carried
    <2>1. << >> \in Seq(Blocks) /\ << >> \in Seq(ServerMessages)
      OBVIOUS
    <2>2. proto \in Protos
      BY <1>1, <2>1 DEF Protos
    <2> QED
      BY <1>1, <2>1, <2>2, BlockFetchAssumption DEF Carried
  <1>3. \A S, T : AmongFirst(0, << >>, T) = << >>
    <2> SUFFICES ASSUME NEW T PROVE AmongFirst(0, << >>, T) = << >>
      OBVIOUS
    <2>1. << >> \in Seq({})
      OBVIOUS
    <2> QED
      BY <2>1, AmongNext
  <1>4. RunsInv
    <2>1. Asked = 0
      <3>1. Len(outbox) = 0 /\ Len(<< >>) = 0
        BY <1>1
      <3> QED
        BY <1>1, <1>3, <3>1 DEF Asked, Among
    <2>2. sending # <<"RequestRange">> /\ ~ToAsk(proto)
      BY <1>1 DEF ToAsk
    <2> QED
      BY <1>1, <2>1, <2>2 DEF RunsInv
  <1>5. QueueInv
    <2>1. Handled = 0
      BY <1>1 DEF Handled
    <2>2. BlocksHandled = << >>
      BY <1>1, <1>3, <2>1 DEF BlocksHandled, BlocksOf
    <2>3. yielded \o proto.result = << >>
      BY <1>1
    <2> QED
      BY <1>1, <2>2, <2>3 DEF QueueInv
  <1> QED
    BY <1>2, <1>4, <1>5

LEMMA FetchStep == FetchInv /\ [Next]_vars => FetchInv'
  <1> SUFFICES ASSUME FetchInv, [Next]_vars PROVE FetchInv'
    OBVIOUS
  <1>1. BInv' /\ Typed /\ Carried /\ RunsInv /\ Carried' /\ RunsInv'
    BY BlockFetchStep, CarriedStep DEF FetchInv, BInv
  <1>2. ASSUME ~hurt' PROVE QueueInv'
    <2>1. Ordered /\ ProgramInv /\ ProtocolInv /\ QueueInv
      BY <1>2, HurtStays DEF FetchInv, BInv
    <2>2. CASE UNCHANGED vars
      <3>1. UNCHANGED <<proto, taken, bytes, inbox, call, yielded>>
        BY <2>2 DEF vars, clientVars, userVars
      <3> QED
        BY <2>1, <3>1, QueueUnmoved DEF Handled
    <2> QED
      BY <1>1, <1>2, <2>1, <2>2, QueueProgram, QueueClient, QueueServer DEF Next
  <1> QED
    BY <1>1, <1>2 DEF FetchInv

(* What was handled, what is queued and what was returned are the same     *)
(* blocks in the same order (blockfetch.rs:150-164, 219-238), until giving *)
(* up costs a part of a message.                                           *)
THEOREM FetchInvariant == Spec => []FetchInv
  <1>1. Init => FetchInv
    BY FetchStarts
  <1>2. FetchInv /\ [Next]_vars => FetchInv'
    BY FetchStep
  <1> QED
    BY <1>1, <1>2, PTL DEF Spec

(* The types of the client, its stream and its server.                     *)
THEOREM TypesSafe == Spec => []TypeOK
  <1>1. FetchInv => TypeOK
    <2> SUFFICES ASSUME Typed, Carried PROVE TypeOK
      BY DEF FetchInv, BInv
    <2>1. /\ taken \in 0..(Pieces * Len(inbox)) /\ bytes \in 0..taken
          /\ read \in 0..Len(outbox)
      BY Counting DEF Typed, Pieces
    <2>2. runs \in 0..MaxRuns /\ abandons \in 0..MaxAbandons
      BY BlockFetchAssumption DEF Carried
    <2> QED
      BY <2>1, <2>2 DEF TypeOK, Typed, Carried, Protos
  <1> QED
    BY <1>1, FetchInvariant, PTL

(* The blocks handled are the first of those written.                      *)
LEMMA HandledFirst ==
  ASSUME Typed, Carried
  PROVE  /\ IsPrefix(BlocksHandled, BlocksWritten)
         /\ AtEnd => BlocksHandled = BlocksWritten
  <1> DEFINE a == AmongFirst(Handled, inbox, BlockMessages)
             b == Among(inbox, BlockMessages)
             S == ServerMessages \cap BlockMessages
  <1>1. inbox \in Seq(ServerMessages) /\ Handled \in 0..Len(inbox)
        /\ Len(inbox) \in 0..Len(inbox)
    BY Counting DEF Carried
  <1>2. a \in Seq(S) /\ b \in Seq(S) /\ IsPrefix(a, b)
    BY <1>1, AmongType, AmongPrefix DEF Among
  <1>3. AtEnd => a = b
    BY DEF AtEnd, Among
  <1> HIDE DEF a, b, S
  <1>4. Len(a) \in Nat /\ Len(b) \in Nat /\ Len(a) <= Len(b)
    BY <1>2 DEF IsPrefix
  <1>5. \A k \in 1..Len(a) : a[k] = b[k]
    <2>1. SubSeq(a, 1, Len(a)) = SubSeq(b, 1, Len(a))
      BY <1>2 DEF IsPrefix
    <2>2. \A k \in 1..Len(a) :
            SubSeq(a, 1, Len(a))[k] = a[k] /\ SubSeq(b, 1, Len(a))[k] = b[k]
      BY <1>2, <1>4
    <2> QED
      BY <2>1, <2>2
  <1>6. \A q \in Seq(S) : /\ Len(BlocksOf(q)) = Len(q)
                          /\ BlocksOf(q) \in Seq({ x.block : x \in S })
                          /\ \A k \in 1..Len(q) : BlocksOf(q)[k] = q[k].block
    BY DEF BlocksOf
  <1>7. IsPrefix(BlocksOf(a), BlocksOf(b))
    <2>1. /\ Len(BlocksOf(a)) = Len(a) /\ Len(BlocksOf(b)) = Len(b)
          /\ BlocksOf(a) \in Seq({ x.block : x \in S })
          /\ BlocksOf(b) \in Seq({ x.block : x \in S })
          /\ \A k \in 1..Len(a) : BlocksOf(a)[k] = BlocksOf(b)[k]
      <3>1. /\ Len(BlocksOf(a)) = Len(a)
            /\ BlocksOf(a) \in Seq({ x.block : x \in S })
            /\ \A k \in 1..Len(a) : BlocksOf(a)[k] = a[k].block
        BY <1>2, <1>6, Zenon
      <3>2. /\ Len(BlocksOf(b)) = Len(b)
            /\ BlocksOf(b) \in Seq({ x.block : x \in S })
            /\ \A k \in 1..Len(b) : BlocksOf(b)[k] = b[k].block
        BY <1>2, <1>6, Zenon
      <3>3. \A k \in 1..Len(a) : k \in 1..Len(b)
        BY <1>4
      <3> QED
        BY <1>5, <3>1, <3>2, <3>3, Zenon
    <2> DEFINE p == BlocksOf(a)
               q == BlocksOf(b)
               B == { x.block : x \in S }
    <2>2. p \in Seq(B) /\ q \in Seq(B) /\ Len(p) <= Len(q)
          /\ \A k \in 1..Len(p) : p[k] = q[k]
      BY <1>4, <2>1
    <2> HIDE DEF p, q, B
    <2>3. SubSeq(p, 1, Len(p)) = SubSeq(q, 1, Len(p))
      BY <2>2
    <2> QED
      BY <2>2, <2>3 DEF p, q, IsPrefix
  <1> QED
    BY <1>3, <1>7 DEF BlocksHandled, BlocksWritten, a, b

(* The blocks that next returns are those the server wrote, in order, none *)
(* lost and none twice, over any number of streams and calls given up      *)
(* (blockfetch.rs:150-164, 229).                                           *)
THEOREM BlocksInOrderSafe == Spec => []BlocksInOrder
  <1>1. FetchInv => BlocksInOrder
    BY HandledFirst DEF FetchInv, BInv, QueueInv, BlocksInOrder
  <1> QED
    BY <1>1, FetchInvariant, PTL

(* None is returned at the end of a batch only, and all its blocks were    *)
(* returned before: at once, however often next is called, and when        *)
(* execute comes back to next with nothing (blockfetch.rs:150-164).        *)
THEOREM NoneMeansEndSafe == Spec => []NoneMeansEnd
  <1>1. FetchInv => NoneMeansEnd
    <2> SUFFICES ASSUME FetchInv, ReturnsNone, ~hurt
                 PROVE  srv = "Idle" /\ yielded = BlocksWritten
      BY DEF NoneMeansEnd
    <2>1. /\ Typed /\ Carried /\ ProgramInv /\ ProtocolInv /\ QueueInv
      BY DEF FetchInv, BInv
    <2>2. proto.result = << >>
      BY DEF ReturnsNone
    <2>3. proto.state = "Idle"
      <3>1. CASE NoneAtOnce
        BY <3>1 DEF NoneAtOnce
      <3>2. CASE NoneAfterExecute
        <4>1. call = "next" /\ (~proto.running \/ proto.state = "Done")
          BY <2>1, <3>2, Agencies DEF NoneAfterExecute, Executed, Typed
        <4> QED
          BY <2>1, <2>2, <4>1 DEF QueueInv, ProgramInv
      <3> QED
        BY <3>1, <3>2 DEF ReturnsNone
    <2>4. srv = "Idle" /\ AtEnd
      BY <2>1, <2>3 DEF ProtocolInv
    <2>5. yielded \o << >> = yielded
      BY <2>1 DEF Carried
    <2> QED
      BY <2>1, <2>2, <2>3, <2>4, <2>5, HandledFirst DEF QueueInv
  <1> QED
    BY <1>1, FetchInvariant, PTL
=============================================================================
