--------------------------- MODULE ChainSyncProof ---------------------------
(***************************************************************************)
(* Chain-sync for all lists of points and any number of calls, given up or *)
(* not: the types; until giving up costs a part of a message, the client   *)
(* writes to a server that waits for it; and in a program that gives no    *)
(* call up, each call gets the answer to its own request.                  *)
(*                                                                         *)
(* The invariant has three parts, one for each of these: what always       *)
(* holds, what holds while nothing was lost, and what holds while nothing  *)
(* was given up.  A second invariant follows the rolls from the messages   *)
(* to what request_next has returned.                                      *)
(***************************************************************************)
EXTENDS ChainSync, SelectionProof

Handled == (taken - bytes) \div 2
AtEnd == Handled = Len(inbox)
Served == read = Len(outbox)

(* A call writes at most one request, whatever is lost.                    *)
CountInv ==
  /\ inbox \in Seq(OfKind(OfServer))
  /\ sending # << >> <=> exec = "sending"
  /\ exec = "sending" => proto.state # "Idle" /\ Len(outbox) < calls
  /\ Len(outbox) <= calls
  /\ proto.state = "Idle" /\ proto.query # NoRequest => Len(outbox) < calls

Typed == TypeOK /\ CountInv

(* The request is being written, not read yet, not answered yet, or        *)
(* answered by the last message.                                           *)
Awaiting ==
  IF sending # << >>
    THEN Served /\ srv = "Idle" /\ AtEnd
    ELSE \/ read + 1 = Len(outbox) /\ srv = "Idle" /\ AtEnd
         \/ /\ Served /\ srv # "Idle"
            /\ \A k \in 1..Len(inbox) : k > Handled => ~Ends(inbox[k])
         \/ /\ Served /\ srv = "Idle" /\ ~AtEnd
            /\ Ends(inbox[Len(inbox)])
            /\ \A k \in 1..Len(inbox) :
                 k > Handled /\ Ends(inbox[k]) => k = Len(inbox)

ProtocolInv ==
  /\ Aligned
  /\ proto.state # "Done"
  /\ exec = "await" => proto.state # "Idle"
  /\ IF proto.state = "Idle" THEN AtEnd /\ Served /\ srv = "Idle"
                             ELSE Awaiting

(* What the server says and answers to a request.                          *)
Expected(request) ==
  IF request.type = "FindIntersect" THEN Intersections
                                    ELSE {"AwaitReply"} \cup Rolls
Turns(request) ==
  IF request.type = "FindIntersect" THEN {"Intersect"}
                                    ELSE {"CanAwait", "MustReply"}

Answered ==
  /\ proto.state = "Idle"
  /\ Len(outbox) = calls /\ outbox[calls] = call
  /\ IF call.type = "FindIntersect"
       THEN /\ proto.intersect # NoReply /\ proto.intersect.to = calls
            /\ proto.reply = NoReply
       ELSE /\ proto.reply # NoReply /\ proto.reply.to = calls
            /\ proto.intersect = NoReply

Asked ==
  /\ proto.intersect = NoReply /\ proto.reply = NoReply
  /\ proto.state = "Idle" => Len(outbox) = Len(answers)
  /\ sending # << >> => sending = <<call>> /\ Len(outbox) = Len(answers)
  /\ proto.state # "Idle" /\ sending = << >> =>
       Len(outbox) = calls /\ outbox[calls] = call
  /\ srv # "Idle" => srv \in Turns(call)
  /\ \A k \in 1..Len(inbox) :
       k > Handled => inbox[k].type \in Expected(call) /\ inbox[k].to = calls

CallInv ==
  /\ ~hurt
  /\ exec # "panicked"
  /\ exec = "idle" <=> call = NoRequest
  /\ Len(answers) = (IF call = NoRequest THEN calls ELSE calls - 1)
  /\ \A k \in 1..Len(answers) :
       /\ answers[k].got.to = k
       /\ k <= Len(outbox) /\ outbox[k] = answers[k].asked
  /\ CASE call = NoRequest ->
            /\ proto.state = "Idle" /\ proto.query = NoRequest
            /\ Len(outbox) = calls
            /\ proto.intersect = NoReply /\ proto.reply = NoReply
       [] call # NoRequest /\ proto.query = NoRequest -> Answered
       [] call # NoRequest /\ proto.query # NoRequest ->
            proto.query = call /\ Asked

CInv ==
  /\ Typed
  /\ ~hurt => ProtocolInv
  /\ abandons = 0 => CallInv

-----------------------------------------------------------------------------
(***************************************************************************)
(* Facts about the operators.                                              *)
(***************************************************************************)
(* What a request is, and that none is no request.                         *)
LEMMA RequestTypes ==
  /\ NoRequest \notin Requests
  /\ \A r \in Requests : r.type \in {"FindIntersect", "RequestNext"}
  /\ Request("RequestNext", NoPoints) \in Requests
  /\ \A ps \in Points : Request("FindIntersect", ps) \in Requests
  <1>1. \A r \in Requests : r.type \in {"FindIntersect", "RequestNext"}
    BY DEF Requests, Request
  <1>2. NoRequest.type = "none"
    BY DEF NoRequest, Request
  <1>3. NoRequest \notin Requests
    BY <1>1, <1>2
  <1>4. /\ Request("RequestNext", NoPoints) \in Requests
        /\ \A ps \in Points : Request("FindIntersect", ps) \in Requests
    BY DEF Requests
  <1> QED
    BY <1>1, <1>3, <1>4

(* What the server writes.                                                 *)
LEMMA ReplyTypes ==
  /\ \A m \in OfKind(OfServer) :
       /\ m.type \in OfServer /\ m.to \in 0..MaxCalls
       /\ m \in Replies
       /\ m.type \in Rolls => m \in OfKind(Rolls)
       /\ m.type \in Intersections => m \in OfKind(Intersections)
  /\ \A type \in OfServer, to \in 0..MaxCalls : Reply(type, to) \in OfKind(OfServer)
BY DEF OfKind, Reply, Replies, OfServer

(* What misplaced bytes may be taken for.                                  *)
LEMMA MisreadTypes ==
  \A type \in OfServer \cup OfClient :
    /\ Reply(type, 0).type \in OfServer \cup OfClient
    /\ type \in Rolls => Reply(type, 0) \in OfKind(Rolls)
    /\ type \in Intersections => Reply(type, 0) \in OfKind(Intersections)
  <1>1. 0 \in 0..MaxCalls
    BY ChainSyncAssumption
  <1> QED
    BY <1>1 DEF OfKind, Reply

(* No answer is mistaken for none.                                         *)
LEMMA NoReplyIsNone ==
  /\ \A m \in OfKind(Rolls) : m # NoReply /\ m \in Replies /\ m.type \in Rolls
  /\ \A m \in OfKind(Intersections) :
       m # NoReply /\ m \in Replies /\ m.type \in Intersections
BY DEF OfKind, Reply, NoReply, Replies, OfServer, Rolls, Intersections

(* The messages handled are counted in pairs of pieces (protocols.rs:87).  *)
LEMMA Counting ==
  ASSUME Typed
  PROVE  /\ Handled \in Nat /\ Handled <= Len(inbox)
         /\ Aligned => taken - bytes = 2 * Handled
         /\ Len(inbox) \in Nat /\ Len(outbox) \in Nat /\ Len(answers) \in Nat
         /\ taken \in Nat /\ bytes \in Nat /\ bytes <= taken
         /\ taken <= 2 * Len(inbox)
         /\ read \in Nat /\ read <= Len(outbox) /\ calls \in Nat
  <1>1. /\ inbox \in Seq(Replies) /\ outbox \in Seq(Requests)
        /\ answers \in Seq([asked : Requests, got : Replies])
        /\ taken \in 0..(2 * Len(inbox)) /\ bytes \in 0..taken
        /\ read \in 0..Len(outbox) /\ calls \in 0..MaxCalls
    BY DEF Typed, TypeOK, Pieces
  <1>2. Len(inbox) \in Nat /\ Len(outbox) \in Nat /\ Len(answers) \in Nat
    BY <1>1
  <1>3. /\ taken \in Nat /\ bytes \in Nat /\ bytes <= taken
        /\ taken <= 2 * Len(inbox)
        /\ read \in Nat /\ read <= Len(outbox) /\ calls \in Nat
    BY <1>1, <1>2, ChainSyncAssumption
  <1>4. /\ Handled \in Nat /\ Handled <= Len(inbox)
        /\ Aligned => taken - bytes = 2 * Handled
    BY <1>2, <1>3 DEF Handled, Aligned, Pieces
  <1> QED
    BY <1>2, <1>3, <1>4

Protocol ==
  [state : {"Idle", "Intersect", "CanAwait", "MustReply", "Done"},
   query : Requests \cup {NoRequest},
   intersect : OfKind(Intersections) \cup {NoReply},
   reply : OfKind(Rolls) \cup {NoReply}]

(* Who may send (chainsync.rs:194-205).                                    *)
LEMMA Agencies ==
  ASSUME NEW p \in Protocol
  PROVE  /\ Agency(p) = "None" <=> p.query = NoRequest \/ p.state = "Done"
         /\ Agency(p) = "Client" <=> p.query # NoRequest /\ p.state = "Idle"
         /\ Agency(p) = "Server" <=>
              p.query # NoRequest /\ p.state \notin {"Idle", "Done"}
BY DEF Agency, Protocol

(* What a request sent makes of the client (chainsync.rs:207-225).         *)
LEMMA Sending ==
  ASSUME NEW p \in Protocol
  PROVE  /\ AfterSend(p) \in Protocol
         /\ AfterSend(p).state \in {"Intersect", "CanAwait"}
         /\ AfterSend(p).query = p.query
         /\ AfterSend(p).intersect = p.intersect
         /\ AfterSend(p).reply = p.reply
         /\ ToSend(p) = p.query
BY DEF AfterSend, ToSend, Protocol

(* ... and a message received (chainsync.rs:227-262).                      *)
LEMMA Receiving ==
  ASSUME NEW p \in Protocol, NEW m, m.type \in OfServer \cup OfClient,
         m.type \in Rolls => m \in OfKind(Rolls),
         m.type \in Intersections => m \in OfKind(Intersections),
         Accepts(p, m)
  PROVE  /\ AfterRecv(p, m) \in Protocol
         /\ AfterRecv(p, m).state = "Idle" <=> Ends(m)
         /\ AfterRecv(p, m).state = "Done" => m.type = "Done"
         /\ AfterRecv(p, m).query = IF Ends(m) THEN NoRequest ELSE p.query
         /\ AfterRecv(p, m).reply = IF m.type \in Rolls THEN m ELSE p.reply
         /\ AfterRecv(p, m).intersect =
              IF m.type \in Intersections THEN m ELSE p.intersect
  <1>1. /\ StateAfter(m) \in {"Idle", "CanAwait", "MustReply", "Done"}
        /\ StateAfter(m) = "Idle" <=> Ends(m)
        /\ StateAfter(m) = "Done" => m.type = "Done"
    BY DEF StateAfter, Ends, OfServer, OfClient, Rolls, Intersections, Accepts
  <1> DEFINE q == AfterRecv(p, m)
             S == {"Idle", "Intersect", "CanAwait", "MustReply", "Done"}
  <1>2. q = [state |-> StateAfter(m),
             query |-> IF Ends(m) THEN NoRequest ELSE p.query,
             intersect |-> IF m.type \in Intersections THEN m ELSE p.intersect,
             reply |-> IF m.type \in Rolls THEN m ELSE p.reply]
    <2>1. p = [state |-> p.state, query |-> p.query,
               intersect |-> p.intersect, reply |-> p.reply]
      BY DEF Protocol
    <2>2. q = [[state |-> p.state, query |-> p.query,
                intersect |-> p.intersect, reply |-> p.reply]
                 EXCEPT !.state = StateAfter(m),
                        !.query = IF Ends(m) THEN NoRequest ELSE @,
                        !.reply = IF m.type \in Rolls THEN m ELSE @,
                        !.intersect = IF m.type \in Intersections THEN m ELSE @]
      BY <2>1, Zenon DEF AfterRecv
    <2> HIDE DEF q
    <2> QED
      BY <2>2
  <1>3. /\ p.query \in Requests \cup {NoRequest}
        /\ p.intersect \in OfKind(Intersections) \cup {NoReply}
        /\ p.reply \in OfKind(Rolls) \cup {NoReply}
    BY DEF Protocol
  <1>4. /\ q.state = StateAfter(m)
        /\ q.query = IF Ends(m) THEN NoRequest ELSE p.query
        /\ q.reply = IF m.type \in Rolls THEN m ELSE p.reply
        /\ q.intersect = IF m.type \in Intersections THEN m ELSE p.intersect
    <2> HIDE DEF q
    <2> QED
      BY <1>2
  <1>5. /\ q.state \in S
        /\ q.query \in Requests \cup {NoRequest}
        /\ q.intersect \in OfKind(Intersections) \cup {NoReply}
        /\ q.reply \in OfKind(Rolls) \cup {NoReply}
    <2> HIDE DEF q
    <2> QED
      BY <1>1, <1>3, <1>4
  <1>6. q \in Protocol
    <2> HIDE DEF q, S
    <2>1. q = [state |-> q.state, query |-> q.query,
               intersect |-> q.intersect, reply |-> q.reply]
      BY <1>2, <1>4
    <2> QED
      BY <1>5, <2>1 DEF Protocol, S
  <1> HIDE DEF q
  <1>7. /\ q \in Protocol
        /\ q.state = "Idle" <=> Ends(m)
        /\ q.state = "Done" => m.type = "Done"
    BY <1>1, <1>4, <1>6
  <1> QED
    BY <1>4, <1>7 DEF q

-----------------------------------------------------------------------------
(***************************************************************************)
(* What always holds.                                                      *)
(***************************************************************************)
LEMMA ChainSyncStarts == Init => CInv
  <1> SUFFICES ASSUME Init PROVE CInv
    OBVIOUS
  <1>1. /\ proto.state = "Idle" /\ proto.query = NoRequest
        /\ proto.intersect = NoReply /\ proto.reply = NoReply
        /\ proto \in Protocol
    BY DEF Init, Protocol
  <1>2. /\ exec = "idle" /\ sending = << >> /\ taken = 0 /\ bytes = 0
        /\ hurt = FALSE /\ inbox = << >> /\ outbox = << >>
        /\ call = NoRequest /\ answers = << >> /\ calls = 0 /\ abandons = 0
        /\ srv = "Idle" /\ read = 0
    BY DEF Init, DriverInit
  <1>3. Typed
    <2>1. /\ calls \in 0..MaxCalls /\ abandons \in 0..MaxAbandons
          /\ taken \in 0..(Pieces * Len(inbox)) /\ bytes \in 0..taken
          /\ read \in 0..Len(outbox) /\ Len(outbox) = 0
      BY <1>2, ChainSyncAssumption DEF Pieces
    <2>2. /\ inbox \in Seq(Replies) /\ inbox \in Seq(OfKind(OfServer))
          /\ outbox \in Seq(Requests)
          /\ answers \in Seq([asked : Requests, got : Replies])
      BY <1>2
    <2>3. TypeOK
      BY <1>1, <1>2, <2>1, <2>2 DEF TypeOK, Protocol
    <2>4. CountInv
      BY <1>1, <1>2, <2>1, <2>2 DEF CountInv
    <2> QED
      BY <2>3, <2>4 DEF Typed
  <1>4. Handled = 0 /\ Aligned
    BY <1>2 DEF Handled, Aligned, Pieces
  <1>5. ProtocolInv
    BY <1>1, <1>2, <1>4 DEF ProtocolInv, AtEnd, Served
  <1>6. CallInv
    BY <1>1, <1>2 DEF CallInv
  <1> QED
    BY <1>3, <1>5, <1>6 DEF CInv

(* The program's calls.                                                    *)
LEMMA TypedCall ==
  ASSUME Typed, FindIntersect \/ RequestNext
  PROVE  Typed'
  <1>1. PICK request \in Requests : Call(request)
    BY RequestTypes DEF FindIntersect, RequestNext
  <1>2. /\ proto' = [proto EXCEPT !.query = request]
        /\ exec = "idle" /\ exec' = "loop" /\ call' = request
        /\ calls < MaxCalls /\ calls' = calls + 1
        /\ UNCHANGED <<sending, taken, bytes, hurt, inbox, outbox, answers,
                       abandons, srv, read>>
    BY <1>1 DEF Call, Execute, serverVars
  <1>3. /\ proto' \in Protocol /\ proto'.state = proto.state
        /\ proto'.query = request
    BY <1>2 DEF Typed, TypeOK, Protocol
  <1>4. calls' \in 0..MaxCalls
    BY <1>2, Counting, ChainSyncAssumption
  <1>5. TypeOK'
    BY <1>2, <1>3, <1>4 DEF Typed, TypeOK, Protocol
  <1>6. Len(outbox) <= calls /\ Len(outbox) < calls' /\ Len(outbox) <= calls'
    BY <1>2, Counting DEF Typed, CountInv
  <1>7. CountInv'
    BY <1>2, <1>3, <1>6 DEF Typed, CountInv
  <1> QED
    BY <1>5, <1>7 DEF Typed

(* What a call that returns takes along.                                   *)
LEMMA Returning ==
  ASSUME Typed, FindIntersectReturns \/ RequestNextReturns
  PROVE  /\ exec = "loop" /\ exec' \in {"idle", "panicked"}
         /\ proto.query = NoRequest \/ proto.state = "Done"
         /\ proto' \in Protocol
         /\ proto'.state = proto.state /\ proto'.query = proto.query
         /\ call' \in Requests \cup {NoRequest}
         /\ answers' \in Seq([asked : Requests, got : Replies])
         /\ UNCHANGED <<sending, taken, bytes, hurt, inbox, outbox, calls,
                        abandons, srv, read>>
  <1>0. proto \in Protocol /\ call \in Requests \cup {NoRequest}
        /\ answers \in Seq([asked : Requests, got : Replies])
    BY DEF Typed, TypeOK, Protocol
  <1>1. ASSUME NEW answer, NEW emptied, Returns(answer, emptied),
               answer # NoReply => answer \in Replies,
               emptied \in Protocol, call \in Requests,
               emptied.state = proto.state, emptied.query = proto.query
        PROVE  /\ exec = "loop" /\ exec' \in {"idle", "panicked"}
               /\ proto.query = NoRequest \/ proto.state = "Done"
               /\ proto' \in Protocol
               /\ proto'.state = proto.state /\ proto'.query = proto.query
               /\ call' \in Requests \cup {NoRequest}
               /\ answers' \in Seq([asked : Requests, got : Replies])
               /\ UNCHANGED <<sending, taken, bytes, hurt, inbox, outbox, calls,
                              abandons, srv, read>>
    <2>1. exec = "loop" /\ Agency(proto) = "None"
      BY <1>1 DEF Returns, Executed
    <2>2. proto.query = NoRequest \/ proto.state = "Done"
      BY <1>0, <2>1, Agencies
    <2>3. CASE answer = NoReply
      BY <1>0, <1>1, <2>1, <2>2, <2>3 DEF Returns, serverVars
    <2>4. CASE answer # NoReply
      <3>1. [asked |-> call, got |-> answer] \in [asked : Requests, got : Replies]
        BY <1>1, <2>4
      <3>2. answers' = Append(answers, [asked |-> call, got |-> answer])
        BY <1>1, <2>4 DEF Returns
      <3>3. answers' \in Seq([asked : Requests, got : Replies])
        BY <1>0, <3>1, <3>2
      <3> QED
        BY <1>1, <2>1, <2>2, <2>4, <3>3 DEF Returns, serverVars
    <2> QED
      BY <2>3, <2>4
  <1>2. CASE FindIntersectReturns
    <2>1. Returns(proto.intersect, [proto EXCEPT !.intersect = NoReply])
          /\ call.type = "FindIntersect"
      BY <1>2 DEF FindIntersectReturns
    <2>2. call \in Requests
      BY <1>0, <2>1 DEF NoRequest, Request
    <2>3. proto.intersect # NoReply => proto.intersect \in Replies
      BY <1>0, NoReplyIsNone DEF Protocol
    <2>4. /\ [proto EXCEPT !.intersect = NoReply] \in Protocol
          /\ [proto EXCEPT !.intersect = NoReply].state = proto.state
          /\ [proto EXCEPT !.intersect = NoReply].query = proto.query
      BY <1>0 DEF Protocol
    <2> QED
      BY <1>1, <2>1, <2>2, <2>3, <2>4
  <1>3. CASE RequestNextReturns
    <2>1. Returns(proto.reply, [proto EXCEPT !.reply = NoReply])
          /\ call.type = "RequestNext"
      BY <1>3 DEF RequestNextReturns
    <2>2. call \in Requests
      BY <1>0, <2>1 DEF NoRequest, Request
    <2>3. proto.reply # NoReply => proto.reply \in Replies
      BY <1>0, NoReplyIsNone DEF Protocol
    <2>4. /\ [proto EXCEPT !.reply = NoReply] \in Protocol
          /\ [proto EXCEPT !.reply = NoReply].state = proto.state
          /\ [proto EXCEPT !.reply = NoReply].query = proto.query
      BY <1>0 DEF Protocol
    <2> QED
      BY <1>1, <2>1, <2>2, <2>3, <2>4
  <1> QED
    BY <1>2, <1>3

LEMMA TypedReturn ==
  ASSUME Typed, FindIntersectReturns \/ RequestNextReturns
  PROVE  Typed'
  <1>1. TypeOK'
    BY Returning DEF Typed, TypeOK, Protocol
  <1>2. CountInv'
    BY Returning DEF Typed, CountInv
  <1> QED
    BY <1>1, <1>2 DEF Typed

LEMMA TypedGiveUp ==
  ASSUME Typed, GiveUp
  PROVE  Typed'
  <1>1. /\ exec \in {"sending", "await"} /\ exec' = "idle" /\ sending' = << >>
        /\ bytes' = IF exec = "await" THEN 0 ELSE bytes
        /\ hurt' = (hurt \/ exec = "sending" \/ bytes > 0)
        /\ call' = NoRequest /\ abandons < MaxAbandons /\ abandons' = abandons + 1
        /\ UNCHANGED <<proto, taken, inbox, outbox, answers, calls, srv, read>>
    BY DEF GiveUp, Abandon, serverVars
  <1>2. abandons' \in 0..MaxAbandons
    BY <1>1, ChainSyncAssumption DEF Typed, TypeOK
  <1>3. bytes' \in 0..taken /\ hurt' \in BOOLEAN
    BY <1>1, Counting
  <1>4. TypeOK'
    BY <1>1, <1>2, <1>3 DEF Typed, TypeOK
  <1>5. CountInv'
    BY <1>1 DEF Typed, CountInv
  <1> QED
    BY <1>4, <1>5 DEF Typed

(* The whole message at the head of what is not handled.                   *)
LEMMA Heading ==
  ASSUME Typed, HandleMessage
  PROVE  /\ exec = "parse" /\ bytes >= 2 /\ bytes' = bytes - 2
         /\ Handled + 1 \in 1..Len(inbox)
         /\ NextMessage = inbox[Handled + 1]
         /\ inbox[Handled + 1] \in OfKind(OfServer)
         /\ Accepts(proto, inbox[Handled + 1])
         /\ proto' = AfterRecv(proto, inbox[Handled + 1]) /\ exec' = "parse"
         /\ Handled' = Handled + 1 /\ Aligned'
         /\ UNCHANGED <<sending, taken, hurt, inbox, outbox>>
  <1>1. /\ exec = "parse" /\ bytes >= 2 /\ bytes' = bytes - 2 /\ Aligned
        /\ UNCHANGED <<sending, taken, hurt, inbox, outbox>>
    BY DEF HandleMessage, Complete, Pieces
  <1>2. taken - bytes = 2 * Handled /\ Handled + 1 \in 1..Len(inbox)
    BY <1>1, Counting
  <1>3. NextMessage = inbox[Handled + 1]
    BY DEF NextMessage, Handled, Pieces
  <1>4. inbox[Handled + 1] \in OfKind(OfServer)
    BY <1>2 DEF Typed, CountInv
  <1>5. Accepts(proto, inbox[Handled + 1])
    BY <1>4, ReplyTypes DEF Accepts, OfServer, Rolls, Intersections
  <1>6. proto' = AfterRecv(proto, inbox[Handled + 1]) /\ exec' = "parse"
    BY <1>3, <1>5 DEF HandleMessage
  <1>7. Handled' = Handled + 1 /\ Aligned'
    <2>1. taken' - bytes' = 2 * (Handled + 1)
      <3>1. taken \in Nat /\ bytes \in Nat /\ Handled \in Nat
        BY Counting
      <3>2. taken' = taken /\ bytes' = bytes - 2
        BY <1>1
      <3> QED
        BY <1>2, <3>1, <3>2
    <2>2. /\ (2 * (Handled + 1)) \div 2 = Handled + 1
          /\ (2 * (Handled + 1)) % 2 = 0
      BY Counting
    <2> QED
      BY <2>1, <2>2 DEF Handled, Aligned, Pieces
  <1> QED
    BY <1>1, <1>2, <1>3, <1>4, <1>5, <1>6, <1>7

LEMMA TypedClient ==
  ASSUME Typed, Client
  PROVE  Typed'
  <1>0. /\ UNCHANGED <<call, answers, calls, abandons, srv, read>>
        /\ proto \in Protocol /\ outbox \in Seq(Requests)
    BY DEF Client, userVars, serverVars, Typed, TypeOK, Protocol
  <1>1. CASE SendBytes
    <2>1. exec = "loop" /\ proto.query # NoRequest /\ proto.state = "Idle"
      BY <1>0, <1>1, Agencies DEF SendBytes
    <2>2. /\ exec' = "sending" /\ proto' = AfterSend(proto)
          /\ sending' = <<proto.query>>
          /\ UNCHANGED <<taken, bytes, hurt, inbox, outbox>>
      BY <1>0, <1>1, <2>1, Sending DEF SendBytes, CanSend
    <2>3. proto' \in Protocol /\ proto'.state # "Idle" /\ proto.query \in Requests
      BY <1>0, <2>1, <2>2, Sending DEF Protocol
    <2>4. TypeOK'
      BY <1>0, <2>2, <2>3 DEF Typed, TypeOK, Protocol
    <2>5. CountInv'
      BY <1>0, <2>1, <2>2, <2>3 DEF Typed, CountInv
    <2> QED
      BY <2>4, <2>5 DEF Typed
  <1>2. CASE Sent
    <2>1. /\ exec = "sending" /\ exec' = "loop" /\ sending' = << >>
          /\ outbox' = outbox \o sending /\ sending # << >>
          /\ proto.state # "Idle" /\ Len(outbox) < calls
          /\ UNCHANGED <<proto, taken, bytes, hurt, inbox>>
      BY <1>2 DEF Sent, Typed, CountInv
    <2>2. PICK r \in Requests : sending = <<r>>
      BY <2>1 DEF Typed, TypeOK
    <2>3. outbox' \in Seq(Requests) /\ Len(outbox') = Len(outbox) + 1
      BY <1>0, <2>1, <2>2
    <2>4. Len(outbox') <= calls /\ read \in 0..Len(outbox')
      BY <2>1, <2>3, Counting
    <2>5. TypeOK'
      BY <1>0, <2>1, <2>3, <2>4 DEF Typed, TypeOK
    <2>6. CountInv'
      BY <1>0, <2>1, <2>4 DEF Typed, CountInv
    <2> QED
      BY <2>5, <2>6 DEF Typed
  <1>3. CASE AwaitFrame \/ Parsed
    <2>1. /\ exec \in {"loop", "parse"} /\ exec' \in {"await", "loop"}
          /\ UNCHANGED <<proto, sending, taken, bytes, hurt, inbox, outbox>>
      BY <1>3 DEF AwaitFrame, Parsed
    <2> QED
      BY <1>0, <2>1 DEF Typed, TypeOK, CountInv
  <1>4. CASE RecvFrame
    <2>1. /\ exec = "await" /\ exec' = "parse"
          /\ UNCHANGED <<proto, sending, hurt, inbox, outbox>>
      BY <1>4 DEF RecvFrame
    <2>2. taken' \in 0..(2 * Len(inbox)) /\ bytes' \in 0..taken'
      BY <1>4, Counting DEF RecvFrame, Pieces
    <2>3. TypeOK'
      BY <1>0, <2>1, <2>2 DEF Typed, TypeOK, Pieces
    <2>4. CountInv'
      BY <1>0, <2>1 DEF Typed, CountInv
    <2> QED
      BY <2>3, <2>4 DEF Typed
  <1>5. ASSUME NEW m, m.type \in OfServer \cup OfClient,
               m.type \in Rolls => m \in OfKind(Rolls),
               m.type \in Intersections => m \in OfKind(Intersections),
               Accepts(proto, m), proto' = AfterRecv(proto, m),
               exec = "parse", exec' = "parse", bytes' \in 0..taken,
               UNCHANGED <<sending, taken, hurt, inbox, outbox>>
        PROVE  Typed'
    <2>1. /\ proto' \in Protocol
          /\ proto'.state = "Idle" => proto'.query = NoRequest
      BY <1>0, <1>5, Receiving
    <2>2. TypeOK'
      BY <1>0, <1>5, <2>1 DEF Typed, TypeOK, Protocol
    <2>3. CountInv'
      BY <1>0, <1>5, <2>1 DEF Typed, CountInv
    <2> QED
      BY <2>2, <2>3 DEF Typed
  <1>6. CASE HandleMessage
    <2>1. bytes' \in 0..taken
      BY <1>6, Heading, Counting
    <2> QED
      BY <1>5, <1>6, <2>1, Heading, ReplyTypes
  <1>7. CASE Misparse
    <2>1. exec = "parse" /\ UNCHANGED <<sending, taken, hurt, inbox, outbox>>
      BY <1>7 DEF Misparse
    <2>2. CASE exec' \in {"panicked", "loop"} /\ UNCHANGED proto /\ bytes' \in 0..taken
      BY <1>0, <2>1, <2>2 DEF Typed, TypeOK, CountInv
    <2>3. CASE \E m \in { Reply(type, 0) : type \in OfServer \cup OfClient } :
                 /\ Accepts(proto, m) /\ proto' = AfterRecv(proto, m)
                 /\ exec' = "parse" /\ bytes' \in 0..taken
      <3>1. PICK type \in OfServer \cup OfClient :
              /\ Accepts(proto, Reply(type, 0))
              /\ proto' = AfterRecv(proto, Reply(type, 0))
              /\ exec' = "parse" /\ bytes' \in 0..taken
        BY <2>3
      <3>2. Reply(type, 0).type = type
        BY DEF Reply
      <3> QED
        BY <1>5, <2>1, <3>1, <3>2, MisreadTypes
    <2>4. \A n \in 1..bytes : bytes - n \in 0..taken
      BY Counting
    <2>5. bytes \in 0..taken
      BY Counting
    <2> QED
      BY <1>7, <2>2, <2>3, <2>4, <2>5 DEF Misparse
  <1> QED
    BY <1>1, <1>2, <1>3, <1>4, <1>6, <1>7 DEF Client, Drive

(* What the server writes stands behind what it has written.               *)
LEMMA Written ==
  ASSUME Typed, NEW types \in SUBSET OfServer, Write(types)
  PROVE  \E type \in types :
           /\ inbox' = Append(inbox, Reply(type, read))
           /\ inbox' \in Seq(OfKind(OfServer)) /\ inbox' \in Seq(Replies)
           /\ Len(inbox') = Len(inbox) + 1
           /\ inbox'[Len(inbox) + 1].type = type
           /\ inbox'[Len(inbox) + 1].to = read
           /\ \A k \in 1..Len(inbox) : inbox'[k] = inbox[k]
           /\ Handled' = Handled /\ (Aligned' <=> Aligned)
           /\ UNCHANGED <<proto, exec, sending, taken, bytes, hurt, outbox,
                          call, answers, calls, abandons, read>>
  <1>1. UNCHANGED <<proto, exec, sending, taken, bytes, hurt, outbox, call,
                    answers, calls, abandons, read>>
    BY DEF Write, clientVars, userVars
  <1>2. PICK type \in types : inbox' = Append(inbox, Reply(type, read))
    BY DEF Write
  <1>3. read \in 0..MaxCalls
    BY Counting, ChainSyncAssumption DEF Typed, TypeOK, CountInv
  <1>4. Reply(type, read) \in OfKind(OfServer) /\ Reply(type, read) \in Replies
    BY <1>3, ReplyTypes
  <1>5. /\ inbox' \in Seq(OfKind(OfServer))
        /\ Len(inbox') = Len(inbox) + 1
        /\ inbox'[Len(inbox) + 1] = Reply(type, read)
        /\ \A k \in 1..Len(inbox) : inbox'[k] = inbox[k]
    BY <1>2, <1>4 DEF Typed, CountInv
  <1>6. inbox' \in Seq(Replies)
    BY <1>2, <1>4 DEF Typed, TypeOK
  <1>7. Handled' = Handled /\ (Aligned' <=> Aligned)
    BY <1>1 DEF Handled, Aligned
  <1> QED
    BY <1>1, <1>2, <1>5, <1>6, <1>7 DEF Reply

LEMMA TypedServer ==
  ASSUME Typed, ServerRead \/ ServerIntersects \/ ServerAwaits \/ ServerRolls
  PROVE  Typed'
  <1>1. CASE ServerRead
    <2>1. read' \in 0..Len(outbox)
      BY <1>1, Counting DEF ServerRead
    <2>2. /\ srv' \in {"Intersect", "CanAwait"}
          /\ UNCHANGED <<proto, exec, sending, taken, bytes, hurt, inbox,
                         outbox, call, answers, calls, abandons>>
      BY <1>1 DEF ServerRead, clientVars, userVars
    <2> QED
      BY <2>1, <2>2 DEF Typed, TypeOK, CountInv
  <1>2. CASE ServerIntersects \/ ServerAwaits \/ ServerRolls
    <2>1. PICK types \in SUBSET OfServer :
            Write(types) /\ srv' \in {"Idle", "MustReply"}
      <3>1. /\ Intersections \in SUBSET OfServer /\ Rolls \in SUBSET OfServer
            /\ {"AwaitReply"} \in SUBSET OfServer
        BY DEF OfServer
      <3> QED
        BY <1>2, <3>1 DEF ServerIntersects, ServerAwaits, ServerRolls
    <2>2. /\ inbox' \in Seq(OfKind(OfServer)) /\ inbox' \in Seq(Replies)
          /\ Len(inbox') = Len(inbox) + 1
          /\ UNCHANGED <<proto, exec, sending, taken, bytes, hurt, outbox,
                         call, answers, calls, abandons, read>>
      BY <2>1, Written
    <2>3. taken \in 0..(2 * Len(inbox'))
      BY <2>2, Counting
    <2>4. TypeOK'
      BY <2>1, <2>2, <2>3 DEF Typed, TypeOK, Pieces
    <2>5. CountInv'
      BY <2>2 DEF Typed, CountInv
    <2> QED
      BY <2>4, <2>5 DEF Typed
  <1> QED
    BY <1>1, <1>2

LEMMA TypedStep == Typed /\ [Next]_vars => Typed'
  <1> SUFFICES ASSUME Typed, [Next]_vars PROVE Typed'
    OBVIOUS
  <1>1. CASE UNCHANGED vars
    BY <1>1 DEF Typed, TypeOK, CountInv, vars, clientVars, userVars, serverVars
  <1> QED
    BY <1>1, TypedCall, TypedReturn, TypedGiveUp, TypedClient, TypedServer
       DEF Next

(* What was lost stays lost, and what was given up is counted.             *)
LEMMA HistoryStays ==
  ASSUME Typed, [Next]_vars
  PROVE  /\ hurt => hurt'
         /\ abandons' = 0 => abandons = 0
         /\ GiveUp => abandons' # 0
  <1>1. abandons \in Nat
    BY ChainSyncAssumption DEF Typed, TypeOK
  <1>2. GiveUp => /\ hurt => hurt'
                  /\ abandons' # 0
    <2>1. GiveUp => abandons' = abandons + 1 /\ hurt' = (hurt \/ exec = "sending" \/ bytes > 0)
      BY DEF GiveUp, Abandon
    <2>2. abandons + 1 # 0
      BY <1>1
    <2> QED
      BY <2>1, <2>2, Zenon
  <1>3. CASE ~GiveUp
    <2>1. UNCHANGED <<hurt, abandons>>
      BY <1>3 DEF Next, vars, clientVars, userVars, serverVars, FindIntersect,
         RequestNext, Call, Execute, FindIntersectReturns, RequestNextReturns,
         Returns, Client, Drive, SendBytes, Sent, AwaitFrame, RecvFrame,
         HandleMessage, Parsed, Misparse, Write, ServerRead, ServerIntersects,
         ServerAwaits, ServerRolls
    <2> QED
      BY <1>3, <2>1
  <1> QED
    BY <1>2, <1>3

-----------------------------------------------------------------------------
(***************************************************************************)
(* What holds while nothing is lost.                                       *)
(***************************************************************************)
(* A step that neither reads nor writes, and leaves the state where it is. *)
LEMMA Unmoved ==
  ASSUME ProtocolInv, proto'.state = proto.state, exec' # "await",
         UNCHANGED <<taken, bytes, inbox, outbox, sending, srv, read>>
  PROVE  ProtocolInv'
BY DEF ProtocolInv, Awaiting, Handled, AtEnd, Served, Aligned

LEMMA ProgramKeeps ==
  ASSUME Typed, ProtocolInv, ~hurt',
         \/ FindIntersect \/ FindIntersectReturns
         \/ RequestNext \/ RequestNextReturns \/ GiveUp
  PROVE  ProtocolInv'
  <1>1. CASE FindIntersect \/ RequestNext
    <2>1. PICK request : Call(request)
      BY <1>1 DEF FindIntersect, RequestNext
    <2>2. /\ proto' = [proto EXCEPT !.query = request] /\ exec' = "loop"
          /\ UNCHANGED <<taken, bytes, inbox, outbox, sending, srv, read>>
      BY <2>1 DEF Call, Execute, serverVars
    <2>3. proto'.state = proto.state
      BY <2>2 DEF Typed, TypeOK
    <2> QED
      BY <2>2, <2>3, Unmoved
  <1>2. CASE FindIntersectReturns \/ RequestNextReturns
    BY <1>2, Returning, Unmoved
  <1>3. CASE GiveUp
    <2>1. exec = "await" /\ ~(bytes > 0)
      BY <1>3, Zenon DEF GiveUp, Abandon
    <2>2. bytes = 0 /\ bytes' = 0
      BY <1>3, <2>1, Counting DEF GiveUp, Abandon
    <2>3. /\ exec' = "idle" /\ sending = << >> /\ sending' = << >>
          /\ UNCHANGED <<proto, taken, inbox, outbox, srv, read>>
      BY <1>3, <2>1 DEF GiveUp, Abandon, Typed, CountInv, serverVars
    <2> QED
      BY <2>2, <2>3, Unmoved
  <1> QED
    BY <1>1, <1>2, <1>3

(* The last of the messages not handled is the one that ends the call      *)
(* (chainsync.rs:227-262).                                                 *)
LEMMA MessageKeeps ==
  ASSUME Typed, ProtocolInv, Client, HandleMessage
  PROVE  ProtocolInv'
  <1> USE Counting, Heading
  <1> DEFINE n == Handled + 1
             m == inbox[n]
  <1>0. UNCHANGED <<srv, read>>
    BY DEF Client, serverVars
  <1>1. ~AtEnd
    BY DEF AtEnd
  <1>2. proto.state # "Idle" /\ sending = << >>
    BY <1>1 DEF ProtocolInv, Typed, CountInv
  <1>3. /\ Served
        /\ \/ srv # "Idle" /\ \A k \in 1..Len(inbox) : k > Handled => ~Ends(inbox[k])
           \/ /\ srv = "Idle" /\ Ends(inbox[Len(inbox)])
              /\ \A k \in 1..Len(inbox) :
                   k > Handled /\ Ends(inbox[k]) => k = Len(inbox)
    BY <1>1, <1>2 DEF ProtocolInv, Awaiting
  <1>4. /\ proto'.state = "Idle" <=> Ends(m)
        /\ proto'.state # "Done"
    <2>1. m.type \in OfServer
      BY ReplyTypes
    <2>2. proto \in Protocol /\ proto' = AfterRecv(proto, m)
      BY DEF Typed, TypeOK, Protocol
    <2>3. "Done" \notin OfServer
      BY DEF OfServer, Rolls, Intersections
    <2> QED
      BY <2>1, <2>2, <2>3, Receiving, ReplyTypes
  <1>5. CASE Ends(m)
    <2>1. n = Len(inbox) /\ srv = "Idle"
      BY <1>3, <1>5
    <2>2. AtEnd' /\ Served' /\ srv' = "Idle"
      BY <1>0, <1>3, <2>1 DEF AtEnd, Served
    <2> QED
      BY <1>4, <1>5, <2>2 DEF ProtocolInv
  <1>6. CASE ~Ends(m)
    <2>1. \A k \in 1..Len(inbox) : k > n => k > Handled
      OBVIOUS
    <2>2. Served' /\ sending' = << >>
      BY <1>0, <1>2, <1>3 DEF Served
    <2>3. CASE srv # "Idle"
      <3>1. \A k \in 1..Len(inbox') : k > Handled' => ~Ends(inbox'[k])
        BY <1>3, <2>1, <2>3
      <3> QED
        BY <1>0, <1>4, <1>6, <2>2, <2>3, <3>1 DEF ProtocolInv, Awaiting
    <2>4. CASE srv = "Idle"
      <3>1. n # Len(inbox)
        BY <1>3, <1>6, <2>4
      <3>2. ~AtEnd'
        BY <3>1 DEF AtEnd
      <3>3. /\ Ends(inbox'[Len(inbox')])
            /\ \A k \in 1..Len(inbox') :
                 k > Handled' /\ Ends(inbox'[k]) => k = Len(inbox')
        BY <1>3, <2>1, <2>4
      <3> QED
        BY <1>0, <1>4, <1>6, <2>2, <2>4, <3>2, <3>3 DEF ProtocolInv, Awaiting
    <2> QED
      BY <2>3, <2>4
  <1> QED
    BY <1>5, <1>6

LEMMA ClientKeeps ==
  ASSUME Typed, ProtocolInv, Client
  PROVE  ProtocolInv'
  <1>0. UNCHANGED <<srv, read>> /\ proto \in Protocol
    BY DEF Client, serverVars, Typed, TypeOK, Protocol
  <1>1. CASE SendBytes
    <2>1. proto.query # NoRequest /\ proto.state = "Idle"
      BY <1>0, <1>1, Agencies DEF SendBytes
    <2>2. /\ exec' = "sending" /\ proto' = AfterSend(proto)
          /\ sending' # << >>
          /\ UNCHANGED <<taken, bytes, inbox, outbox>>
      BY <1>1, <2>1 DEF SendBytes, CanSend
    <2>3. proto'.state \in {"Intersect", "CanAwait"}
      BY <1>0, <2>2, Sending
    <2>4. AtEnd' /\ Served' /\ srv' = "Idle" /\ Aligned'
      BY <1>0, <2>1, <2>2 DEF ProtocolInv, AtEnd, Served, Handled, Aligned
    <2> QED
      BY <2>2, <2>3, <2>4 DEF ProtocolInv, Awaiting
  <1>2. CASE Sent
    <2>1. /\ exec' = "loop" /\ sending # << >> /\ sending' = << >>
          /\ outbox' = outbox \o sending /\ proto.state # "Idle"
          /\ UNCHANGED <<proto, taken, bytes, inbox>>
      BY <1>2 DEF Sent, Typed, CountInv
    <2>2. Len(outbox') = Len(outbox) + 1
      <3>1. PICK r \in Requests : sending = <<r>>
        BY <2>1 DEF Typed, TypeOK
      <3>2. outbox \in Seq(Requests)
        BY DEF Typed, TypeOK
      <3> QED
        BY <2>1, <3>1, <3>2
    <2>3. AtEnd /\ Served /\ srv = "Idle" /\ Aligned
      BY <2>1 DEF ProtocolInv, Awaiting
    <2>4. AtEnd' /\ Aligned' /\ read' + 1 = Len(outbox') /\ srv' = "Idle"
      BY <1>0, <2>1, <2>2, <2>3 DEF AtEnd, Served, Handled, Aligned
    <2> QED
      BY <2>1, <2>4 DEF ProtocolInv, Awaiting
  <1>3. CASE AwaitFrame
    <2>1. /\ proto.state # "Idle"
          /\ UNCHANGED <<proto, sending, taken, bytes, inbox, outbox>>
      BY <1>0, <1>3, Agencies DEF AwaitFrame, Protocol
    <2> QED
      BY <1>0, <2>1 DEF ProtocolInv, Awaiting, Handled, AtEnd, Served, Aligned
  <1>4. CASE RecvFrame
    <2>1. exec' = "parse" /\ UNCHANGED <<proto, sending, inbox, outbox>>
      BY <1>4 DEF RecvFrame
    <2>2. PICK n \in 1..(2 * Len(inbox) - taken) :
            taken' = taken + n /\ bytes' = bytes + n
      BY <1>4 DEF RecvFrame, Pieces
    <2>3. taken' - bytes' = taken - bytes
      <3>1. taken \in Nat /\ bytes \in Nat /\ n \in Int
        BY Counting
      <3> QED
        BY <2>2, <3>1
    <2>4. Handled' = Handled /\ (Aligned' <=> Aligned)
      BY <2>3 DEF Handled, Aligned
    <2> QED
      BY <1>0, <2>1, <2>4 DEF ProtocolInv, Awaiting, AtEnd, Served
  <1>5. CASE HandleMessage
    BY <1>5, MessageKeeps
  <1>6. CASE Parsed
    BY <1>0, <1>6, Unmoved DEF Parsed
  <1>7. CASE Misparse
    BY <1>7 DEF Misparse, ProtocolInv
  <1> QED
    BY <1>1, <1>2, <1>3, <1>4, <1>5, <1>6, <1>7 DEF Client, Drive

LEMMA ServerKeeps ==
  ASSUME Typed, ProtocolInv,
         ServerRead \/ ServerIntersects \/ ServerAwaits \/ ServerRolls
  PROVE  ProtocolInv'
  <1> USE Counting
  <1>1. CASE ServerRead
    <2>1. /\ srv = "Idle" /\ read < Len(outbox) /\ read' = read + 1
          /\ srv' # "Idle"
          /\ UNCHANGED <<proto, exec, sending, taken, bytes, inbox, outbox>>
      BY <1>1 DEF ServerRead, clientVars
    <2>2. ~Served
      BY <2>1 DEF Served
    <2>3. /\ proto.state # "Idle" /\ sending = << >>
          /\ read + 1 = Len(outbox) /\ AtEnd
      BY <2>1, <2>2 DEF ProtocolInv, Awaiting
    <2>4. /\ Served'
          /\ Handled' = Handled /\ (Aligned' <=> Aligned)
          /\ \A k \in 1..Len(inbox) : ~(k > Handled)
      BY <2>1, <2>3 DEF Served, AtEnd, Handled, Aligned
    <2>5. \A k \in 1..Len(inbox') : k > Handled' => ~Ends(inbox'[k])
      BY <2>1, <2>4
    <2>6. Awaiting'
      BY <2>1, <2>3, <2>4, <2>5 DEF Awaiting
    <2> QED
      BY <2>1, <2>3, <2>4, <2>6 DEF ProtocolInv
  <1>2. CASE ServerIntersects \/ ServerAwaits \/ ServerRolls
    <2>1. PICK types \in SUBSET OfServer :
            /\ Write(types) /\ srv # "Idle"
            /\ \/ /\ srv' = "Idle"
                  /\ types \subseteq Intersections \cup Rolls
               \/ srv' # "Idle" /\ types = {"AwaitReply"}
      <3>1. /\ Intersections \in SUBSET OfServer /\ Rolls \in SUBSET OfServer
            /\ {"AwaitReply"} \in SUBSET OfServer
        BY DEF OfServer
      <3> QED
        BY <1>2, <3>1 DEF ServerIntersects, ServerAwaits, ServerRolls
    <2>2. /\ Len(inbox') = Len(inbox) + 1
          /\ inbox'[Len(inbox')].type \in types
          /\ \A k \in 1..Len(inbox) : inbox'[k] = inbox[k]
          /\ Handled' = Handled /\ (Aligned' <=> Aligned)
          /\ UNCHANGED <<proto, exec, sending, outbox, read>>
      BY <2>1, Written
    <2>3. /\ proto.state # "Idle" /\ sending = << >> /\ Served
          /\ \A k \in 1..Len(inbox) : k > Handled => ~Ends(inbox[k])
      BY <2>1 DEF ProtocolInv, Awaiting
    <2>4. Ends(inbox'[Len(inbox')]) <=> srv' = "Idle"
      BY <2>1, <2>2 DEF Ends, Rolls, Intersections
    <2>5. \A k \in 1..Len(inbox') :
            k > Handled' /\ Ends(inbox'[k]) => k = Len(inbox')
      <3> SUFFICES ASSUME NEW k \in 1..Len(inbox'), k > Handled', Ends(inbox'[k])
                   PROVE  k = Len(inbox')
        OBVIOUS
      <3>1. k = Len(inbox) + 1 \/ k \in 1..Len(inbox)
        BY <2>2
      <3> QED
        BY <2>2, <2>3, <3>1
    <2>6. ~AtEnd' /\ Served'
      BY <2>2, <2>3 DEF AtEnd, Served
    <2>7. Awaiting'
      <3>1. CASE srv' = "Idle"
        BY <2>2, <2>3, <2>4, <2>5, <2>6, <3>1 DEF Awaiting
      <3>2. CASE srv' # "Idle"
        <4>1. \A k \in 1..Len(inbox') : k > Handled' => ~Ends(inbox'[k])
          BY <2>4, <2>5, <3>2
        <4> QED
          BY <2>2, <2>3, <2>6, <3>2, <4>1 DEF Awaiting
      <3> QED
        BY <3>1, <3>2
    <2> QED
      BY <2>2, <2>3, <2>7 DEF ProtocolInv
  <1> QED
    BY <1>1, <1>2

-----------------------------------------------------------------------------
(***************************************************************************)
(* What holds while no call is given up.                                   *)
(***************************************************************************)
(* A step that handles, writes and returns nothing.                        *)
LEMMA CallUnmoved ==
  ASSUME CallInv, ~hurt', exec' # "panicked", exec' = "idle" <=> exec = "idle",
         Handled' = Handled,
         UNCHANGED <<proto, sending, inbox, outbox, call, answers, calls, srv>>
  PROVE  CallInv'
BY DEF CallInv, Answered, Asked

(* The first call, or one after the last has returned                      *)
(* (chainsync.rs:157-179).                                                 *)
LEMMA CallCalls ==
  ASSUME Typed, ProtocolInv, CallInv, FindIntersect \/ RequestNext
  PROVE  CallInv'
  <1> USE Counting
  <1>1. PICK request \in Requests : Call(request)
    BY RequestTypes DEF FindIntersect, RequestNext
  <1>2. /\ proto' = [proto EXCEPT !.query = request]
        /\ exec = "idle" /\ exec' = "loop" /\ call = NoRequest /\ call' = request
        /\ calls' = calls + 1
        /\ UNCHANGED <<sending, taken, bytes, hurt, inbox, outbox, answers,
                       srv, read>>
    BY <1>1 DEF Call, Execute, serverVars
  <1>3. /\ proto.state = "Idle" /\ Len(outbox) = calls /\ Len(answers) = calls
        /\ proto.intersect = NoReply /\ proto.reply = NoReply
    BY <1>2 DEF CallInv
  <1>4. /\ proto'.state = "Idle" /\ proto'.query = request
        /\ proto'.intersect = NoReply /\ proto'.reply = NoReply
    BY <1>2, <1>3 DEF Typed, TypeOK
  <1>5. request # NoRequest
    BY RequestTypes
  <1>6. sending = << >> /\ srv = "Idle" /\ AtEnd
    BY <1>2, <1>3 DEF Typed, CountInv, ProtocolInv
  <1>7. Handled' = Handled /\ \A k \in 1..Len(inbox) : ~(k > Handled)
    BY <1>2, <1>6 DEF AtEnd, Handled
  <1>8. Asked'
    BY <1>2, <1>3, <1>4, <1>6, <1>7 DEF Asked
  <1>9. Len(answers') = calls' - 1
    BY <1>2, <1>3
  <1> QED
    BY <1>2, <1>4, <1>5, <1>8, <1>9 DEF CallInv

(* A call that returns finds its own answer (chainsync.rs:172, 178).       *)
LEMMA CallReturns ==
  ASSUME Typed, ProtocolInv, CallInv, FindIntersectReturns \/ RequestNextReturns
  PROVE  CallInv'
  <1> USE Counting, Returning
  <1>1. call # NoRequest /\ proto.query = NoRequest
    BY DEF CallInv, ProtocolInv, FindIntersectReturns, RequestNextReturns,
       NoRequest, Request
  <1>2. Answered
    BY <1>1 DEF CallInv
  <1>3. PICK answer :
          /\ answer # NoReply /\ answer.to = calls
          /\ exec' = "idle" /\ call' = NoRequest
          /\ answers' = Append(answers, [asked |-> call, got |-> answer])
          /\ proto'.intersect = NoReply /\ proto'.reply = NoReply
    <2>1. CASE FindIntersectReturns
      <3>1. proto.intersect # NoReply /\ proto.intersect.to = calls
            /\ proto.reply = NoReply
        BY <1>2, <2>1 DEF Answered, FindIntersectReturns
      <3>2. /\ exec' = "idle" /\ call' = NoRequest
            /\ proto' = [proto EXCEPT !.intersect = NoReply]
            /\ answers' = Append(answers, [asked |-> call, got |-> proto.intersect])
        BY <2>1, <3>1 DEF FindIntersectReturns, Returns
      <3>3. proto'.intersect = NoReply /\ proto'.reply = NoReply
        BY <3>1, <3>2 DEF Typed, TypeOK
      <3> QED
        BY <3>1, <3>2, <3>3
    <2>2. CASE RequestNextReturns
      <3>1. proto.reply # NoReply /\ proto.reply.to = calls
            /\ proto.intersect = NoReply
        BY <1>2, <2>2 DEF Answered, RequestNextReturns
      <3>2. /\ exec' = "idle" /\ call' = NoRequest
            /\ proto' = [proto EXCEPT !.reply = NoReply]
            /\ answers' = Append(answers, [asked |-> call, got |-> proto.reply])
        BY <2>2, <3>1 DEF RequestNextReturns, Returns
      <3>3. proto'.intersect = NoReply /\ proto'.reply = NoReply
        BY <3>1, <3>2 DEF Typed, TypeOK
      <3> QED
        BY <3>1, <3>2, <3>3
    <2> QED
      BY <2>1, <2>2
  <1>4. Len(answers) = calls - 1
    BY <1>1 DEF CallInv
  <1>5. /\ Len(answers') = calls
        /\ answers'[calls] = [asked |-> call, got |-> answer]
        /\ \A k \in 1..Len(answers) : answers'[k] = answers[k]
    <2>1. answers \in Seq([asked : Requests, got : Replies])
      BY DEF Typed, TypeOK
    <2> QED
      BY <1>3, <1>4, <2>1
  <1>6. \A k \in 1..Len(answers') :
          /\ answers'[k].got.to = k
          /\ k <= Len(outbox') /\ outbox'[k] = answers'[k].asked
    <2> SUFFICES ASSUME NEW k \in 1..Len(answers')
                 PROVE  /\ answers'[k].got.to = k
                        /\ k <= Len(outbox') /\ outbox'[k] = answers'[k].asked
      OBVIOUS
    <2>1. CASE k = calls
      BY <1>2, <1>3, <1>5, <2>1 DEF Answered
    <2>2. CASE k # calls
      <3>1. k \in 1..Len(answers)
        BY <1>4, <1>5, <2>2
      <3> QED
        BY <1>5, <3>1 DEF CallInv
    <2> QED
      BY <2>1, <2>2
  <1>7. /\ proto'.state = "Idle" /\ proto'.query = NoRequest
        /\ Len(outbox') = calls' /\ ~hurt'
    BY <1>1, <1>2 DEF Answered, CallInv
  <1> QED
    BY <1>3, <1>5, <1>6, <1>7 DEF CallInv

(* What is received is an answer to the request of the call                *)
(* (chainsync.rs:227-262).                                                 *)
LEMMA CallMessages ==
  ASSUME Typed, ProtocolInv, CallInv, Client, HandleMessage
  PROVE  CallInv'
  <1> USE Counting, Heading
  <1> DEFINE n == Handled + 1
             m == inbox[n]
  <1>1. UNCHANGED <<call, answers, calls, srv>>
    BY DEF Client, userVars, serverVars
  <1>2. proto.state # "Idle" /\ sending = << >>
    <2>1. Handled # Len(inbox)
      OBVIOUS
    <2>2. proto.state # "Idle"
      BY <2>1 DEF ProtocolInv, AtEnd
    <2>3. exec # "sending"
      OBVIOUS
    <2> QED
      BY <2>2, <2>3 DEF Typed, CountInv
  <1>3. call # NoRequest /\ proto.query = call /\ Asked
    BY <1>2 DEF CallInv, Answered
  <1>4. m.type \in Expected(call) /\ m.to = calls
    BY <1>3 DEF Asked
  <1>5. /\ proto.intersect = NoReply /\ proto.reply = NoReply
        /\ Len(outbox) = calls /\ outbox[calls] = call
    BY <1>2, <1>3 DEF Asked
  <1>6. proto \in Protocol /\ m.type \in OfServer
    BY ReplyTypes DEF Typed, TypeOK, Protocol
  <1>7. /\ proto'.state = "Idle" <=> Ends(m)
        /\ proto'.query = IF Ends(m) THEN NoRequest ELSE proto.query
        /\ proto'.reply = IF m.type \in Rolls THEN m ELSE proto.reply
        /\ proto'.intersect = IF m.type \in Intersections THEN m ELSE proto.intersect
    BY <1>6, Receiving, ReplyTypes
  <1>8. exec' = "parse" /\ ~hurt' /\ exec = "parse"
    BY DEF CallInv
  <1>9. CASE Ends(m)
    <2>1. m \in OfKind(Rolls) \cup OfKind(Intersections)
      BY <1>9, ReplyTypes DEF Ends
    <2>2. m # NoReply
      BY <2>1, NoReplyIsNone
    <2>3. Answered'
      <3>1. CASE call.type = "FindIntersect"
        <4>1. m.type \in Intersections /\ m.type \notin Rolls
          BY <1>4, <3>1 DEF Expected, Intersections, Rolls
        <4> QED
          BY <1>1, <1>4, <1>5, <1>7, <1>9, <2>2, <3>1, <4>1 DEF Answered
      <3>2. CASE call.type # "FindIntersect"
        <4>1. m.type \notin Intersections /\ m.type \in Rolls
          BY <1>4, <1>9, <3>2 DEF Expected, Intersections, Rolls, Ends
        <4> QED
          BY <1>1, <1>4, <1>5, <1>7, <1>9, <2>2, <3>2, <4>1 DEF Answered
      <3> QED
        BY <3>1, <3>2
    <2> QED
      BY <1>1, <1>3, <1>7, <1>8, <1>9, <2>3 DEF CallInv
  <1>10. CASE ~Ends(m)
    <2>1. /\ proto'.query = call /\ proto'.state # "Idle"
          /\ proto'.intersect = NoReply /\ proto'.reply = NoReply
      BY <1>3, <1>5, <1>7, <1>10 DEF Ends
    <2>2. \A k \in 1..Len(inbox) : k > n => k > Handled
      OBVIOUS
    <2>3. Asked'
      BY <1>1, <1>2, <1>3, <1>5, <2>1, <2>2 DEF Asked
    <2> QED
      BY <1>1, <1>3, <1>8, <2>1, <2>3 DEF CallInv
  <1> QED
    BY <1>9, <1>10

LEMMA CallClient ==
  ASSUME Typed, ProtocolInv, CallInv, Client
  PROVE  CallInv'
  <1> USE Counting
  <1>0. UNCHANGED <<call, answers, calls, srv, read>> /\ proto \in Protocol
    BY DEF Client, userVars, serverVars, Typed, TypeOK, Protocol
  <1>1. CASE SendBytes
    <2>1. exec = "loop" /\ proto.query # NoRequest /\ proto.state = "Idle"
      BY <1>0, <1>1, Agencies DEF SendBytes
    <2>2. /\ exec' = "sending" /\ proto' = AfterSend(proto)
          /\ sending' = <<proto.query>>
          /\ UNCHANGED <<taken, bytes, hurt, inbox, outbox>>
      BY <1>0, <1>1, <2>1, Sending DEF SendBytes, CanSend
    <2>3. call # NoRequest /\ proto.query = call /\ Asked
      BY <2>1 DEF CallInv
    <2>4. /\ proto'.state # "Idle" /\ proto'.query = call
          /\ proto'.intersect = NoReply /\ proto'.reply = NoReply
      BY <1>0, <2>2, <2>3, Sending DEF Asked
    <2>5. Handled' = Handled
      BY <2>2 DEF Handled
    <2>6. Asked'
      BY <1>0, <2>1, <2>2, <2>3, <2>4, <2>5 DEF Asked
    <2> QED
      BY <1>0, <2>2, <2>3, <2>4, <2>6 DEF CallInv
  <1>2. CASE Sent
    <2>1. /\ exec = "sending" /\ exec' = "loop" /\ sending # << >>
          /\ sending' = << >> /\ outbox' = outbox \o sending
          /\ proto.state # "Idle" /\ outbox \in Seq(Requests)
          /\ UNCHANGED <<proto, taken, bytes, hurt, inbox>>
      BY <1>2 DEF Sent, Typed, TypeOK, CountInv
    <2>2. call # NoRequest /\ proto.query = call /\ Asked
      BY <2>1 DEF CallInv, Answered
    <2>3. /\ sending = <<call>> /\ call \in Requests
          /\ Len(outbox) = Len(answers) /\ Len(answers) = calls - 1
      BY <2>1, <2>2 DEF Asked, CallInv, Typed, TypeOK
    <2>4. /\ Len(outbox') = calls /\ outbox'[calls] = call
          /\ \A k \in 1..Len(outbox) : outbox'[k] = outbox[k]
      BY <2>1, <2>3
    <2>5. Handled' = Handled
      BY <2>1 DEF Handled
    <2>6. Asked'
      BY <1>0, <2>1, <2>2, <2>4, <2>5 DEF Asked
    <2>7. \A k \in 1..Len(answers') :
            /\ answers'[k].got.to = k
            /\ k <= Len(outbox') /\ outbox'[k] = answers'[k].asked
      BY <1>0, <2>3, <2>4 DEF CallInv
    <2> QED
      BY <1>0, <2>1, <2>2, <2>6, <2>7 DEF CallInv
  <1>3. CASE AwaitFrame \/ Parsed
    <2>1. /\ exec \in {"loop", "parse"} /\ exec' \in {"await", "loop"}
          /\ UNCHANGED <<proto, sending, taken, bytes, hurt, inbox, outbox>>
      BY <1>3 DEF AwaitFrame, Parsed
    <2>2. Handled' = Handled /\ ~hurt'
      BY <2>1 DEF Handled, CallInv
    <2> QED
      BY <1>0, <2>1, <2>2, CallUnmoved
  <1>4. CASE RecvFrame
    <2>1. /\ exec = "await" /\ exec' = "parse"
          /\ UNCHANGED <<proto, sending, hurt, inbox, outbox>>
      BY <1>4 DEF RecvFrame
    <2>2. taken' - bytes' = taken - bytes
      BY <1>4 DEF RecvFrame, Pieces
    <2>3. Handled' = Handled /\ ~hurt'
      BY <2>1, <2>2 DEF Handled, CallInv
    <2> QED
      BY <1>0, <2>1, <2>3, CallUnmoved
  <1>5. CASE HandleMessage
    BY <1>5, CallMessages
  <1>6. CASE Misparse
    BY <1>6 DEF Misparse, ProtocolInv
  <1> QED
    BY <1>1, <1>2, <1>3, <1>4, <1>5, <1>6 DEF Client, Drive

(* The server's words are those of the request it has read.                *)
LEMMA CallServer ==
  ASSUME Typed, ProtocolInv, CallInv,
         ServerRead \/ ServerIntersects \/ ServerAwaits \/ ServerRolls
  PROVE  CallInv'
  <1> USE Counting
  <1>1. CASE ServerRead
    <2>1. /\ srv = "Idle" /\ read < Len(outbox) /\ read' = read + 1
          /\ srv' = IF outbox[read + 1].type = "FindIntersect" THEN "Intersect"
                                                               ELSE "CanAwait"
          /\ UNCHANGED <<proto, exec, sending, taken, bytes, hurt, inbox,
                         outbox, call, answers, calls, abandons>>
      BY <1>1 DEF ServerRead, clientVars, userVars
    <2>2. ~Served
      BY <2>1 DEF Served
    <2>3. proto.state # "Idle" /\ sending = << >> /\ read + 1 = Len(outbox)
      BY <2>1, <2>2 DEF ProtocolInv, Awaiting
    <2>4. call # NoRequest /\ proto.query = call /\ Asked
      BY <2>3 DEF CallInv, Answered
    <2>5. Len(outbox) = calls /\ outbox[read + 1] = call
      BY <2>3, <2>4 DEF Asked
    <2>6. srv' \in Turns(call)
      BY <2>1, <2>5 DEF Turns
    <2>7. Handled' = Handled
      BY <2>1 DEF Handled
    <2>8. Asked'
      BY <2>1, <2>4, <2>6, <2>7 DEF Asked
    <2> QED
      BY <2>1, <2>4, <2>8 DEF CallInv
  <1>2. CASE ServerIntersects \/ ServerAwaits \/ ServerRolls
    <2>1. srv # "Idle"
      BY <1>2 DEF ServerIntersects, ServerAwaits, ServerRolls
    <2>2. proto.state # "Idle" /\ sending = << >> /\ Served
      BY <2>1 DEF ProtocolInv, Awaiting
    <2>3. call # NoRequest /\ proto.query = call /\ Asked
      BY <2>2 DEF CallInv, Answered
    <2>4. srv \in Turns(call) /\ read = calls
      BY <2>1, <2>2, <2>3 DEF Asked, Served
    <2>5. PICK types \in SUBSET OfServer :
            /\ Write(types) /\ types \subseteq Expected(call)
            /\ srv' # "Idle" => srv' \in Turns(call)
      <3>1. /\ Intersections \in SUBSET OfServer /\ Rolls \in SUBSET OfServer
            /\ {"AwaitReply"} \in SUBSET OfServer
        BY DEF OfServer
      <3>2. srv = "Intersect" <=> call.type = "FindIntersect"
        BY <2>4 DEF Turns
      <3>3. CASE ServerIntersects
        BY <2>4, <3>1, <3>2, <3>3 DEF ServerIntersects, Expected
      <3>4. CASE ServerAwaits
        BY <2>4, <3>1, <3>2, <3>4 DEF ServerAwaits, Expected, Turns
      <3>5. CASE ServerRolls
        BY <2>4, <3>1, <3>2, <3>5 DEF ServerRolls, Expected
      <3> QED
        BY <1>2, <3>3, <3>4, <3>5
    <2>6. PICK type \in types :
            /\ Len(inbox') = Len(inbox) + 1
            /\ inbox'[Len(inbox) + 1].type = type
            /\ inbox'[Len(inbox) + 1].to = read
            /\ \A k \in 1..Len(inbox) : inbox'[k] = inbox[k]
            /\ Handled' = Handled
            /\ UNCHANGED <<proto, exec, sending, taken, bytes, hurt, outbox,
                           call, answers, calls, abandons, read>>
      BY <2>5, Written
    <2>7. \A k \in 1..Len(inbox') :
            k > Handled' => inbox'[k].type \in Expected(call) /\ inbox'[k].to = calls
      <3> SUFFICES ASSUME NEW k \in 1..Len(inbox'), k > Handled'
                   PROVE  inbox'[k].type \in Expected(call) /\ inbox'[k].to = calls
        OBVIOUS
      <3>1. k = Len(inbox) + 1 \/ k \in 1..Len(inbox)
        BY <2>6
      <3> QED
        BY <2>3, <2>4, <2>5, <2>6, <3>1 DEF Asked
    <2>8. Asked'
      BY <2>3, <2>5, <2>6, <2>7 DEF Asked
    <2> QED
      BY <2>3, <2>6, <2>8 DEF CallInv
  <1> QED
    BY <1>1, <1>2

-----------------------------------------------------------------------------
(* Every step keeps the invariant.                                         *)
LEMMA ChainSyncStep == CInv /\ [Next]_vars => CInv'
  <1> SUFFICES ASSUME CInv, [Next]_vars PROVE CInv'
    OBVIOUS
  <1>1. Typed /\ Typed'
    BY TypedStep DEF CInv
  <1>2. UNCHANGED vars =>
          UNCHANGED <<proto, exec, sending, taken, bytes, hurt, inbox, outbox,
                      call, answers, calls, srv, read>>
    BY DEF vars, clientVars, userVars, serverVars
  <1>3. ASSUME ~hurt' PROVE ProtocolInv'
    <2>1. ProtocolInv
      BY <1>1, <1>3, HistoryStays DEF CInv
    <2>2. CASE UNCHANGED vars
      BY <1>2, <2>1, <2>2
         DEF ProtocolInv, Awaiting, Handled, AtEnd, Served, Aligned
    <2> QED
      BY <1>1, <1>3, <2>1, <2>2, ProgramKeeps, ClientKeeps, ServerKeeps DEF Next
  <1>4. ASSUME abandons' = 0 PROVE CallInv'
    <2>1. abandons = 0 /\ ~GiveUp
      BY <1>1, <1>4, HistoryStays
    <2>2. CallInv /\ ProtocolInv
      BY <2>1 DEF CInv, CallInv
    <2>3. CASE UNCHANGED vars
      <3>1. Handled' = Handled /\ ~hurt' /\ exec' # "panicked"
        BY <1>2, <2>2, <2>3 DEF Handled, CallInv
      <3> QED
        BY <1>2, <2>2, <2>3, <3>1, CallUnmoved
    <2> QED
      BY <1>1, <2>1, <2>2, <2>3, CallCalls, CallReturns, CallClient, CallServer
         DEF Next
  <1> QED
    BY <1>1, <1>3, <1>4 DEF CInv

(* Client and server keep step with the requests and answers between them  *)
(* (chainsync.rs:169-262), and a program that gives no call up with its    *)
(* own requests.                                                           *)
THEOREM ChainSyncInvariant == Spec => []CInv
  <1>1. Init => CInv
    BY ChainSyncStarts
  <1>2. CInv /\ [Next]_vars => CInv'
    BY ChainSyncStep
  <1> QED
    BY <1>1, <1>2, PTL DEF Spec

-----------------------------------------------------------------------------
(* The state of client, program and server is what it should be, whatever  *)
(* was given up and whatever misplaced bytes were taken for                *)
(* (chainsync.rs:194-262).                                                 *)
THEOREM ChainSyncTyped == Spec => []TypeOK
  <1>1. CInv => TypeOK
    BY DEF CInv, Typed
  <1> QED
    BY <1>1, ChainSyncInvariant, PTL

(* The client writes only to a server that waits for it, until giving up   *)
(* costs a part of a message (chainsync.rs:194-205, 227-262).              *)
THEOREM WritesOnlyToIdleSafe == Spec => []WritesOnlyToIdle
  <1>1. CInv => WritesOnlyToIdle
    <2> SUFFICES ASSUME CInv, ~hurt, read < Len(outbox) PROVE srv = "Idle"
      BY DEF WritesOnlyToIdle
    <2>1. Typed /\ ProtocolInv
      BY DEF CInv
    <2>2. ~Served
      BY <2>1, Counting DEF Served
    <2> QED
      BY <2>1, <2>2 DEF ProtocolInv, Awaiting
  <1> QED
    BY <1>1, ChainSyncInvariant, PTL

(* A program that gives no call up meets no panic (chainsync.rs:172, 178;  *)
(* protocols.rs:71, 92).                                                   *)
THEOREM NoPanicSafe == Spec => []NoPanic
  <1>1. CInv => NoPanic
    BY DEF CInv, CallInv, NoPanic
  <1> QED
    BY <1>1, ChainSyncInvariant, PTL

(* Each of its calls returns the answer to its own request, however the    *)
(* answers are cut into frames (chainsync.rs:169-179).                     *)
THEOREM OwnAnswerSafe == Spec => []OwnAnswer
  <1>1. CInv => OwnAnswer
    BY DEF CInv, CallInv, OwnAnswer
  <1> QED
    BY <1>1, ChainSyncInvariant, PTL

-----------------------------------------------------------------------------
(***************************************************************************)
(* The rolls, in a program that may give calls up, while nothing is lost.  *)
(***************************************************************************)
(* An answer received is taken by its call before anything else is sent,   *)
(* so there is one at most; and the rolls returned or held are those among *)
(* the messages handled.                                                   *)
AllRolls == OfKind(Rolls)
Held == proto.reply # NoReply \/ proto.intersect # NoReply

RollsInv ==
  /\ Held => /\ proto.state = "Idle" /\ proto.query = NoRequest
             /\ exec \in {"parse", "loop", "panicked"}
             /\ proto.reply = NoReply \/ proto.intersect = NoReply
  /\ Followed = AmongFirst(Handled, inbox, AllRolls)

FollowInv == CInv /\ (~hurt => RollsInv)

(* What is appended goes behind all there was.                             *)
LEMMA Trailing ==
  ASSUME NEW S, NEW s \in Seq(S), NEW x \in S
  PROVE  /\ Append(s, x) \o << >> = s \o <<x>>
         /\ s \o << >> = s
         /\ s \o <<x>> = Append(s, x)
OBVIOUS

(* The answers returned grow by what the call takes out of its field.      *)
LEMMA GotGrows ==
  ASSUME NEW S, NEW s \in Seq([asked : Requests, got : S]),
         NEW a \in [asked : Requests, got : S]
  PROVE  /\ [k \in 1..Len(s) |-> s[k].got] \in Seq(S)
         /\ [k \in 1..Len(Append(s, a)) |-> Append(s, a)[k].got]
              = Append([k \in 1..Len(s) |-> s[k].got], a.got)
  <1>1. /\ Len(Append(s, a)) = Len(s) + 1 /\ Len(s) \in Nat
        /\ Append(s, a)[Len(s) + 1] = a
        /\ \A k \in 1..Len(s) : Append(s, a)[k] = s[k]
    OBVIOUS
  <1>2. \A k \in 1..Len(s) : s[k].got \in S
    <2> DEFINE R == [asked : Requests, got : S]
    <2>1. \A r \in R : r.got \in S
      OBVIOUS
    <2>2. s \in Seq(R)
      OBVIOUS
    <2> HIDE DEF R
    <2>3. \A k \in 1..Len(s) : s[k] \in R
      BY <2>2
    <2> QED
      BY <2>1, <2>3
  <1> DEFINE g == [k \in 1..Len(s) |-> s[k].got]
  <1>3. g \in Seq(S) /\ Len(g) = Len(s) /\ \A k \in 1..Len(s) : g[k] = s[k].got
    BY <1>1, <1>2
  <1> HIDE DEF g
  <1>4. /\ Append(g, a.got) \in Seq(S)
        /\ Len(Append(g, a.got)) = Len(s) + 1
        /\ Append(g, a.got)[Len(s) + 1] = a.got
        /\ \A k \in 1..Len(s) : Append(g, a.got)[k] = s[k].got
    BY <1>1, <1>3
  <1>5. Append(g, a.got) = [k \in 1..(Len(s) + 1) |-> Append(g, a.got)[k]]
    BY <1>4
  <1>6. \A k \in 1..(Len(s) + 1) : Append(s, a)[k].got = Append(g, a.got)[k]
    BY <1>1, <1>4
  <1>7. [k \in 1..Len(Append(s, a)) |-> Append(s, a)[k].got] = Append(g, a.got)
    BY <1>1, <1>5, <1>6
  <1> QED
    BY <1>3, <1>7 DEF g

LEMMA GotTyped ==
  ASSUME Typed
  PROVE  Got \in Seq(Replies) /\ Among(Got, AllRolls) \in Seq(Replies \cap AllRolls)
  <1>1. answers \in Seq([asked : Requests, got : Replies])
    BY DEF Typed, TypeOK
  <1>2. \A k \in 1..Len(answers) : answers[k].got \in Replies
    <2> DEFINE R == [asked : Requests, got : Replies]
    <2>1. \A r \in R : r.got \in Replies
      OBVIOUS
    <2>2. answers \in Seq(R)
      BY <1>1
    <2> HIDE DEF R
    <2>3. \A k \in 1..Len(answers) : answers[k] \in R
      BY <2>2
    <2> QED
      BY <2>1, <2>3
  <1>3. Len(answers) \in Nat
    BY <1>1
  <1>4. Got \in Seq(Replies)
    BY <1>2, <1>3 DEF Got
  <1>5. Len(Got) \in 0..Len(Got)
    BY <1>4
  <1> QED
    BY <1>4, <1>5, AmongType DEF Among

(* A step that handles and returns nothing, and keeps what is held.        *)
LEMMA RollsUnmoved ==
  ASSUME RollsInv, Handled' = Handled, inbox' = inbox, answers' = answers,
         proto'.reply = proto.reply, proto'.intersect = proto.intersect,
         \/ ~Held
         \/ UNCHANGED proto /\ exec' \in {"parse", "loop", "panicked"}
  PROVE  RollsInv'
  <1>1. Held' <=> Held
    BY DEF Held
  <1>2. Followed' = Followed
    BY DEF Followed, Got
  <1> QED
    BY <1>1, <1>2 DEF RollsInv

(* A call begins and is given up with nothing held                         *)
(* (chainsync.rs:157-179).                                                 *)
LEMMA RollsProgram ==
  ASSUME Typed, ProtocolInv, RollsInv, ~hurt', FindIntersect \/ RequestNext \/ GiveUp
  PROVE  RollsInv'
  <1>1. CASE FindIntersect \/ RequestNext
    <2>1. PICK request : Call(request)
      BY <1>1 DEF FindIntersect, RequestNext
    <2>2. /\ proto' = [proto EXCEPT !.query = request] /\ exec = "idle"
          /\ UNCHANGED <<taken, bytes, inbox, answers>>
      BY <2>1 DEF Call, Execute
    <2>3. proto'.reply = proto.reply /\ proto'.intersect = proto.intersect
      BY <2>2 DEF Typed, TypeOK
    <2>4. ~Held
      BY <2>2 DEF RollsInv
    <2>5. Handled' = Handled
      BY <2>2 DEF Handled
    <2> QED
      BY <2>2, <2>3, <2>4, <2>5, RollsUnmoved
  <1>2. CASE GiveUp
    <2>1. exec = "await" /\ ~(bytes > 0)
      BY <1>2, Zenon DEF GiveUp, Abandon
    <2>2. bytes = 0 /\ bytes' = 0
      BY <1>2, <2>1, Counting DEF GiveUp, Abandon
    <2>3. UNCHANGED <<proto, taken, inbox, answers>>
      BY <1>2 DEF GiveUp, Abandon
    <2>4. ~Held
      BY <2>1 DEF RollsInv
    <2>5. Handled' = Handled
      BY <2>2, <2>3 DEF Handled
    <2> QED
      BY <2>3, <2>4, <2>5, RollsUnmoved
  <1> QED
    BY <1>1, <1>2

(* A call that returns moves the answer from its field to the program      *)
(* (chainsync.rs:169-179).                                                 *)
LEMMA RollsReturned ==
  ASSUME Typed, RollsInv, FindIntersectReturns \/ RequestNextReturns
  PROVE  RollsInv'
  <1> USE Returning
  <1> DEFINE Among1 == Among(Got, AllRolls)
  <1>0. /\ proto \in Protocol /\ proto' \in Protocol
        /\ answers \in Seq([asked : Requests, got : Replies])
        /\ Got \in Seq(Replies) /\ Among1 \in Seq(Replies \cap AllRolls)
        /\ Handled' = Handled
    <2>1. answers \in Seq([asked : Requests, got : Replies]) /\ proto \in Protocol
      BY DEF Typed, TypeOK, Protocol
    <2>2. Handled' = Handled
      BY DEF Handled
    <2> QED
      BY <2>1, <2>2, GotTyped
  <1>1. ASSUME NEW answer \in Replies, call \in Requests,
               answers' = Append(answers, [asked |-> call, got |-> answer])
        PROVE  /\ answer \in AllRolls =>
                    Among(Got', AllRolls) = Append(Among1, answer)
               /\ answer \notin AllRolls => Among(Got', AllRolls) = Among1
    <2>1. [asked |-> call, got |-> answer] \in [asked : Requests, got : Replies]
      BY <1>1
    <2>2. Got' = Append(Got, answer)
      BY <1>0, <1>1, <2>1, GotGrows DEF Got
    <2> QED
      BY <1>0, <2>2, AmongAppend
  <1>2. CASE exec' = "panicked"
    <2>1. UNCHANGED <<proto, answers>>
      BY <1>2 DEF FindIntersectReturns, RequestNextReturns, Returns
    <2> QED
      BY <1>0, <1>2, <2>1, RollsUnmoved
  <1>3. CASE FindIntersectReturns /\ exec' # "panicked"
    <2>1. /\ proto.intersect # NoReply /\ call.type = "FindIntersect"
          /\ proto' = [proto EXCEPT !.intersect = NoReply]
          /\ answers' = Append(answers, [asked |-> call, got |-> proto.intersect])
      BY <1>3 DEF FindIntersectReturns, Returns
    <2>2. proto.reply = NoReply /\ proto'.reply = NoReply /\ proto'.intersect = NoReply
      <3>1. proto.reply = NoReply
        BY <2>1 DEF RollsInv, Held
      <3> QED
        BY <1>0, <2>1, <3>1 DEF Protocol
    <2>3. call \in Requests
      BY <2>1 DEF Typed, TypeOK, NoRequest, Request
    <2>4. proto.intersect \in Replies /\ proto.intersect \notin AllRolls
      <3>1. proto.intersect \in OfKind(Intersections)
        BY <1>0, <2>1 DEF Protocol
      <3>2. proto.intersect \in Replies /\ proto.intersect.type \in Intersections
        BY <3>1, NoReplyIsNone
      <3>3. proto.intersect.type \notin Rolls
        BY <3>2 DEF Intersections, Rolls
      <3> QED
        BY <3>2, <3>3, NoReplyIsNone DEF AllRolls
    <2>5. Among(Got', AllRolls) = Among1
      BY <1>1, <2>1, <2>3, <2>4
    <2>6. Followed' = Followed /\ ~Held'
      BY <2>2, <2>5 DEF Followed, Held, AllRolls
    <2> QED
      BY <1>0, <2>6 DEF RollsInv
  <1>4. CASE RequestNextReturns /\ exec' # "panicked"
    <2>1. /\ proto.reply # NoReply /\ call.type = "RequestNext"
          /\ proto' = [proto EXCEPT !.reply = NoReply]
          /\ answers' = Append(answers, [asked |-> call, got |-> proto.reply])
      BY <1>4 DEF RequestNextReturns, Returns
    <2>2. proto'.reply = NoReply /\ proto'.intersect = NoReply
      <3>1. proto.intersect = NoReply
        BY <2>1 DEF RollsInv, Held
      <3> QED
        BY <1>0, <2>1, <3>1 DEF Protocol
    <2>3. call \in Requests
      BY <2>1 DEF Typed, TypeOK, NoRequest, Request
    <2>4. proto.reply \in Replies /\ proto.reply \in AllRolls
      <3>1. proto.reply \in AllRolls
        BY <1>0, <2>1 DEF Protocol, AllRolls
      <3> QED
        BY <3>1, NoReplyIsNone DEF AllRolls
    <2>5. Among(Got', AllRolls) = Append(Among1, proto.reply)
      BY <1>1, <2>1, <2>3, <2>4
    <2>6. Followed' = Append(Among1, proto.reply) \o << >>
      BY <2>2, <2>5 DEF Followed, AllRolls
    <2>7. Followed = Among1 \o <<proto.reply>>
      BY <2>1 DEF Followed, AllRolls
    <2>8. Followed' = Followed
      <3> DEFINE a == Among1
                 r == proto.reply
      <3>1. a \in Seq(Replies \cap AllRolls) /\ r \in Replies \cap AllRolls
        BY <1>0, <2>4
      <3> HIDE DEF a, r
      <3>2. Append(a, r) \o << >> = a \o <<r>>
        BY <3>1, Trailing
      <3> QED
        BY <2>6, <2>7, <3>2 DEF a, r
    <2>9. ~Held'
      BY <2>2 DEF Held
    <2> QED
      BY <1>0, <2>8, <2>9 DEF RollsInv
  <1> QED
    BY <1>2, <1>3, <1>4

(* A message handled while nothing is held: a roll is held then            *)
(* (chainsync.rs:227-262).                                                 *)
LEMMA RollsMessage ==
  ASSUME Typed, ProtocolInv, RollsInv, Client, HandleMessage
  PROVE  RollsInv'
  <1> USE Counting, Heading
  <1> DEFINE n == Handled
             m == inbox[n + 1]
             a == AmongFirst(n, inbox, AllRolls)
  <1>0. /\ answers' = answers /\ proto \in Protocol
        /\ n \in 0..(Len(inbox) - 1) /\ inbox \in Seq(OfKind(OfServer))
    BY DEF Client, userVars, Typed, TypeOK, CountInv, Protocol
  <1>1. ~Held
    <2>1. Handled # Len(inbox)
      BY <1>0
    <2>2. proto.state # "Idle"
      BY <2>1 DEF ProtocolInv, AtEnd
    <2> QED
      BY <2>2 DEF RollsInv
  <1>2. /\ m.type \in OfServer
        /\ m.type \in Rolls <=> m \in AllRolls
        /\ m.type \in Intersections => m \in OfKind(Intersections)
    BY ReplyTypes, NoReplyIsNone DEF AllRolls
  <1>3. /\ proto'.state = "Idle" <=> Ends(m)
        /\ proto'.query = IF Ends(m) THEN NoRequest ELSE proto.query
        /\ proto'.reply = IF m.type \in Rolls THEN m ELSE proto.reply
        /\ proto'.intersect = IF m.type \in Intersections THEN m ELSE proto.intersect
    BY <1>0, <1>2, Receiving DEF AllRolls
  <1>4. AmongFirst(n + 1, inbox, AllRolls) = IF m \in AllRolls THEN Append(a, m) ELSE a
    BY <1>0, AmongNext
  <1>5. a \in Seq(OfKind(OfServer) \cap AllRolls)
    <2>1. n \in 0..Len(inbox)
      BY <1>0
    <2> QED
      BY <1>0, <2>1, AmongType
  <1>6. Among(Got, AllRolls) = a
    <2>1. Followed = Among(Got, AllRolls) \o << >>
      BY <1>1 DEF Followed, Held, AllRolls
    <2> DEFINE g == Among(Got, AllRolls)
    <2>2. g \in Seq(Replies \cap AllRolls)
      BY GotTyped
    <2> HIDE DEF g
    <2>3. g \o << >> = g
      BY <2>2
    <2> QED
      BY <2>1, <2>3 DEF RollsInv, g
  <1>7. Followed' = AmongFirst(n + 1, inbox, AllRolls)
    <2>1. Got' = Got
      BY <1>0 DEF Got
    <2>2. CASE m.type \in Rolls
      <3>1. proto'.reply = m /\ m # NoReply /\ m \in AllRolls
        BY <1>2, <1>3, <2>2, NoReplyIsNone DEF AllRolls
      <3>2. Followed' = a \o <<m>>
        BY <1>6, <2>1, <3>1 DEF Followed, AllRolls
      <3>3. m \in OfKind(OfServer) \cap AllRolls
        BY <3>1
      <3> HIDE DEF a, m
      <3>4. a \o <<m>> = Append(a, m)
        BY <1>5, <3>3, Trailing
      <3> QED
        BY <1>4, <3>1, <3>2, <3>4
    <2>3. CASE m.type \notin Rolls
      <3>1. proto'.reply = NoReply /\ m \notin AllRolls
        BY <1>1, <1>2, <1>3, <2>3 DEF Held
      <3>2. Followed' = a \o << >>
        BY <1>6, <2>1, <3>1 DEF Followed, AllRolls
      <3> HIDE DEF a
      <3>3. a \o << >> = a
        BY <1>5
      <3> QED
        BY <1>4, <3>1, <3>2, <3>3
    <2> QED
      BY <2>2, <2>3
  <1>8. Held' => /\ Ends(m)
                 /\ proto'.reply = NoReply \/ proto'.intersect = NoReply
    <2>1. ~(m.type \in Rolls /\ m.type \in Intersections)
      BY DEF Rolls, Intersections
    <2> QED
      BY <1>1, <1>3, <2>1 DEF Held, Ends
  <1>9. exec' = "parse" /\ Handled' = n + 1 /\ inbox' = inbox
    OBVIOUS
  <1> HIDE DEF n, m, a
  <1> QED
    BY <1>3, <1>7, <1>8, <1>9 DEF RollsInv

LEMMA RollsClient ==
  ASSUME Typed, ProtocolInv, RollsInv, Client
  PROVE  RollsInv'
  <1>0. answers' = answers /\ proto \in Protocol
    BY DEF Client, userVars, Typed, TypeOK, Protocol
  <1>1. CASE SendBytes
    <2>1. proto.query # NoRequest /\ proto.state = "Idle"
      BY <1>0, <1>1, Agencies DEF SendBytes
    <2>2. proto' = AfterSend(proto) /\ UNCHANGED <<taken, bytes, inbox>>
      BY <1>1, <2>1 DEF SendBytes, CanSend
    <2>3. proto'.reply = proto.reply /\ proto'.intersect = proto.intersect
      BY <1>0, <2>2, Sending
    <2>4. ~Held
      BY <2>1 DEF RollsInv
    <2>5. Handled' = Handled
      BY <2>2 DEF Handled
    <2> QED
      BY <1>0, <2>2, <2>3, <2>4, <2>5, RollsUnmoved
  <1>2. CASE Sent \/ AwaitFrame
    <2>1. UNCHANGED <<proto, taken, bytes, inbox>>
      BY <1>2 DEF Sent, AwaitFrame
    <2>2. exec = "sending" \/ proto.query # NoRequest
      BY <1>0, <1>2, Agencies DEF Sent, AwaitFrame
    <2>3. ~Held
      BY <2>2 DEF RollsInv
    <2>4. Handled' = Handled
      BY <2>1 DEF Handled
    <2> QED
      BY <1>0, <2>1, <2>3, <2>4, RollsUnmoved
  <1>3. CASE RecvFrame
    <2>1. exec = "await" /\ UNCHANGED <<proto, inbox>>
      BY <1>3 DEF RecvFrame
    <2>2. PICK n \in 1..(2 * Len(inbox) - taken) :
            taken' = taken + n /\ bytes' = bytes + n
      BY <1>3 DEF RecvFrame, Pieces
    <2>3. taken' - bytes' = taken - bytes
      <3>1. taken \in Nat /\ bytes \in Nat /\ n \in Int
        BY Counting
      <3> QED
        BY <2>2, <3>1
    <2>4. Handled' = Handled
      BY <2>3 DEF Handled
    <2>5. ~Held
      BY <2>1 DEF RollsInv
    <2> QED
      BY <1>0, <2>1, <2>4, <2>5, RollsUnmoved
  <1>4. CASE HandleMessage
    BY <1>4, RollsMessage
  <1>5. CASE Parsed
    <2>1. exec' = "loop" /\ UNCHANGED <<proto, taken, bytes, inbox>>
      BY <1>5 DEF Parsed
    <2>2. Handled' = Handled
      BY <2>1 DEF Handled
    <2> QED
      BY <1>0, <2>1, <2>2, RollsUnmoved
  <1>6. CASE Misparse
    BY <1>6 DEF Misparse, ProtocolInv
  <1> QED
    BY <1>1, <1>2, <1>3, <1>4, <1>5, <1>6 DEF Client, Drive

(* What the server writes is not handled yet.                              *)
LEMMA RollsServer ==
  ASSUME Typed, RollsInv,
         ServerRead \/ ServerIntersects \/ ServerAwaits \/ ServerRolls
  PROVE  RollsInv'
  <1>1. CASE ServerRead
    <2>1. UNCHANGED <<proto, exec, taken, bytes, inbox, answers>>
      BY <1>1 DEF ServerRead, clientVars, userVars
    <2>2. Handled' = Handled
      BY <2>1 DEF Handled
    <2>3. ~Held \/ exec' \in {"parse", "loop", "panicked"}
      BY <2>1 DEF RollsInv
    <2> QED
      BY <2>1, <2>2, <2>3, RollsUnmoved
  <1>2. CASE ServerIntersects \/ ServerAwaits \/ ServerRolls
    <2>1. PICK types \in SUBSET OfServer : Write(types)
      <3>1. /\ Intersections \in SUBSET OfServer /\ Rolls \in SUBSET OfServer
            /\ {"AwaitReply"} \in SUBSET OfServer
        BY DEF OfServer
      <3> QED
        BY <1>2, <3>1 DEF ServerIntersects, ServerAwaits, ServerRolls
    <2>2. PICK type \in types :
            /\ inbox' = Append(inbox, Reply(type, read))
            /\ Handled' = Handled
            /\ UNCHANGED <<proto, exec, answers>>
      BY <2>1, Written
    <2>3. /\ Reply(type, read) \in OfKind(OfServer)
          /\ inbox \in Seq(OfKind(OfServer)) /\ Handled \in 0..Len(inbox)
      <3>1. read \in 0..MaxCalls
        BY Counting, ChainSyncAssumption DEF Typed, TypeOK, CountInv
      <3> QED
        BY <3>1, ReplyTypes, Counting DEF Typed, CountInv
    <2>4. AmongFirst(Handled', inbox', AllRolls) = AmongFirst(Handled, inbox, AllRolls)
      <3> DEFINE S == OfKind(OfServer)
                 m == Reply(type, read)
                 n == Handled
      <3>1. inbox \in Seq(S) /\ m \in S /\ n \in 0..Len(inbox)
        BY <2>3
      <3>2. inbox' = Append(inbox, m) /\ Handled' = n
        BY <2>2
      <3> HIDE DEF S, m, n
      <3>3. \A k \in 0..Len(inbox) :
              AmongFirst(k, Append(inbox, m), AllRolls) = AmongFirst(k, inbox, AllRolls)
        BY <3>1, AmongAppend
      <3> QED
        BY <3>1, <3>2, <3>3 DEF n
    <2>5. Followed' = Followed /\ (Held' <=> Held)
      BY <2>2 DEF Followed, Got, Held
    <2> QED
      BY <2>2, <2>4, <2>5 DEF RollsInv
  <1> QED
    BY <1>1, <1>2

LEMMA FollowStarts == Init => FollowInv
  <1> SUFFICES ASSUME Init PROVE FollowInv
    OBVIOUS
  <1>1. CInv
    BY ChainSyncStarts
  <1>2. /\ proto.reply = NoReply /\ proto.intersect = NoReply
        /\ taken = 0 /\ bytes = 0 /\ inbox = << >> /\ answers = << >>
    BY DEF Init, DriverInit
  <1>3. Handled = 0
    BY <1>2 DEF Handled
  <1>4. \A s \in Seq(Replies) : AmongFirst(0, s, AllRolls) = << >>
    BY AmongNext
  <1>5. Got \in Seq(Replies) /\ Len(Got) = 0
    BY <1>2 DEF Got
  <1>6. Among(Got, AllRolls) = << >>
    BY <1>4, <1>5 DEF Among
  <1>7. AmongFirst(0, inbox, AllRolls) = << >>
    <2>1. inbox \in Seq(Replies)
      BY <1>2
    <2> QED
      BY <1>4, <2>1
  <1>8. Followed = << >>
    BY <1>2, <1>6 DEF Followed, AllRolls
  <1> QED
    BY <1>1, <1>2, <1>3, <1>7, <1>8 DEF FollowInv, RollsInv, Held

LEMMA FollowStep == FollowInv /\ [Next]_vars => FollowInv'
  <1> SUFFICES ASSUME FollowInv, [Next]_vars PROVE FollowInv'
    OBVIOUS
  <1>1. CInv /\ CInv' /\ Typed
    BY ChainSyncStep DEF FollowInv, CInv
  <1>2. ASSUME ~hurt' PROVE RollsInv'
    <2>1. ProtocolInv /\ RollsInv
      BY <1>1, <1>2, HistoryStays DEF CInv, FollowInv
    <2>2. CASE UNCHANGED vars
      <3>1. UNCHANGED <<proto, exec, taken, bytes, inbox, answers>>
        BY <2>2 DEF vars, clientVars, userVars
      <3>2. Handled' = Handled
        BY <3>1 DEF Handled
      <3>3. ~Held \/ exec' \in {"parse", "loop", "panicked"}
        BY <2>1, <3>1 DEF RollsInv
      <3> QED
        BY <2>1, <3>1, <3>2, <3>3, RollsUnmoved
    <2> QED
      BY <1>1, <1>2, <2>1, <2>2, RollsProgram, RollsReturned, RollsClient,
         RollsServer DEF Next
  <1> QED
    BY <1>1, <1>2 DEF FollowInv

(* What was returned is what was handled and written                       *)
(* (chainsync.rs:175-179, 227-262), in the same order, until giving up     *)
(* costs a part of a message.                                              *)
THEOREM FollowInvariant == Spec => []FollowInv
  <1>1. Init => FollowInv
    BY FollowStarts
  <1>2. FollowInv /\ [Next]_vars => FollowInv'
    BY FollowStep
  <1> QED
    BY <1>1, <1>2, PTL DEF Spec

(* The rolls that request_next returns are those the server wrote, in      *)
(* order, none lost and none twice, over any number of calls, given up or  *)
(* not, until giving up costs a part of a message (chainsync.rs:175-179,   *)
(* 227-262).                                                               *)
THEOREM RollsInOrderSafe == Spec => []RollsInOrder
  <1>1. FollowInv => RollsInOrder
    <2> SUFFICES ASSUME FollowInv, ~hurt
                 PROVE  IsPrefix(Followed, Among(inbox, OfKind(Rolls)))
      BY DEF RollsInOrder
    <2>1. Typed /\ RollsInv
      BY DEF FollowInv, CInv
    <2>2. inbox \in Seq(OfKind(OfServer)) /\ Handled \in 0..Len(inbox)
      BY <2>1, Counting DEF Typed, CountInv
    <2> QED
      BY <2>1, <2>2, AmongPrefix DEF RollsInv, AllRolls
  <1> QED
    BY <1>1, FollowInvariant, PTL
=============================================================================
