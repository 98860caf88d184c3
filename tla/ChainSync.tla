----------------------------- MODULE ChainSync ------------------------------
(***************************************************************************)
(* The chain-sync client (src/src/protocols/chainsync.rs) run by the       *)
(* driver, against a server that follows the protocol: it answers a        *)
(* FindIntersect with IntersectFound or IntersectNotFound, and a           *)
(* RequestNext with RollForward or RollBackward, at once or after an       *)
(* AwaitReply.  The headers it rolls forward to can be decoded.            *)
(*                                                                         *)
(* The program calls find_intersect and request_next in any order and may  *)
(* give up a call that is waiting by dropping its future.  The client's    *)
(* recv looks at the message alone, never at its own state or query.       *)
(***************************************************************************)
EXTENDS Naturals, Sequences, SequencesExt, Selection

CONSTANTS
  Points,      \* lists of points a program can ask an intersection for
  NoPoints,    \* what a RequestNext asks about
  MaxCalls,    \* bound: calls the program makes
  MaxAbandons  \* bound: calls the program gives up

ASSUME ChainSyncAssumption ==
  /\ NoPoints \notin Points
  /\ MaxCalls \in Nat
  /\ MaxAbandons \in Nat

VARIABLES
  proto, exec, sending, taken, bytes, hurt, inbox, outbox,
  call,      \* the call in progress: the request it wants answered, or none
  answers,   \* what the calls have returned, with their requests
  calls,     \* calls made so far
  abandons,  \* calls given up so far
  srv,       \* state of the server
  read       \* requests the server has read

clientVars == <<proto, exec, sending, taken, bytes, hurt>>
userVars == <<call, answers, calls, abandons>>
serverVars == <<srv, read>>
vars == <<clientVars, inbox, outbox, userVars, serverVars>>

Request(type, points) == [type |-> type, points |-> points]
Requests ==
  { Request("FindIntersect", ps) : ps \in Points }
    \cup {Request("RequestNext", NoPoints)}
NoRequest == Request("none", NoPoints)

(* A message of the server is known by the request it answers.             *)
Rolls == {"RollForward", "RollBackward"}
Intersections == {"IntersectFound", "IntersectNotFound"}
OfServer == {"AwaitReply"} \cup Rolls \cup Intersections
OfClient == {"RequestNext", "FindIntersect", "Done"}
Reply(type, to) == [type |-> type, to |-> to]
NoReply == Reply("none", 0)

-----------------------------------------------------------------------------
(***************************************************************************)
(* The protocol: agency, send and recv of the client.                      *)
(***************************************************************************)
Agency(p) ==
  CASE p.query = NoRequest \/ p.state = "Done" -> "None"
    [] OTHER -> IF p.state = "Idle" THEN "Client" ELSE "Server"

CanSend(p) == p.state = "Idle"

AfterSend(p) ==
  [p EXCEPT !.state =
     IF p.query.type = "FindIntersect" THEN "Intersect" ELSE "CanAwait"]

ToSendType(p) == Request(p.query.type, NoPoints)  \* mutant: without points
ToSend(p) == p.query

Accepts(p, m) == m.type # "FindIntersect"

(* The answers that end a call, and the state a message leads to.  The     *)
(* mutants (bugs the code could have; none is part of Spec): an AwaitReply *)
(* ends the call, leads to Idle, a failed intersection does not end it.    *)
EndsOnAwait(m) == m.type \in Rolls \cup Intersections \cup {"AwaitReply"}
Ends(m) == m.type \in Rolls \cup Intersections

IdleOnAwait(m) ==
  CASE m.type = "RequestNext" -> "CanAwait"
    [] m.type = "Done" -> "Done"
    [] OTHER -> "Idle"

StuckOnNotFound(m) ==
  CASE m.type = "RequestNext" -> "CanAwait"
    [] m.type = "AwaitReply" -> "MustReply"
    [] m.type = "IntersectNotFound" -> "Intersect"
    [] m.type = "Done" -> "Done"
    [] OTHER -> "Idle"

StateAfter(m) ==
  CASE m.type = "RequestNext" -> "CanAwait"
    [] m.type = "AwaitReply" -> "MustReply"
    [] m.type = "Done" -> "Done"
    [] Ends(m) -> "Idle"

AfterRecv(p, m) ==
  [p EXCEPT !.state = StateAfter(m),
            !.query = IF Ends(m) THEN NoRequest ELSE @,
            !.reply = IF m.type \in Rolls THEN m ELSE @,
            !.intersect = IF m.type \in Intersections THEN m ELSE @]

INSTANCE Driver WITH
  Role <- "Client",
  Messages <- { Reply(type, 0) : type \in OfServer \cup OfClient }

Init ==
  /\ DriverInit
  /\ proto = [state |-> "Idle", query |-> NoRequest, intersect |-> NoReply,
              reply |-> NoReply]
  /\ call = NoRequest
  /\ answers = << >>
  /\ calls = 0
  /\ abandons = 0
  /\ srv = "Idle"
  /\ read = 0

-----------------------------------------------------------------------------
(***************************************************************************)
(* The program's calls.  A call that returns takes the answer it expects   *)
(* out of its field, and panics when there is none.                        *)
(***************************************************************************)
Call(request) ==
  /\ call = NoRequest
  /\ calls < MaxCalls
  /\ Execute([proto EXCEPT !.query = request])
  /\ call' = request
  /\ calls' = calls + 1
  /\ UNCHANGED <<answers, abandons, serverVars>>

FindIntersect == \E ps \in Points : Call(Request("FindIntersect", ps))

RequestNext == Call(Request("RequestNext", NoPoints))

Returns(answer, emptied) ==
  /\ Executed
  /\ IF answer = NoReply
       THEN /\ exec' = "panicked"
            /\ UNCHANGED <<proto, call, answers>>
       ELSE /\ exec' = "idle"
            /\ proto' = emptied
            /\ call' = NoRequest
            /\ answers' = Append(answers, [asked |-> call, got |-> answer])
  /\ UNCHANGED <<sending, taken, bytes, hurt, inbox, outbox, calls, abandons,
                 serverVars>>

FindIntersectReturns ==
  /\ call.type = "FindIntersect"
  /\ Returns(proto.intersect, [proto EXCEPT !.intersect = NoReply])

(* Mutant: the answer is cloned, not taken.                                *)
RequestNextClones ==
  /\ call.type = "RequestNext"
  /\ Returns(proto.reply, proto)

RequestNextReturns ==
  /\ call.type = "RequestNext"
  /\ Returns(proto.reply, [proto EXCEPT !.reply = NoReply])

GiveUp ==
  /\ abandons < MaxAbandons
  /\ Abandon
  /\ call' = NoRequest
  /\ abandons' = abandons + 1
  /\ UNCHANGED <<answers, calls, serverVars>>

Client == Drive /\ UNCHANGED <<userVars, serverVars>>

-----------------------------------------------------------------------------
(***************************************************************************)
(* The server.                                                             *)
(***************************************************************************)
Write(types) ==
  /\ \E type \in types : inbox' = Append(inbox, Reply(type, read))
  /\ UNCHANGED <<clientVars, outbox, userVars, read>>

ServerRead ==
  /\ srv = "Idle"
  /\ read < Len(outbox)
  /\ read' = read + 1
  /\ srv' = IF outbox[read'].type = "FindIntersect" THEN "Intersect"
                                                    ELSE "CanAwait"
  /\ UNCHANGED <<clientVars, inbox, outbox, userVars>>

ServerIntersects ==
  /\ srv = "Intersect"
  /\ srv' = "Idle"
  /\ Write(Intersections)

ServerAwaits ==
  /\ srv = "CanAwait"
  /\ srv' = "MustReply"
  /\ Write({"AwaitReply"})

ServerRolls ==
  /\ srv \in {"CanAwait", "MustReply"}
  /\ srv' = "Idle"
  /\ Write(Rolls)

-----------------------------------------------------------------------------
Next ==
  \/ FindIntersect \/ FindIntersectReturns
  \/ RequestNext \/ RequestNextReturns
  \/ GiveUp
  \/ Client
  \/ ServerRead \/ ServerIntersects \/ ServerAwaits \/ ServerRolls

Spec == Init /\ [][Next]_vars

(***************************************************************************)
(* A polled future goes on while it can, and the server answers what it    *)
(* has read; it has a next header for a client that waits for one, sooner  *)
(* or later.  The program may stop calling.                                *)
(***************************************************************************)
Fairness ==
  /\ WF_vars(Client)
  /\ WF_vars(FindIntersectReturns) /\ WF_vars(RequestNextReturns)
  /\ WF_vars(ServerRead)
  /\ WF_vars(ServerIntersects)
  /\ WF_vars(ServerRolls)

FairSpec == Spec /\ Fairness

-----------------------------------------------------------------------------
OfKind(types) == { Reply(type, to) : type \in types, to \in 0..MaxCalls }
Replies ==
  OfKind(OfServer) \cup { Reply(type, 0) : type \in OfClient }

TypeOK ==
  /\ proto \in [state : {"Idle", "Intersect", "CanAwait", "MustReply", "Done"},
                query : Requests \cup {NoRequest},
                intersect : OfKind(Intersections) \cup {NoReply},
                reply : OfKind(Rolls) \cup {NoReply}]
  /\ exec \in {"idle", "loop", "sending", "await", "parse", "panicked"}
  /\ sending \in {<< >>} \cup { <<r>> : r \in Requests }
  /\ taken \in 0..(Pieces * Len(inbox))
  /\ bytes \in 0..taken
  /\ hurt \in BOOLEAN
  /\ inbox \in Seq(Replies)
  /\ outbox \in Seq(Requests)
  /\ call \in Requests \cup {NoRequest}
  /\ answers \in Seq([asked : Requests, got : Replies])
  /\ calls \in 0..MaxCalls
  /\ abandons \in 0..MaxAbandons
  /\ srv \in {"Idle", "Intersect", "CanAwait", "MustReply"}
  /\ read \in 0..Len(outbox)

(***************************************************************************)
(* A program that gives no call up meets no panic (chainsync.rs:172, 178,  *)
(* and the unwraps of protocols.rs:71, 92): the client holds exactly the   *)
(* kind of answer its call takes, though recv never checks what was asked. *)
(***************************************************************************)
NoPanic == abandons = 0 => exec # "panicked"

(***************************************************************************)
(* Each call returns the answer to its own request, and to no earlier one  *)
(* (chainsync.rs:169-179).                                                 *)
(***************************************************************************)
OwnAnswer ==
  abandons = 0 =>
    \A k \in 1..Len(answers) :
      /\ answers[k].got.to = k
      /\ outbox[k] = answers[k].asked

(***************************************************************************)
(* The follower's view of the chain: the rolls that request_next returned, *)
(* and the one it has still to return, are the rolls the server wrote so   *)
(* far, in order, none lost and none twice -- also when a request_next was *)
(* given up and called again, unless giving up lost a part of a message.   *)
(***************************************************************************)
Got == [ k \in 1..Len(answers) |-> answers[k].got ]

Followed ==
  Among(Got, OfKind(Rolls))
    \o (IF proto.reply = NoReply THEN << >> ELSE <<proto.reply>>)

RollsInOrder == ~hurt => IsPrefix(Followed, Among(inbox, OfKind(Rolls)))

(***************************************************************************)
(* The client writes to the server only when the server waits for it, also *)
(* after calls were given up (chainsync.rs:194-205, 227-262).              *)
(***************************************************************************)
WritesOnlyToIdle == ~hurt /\ read < Len(outbox) => srv = "Idle"

(***************************************************************************)
(* A call that is not given up ends, once the server has answered          *)
(* (chainsync.rs:169-179, protocols.rs:110-133), or in a panic.            *)
(***************************************************************************)
CallsReturn ==
  call # NoRequest ~> call = NoRequest \/ exec = "panicked" \/ hurt

(***************************************************************************)
(* A statement of the code that it does not meet: `self.intersect.take()   *)
(* .unwrap()` (chainsync.rs:172), when execute has returned Ok there is an *)
(* answer to take.                                                         *)
(***************************************************************************)
IntersectToTake ==
  Executed /\ call.type = "FindIntersect" /\ ~hurt => proto.intersect # NoReply
=============================================================================
