------------------------------- MODULE Driver -------------------------------
(***************************************************************************)
(* How a mini-protocol is run over its Channel: Protocol::execute and      *)
(* Protocol::receive_bytes (src/src/protocols.rs).  The protocol itself is *)
(* a parameter, as it is a trait in the code: who has the agency, what it  *)
(* sends, and what a received message makes of it.                         *)
(*                                                                         *)
(* A message travels in Pieces; a frame carries any run of pieces, so a    *)
(* message may be split between frames and a frame may hold several.  The  *)
(* pieces received and not handled yet are always the last `bytes` of the  *)
(* `taken` ones, wherever the code keeps them: in Channel::bytes between   *)
(* frames, in a local of execute while it awaits one.  That local is lost  *)
(* when the caller drops the future (Abandon).                             *)
(***************************************************************************)
LOCAL INSTANCE Naturals
LOCAL INSTANCE Sequences

CONSTANTS
  Role,            \* the agency at which this side sends
  Agency(_),       \* who may send in a state of the protocol
  CanSend(_),      \* send() is Ok
  AfterSend(_),    \* the protocol after send()
  ToSend(_),       \* the message send() makes
  Accepts(_, _),   \* recv() of a message is Ok
  AfterRecv(_, _), \* the protocol after recv()
  Messages         \* what misplaced bytes can be taken for

VARIABLES
  proto,    \* the fields of the protocol's struct
  exec,     \* where execute is, "idle" when it is not running
  sending,  \* the message whose send is awaited, if any
  taken,    \* pieces received from the Channel
  bytes,    \* how many of them are not handled yet
  hurt,     \* history: an abandoned call lost a message or a part of one
  inbox,    \* messages the peer wrote
  outbox    \* messages this side wrote

driverVars == <<proto, exec, sending, taken, bytes, hurt, inbox, outbox>>

Pieces == 2

DriverInit ==
  /\ exec = "idle"
  /\ sending = << >>
  /\ taken = 0
  /\ bytes = 0
  /\ hurt = FALSE
  /\ inbox = << >>
  /\ outbox = << >>

(* execute starts, on a protocol the caller has prepared.                  *)
Execute(prepared) ==
  /\ exec = "idle"
  /\ exec' = "loop"
  /\ proto' = prepared
  /\ UNCHANGED <<sending, taken, bytes, hurt, inbox, outbox>>

(* execute returns Ok: nobody has the agency.                              *)
Executed == exec = "loop" /\ Agency(proto) = "None"

(* send_bytes: the state advances before the bytes are written.            *)
SendBytes ==
  /\ exec = "loop"
  /\ Agency(proto) = Role
  /\ exec' = IF CanSend(proto) THEN "sending" ELSE "panicked"
  /\ proto' = IF CanSend(proto) THEN AfterSend(proto) ELSE proto
  /\ sending' = IF CanSend(proto) THEN <<ToSend(proto)>> ELSE << >>
  /\ UNCHANGED <<taken, bytes, hurt, inbox, outbox>>

Sent ==
  /\ exec = "sending"
  /\ exec' = "loop"
  /\ outbox' = outbox \o sending
  /\ sending' = << >>
  /\ UNCHANGED <<proto, taken, bytes, hurt, inbox>>

(* execute takes Channel::bytes over and awaits a frame.                   *)
AwaitFrame ==
  /\ exec = "loop"
  /\ Agency(proto) \notin {"None", Role}
  /\ exec' = "await"
  /\ UNCHANGED <<proto, sending, taken, bytes, hurt, inbox, outbox>>

RecvFrame ==
  /\ exec = "await"
  /\ \E n \in 1..(Pieces * Len(inbox) - taken) :
       /\ taken' = taken + n
       /\ bytes' = bytes + n
  /\ exec' = "parse"
  /\ UNCHANGED <<proto, sending, hurt, inbox, outbox>>

(* receive_bytes hands every whole message of the buffer to recv, also     *)
(* those behind the one that ended the exchange, and keeps the rest.       *)
Aligned == (taken - bytes) % Pieces = 0
NextMessage == inbox[(taken - bytes) \div Pieces + 1]

CompleteEarly == bytes > 0  \* mutant: a message is handled before its end
Complete == bytes >= Pieces

HandleMessage ==
  /\ exec = "parse"
  /\ Aligned
  /\ Complete
  /\ IF Accepts(proto, NextMessage)
       THEN /\ proto' = AfterRecv(proto, NextMessage)
            /\ exec' = "parse"
       ELSE /\ exec' = "panicked"
            /\ UNCHANGED proto
  /\ bytes' = bytes - Pieces
  /\ UNCHANGED <<sending, taken, hurt, inbox, outbox>>

(* Mutant: the bytes of an unfinished message are not kept.                *)
ParsedAll ==
  /\ exec = "parse"
  /\ ~Complete
  /\ exec' = "loop"
  /\ bytes' = 0
  /\ UNCHANGED <<proto, sending, taken, hurt, inbox, outbox>>

Parsed ==
  /\ exec = "parse"
  /\ ~Complete
  /\ exec' = "loop"
  /\ UNCHANGED <<proto, sending, taken, bytes, hurt, inbox, outbox>>

(* Bytes from the middle of a message: the decoder fails, or wants more,   *)
(* or makes some message of some of them.                                  *)
Misparse ==
  /\ exec = "parse"
  /\ ~Aligned
  /\ \/ /\ exec' \in {"panicked", "loop"}
        /\ UNCHANGED <<proto, bytes>>
     \/ \E m \in Messages, n \in 1..bytes :
          /\ IF Accepts(proto, m)
               THEN exec' = "parse" /\ proto' = AfterRecv(proto, m)
               ELSE exec' = "panicked" /\ UNCHANGED proto
          /\ bytes' = bytes - n
  /\ UNCHANGED <<sending, taken, hurt, inbox, outbox>>

(* The caller drops the future at one of its awaits: in the socket write,  *)
(* or in the Channel's recv, with the bytes execute has taken over.        *)
Abandon ==
  /\ exec \in {"sending", "await"}
  /\ exec' = "idle"
  /\ sending' = << >>
  /\ bytes' = IF exec = "await" THEN 0 ELSE bytes
  /\ hurt' = (hurt \/ exec = "sending" \/ bytes > 0)
  /\ UNCHANGED <<proto, taken, inbox, outbox>>

Drive ==
  \/ SendBytes
  \/ Sent
  \/ AwaitFrame
  \/ RecvFrame
  \/ HandleMessage
  \/ Parsed
  \/ Misparse
=============================================================================
