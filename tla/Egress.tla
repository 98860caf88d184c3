------------------------------- MODULE Egress -------------------------------
(***************************************************************************)
(* The sending half of a connection: Connection::send (src/src/mux.rs),    *)
(* which every message goes through.  It locks the socket's write half,    *)
(* writes a header (time, index, length) with writes that go on until all  *)
(* bytes are taken, and the payload with a single write, of which the      *)
(* socket may take any part.  The length is cut to u16.  The caller may    *)
(* drop the future while it waits for the lock or the socket.              *)
(*                                                                         *)
(* A byte on the wire is <<n, k>>, byte k of the n-th frame; the header is *)
(* bytes 0 to HeaderLen - 1.  The peer cuts the wire into frames with the  *)
(* lengths it finds, as the demux task does.  A definition marked as a     *)
(* mutant is a bug the code could have and has not: no behaviour of Spec   *)
(* contains it.                                                            *)
(***************************************************************************)
EXTENDS Naturals, Sequences, SequencesExt

CONSTANTS
  Lens,        \* lengths of the payloads the protocols send
  Modulus,     \* lengths are sent modulo this: 2^16
  HeaderLen,   \* bytes of a frame header
  MaxSends,    \* bound: calls of send
  MaxAbandons  \* bound: calls of send that are given up

ASSUME EgressAssumption ==
  /\ Lens \subseteq Nat
  /\ {Modulus, HeaderLen} \subseteq Nat \ {0}
  /\ MaxSends \in Nat
  /\ MaxAbandons \in Nat

VARIABLES
  send,      \* where Connection::send is
  lock,      \* a call holds the write half
  off,       \* header bytes written
  lens,      \* payload lengths of the calls so far
  wire,      \* bytes written
  gone,      \* the peer has gone away
  finished,  \* calls that returned
  intact,    \* history: how many of them returned while no frame was spoilt
  spoilt,    \* history: a frame was cut short, torn or announced too short
  abandons   \* calls given up so far

vars == <<send, lock, off, lens, wire, gone, finished, intact, spoilt,
          abandons>>

Calls == Len(lens)
Sending == send \in {"locking", "header", "payload"}

Bytes(n, first, last) ==
  [ k \in 1..(last + 1 - first) |-> <<n, first + k - 1>> ]
Payload(n, count) == Bytes(n, HeaderLen, HeaderLen + count - 1)

AnnouncedShort(n) == lens[n] % (Modulus - 1)  \* mutant: % 65535 for as u16
Announced(n) == lens[n] % Modulus

Init ==
  /\ send = "idle"
  /\ lock = FALSE
  /\ off = 0
  /\ lens = << >>
  /\ wire = << >>
  /\ gone = FALSE
  /\ finished = << >>
  /\ intact = 0
  /\ spoilt = FALSE
  /\ abandons = 0

-----------------------------------------------------------------------------
Send(len) ==
  /\ send = "idle"
  /\ Calls < MaxSends
  /\ send' = "locking"
  /\ lens' = Append(lens, len)
  /\ UNCHANGED <<lock, off, wire, gone, finished, intact, spoilt, abandons>>

(* sender.lock().await *)
Lock ==
  /\ send = "locking"
  /\ ~lock
  /\ lock' = TRUE
  /\ send' = "header"
  /\ off' = 0
  /\ UNCHANGED <<lens, wire, gone, finished, intact, spoilt, abandons>>

(* Mutant: a header byte too many. *)
WriteHeaderLong ==
  /\ send = "header"
  /\ ~gone
  /\ wire' = Append(wire, <<Calls, off>>)
  /\ off' = off + 1
  /\ send' = IF off' > HeaderLen THEN "payload" ELSE "header"
  /\ UNCHANGED <<lock, lens, gone, finished, intact, spoilt, abandons>>

(* The socket takes one more byte of write_u32 or write_u16. *)
WriteHeader ==
  /\ send = "header"
  /\ ~gone
  /\ wire' = Append(wire, <<Calls, off>>)
  /\ off' = off + 1
  /\ send' = IF off' = HeaderLen THEN "payload" ELSE "header"
  /\ UNCHANGED <<lock, lens, gone, finished, intact, spoilt, abandons>>

(* write(&payload) takes what the socket takes, and send returns.  A       *)
(* payload that the header announced too short spoils the frame as well.   *)
WritePayload ==
  /\ send = "payload"
  /\ ~gone
  /\ \E count \in 0..lens[Calls] :
       /\ count = 0 => lens[Calls] = 0
       /\ wire' = wire \o Payload(Calls, count)
       /\ spoilt' = (spoilt \/ count # lens[Calls] \/ lens[Calls] >= Modulus)
  /\ finished' = Append(finished, Calls)
  /\ intact' = IF spoilt' THEN intact ELSE intact + 1
  /\ send' = "idle"
  /\ lock' = FALSE
  /\ UNCHANGED <<off, lens, gone, abandons>>

(* A write to a peer that has gone away fails, and unwrap panics. *)
WriteFails ==
  /\ send \in {"header", "payload"}
  /\ gone
  /\ send' = "panicked"
  /\ lock' = FALSE
  /\ UNCHANGED <<off, lens, wire, gone, finished, intact, spoilt, abandons>>

(* Mutant: the lock is not given back. *)
GiveUpLocked ==
  /\ Sending
  /\ abandons < MaxAbandons
  /\ send' = "idle"
  /\ spoilt' = (spoilt \/ (send # "locking" /\ off > 0))
  /\ abandons' = abandons + 1
  /\ UNCHANGED <<lock, off, lens, wire, gone, finished, intact>>

(* The caller drops the future, and with it the guard of the lock; the     *)
(* bytes written stay on the wire.                                         *)
GiveUp ==
  /\ Sending
  /\ abandons < MaxAbandons
  /\ send' = "idle"
  /\ lock' = FALSE
  /\ spoilt' = (spoilt \/ (send # "locking" /\ off > 0))
  /\ abandons' = abandons + 1
  /\ UNCHANGED <<off, lens, wire, gone, finished, intact>>

PeerLeaves ==
  /\ ~gone
  /\ gone' = TRUE
  /\ UNCHANGED <<send, lock, off, lens, wire, finished, intact, spoilt,
                 abandons>>

Next ==
  \/ \E len \in Lens : Send(len)
  \/ Lock
  \/ WriteHeader
  \/ WritePayload
  \/ WriteFails
  \/ GiveUp
  \/ PeerLeaves

Spec == Init /\ [][Next]_vars

(***************************************************************************)
(* A future that is kept is polled while it can go on, and the socket      *)
(* takes bytes as long as the peer is there and reads.                     *)
(***************************************************************************)
Fairness ==
  /\ WF_vars(Lock)
  /\ WF_vars(WriteHeader)
  /\ WF_vars(WritePayload)
  /\ WF_vars(WriteFails)

FairSpec == Spec /\ Fairness

-----------------------------------------------------------------------------
(***************************************************************************)
(* What the peer reads: the demux task's loop (mux.rs:177-191) applied to  *)
(* the bytes on the wire.  It cannot go on past a header that is not one.  *)
(***************************************************************************)
IsHeader(i) ==
  \A k \in 0..(HeaderLen - 1) : wire[i + k] = <<wire[i][1], k>>

Received ==
  LET from[i \in 1..(Len(wire) + 1)] ==
        IF i + HeaderLen - 1 > Len(wire) \/ ~IsHeader(i) THEN << >>
        ELSE LET next == i + HeaderLen + Announced(wire[i][1])
             IN  IF next - 1 > Len(wire) THEN << >>
                 ELSE <<SubSeq(wire, i + HeaderLen, next - 1)>> \o from[next]
  IN  from[1]

Whole(n) == Payload(n, lens[n])

-----------------------------------------------------------------------------
TypeOK ==
  /\ send \in {"idle", "locking", "header", "payload", "panicked"}
  /\ lock \in BOOLEAN
  /\ off \in 0..HeaderLen
  /\ lens \in Seq(Lens)
  /\ wire \in Seq((1..MaxSends) \X Nat)
  /\ gone \in BOOLEAN
  /\ finished \in Seq(1..Calls)
  /\ intact \in 0..Len(finished)
  /\ spoilt \in BOOLEAN
  /\ abandons \in 0..MaxAbandons

(***************************************************************************)
(* Until a frame is spoilt (by a send given up inside a frame, a payload   *)
(* of which the socket took a part, or one of 2^16 bytes and more) the     *)
(* peer reads exactly the payloads whose send returned, whatever calls     *)
(* were given up before their first byte; and what it read before a frame  *)
(* was spoilt is not affected by that (mux.rs:154-164).                    *)
(***************************************************************************)
ReceivedAsSent ==
  /\ ~spoilt /\ send \notin {"payload", "panicked"} =>
       Len(Received) = Len(finished)
  /\ IsPrefix([ k \in 1..intact |-> Whole(finished[k]) ], Received)

(***************************************************************************)
(* A send that is not given up returns, or panics when the peer is gone,   *)
(* also after a call that was given up with the lock held (mux.rs:154).    *)
(***************************************************************************)
SendEnds == Sending ~> ~Sending

(***************************************************************************)
(* A statement of the repository's tests that the code does not meet:      *)
(* Channel::expect (mux.rs:221-224), a send that returned is received as   *)
(* it was sent.                                                            *)
(***************************************************************************)
ExpectHolds ==
  \A k \in 1..Len(finished) :
    Len(Received) >= k /\ Received[k] = Whole(finished[k])
=============================================================================
