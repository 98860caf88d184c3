--------------------------- MODULE HandshakeProof ---------------------------
(***************************************************************************)
(* The handshake for all version lists, magics and numbers of calls given  *)
(* up: when both ends agree, why one fails, and that each speaks once.     *)
(*                                                                         *)
(* The invariant follows each side through Propose, Confirm and Done with  *)
(* what it has written and what it has read of the one message the other   *)
(* side writes.  A side that was hurt is followed less closely: it may be  *)
(* waiting for what it has lost, and may have taken half a message for a   *)
(* whole one; it still writes once.                                        *)
(***************************************************************************)
EXTENDS Handshake, TLAPS

Proposal == Propose(cProto.versions, cProto.magic)
Answer == Accept(Last(sProto.versions), sProto.magic)
NodeAnswer ==
  { NodeAccept(v, cProto.magic) : v \in ToSet(cProto.versions) }
    \cup {Refuse}

(* What the first message to the client makes of it.                       *)
Concluded ==
  LET m == toClient[1]
  IN  \/ m.type = "Refuse" /\ cProto.version = NoVersion
      \/ /\ m.type = "AcceptVersion"
         /\ m.magic = cProto.magic
         /\ cProto.version = Chosen(cProto, m.versions[1])

ClientInv ==
  /\ cProto.state = "Propose" =>
       /\ toServer = << >> /\ cSending = << >>
       /\ cExec \in {"idle", "loop"}
       /\ cTaken = 0
  /\ cProto.state # "Done" => cProto.version = NoVersion
  /\ toServer \in {<< >>, <<Proposal>>}
  /\ cExec = "sending" =>
       cSending = <<Proposal>> /\ toServer = << >> /\ cProto.state = "Confirm"
  /\ cExec # "sending" => cSending = << >>
  /\ cProto.state = "Confirm" /\ ~cHurt =>
       /\ cExec # "sending" => toServer = <<Proposal>>
       /\ IF cExec = "panicked"
            THEN toClient # << >> /\ ~Accepts(cProto, toClient[1])
            ELSE cTaken = cBytes
  /\ cProto.state = "Done" /\ ~cHurt =>
       /\ cTaken = 2 /\ cBytes = 0
       /\ cExec \in {"parse", "loop", "idle"}
       /\ toClient # << >> /\ Concluded
  /\ cResult # Waiting =>
       /\ cProto.state = "Done" /\ cExec = "idle"
       /\ cResult = Negotiated(cProto)

ServerInv ==
  /\ toClient # << >> => toServer # << >>
  /\ peer = "node" =>
       /\ sProto.state = "Propose" /\ sExec = "idle" /\ sTaken = 0
       /\ toClient \in {<< >>} \cup { <<m>> : m \in NodeAnswer }
  /\ peer = "crate" => toClient \in {<< >>, <<Answer>>}
  /\ sProto.state = "Propose" =>
       /\ peer = "crate" => toClient = << >>
       /\ sExec # "sending"
       /\ ~sHurt => sTaken = sBytes /\ sExec # "panicked"
       /\ sResult = Waiting
  /\ sProto.state # "Propose" => sTaken = 2 /\ sBytes = 0
  /\ sProto.state = "Confirm" =>
       toClient = << >> /\ sExec \in {"parse", "loop"} /\ sResult = Waiting
  /\ sProto.state = "Done" =>
       /\ sExec \in {"sending", "loop", "idle"}
       /\ sProto.version = Last(sProto.versions)
       /\ sExec # "sending" /\ ~sHurt => toClient = <<Answer>>
       /\ sResult # Waiting =>
            sExec = "idle" /\ sResult = Negotiated(sProto)
  /\ sExec = "sending" => sSending = <<Answer>> /\ toClient = << >>
  /\ sExec # "sending" => sSending = << >>

HInv == TypeOK /\ ClientInv /\ ServerInv

-----------------------------------------------------------------------------
(* The lists a builder sets: their last version is one of theirs, and the  *)
(* absence of a version is none (handshake.rs:222-230, 322).               *)
LEMMA Lists ==
  ASSUME NEW list \in VersionLists
  PROVE  /\ Last(list) \in ToSet(list)
         /\ ToSet(list) \subseteq Versions
         /\ NoVersion \notin ToSet(list)
  <1>1. list \in Seq(Supported) /\ list # << >>
    BY HandshakeAssumption
  <1>2. Last(list) \in ToSet(list)
    BY <1>1 DEF Last, ToSet
  <1>3. ToSet(list) \subseteq Versions
    BY DEF Versions
  <1>4. ToSet(list) \subseteq Supported
    BY <1>1 DEF ToSet
  <1>5. NoVersion \notin Supported
    BY DEF NoVersion, Supported
  <1> QED
    BY <1>2, <1>3, <1>4, <1>5

(* What the parties write are messages (handshake.rs:310-328).             *)
LEMMA Written ==
  /\ \A p \in Protocol :
       /\ Propose(p.versions, p.magic) \in Messages
       /\ Accept(Last(p.versions), p.magic) \in Messages
       /\ \A v \in ToSet(p.versions) : NodeAccept(v, p.magic) \in Messages
  /\ Refuse \in Messages
  <1>1. ASSUME NEW p \in Protocol
        PROVE  /\ Propose(p.versions, p.magic) \in Messages
               /\ Accept(Last(p.versions), p.magic) \in Messages
               /\ \A v \in ToSet(p.versions) :
                    NodeAccept(v, p.magic) \in Messages
    <2>1. p.versions \in VersionLists /\ p.magic \in Magics
      BY DEF Protocol
    <2>2. ASSUME NEW v \in ToSet(p.versions)
          PROVE  Accept(v, p.magic) \in Messages
      BY <2>1, <2>2, Lists DEF Messages
    <2> QED
      BY <2>1, <2>2, Lists DEF Messages, NodeAccept
  <1>2. Refuse \in Messages
    BY DEF Messages
  <1> QED
    BY <1>1, <1>2

(* What an acceptance carries (handshake.rs:339-346).                      *)
LEMMA Carried ==
  ASSUME NEW m \in Messages
  PROVE  m.type = "AcceptVersion" => m.versions[1] \in Versions
BY DEF Messages, Propose, Accept, Refuse, Unreadable

(* Who may send (handshake.rs:296-302).                                    *)
LEMMA Agencies ==
  ASSUME NEW p
  PROVE  /\ p.state = "Propose" => Agency(p) = "Client"
         /\ p.state = "Confirm" => Agency(p) = "Server"
         /\ p.state = "Done" => Agency(p) = "None"
BY DEF Agency

(* The state advances with a message sent (handshake.rs:308-331).          *)
LEMMA Sending ==
  ASSUME NEW p \in Protocol, p.state # "Done"
  PROVE  /\ CanSend(p)
         /\ AfterSend(p) \in Protocol
         /\ AfterSend(p).versions = p.versions /\ AfterSend(p).magic = p.magic
         /\ p.state = "Propose" =>
              /\ AfterSend(p).state = "Confirm"
              /\ AfterSend(p).version = p.version
              /\ ToSend(p) = Propose(p.versions, p.magic)
         /\ p.state = "Confirm" =>
              /\ AfterSend(p).state = "Done"
              /\ AfterSend(p).version = Last(p.versions)
              /\ ToSend(p) = Accept(Last(p.versions), p.magic)
  <1>1. /\ p.versions \in VersionLists
        /\ p.state \in {"Propose", "Confirm"}
    BY DEF Protocol
  <1>2. p.versions # << >> /\ Last(p.versions) \in Versions
    BY <1>1, Lists, HandshakeAssumption
  <1> QED
    BY <1>1, <1>2 DEF CanSend, AfterSend, ToSend, Protocol

(* ... and with a message received (handshake.rs:333-358).                 *)
LEMMA Receiving ==
  ASSUME NEW p \in Protocol, NEW m \in Messages, Accepts(p, m)
  PROVE  /\ p.state \in {"Propose", "Confirm"}
         /\ AfterRecv(p, m) \in Protocol
         /\ AfterRecv(p, m).versions = p.versions
         /\ AfterRecv(p, m).magic = p.magic
         /\ p.state = "Propose" => AfterRecv(p, m).state = "Confirm"
         /\ p.state = "Confirm" =>
              /\ AfterRecv(p, m).state = "Done"
              /\ \/ m.type = "Refuse" /\ AfterRecv(p, m).version = p.version
                 \/ /\ m.type = "AcceptVersion" /\ m.magic = p.magic
                    /\ AfterRecv(p, m).version = Chosen(p, m.versions[1])
  <1>1. p.state \in {"Propose", "Confirm"}
    BY DEF Accepts
  <1>2. CASE p.state = "Propose"
    <2>1. AfterRecv(p, m) = [p EXCEPT !.state = "Confirm"]
      BY <1>2 DEF AfterRecv
    <2> QED
      BY <1>2, <2>1 DEF Protocol
  <1>3. CASE p.state = "Confirm" /\ m.type = "Refuse"
    <2>1. AfterRecv(p, m) = [p EXCEPT !.state = "Done"]
      BY <1>3 DEF AfterRecv
    <2> QED
      BY <1>3, <2>1 DEF Protocol
  <1>4. CASE p.state = "Confirm" /\ m.type = "AcceptVersion"
    <2>1. AfterRecv(p, m) =
            [p EXCEPT !.state = "Done", !.version = Chosen(p, m.versions[1])]
      BY <1>4 DEF AfterRecv
    <2>2. Chosen(p, m.versions[1]) \in Versions \cup {NoVersion}
      BY <1>4, Carried DEF Chosen
    <2>3. m.magic = p.magic
      BY <1>4 DEF Accepts
    <2> QED
      BY <1>4, <2>1, <2>2, <2>3 DEF Protocol
  <1> QED
    BY <1>1, <1>2, <1>3, <1>4 DEF Accepts

(* The first message of a side is all it has written (protocols.rs:118).   *)
LEMMA First == \A m : << >> \o <<m>> = <<m>>
OBVIOUS

(* What negotiate returns (handshake.rs:271-276).                          *)
LEMMA Returned ==
  ASSUME NEW p \in Protocol
  PROVE  Negotiated(p) \in Outcomes \ {Waiting}
BY DEF Negotiated, Outcomes, Outcome, Failed, Waiting, Protocol, NoVersion

-----------------------------------------------------------------------------
(***************************************************************************)
(* The invariant.                                                          *)
(***************************************************************************)
(* What the invariant says of the messages on their way.                   *)
LEMMA Channels ==
  ASSUME HInv
  PROVE  /\ cProto \in Protocol /\ sProto \in Protocol
         /\ toServer \in Seq(Messages) /\ toClient \in Seq(Messages)
         /\ Len(toServer) \in {0, 1} /\ Len(toClient) \in {0, 1}
         /\ toServer # << >> => Len(toServer) = 1 /\ toServer[1] \in Messages
         /\ toClient # << >> => Len(toClient) = 1 /\ toClient[1] \in Messages
         /\ cTaken \in 0..(2 * Len(toClient)) /\ cBytes \in 0..cTaken
         /\ sTaken \in 0..(2 * Len(toServer)) /\ sBytes \in 0..sTaken
         /\ peer \in {"crate", "node"}
BY DEF HInv, TypeOK, ClientInv, ServerInv

LEMMA HandshakeStarts == Init => HInv
  <1> SUFFICES ASSUME Init PROVE HInv
    OBVIOUS
  <1>1. cProto \in Protocol /\ cProto.state = "Propose" /\ cProto.version = NoVersion
    BY DEF Init, Built, Protocol
  <1>2. sProto \in Protocol /\ sProto.state = "Propose"
    BY DEF Init, Built, Protocol
  <1>3. TypeOK
    <2>1. /\ toServer = << >> /\ toClient = << >>
          /\ cExec = "idle" /\ sExec = "idle"
          /\ cSending = << >> /\ sSending = << >>
          /\ cTaken = 0 /\ cBytes = 0 /\ sTaken = 0 /\ sBytes = 0
          /\ cHurt = FALSE /\ sHurt = FALSE
          /\ cResult = Waiting /\ sResult = Waiting
          /\ abandons = 0 /\ peer \in {"crate", "node"}
      BY DEF Init, C!DriverInit, S!DriverInit
    <2>2. abandons \in 0..MaxAbandons
      BY <2>1, HandshakeAssumption
    <2>3. toServer \in Seq(Messages) /\ toClient \in Seq(Messages)
      BY <2>1
    <2>4. /\ cTaken \in 0..(2 * Len(toClient)) /\ cBytes \in 0..cTaken
          /\ sTaken \in 0..(2 * Len(toServer)) /\ sBytes \in 0..sTaken
      BY <2>1
    <2>5. /\ cExec \in Phases /\ sExec \in Phases
          /\ cSending \in Outgoing /\ sSending \in Outgoing
          /\ cResult \in Outcomes /\ sResult \in Outcomes
      BY <2>1 DEF Phases, Outcomes, Outgoing
    <2> QED
      BY <1>1, <1>2, <2>1, <2>2, <2>3, <2>4, <2>5 DEF TypeOK
  <1>4. ClientInv
    BY <1>1 DEF Init, C!DriverInit, S!DriverInit, ClientInv
  <1>5. ServerInv
    BY <1>2 DEF Init, C!DriverInit, S!DriverInit, ServerInv
  <1> QED
    BY <1>3, <1>4, <1>5 DEF HInv

(* The server's part is left alone by a client that writes at most its     *)
(* proposal ...                                                            *)
LEMMA ServerUntouched ==
  ASSUME HInv, UNCHANGED <<peer, toClient, serverVars, sResult>>,
         cProto'.versions = cProto.versions, cProto'.magic = cProto.magic,
         toServer' = toServer \/ toServer' # << >>
  PROVE  ServerInv'
BY DEF HInv, ServerInv, serverVars, Answer, NodeAnswer

(* ... and the client's by a server that writes only what is the first.    *)
LEMMA ClientUntouched ==
  ASSUME HInv, UNCHANGED <<toServer, clientVars, cResult>>,
         toClient' = toClient \/ toClient = << >>
  PROVE  ClientInv'
  <1>1. CASE toClient' = toClient
    BY <1>1 DEF HInv, ClientInv, clientVars, Proposal, Concluded
  <1>2. CASE toClient = << >>
    BY <1>2 DEF HInv, ClientInv, clientVars, Proposal
  <1> QED
    BY <1>1, <1>2

(* The steps of the client's driver (protocols.rs:68-133).                 *)
LEMMA ClientDrives ==
  ASSUME HInv, C!Drive, UNCHANGED <<peer, cResult, serverVars, sResult, abandons>>
  PROVE  HInv'
  <1> USE Channels
  <1>0. TypeOK /\ ClientInv
    BY DEF HInv
  <1>a. cResult = Waiting
    BY <1>0 DEF ClientInv, C!Drive, C!SendBytes, C!Sent, C!AwaitFrame,
       C!RecvFrame, C!HandleMessage, C!Parsed, C!Misparse
  <1>1. CASE C!SendBytes
    <2>1. cProto.state = "Propose" /\ cExec = "loop"
      BY <1>1, Agencies DEF C!SendBytes, Protocol
    <2>2. /\ cExec' = "sending" /\ cProto' = AfterSend(cProto)
          /\ cSending' = <<Proposal>>
          /\ UNCHANGED <<cTaken, cBytes, cHurt, toClient, toServer>>
      BY <1>1, <2>1, Sending DEF C!SendBytes, Proposal
    <2>3. /\ cProto' \in Protocol /\ cProto'.state = "Confirm"
          /\ cProto'.versions = cProto.versions /\ cProto'.magic = cProto.magic
          /\ cProto'.version = NoVersion
      BY <2>1, <2>2, <1>0, Sending DEF ClientInv
    <2>4. TypeOK'
      BY <1>0, <2>2, <2>3, Written
         DEF TypeOK, serverVars, Phases, Outgoing, Proposal
    <2>5. ClientInv'
      BY <1>0, <1>a, <2>1, <2>2, <2>3 DEF ClientInv, Proposal
    <2> QED
      BY <2>2, <2>3, <2>4, <2>5, ServerUntouched DEF HInv
  <1>2. CASE C!Sent
    <2>1. /\ cExec = "sending" /\ cExec' = "loop" /\ cSending' = << >>
          /\ UNCHANGED <<cProto, cTaken, cBytes, cHurt, toClient>>
      BY <1>2 DEF C!Sent
    <2>2. toServer' = <<Proposal>>
      <3>1. toServer = << >> /\ cSending = <<Proposal>>
        BY <2>1, <1>0 DEF ClientInv
      <3>2. toServer' = << >> \o <<Proposal>>
        BY <1>2, <3>1 DEF C!Sent
      <3> QED
        BY <3>2, First
    <2>3. toServer' \in Seq(Messages) /\ Len(toServer) = 0 /\ Len(toServer') = 1
      BY <2>1, <2>2, <1>0, Written DEF Proposal, ClientInv
    <2>4. TypeOK'
      BY <1>0, <2>1, <2>3 DEF TypeOK, serverVars, Phases, Outgoing
    <2>5. cTaken = 0 /\ cBytes = 0
      BY <2>3, <2>1 DEF HInv, ServerInv
    <2>6. ClientInv'
      BY <1>0, <1>a, <2>1, <2>2, <2>5 DEF ClientInv, Proposal
    <2> QED
      BY <2>1, <2>2, <2>4, <2>6, ServerUntouched DEF HInv
  <1>3. CASE C!AwaitFrame
    <2>1. cProto.state = "Confirm" /\ cExec = "loop"
      BY <1>3, Agencies DEF C!AwaitFrame, Protocol
    <2>2. /\ cExec' = "await"
          /\ UNCHANGED <<cProto, cSending, cTaken, cBytes, cHurt, toClient, toServer>>
      BY <1>3 DEF C!AwaitFrame
    <2>3. TypeOK'
      BY <1>0, <2>2 DEF TypeOK, serverVars, Phases
    <2>4. ClientInv'
      BY <1>0, <1>a, <2>1, <2>2 DEF ClientInv, Proposal
    <2> QED
      BY <2>2, <2>3, <2>4, ServerUntouched DEF HInv
  <1>4. CASE C!RecvFrame
    <2>1. /\ cExec = "await" /\ cExec' = "parse"
          /\ UNCHANGED <<cProto, cSending, cHurt, toClient, toServer>>
      BY <1>4 DEF C!RecvFrame
    <2>2. PICK n \in 1..(2 * Len(toClient) - cTaken) :
            cTaken' = cTaken + n /\ cBytes' = cBytes + n
      BY <1>4 DEF C!RecvFrame, C!Pieces
    <2>3. cTaken' \in 0..(2 * Len(toClient)) /\ cBytes' \in 0..cTaken'
      <3>1. cTaken \in 0..(2 * Len(toClient)) /\ cBytes \in 0..cTaken
        BY <1>0 DEF TypeOK
      <3> DEFINE top == 2 * Len(toClient)
      <3>2. /\ top \in Int /\ cTaken \in 0..top /\ n \in 1..(top - cTaken)
            /\ cTaken' = cTaken + n /\ cBytes' = cBytes + n
        BY <2>2, <3>1
      <3> HIDE DEF top
      <3>3. cTaken' \in 0..top /\ cBytes' \in 0..cTaken'
        BY <3>1, <3>2
      <3> QED
        BY <3>3 DEF top
    <2>4. TypeOK'
      BY <1>0, <2>1, <2>3 DEF TypeOK, serverVars, Phases
    <2>5. ClientInv'
      BY <1>0, <1>a, <2>1, <2>2 DEF ClientInv, Proposal
    <2> QED
      BY <2>1, <2>4, <2>5, ServerUntouched DEF HInv
  <1>5. CASE C!HandleMessage
    <2>0. cBytes >= 2 /\ cBytes' = cBytes - 2
      BY <1>5 DEF C!HandleMessage, C!Complete, C!Pieces
    <2>1. /\ cExec = "parse" /\ cBytes = 2 /\ cTaken = 2 /\ cBytes' = 0
          /\ UNCHANGED <<cSending, cTaken, cHurt, toClient, toServer>>
      <3>1. cTaken \in 0..2 /\ cBytes \in 0..cTaken
        <4>1. CASE Len(toClient) = 0
          BY <4>1
        <4>2. CASE Len(toClient) = 1
          BY <4>2
        <4> QED
          BY <4>1, <4>2
      <3>2. cBytes = 2 /\ cTaken = 2 /\ cBytes' = 0
        BY <2>0, <3>1
      <3> QED
        BY <1>5, <3>2 DEF C!HandleMessage
    <2>2. toClient # << >> /\ C!NextMessage = toClient[1]
      BY <2>1 DEF C!NextMessage, C!Pieces
    <2>3. CASE Accepts(cProto, toClient[1])
      <3>1. cProto' = AfterRecv(cProto, toClient[1]) /\ cExec' = "parse"
        BY <1>5, <2>2, <2>3 DEF C!HandleMessage
      <3>2. cProto.state = "Confirm"
        BY <1>0, <2>1, <2>2, <2>3, Receiving DEF ClientInv
      <3>3. /\ cProto' \in Protocol /\ cProto'.state = "Done"
            /\ cProto'.versions = cProto.versions
            /\ cProto'.magic = cProto.magic
        BY <2>2, <2>3, <3>1, <3>2, Receiving
      <3>4. Concluded'
        BY <1>0, <2>1, <2>2, <2>3, <3>1, <3>2, <3>3, Receiving
           DEF Concluded, ClientInv, Chosen
      <3>5. TypeOK'
        BY <1>0, <2>1, <3>1, <3>3 DEF TypeOK, serverVars, Phases
      <3>6. ClientInv'
        BY <1>0, <1>a, <2>1, <2>2, <3>1, <3>2, <3>3, <3>4
           DEF ClientInv, Proposal
      <3> QED
        BY <2>1, <3>3, <3>5, <3>6, ServerUntouched DEF HInv
    <2>4. CASE ~Accepts(cProto, toClient[1])
      <3>1. cProto' = cProto /\ cExec' = "panicked"
        BY <1>5, <2>2, <2>4 DEF C!HandleMessage
      <3>2. TypeOK'
        BY <1>0, <2>1, <3>1 DEF TypeOK, serverVars, Phases
      <3>3. ClientInv'
        BY <1>0, <1>a, <2>1, <2>2, <2>4, <3>1 DEF ClientInv, Proposal
      <3> QED
        BY <2>1, <3>1, <3>2, <3>3, ServerUntouched DEF HInv
    <2> QED
      BY <2>3, <2>4
  <1>6. CASE C!Parsed
    <2>1. /\ cExec = "parse" /\ cExec' = "loop"
          /\ UNCHANGED <<cProto, cSending, cTaken, cBytes, cHurt, toClient, toServer>>
      BY <1>6 DEF C!Parsed
    <2>2. TypeOK'
      BY <1>0, <2>1 DEF TypeOK, serverVars, Phases
    <2>3. ClientInv'
      BY <1>0, <1>a, <2>1 DEF ClientInv, Proposal, Concluded
    <2> QED
      BY <2>1, <2>2, <2>3, ServerUntouched DEF HInv
  <1>7. CASE C!Misparse
    <2>1. /\ cExec = "parse"
          /\ UNCHANGED <<cSending, cTaken, cHurt, toClient, toServer>>
      BY <1>7 DEF C!Misparse
    <2>2. cHurt
      BY <1>0, <1>7, <2>1 DEF C!Misparse, C!Aligned, C!Pieces, ClientInv,
         Protocol
    <2>3. /\ cProto' \in Protocol /\ cProto'.state # "Propose"
          /\ cProto'.versions = cProto.versions /\ cProto'.magic = cProto.magic
          /\ cProto'.state # "Done" => cProto' = cProto
          /\ cExec' \in {"parse", "panicked", "loop"}
          /\ cBytes' \in 0..cTaken
      <3>1. cProto.state # "Propose"
        BY <1>0, <2>1 DEF ClientInv
      <3>2. CASE UNCHANGED <<cProto, cBytes>> /\ cExec' \in {"panicked", "loop"}
        BY <3>1, <3>2
      <3>3. ASSUME NEW m \in Messages, NEW n \in 1..cBytes,
                   cBytes' = cBytes - n, Accepts(cProto, m),
                   cExec' = "parse" /\ cProto' = AfterRecv(cProto, m)
            PROVE  /\ cProto' \in Protocol /\ cProto'.state # "Propose"
                   /\ cProto'.versions = cProto.versions
                   /\ cProto'.magic = cProto.magic
                   /\ cProto'.state # "Done" => cProto' = cProto
                   /\ cExec' \in {"parse", "panicked", "loop"}
                   /\ cBytes' \in 0..cTaken
        BY <3>1, <3>3, Receiving
      <3>4. ASSUME NEW n \in 1..cBytes, cBytes' = cBytes - n,
                   cExec' = "panicked" /\ UNCHANGED cProto
            PROVE  /\ cProto' \in Protocol /\ cProto'.state # "Propose"
                   /\ cProto'.versions = cProto.versions
                   /\ cProto'.magic = cProto.magic
                   /\ cProto'.state # "Done" => cProto' = cProto
                   /\ cExec' \in {"parse", "panicked", "loop"}
                   /\ cBytes' \in 0..cTaken
        BY <3>1, <3>4
      <3> QED
        BY <1>7, <3>2, <3>3, <3>4 DEF C!Misparse
    <2>4. TypeOK'
      BY <1>0, <2>1, <2>3 DEF TypeOK, serverVars, Phases
    <2>5. ClientInv'
      BY <1>0, <1>a, <2>1, <2>2, <2>3 DEF ClientInv, Proposal
    <2> QED
      BY <2>1, <2>3, <2>4, <2>5, ServerUntouched DEF HInv
  <1> QED
    BY <1>1, <1>2, <1>3, <1>4, <1>5, <1>6, <1>7 DEF C!Drive

(* The steps of the server's (protocols.rs:68-133).                        *)
LEMMA ServerDrives ==
  ASSUME HInv, S!Drive, UNCHANGED <<peer, sResult, clientVars, cResult, abandons>>
  PROVE  HInv'
  <1> USE Channels
  <1>0. TypeOK /\ ServerInv
    BY DEF HInv
  <1>a. sResult = Waiting /\ peer = "crate" /\ sExec # "idle"
    <2>1. sExec # "idle"
      BY DEF S!Drive, S!SendBytes, S!Sent, S!AwaitFrame, S!RecvFrame,
         S!HandleMessage, S!Parsed, S!Misparse
    <2>2. sProto.state \in {"Propose", "Confirm", "Done"}
      BY DEF Protocol
    <2> QED
      BY <1>0, <2>1, <2>2 DEF ServerInv
  <1>1. CASE S!SendBytes
    <2>1. sProto.state = "Confirm" /\ sExec = "loop"
      BY <1>1, Agencies DEF S!SendBytes, Protocol
    <2>2. /\ sExec' = "sending" /\ sProto' = AfterSend(sProto)
          /\ sSending' = <<Answer>>
          /\ UNCHANGED <<sTaken, sBytes, sHurt, toClient, toServer>>
      BY <1>1, <2>1, Sending DEF S!SendBytes, Answer
    <2>3. /\ sProto' \in Protocol /\ sProto'.state = "Done"
          /\ sProto'.versions = sProto.versions /\ sProto'.magic = sProto.magic
          /\ sProto'.version = Last(sProto.versions)
      BY <2>1, <2>2, Sending
    <2>4. TypeOK'
      BY <1>0, <2>2, <2>3, Written
         DEF TypeOK, clientVars, Phases, Outgoing, Answer
    <2>5. ServerInv'
      BY <1>0, <1>a, <2>1, <2>2, <2>3 DEF ServerInv, Answer
    <2> QED
      BY <2>2, <2>4, <2>5, ClientUntouched DEF HInv
  <1>2. CASE S!Sent
    <2>1. /\ sExec = "sending" /\ sExec' = "loop" /\ sSending' = << >>
          /\ UNCHANGED <<sProto, sTaken, sBytes, sHurt, toServer>>
      BY <1>2 DEF S!Sent
    <2>2. toClient = << >> /\ sSending = <<Answer>> /\ sProto.state = "Done"
      BY <2>1, <1>0 DEF ServerInv, Protocol
    <2>3. toClient' = <<Answer>>
      <3>1. toClient' = << >> \o <<Answer>>
        BY <1>2, <2>2 DEF S!Sent
      <3> QED
        BY <3>1, First
    <2>4. toClient' \in Seq(Messages) /\ Len(toClient) = 0 /\ Len(toClient') = 1
      BY <2>2, <2>3, Written DEF Answer
    <2>5. TypeOK'
      BY <1>0, <2>1, <2>4 DEF TypeOK, clientVars, Phases, Outgoing
    <2>6. toServer # << >>
      BY <1>0, <2>2 DEF ServerInv
    <2>7. ServerInv'
      BY <1>0, <1>a, <2>1, <2>2, <2>3, <2>6 DEF ServerInv, Answer
    <2> QED
      BY <2>1, <2>2, <2>5, <2>7, ClientUntouched DEF HInv
  <1>3. CASE S!AwaitFrame
    <2>1. sProto.state = "Propose" /\ sExec = "loop"
      BY <1>3, Agencies DEF S!AwaitFrame, Protocol
    <2>2. /\ sExec' = "await"
          /\ UNCHANGED <<sProto, sSending, sTaken, sBytes, sHurt, toClient, toServer>>
      BY <1>3 DEF S!AwaitFrame
    <2>3. TypeOK'
      BY <1>0, <2>2 DEF TypeOK, clientVars, Phases
    <2>4. ServerInv'
      BY <1>0, <1>a, <2>1, <2>2 DEF ServerInv, Answer
    <2> QED
      BY <2>2, <2>3, <2>4, ClientUntouched DEF HInv
  <1>4. CASE S!RecvFrame
    <2>1. /\ sExec = "await" /\ sExec' = "parse"
          /\ UNCHANGED <<sProto, sSending, sHurt, toClient, toServer>>
      BY <1>4 DEF S!RecvFrame
    <2>2. PICK n \in 1..(2 * Len(toServer) - sTaken) :
            sTaken' = sTaken + n /\ sBytes' = sBytes + n
      BY <1>4 DEF S!RecvFrame, S!Pieces
    <2>3. sTaken' \in 0..(2 * Len(toServer)) /\ sBytes' \in 0..sTaken'
      <3>1. sTaken \in 0..(2 * Len(toServer)) /\ sBytes \in 0..sTaken
        BY <1>0 DEF TypeOK
      <3> DEFINE top == 2 * Len(toServer)
      <3>2. /\ top \in Int /\ sTaken \in 0..top /\ n \in 1..(top - sTaken)
            /\ sTaken' = sTaken + n /\ sBytes' = sBytes + n
        BY <2>2, <3>1
      <3> HIDE DEF top
      <3>3. sTaken' \in 0..top /\ sBytes' \in 0..sTaken'
        BY <3>1, <3>2
      <3> QED
        BY <3>3 DEF top
    <2>4. TypeOK'
      BY <1>0, <2>1, <2>3 DEF TypeOK, clientVars, Phases
    <2>5. sProto.state = "Propose"
      BY <1>0, <2>1 DEF ServerInv, Protocol
    <2>6. ServerInv'
      BY <1>0, <1>a, <2>1, <2>2, <2>5 DEF ServerInv, Answer
    <2> QED
      BY <2>1, <2>4, <2>6, ClientUntouched DEF HInv
  <1>5. CASE S!HandleMessage
    <2>0. sBytes >= 2 /\ sBytes' = sBytes - 2
      BY <1>5 DEF S!HandleMessage, S!Complete, S!Pieces
    <2>1. /\ sExec = "parse" /\ sBytes = 2 /\ sTaken = 2 /\ sBytes' = 0
          /\ UNCHANGED <<sSending, sTaken, sHurt, toClient, toServer>>
      <3>1. sTaken \in 0..2 /\ sBytes \in 0..sTaken
        <4>1. CASE Len(toServer) = 0
          BY <4>1
        <4>2. CASE Len(toServer) = 1
          BY <4>2
        <4> QED
          BY <4>1, <4>2
      <3>2. sBytes = 2 /\ sTaken = 2 /\ sBytes' = 0
        BY <2>0, <3>1
      <3> QED
        BY <1>5, <3>2 DEF S!HandleMessage
    <2>2. toServer # << >> /\ S!NextMessage = toServer[1]
      BY <2>1 DEF S!NextMessage, S!Pieces
    <2>3. sProto.state = "Propose" /\ Accepts(sProto, toServer[1])
      <3>1. sProto.state = "Propose"
        BY <1>0, <2>1 DEF ServerInv, Protocol
      <3>2. toServer[1] = Proposal
        BY <2>2 DEF HInv, ClientInv
      <3>3. Proposal # Unreadable
        BY DEF Proposal, Propose, Unreadable
      <3> QED
        BY <3>1, <3>2, <3>3 DEF Accepts
    <2>4. sProto' = AfterRecv(sProto, toServer[1]) /\ sExec' = "parse"
      BY <1>5, <2>2, <2>3 DEF S!HandleMessage
    <2>5. /\ sProto' \in Protocol /\ sProto'.state = "Confirm"
          /\ sProto'.versions = sProto.versions /\ sProto'.magic = sProto.magic
      BY <2>2, <2>3, <2>4, Receiving
    <2>6. TypeOK'
      BY <1>0, <2>1, <2>4, <2>5 DEF TypeOK, clientVars, Phases
    <2>7. ServerInv'
      BY <1>0, <1>a, <2>1, <2>2, <2>3, <2>4, <2>5 DEF ServerInv, Answer
    <2> QED
      BY <2>1, <2>6, <2>7, ClientUntouched DEF HInv
  <1>6. CASE S!Parsed
    <2>1. /\ sExec = "parse" /\ sExec' = "loop"
          /\ UNCHANGED <<sProto, sSending, sTaken, sBytes, sHurt, toClient, toServer>>
      BY <1>6 DEF S!Parsed
    <2>2. TypeOK'
      BY <1>0, <2>1 DEF TypeOK, clientVars, Phases
    <2>3. ServerInv'
      BY <1>0, <1>a, <2>1 DEF ServerInv, Answer
    <2> QED
      BY <2>1, <2>2, <2>3, ClientUntouched DEF HInv
  <1>7. CASE S!Misparse
    <2>1. /\ sExec = "parse"
          /\ UNCHANGED <<sSending, sTaken, sHurt, toClient, toServer>>
      BY <1>7 DEF S!Misparse
    <2>2. sProto.state = "Propose" /\ sHurt
      BY <1>0, <1>7, <2>1
         DEF S!Misparse, S!Aligned, S!Pieces, ServerInv, Protocol
    <2>3. \/ /\ sProto' = sProto /\ sExec' \in {"panicked", "loop"}
             /\ sBytes' \in 0..sTaken
          \/ /\ sProto' \in Protocol /\ sProto'.state = "Confirm"
             /\ sProto'.versions = sProto.versions
             /\ sProto'.magic = sProto.magic
             /\ sExec' = "parse" /\ sTaken = 2 /\ sBytes' = 0
             /\ toServer # << >>
      <3>1. CASE UNCHANGED <<sProto, sBytes>> /\ sExec' \in {"panicked", "loop"}
        BY <3>1
      <3>2. ASSUME NEW m \in Messages, NEW n \in 1..sBytes,
                   sBytes' = sBytes - n, Accepts(sProto, m),
                   sExec' = "parse" /\ sProto' = AfterRecv(sProto, m)
            PROVE  /\ sProto' \in Protocol /\ sProto'.state = "Confirm"
                   /\ sProto'.versions = sProto.versions
                   /\ sProto'.magic = sProto.magic
                   /\ sExec' = "parse" /\ sTaken = 2 /\ sBytes' = 0
                   /\ toServer # << >>
        <4>1. (sTaken - sBytes) % 2 # 0
          BY <1>7 DEF S!Misparse, S!Aligned, S!Pieces
        <4>2. sTaken \in 0..2 /\ sBytes \in 0..sTaken
          <5>1. CASE Len(toServer) = 0
            BY <5>1
          <5>2. CASE Len(toServer) = 1
            BY <5>2
          <5> QED
            BY <5>1, <5>2
        <4>3. sTaken = 2 /\ sBytes = 1 /\ n = 1
          BY <3>2, <4>1, <4>2
        <4>4. toServer # << >>
          BY <4>3
        <4> QED
          BY <2>2, <3>2, <4>3, <4>4, Receiving
      <3>3. ASSUME NEW n \in 1..sBytes, sBytes' = sBytes - n,
                   sExec' = "panicked" /\ UNCHANGED sProto
            PROVE  /\ sProto' = sProto /\ sExec' \in {"panicked", "loop"}
                   /\ sBytes' \in 0..sTaken
        BY <3>3
      <3> QED
        BY <1>7, <3>1, <3>2, <3>3 DEF S!Misparse
    <2>4. TypeOK'
      BY <1>0, <2>1, <2>3 DEF TypeOK, clientVars, Phases
    <2>5. ServerInv'
      BY <1>0, <1>a, <2>1, <2>2, <2>3 DEF ServerInv, Answer
    <2> QED
      BY <2>1, <2>4, <2>5, ClientUntouched DEF HInv
  <1> QED
    BY <1>1, <1>2, <1>3, <1>4, <1>5, <1>6, <1>7 DEF S!Drive

(* Calls and returns of the client's negotiate (handshake.rs:270-276).     *)
LEMMA ClientCalls ==
  ASSUME HInv, ClientNegotiates \/ ClientReturns
  PROVE  HInv'
  <1> USE Channels
  <1>0. TypeOK /\ ClientInv
    BY DEF HInv
  <1>1. CASE ClientNegotiates
    <2>1. /\ cExec = "idle" /\ cExec' = "loop" /\ cResult = Waiting
          /\ UNCHANGED <<peer, toServer, toClient, cProto, cSending, cTaken,
                         cBytes, cHurt, cResult, serverVars, sResult, abandons>>
      BY <1>1 DEF ClientNegotiates, C!Execute
    <2>2. TypeOK'
      BY <1>0, <2>1 DEF TypeOK, serverVars, Phases
    <2>3. ClientInv'
      BY <1>0, <2>1 DEF ClientInv, Proposal, Concluded
    <2> QED
      BY <2>1, <2>2, <2>3, ServerUntouched DEF HInv
  <1>2. CASE ClientReturns
    <2>1. /\ cExec = "loop" /\ cExec' = "idle" /\ cResult' = Negotiated(cProto)
          /\ UNCHANGED <<peer, toServer, toClient, cProto, cSending, cTaken,
                         cBytes, cHurt, serverVars, sResult, abandons>>
      BY <1>2 DEF ClientReturns, C!Executed
    <2>2. cProto.state = "Done"
      BY <1>2, Agencies DEF ClientReturns, C!Executed, Protocol
    <2>3. TypeOK'
      BY <1>0, <2>1, Returned DEF TypeOK, serverVars, Phases
    <2>4. ClientInv'
      BY <1>0, <2>1, <2>2 DEF ClientInv, Proposal, Concluded, Negotiated
    <2> QED
      BY <2>1, <2>3, <2>4, ServerUntouched DEF HInv
  <1> QED
    BY <1>1, <1>2

(* ... and of the server's.                                                *)
LEMMA ServerCalls ==
  ASSUME HInv, ServerNegotiates \/ ServerReturns
  PROVE  HInv'
  <1> USE Channels
  <1>0. TypeOK /\ ServerInv
    BY DEF HInv
  <1>1. CASE ServerNegotiates
    <2>1. /\ sExec = "idle" /\ sExec' = "loop" /\ sResult = Waiting
          /\ peer = "crate"
          /\ UNCHANGED <<peer, toServer, toClient, sProto, sSending, sTaken,
                         sBytes, sHurt, sResult, clientVars, cResult, abandons>>
      BY <1>1 DEF ServerNegotiates, S!Execute
    <2>2. TypeOK'
      BY <1>0, <2>1 DEF TypeOK, clientVars, Phases
    <2>3. ServerInv'
      BY <1>0, <2>1 DEF ServerInv, Answer
    <2> QED
      BY <2>1, <2>2, <2>3, ClientUntouched DEF HInv
  <1>2. CASE ServerReturns
    <2>1. /\ sExec = "loop" /\ sExec' = "idle" /\ sResult' = Negotiated(sProto)
          /\ UNCHANGED <<peer, toServer, toClient, sProto, sSending, sTaken,
                         sBytes, sHurt, clientVars, cResult, abandons>>
      BY <1>2 DEF ServerReturns, S!Executed
    <2>2. sProto.state = "Done"
      BY <1>2, Agencies DEF ServerReturns, S!Executed, Protocol
    <2>3. TypeOK'
      BY <1>0, <2>1, Returned DEF TypeOK, clientVars, Phases
    <2>4. ServerInv'
      BY <1>0, <2>1, <2>2 DEF ServerInv, Answer, Negotiated
    <2> QED
      BY <2>1, <2>3, <2>4, ClientUntouched DEF HInv
  <1> QED
    BY <1>1, <1>2

(* A negotiate that is given up (protocols.rs:118, 125).                   *)
LEMMA GivesUp ==
  ASSUME HInv, ClientGivesUp \/ ServerGivesUp
  PROVE  HInv'
  <1> USE Channels
  <1>0. TypeOK /\ ClientInv /\ ServerInv
    BY DEF HInv
  <1>1. abandons' \in 0..MaxAbandons
    BY <1>0, HandshakeAssumption DEF TypeOK, ClientGivesUp, ServerGivesUp
  <1>2. CASE ClientGivesUp
    <2>1. /\ cExec \in {"sending", "await"} /\ cExec' = "idle"
          /\ cSending' = << >>
          /\ cBytes' = IF cExec = "await" THEN 0 ELSE cBytes
          /\ cHurt' = (cHurt \/ cExec = "sending" \/ cBytes > 0)
          /\ UNCHANGED <<peer, toServer, toClient, cProto, cTaken, cResult,
                         serverVars, sResult>>
      BY <1>2 DEF ClientGivesUp, C!Abandon
    <2>2. cBytes' \in 0..cTaken /\ cHurt' \in BOOLEAN
      BY <2>1
    <2>3. TypeOK'
      BY <1>0, <1>1, <2>1, <2>2 DEF TypeOK, serverVars, Phases, Outgoing
    <2>4. ~cHurt' => ~cHurt /\ cExec = "await" /\ cBytes = 0 /\ cBytes' = 0
      <3>1. ~cHurt' => ~cHurt /\ cExec # "sending" /\ ~(cBytes > 0)
        BY <2>1, Zenon
      <3>2. ~(cBytes > 0) => cBytes = 0
        OBVIOUS
      <3> QED
        BY <2>1, <3>1, <3>2
    <2>5. ClientInv'
      BY <1>0, <2>1, <2>4 DEF ClientInv, Proposal
    <2> QED
      BY <2>1, <2>3, <2>5, ServerUntouched DEF HInv
  <1>3. CASE ServerGivesUp
    <2>1. /\ sExec \in {"sending", "await"} /\ sExec' = "idle"
          /\ sSending' = << >>
          /\ sBytes' = IF sExec = "await" THEN 0 ELSE sBytes
          /\ sHurt' = (sHurt \/ sExec = "sending" \/ sBytes > 0)
          /\ UNCHANGED <<peer, toServer, toClient, sProto, sTaken, sResult,
                         clientVars, cResult>>
      BY <1>3 DEF ServerGivesUp, S!Abandon
    <2>2. sBytes' \in 0..sTaken /\ sHurt' \in BOOLEAN
      BY <2>1
    <2>3. TypeOK'
      BY <1>0, <1>1, <2>1, <2>2 DEF TypeOK, clientVars, Phases, Outgoing
    <2>4. ~sHurt' => ~sHurt /\ sExec = "await" /\ sBytes = 0 /\ sBytes' = 0
      <3>1. ~sHurt' => ~sHurt /\ sExec # "sending" /\ ~(sBytes > 0)
        BY <2>1, Zenon
      <3>2. ~(sBytes > 0) => sBytes = 0
        OBVIOUS
      <3> QED
        BY <2>1, <3>1, <3>2
    <2>5. ServerInv'
      BY <1>0, <2>1, <2>4 DEF ServerInv, Answer
    <2> QED
      BY <2>1, <2>3, <2>5, ClientUntouched DEF HInv
  <1> QED
    BY <1>2, <1>3

(* A node's answer.                                                        *)
LEMMA NodeKeeps ==
  ASSUME HInv, NodeAnswers
  PROVE  HInv'
  <1> USE Channels
  <1>0. TypeOK /\ ClientInv /\ ServerInv
    BY DEF HInv
  <1>1. /\ peer = "node" /\ toServer = <<Proposal>> /\ toClient = << >>
        /\ UNCHANGED <<peer, toServer, clientVars, cResult, serverVars, sResult,
                       abandons>>
    BY <1>0 DEF NodeAnswers, ClientInv
  <1>2. Head(toServer) = Proposal
    BY <1>1
  <1>3. PICK answer \in NodeAnswer : toClient' = <<answer>>
    BY <1>2 DEF NodeAnswers, NodeAnswer, Proposal, Propose
  <1>4. answer \in Messages
    BY Written DEF NodeAnswer
  <1>5. toClient' \in Seq(Messages) /\ Len(toClient) = 0 /\ Len(toClient') = 1
    BY <1>1, <1>3, <1>4
  <1>6. cTaken = 0 /\ cBytes = 0
    BY <1>5
  <1>7. TypeOK'
    BY <1>0, <1>1, <1>5, <1>6 DEF TypeOK, clientVars, serverVars
  <1>8. ServerInv'
    BY <1>0, <1>1, <1>3 DEF ServerInv, serverVars, clientVars, NodeAnswer, Answer
  <1> QED
    BY <1>1, <1>7, <1>8, ClientUntouched DEF HInv

(* Every step keeps the invariant.                                         *)
LEMMA HandshakeStep == HInv /\ [Next]_vars => HInv'
  <1> SUFFICES ASSUME HInv, [Next]_vars PROVE HInv'
    OBVIOUS
  <1>1. CASE UNCHANGED vars
    BY <1>1 DEF HInv, TypeOK, ClientInv, ServerInv, vars, clientVars,
       serverVars, Proposal, Answer, NodeAnswer, Concluded
  <1>2. CASE Client
    BY <1>2, ClientDrives DEF Client
  <1>3. CASE Server
    BY <1>3, ServerDrives DEF Server
  <1> QED
    BY <1>1, <1>2, <1>3, ClientCalls, ServerCalls, GivesUp, NodeKeeps DEF Next

(* Each side follows the three states of its exchange with what it has     *)
(* written and read of the other (handshake.rs:270-366), for all lists of  *)
(* versions and any number of calls given up.                              *)
THEOREM HandshakeInvariant == Spec => []HInv
  <1>1. Init => HInv
    BY HandshakeStarts
  <1>2. HInv /\ [Next]_vars => HInv'
    BY HandshakeStep
  <1> QED
    BY <1>1, <1>2, PTL DEF Spec

-----------------------------------------------------------------------------
(***************************************************************************)
(* What follows.                                                           *)
(***************************************************************************)
(* What the client that has finished has read.                             *)
LEMMA ClientFinished ==
  ASSUME HInv, cResult # Waiting, ~cHurt
  PROVE  /\ cProto.state = "Done" /\ cResult = Negotiated(cProto)
         /\ toClient # << >> /\ Concluded
BY DEF HInv, ClientInv

(* What a version that was chosen is one of.                               *)
LEMMA Choice ==
  ASSUME NEW p, NEW v, NoVersion \notin ToSet(p.versions)
  PROVE  /\ Chosen(p, v) # NoVersion =>
              Chosen(p, v) = v /\ v \in ToSet(p.versions)
         /\ Chosen(p, v) = NoVersion => v \notin ToSet(p.versions)
BY DEF Chosen

(* What stands in the first message to the client.                         *)
LEMMA FirstMessage ==
  ASSUME HInv, toClient # << >>
  PROVE  /\ peer = "crate" =>
              /\ toClient[1].type = "AcceptVersion"
              /\ toClient[1].magic = sProto.magic
              /\ toClient[1].versions[1] = Last(sProto.versions)
              /\ sProto.state = "Done"
              /\ sProto.version = Last(sProto.versions)
         /\ peer = "node" =>
              \/ Head(toClient) = Refuse /\ toClient[1].type = "Refuse"
              \/ Unread /\ toClient[1].type = "Unreadable"
              \/ /\ toClient[1].type = "AcceptVersion"
                 /\ toClient[1].magic = cProto.magic
                 /\ toClient[1].versions[1] \in ToSet(cProto.versions)
  <1>1. ASSUME peer = "crate"
        PROVE  /\ toClient = <<Answer>> /\ sProto.state = "Done"
               /\ sProto.version = Last(sProto.versions)
    BY <1>1 DEF HInv, TypeOK, ServerInv, Protocol
  <1>2. ASSUME peer = "node"
        PROVE  \E m \in NodeAnswer : toClient = <<m>>
    BY <1>2 DEF HInv, ServerInv
  <1>3. ASSUME peer = "node", NEW m \in NodeAnswer, toClient = <<m>>
        PROVE  \/ Head(toClient) = Refuse /\ toClient[1].type = "Refuse"
               \/ Unread /\ toClient[1].type = "Unreadable"
               \/ /\ toClient[1].type = "AcceptVersion"
                  /\ toClient[1].magic = cProto.magic
                  /\ toClient[1].versions[1] \in ToSet(cProto.versions)
    <2>1. CASE m = Refuse
      BY <1>3, <2>1 DEF Refuse
    <2>2. CASE \E v \in ToSet(cProto.versions) : m = NodeAccept(v, cProto.magic)
      <3>1. PICK v \in ToSet(cProto.versions) : m = NodeAccept(v, cProto.magic)
        BY <2>2
      <3>2. CASE InArray(v)
        BY <1>3, <3>1, <3>2 DEF NodeAccept, Accept
      <3>3. CASE ~InArray(v)
        BY <1>3, <3>1, <3>3 DEF NodeAccept, Unreadable, Unread
      <3> QED
        BY <3>2, <3>3
    <2> QED
      BY <1>3, <2>1, <2>2 DEF NodeAnswer
  <1> QED
    BY <1>1, <1>2, <1>3 DEF Answer, Accept

(* The messages and versions of both sides are those of the program: no    *)
(* call of negotiate, given up or not, leads to a state out of its type    *)
(* (handshake.rs:30-56, 173-180).                                          *)
THEOREM HandshakeTyped == Spec => []TypeOK
  <1>1. HInv => TypeOK
    BY DEF HInv
  <1> QED
    BY <1>1, HandshakeInvariant, PTL

(* For all version lists and magics: what the client has settled on, the   *)
(* server has (handshake.rs:320-327, 335-350).                             *)
THEOREM AgreementSafe == Spec => []Agreement
  <1>1. HInv => Agreement
    <2> SUFFICES ASSUME HInv, cResult.kind = "Ok", ~hurt
                 PROVE  /\ cResult.version \in ToSet(cProto.versions)
                        /\ cResult.magic = cProto.magic
                        /\ peer = "crate" =>
                             /\ sProto.version = cResult.version
                             /\ sProto.magic = cResult.magic
      BY DEF Agreement
    <2>1. cResult # Waiting /\ ~cHurt
      BY DEF Waiting, Outcome, hurt
    <2>2. NoVersion \notin ToSet(cProto.versions)
      BY Channels, Lists DEF Protocol
    <2>3. /\ cProto.version # NoVersion
          /\ cResult.version = cProto.version /\ cResult.magic = cProto.magic
      BY <2>1, ClientFinished DEF Negotiated, Failed, Outcome
    <2>4. /\ toClient # << >>
          /\ toClient[1].type = "AcceptVersion"
          /\ toClient[1].magic = cProto.magic
          /\ cProto.version = Chosen(cProto, toClient[1].versions[1])
      BY <2>1, <2>3, ClientFinished DEF Concluded
    <2>5. /\ cProto.version = toClient[1].versions[1]
          /\ cProto.version \in ToSet(cProto.versions)
      BY <2>2, <2>3, <2>4, Choice
    <2> QED
      BY <2>3, <2>4, <2>5, FirstMessage
  <1> QED
    BY <1>1, HandshakeInvariant, PTL

(* ... and what makes negotiate fail or panic (handshake.rs:270-276,       *)
(* protocols.rs:87-97).                                                    *)
THEOREM FailsForAReasonSafe == Spec => []FailsForAReason
  <1>1. HInv => FailsForAReason
    <2> SUFFICES ASSUME HInv, ~cHurt, ~sHurt
                 PROVE  /\ sExec # "panicked" /\ sResult # Failed
                        /\ cExec = "panicked" => OtherNetwork \/ Unread
                        /\ cResult = Failed => Refused \/ Unknown
      BY DEF FailsForAReason, hurt
    <2> USE Channels
    <2>1. sExec # "panicked"
      BY DEF HInv, ServerInv, Protocol
    <2>2. sResult # Failed
      <3>1. CASE sResult = Waiting
        BY <3>1 DEF Waiting, Failed, Outcome
      <3>2. CASE sResult # Waiting
        <4>1. /\ sResult = Negotiated(sProto)
              /\ sProto.version = Last(sProto.versions)
          BY <3>2 DEF HInv, ServerInv, Protocol
        <4>2. sProto.version # NoVersion
          BY <4>1, Lists DEF Protocol
        <4> QED
          BY <4>1, <4>2 DEF Negotiated, Failed, Outcome
      <3> QED
        BY <3>1, <3>2
    <2>3. ASSUME cExec = "panicked"
          PROVE  OtherNetwork \/ Unread
      <3>1. /\ cProto.state = "Confirm" /\ toClient # << >>
            /\ ~Accepts(cProto, toClient[1])
        BY <2>3 DEF HInv, ClientInv, Protocol
      <3>2. /\ toClient[1].type # "Refuse"
            /\ toClient[1].type = "AcceptVersion" =>
                 toClient[1].magic # cProto.magic
        BY <3>1 DEF Accepts
      <3> QED
        BY <3>1, <3>2, FirstMessage DEF OtherNetwork
    <2>4. ASSUME cResult = Failed
          PROVE  Refused \/ Unknown
      <3>1. cResult # Waiting
        BY <2>4 DEF Waiting, Failed, Outcome
      <3>2. /\ cProto.version = NoVersion /\ toClient # << >> /\ Concluded
        BY <2>4, <3>1, ClientFinished DEF Negotiated, Failed, Outcome
      <3>3. NoVersion \notin ToSet(cProto.versions)
        BY Lists DEF Protocol
      <3>4. CASE toClient[1].type = "Refuse"
        BY <3>2, <3>4, FirstMessage DEF Refused
      <3>5. CASE toClient[1].type # "Refuse"
        <4>1. /\ toClient[1].type = "AcceptVersion"
              /\ toClient[1].versions[1] \notin ToSet(cProto.versions)
          BY <3>2, <3>3, <3>5, Choice DEF Concluded
        <4> QED
          BY <3>2, <3>5, <4>1, FirstMessage DEF Unknown
      <3> QED
        BY <3>4, <3>5
    <2> QED
      BY <2>1, <2>2, <2>3, <2>4
  <1> QED
    BY <1>1, HandshakeInvariant, PTL

(* However often negotiate is called, each side speaks once, and in turn   *)
(* (handshake.rs:296-302).                                                 *)
THEOREM OneRoundSafe == Spec => []OneRound
  <1>1. HInv => OneRound
    <2> SUFFICES ASSUME HInv PROVE OneRound
      OBVIOUS
    <2>1. Len(toServer) <= 1 /\ Len(toClient) <= 1
      <3>1. Len(toServer) \in {0, 1} /\ Len(toClient) \in {0, 1}
        BY Channels
      <3>2. \A n : n \in {0, 1} => n <= 1
        OBVIOUS
      <3> QED
        BY <3>1, <3>2
    <2>2. toClient # << >> => toServer # << >>
      BY DEF HInv, ServerInv
    <2>3. sResult # Waiting /\ ~sHurt => toClient # << >>
      BY Channels DEF HInv, ServerInv, Protocol
    <2>4. cResult # Waiting /\ ~cHurt => toClient # << >>
      BY ClientFinished
    <2> QED
      BY <2>1, <2>2, <2>3, <2>4 DEF OneRound
  <1> QED
    BY <1>1, HandshakeInvariant, PTL
=============================================================================
