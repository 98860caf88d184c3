----------------------------- MODULE Handshake ------------------------------
(***************************************************************************)
(* The handshake (src/src/protocols/handshake.rs): the crate's client,     *)
(* talking to the crate's server, each run by a driver of its own, or to a *)
(* node, which accepts a version it was offered, with parameters in the    *)
(* form they were proposed in, or refuses.  Either side may give up a      *)
(* negotiate that is waiting, and call it again.                           *)
(***************************************************************************)
EXTENDS Naturals, Sequences, SequencesExt

CONSTANTS
  VersionLists, \* the lists a builder can set, in order of preference
  Magics,       \* network magics
  MaxAbandons   \* bound: calls of negotiate that are given up

(* The versions to_values encodes; any other fails its unwrap.             *)
Supported == ({"N2N"} \X (1..7)) \cup ({"C2N"} \X (1..9))

ASSUME HandshakeAssumption ==
  /\ VersionLists \subseteq Seq(Supported) \ {<< >>}
  /\ Magics \subseteq Nat
  /\ MaxAbandons \in Nat

VARIABLES
  peer,      \* who serves: "crate" or "node"
  toServer,  \* messages of the client
  toClient,  \* messages of the server
  cProto, cExec, cSending, cTaken, cBytes, cHurt, cResult,  \* the client
  sProto, sExec, sSending, sTaken, sBytes, sHurt, sResult,  \* the server
  abandons   \* calls given up so far

clientVars == <<cProto, cExec, cSending, cTaken, cBytes, cHurt>>
serverVars == <<sProto, sExec, sSending, sTaken, sBytes, sHurt>>
vars == <<peer, toServer, toClient, clientVars, cResult, serverVars, sResult,
          abandons>>

Versions == UNION { ToSet(list) : list \in VersionLists }
NoVersion == <<"none", 0>>

Propose(list, magic) ==
  [type |-> "ProposeVersions", versions |-> list, magic |-> magic]
Accept(version, magic) ==
  [type |-> "AcceptVersion", versions |-> <<version>>, magic |-> magic]
Refuse == [type |-> "Refuse", versions |-> << >>, magic |-> 0]

(* An acceptance whose parameters are the magic alone: from_iter reads an  *)
(* array there and fails.                                                  *)
Unreadable == [type |-> "Unreadable", versions |-> << >>, magic |-> 0]

(* The versions whose parameters are proposed as an array; those of the    *)
(* others are the magic alone.                                             *)
InArray(version) == version[1] = "N2N" /\ version[2] >= 4

(* A node accepts a version with parameters as they were proposed.         *)
NodeAccept(version, magic) ==
  IF InArray(version) THEN Accept(version, magic) ELSE Unreadable

Messages ==
  { Propose(list, magic) : list \in VersionLists, magic \in Magics }
    \cup { Accept(version, magic) : version \in Versions, magic \in Magics }
    \cup {Refuse, Unreadable}

-----------------------------------------------------------------------------
(***************************************************************************)
(* The protocol: agency, send and recv of both roles.                      *)
(***************************************************************************)
(* The mutants among these definitions are bugs the code could have; none  *)
(* is part of Spec.                                                        *)
AgencyInDone(p) == IF p.state = "Propose" THEN "Client" ELSE "Server"
Agency(p) ==
  CASE p.state = "Propose" -> "Client"
    [] p.state = "Confirm" -> "Server"
    [] p.state = "Done" -> "None"

CanSend(p) ==
  p.state = "Propose" \/ (p.state = "Confirm" /\ p.versions # << >>)

(* Mutant: the server stays in Confirm.                                    *)
AfterSendStays(p) ==
  [p EXCEPT !.state = "Confirm",
            !.version = IF p.state = "Confirm" THEN Last(p.versions) ELSE @]

AfterSend(p) ==
  IF p.state = "Propose"
    THEN [p EXCEPT !.state = "Confirm"]
    ELSE [p EXCEPT !.state = "Done", !.version = Last(p.versions)]

ToSend(p) ==
  IF p.state = "Propose" THEN Propose(p.versions, p.magic)
                         ELSE Accept(Last(p.versions), p.magic)

(* In Propose any message will do; in Confirm an AcceptVersion has to      *)
(* carry the magic this side was built with.                               *)
Accepts(p, m) ==
  \/ p.state = "Propose" /\ m # Unreadable
  \/ p.state = "Confirm" /\ m.type = "AcceptVersion" /\ m.magic = p.magic
  \/ p.state = "Confirm" /\ m.type = "Refuse"

(* The version a side settles on, if it is one of its own.  Mutants: it is *)
(* taken as it comes; it is compared with the preferred one alone.         *)
ChosenUnseen(p, version) == version
ChosenIfFirst(p, version) ==
  IF version = p.versions[1] THEN version ELSE NoVersion
Chosen(p, version) ==
  IF version \in ToSet(p.versions) THEN version ELSE NoVersion

AfterRecv(p, m) ==
  CASE p.state = "Propose" -> [p EXCEPT !.state = "Confirm"]
    [] p.state = "Confirm" /\ m.type = "Refuse" -> [p EXCEPT !.state = "Done"]
    [] p.state = "Confirm" /\ m.type = "AcceptVersion" ->
         [p EXCEPT !.state = "Done", !.version = Chosen(p, m.versions[1])]

C == INSTANCE Driver WITH
  Role <- "Client",
  proto <- cProto, exec <- cExec, sending <- cSending, taken <- cTaken,
  bytes <- cBytes, hurt <- cHurt, inbox <- toClient, outbox <- toServer

S == INSTANCE Driver WITH
  Role <- "Server",
  proto <- sProto, exec <- sExec, sending <- sSending, taken <- sTaken,
  bytes <- sBytes, hurt <- sHurt, inbox <- toServer, outbox <- toClient

Built(list, magic) ==
  [state |-> "Propose", versions |-> list, magic |-> magic,
   version |-> NoVersion]

(* What negotiate returns; "waiting" while it has not.                     *)
Outcome(kind, version, magic) ==
  [kind |-> kind, version |-> version, magic |-> magic]
Waiting == Outcome("waiting", NoVersion, 0)
Failed == Outcome("Err", NoVersion, 0)

NegotiatedOk(p) == Outcome("Ok", p.version, p.magic)  \* mutant: always Ok
Negotiated(p) ==
  IF p.version = NoVersion THEN Failed ELSE Outcome("Ok", p.version, p.magic)

Init ==
  /\ peer \in {"crate", "node"}
  /\ C!DriverInit
  /\ S!DriverInit
  /\ \E list \in VersionLists, magic \in Magics : cProto = Built(list, magic)
  /\ \E list \in VersionLists, magic \in Magics : sProto = Built(list, magic)
  /\ cResult = Waiting
  /\ sResult = Waiting
  /\ abandons = 0

-----------------------------------------------------------------------------
ClientNegotiates ==
  /\ cResult = Waiting
  /\ C!Execute(cProto)
  /\ UNCHANGED <<peer, cResult, serverVars, sResult, abandons>>

ClientReturns ==
  /\ C!Executed
  /\ cExec' = "idle"
  /\ cResult' = Negotiated(cProto)
  /\ UNCHANGED <<peer, toServer, toClient, cProto, cSending, cTaken, cBytes,
                 cHurt, serverVars, sResult, abandons>>

ClientGivesUp ==
  /\ abandons < MaxAbandons
  /\ C!Abandon
  /\ abandons' = abandons + 1
  /\ UNCHANGED <<peer, cResult, serverVars, sResult>>

Client == C!Drive /\ UNCHANGED <<peer, cResult, serverVars, sResult, abandons>>

ServerNegotiates ==
  /\ peer = "crate"
  /\ sResult = Waiting
  /\ S!Execute(sProto)
  /\ UNCHANGED <<peer, sResult, clientVars, cResult, abandons>>

ServerReturns ==
  /\ S!Executed
  /\ sExec' = "idle"
  /\ sResult' = Negotiated(sProto)
  /\ UNCHANGED <<peer, toServer, toClient, sProto, sSending, sTaken, sBytes,
                 sHurt, clientVars, cResult, abandons>>

ServerGivesUp ==
  /\ abandons < MaxAbandons
  /\ S!Abandon
  /\ abandons' = abandons + 1
  /\ UNCHANGED <<peer, sResult, clientVars, cResult>>

Server == S!Drive /\ UNCHANGED <<peer, sResult, clientVars, cResult, abandons>>

(* A node answers once, accepts a version of the proposal or refuses.      *)
NodeAnswers ==
  /\ peer = "node"
  /\ toServer # << >> /\ toClient = << >>
  /\ LET proposal == Head(toServer)
     IN  \E answer \in { NodeAccept(v, proposal.magic) :
                           v \in ToSet(proposal.versions) } \cup {Refuse} :
           toClient' = <<answer>>
  /\ UNCHANGED <<peer, toServer, clientVars, cResult, serverVars, sResult,
                 abandons>>

Next ==
  \/ ClientNegotiates \/ ClientReturns \/ ClientGivesUp \/ Client
  \/ ServerNegotiates \/ ServerReturns \/ ServerGivesUp \/ Server
  \/ NodeAnswers

Spec == Init /\ [][Next]_vars

(***************************************************************************)
(* Both programs call negotiate until it returns, their futures are polled *)
(* while they can go on, and a node answers.                               *)
(***************************************************************************)
Fairness ==
  /\ WF_vars(ClientNegotiates) /\ WF_vars(ClientReturns) /\ WF_vars(Client)
  /\ WF_vars(ServerNegotiates) /\ WF_vars(ServerReturns) /\ WF_vars(Server)
  /\ WF_vars(NodeAnswers)

FairSpec == Spec /\ Fairness

-----------------------------------------------------------------------------
Protocol ==
  [state : {"Propose", "Confirm", "Done"}, versions : VersionLists,
   magic : Magics, version : Versions \cup {NoVersion}]
Phases == {"idle", "loop", "sending", "await", "parse", "panicked"}
Outcomes ==
  {Waiting, Failed}
    \cup { Outcome("Ok", v, m) : v \in Versions, m \in Magics }
Outgoing == {<< >>} \cup { <<m>> : m \in Messages }

TypeOK ==
  /\ peer \in {"crate", "node"}
  /\ toServer \in Seq(Messages) /\ toClient \in Seq(Messages)
  /\ cProto \in Protocol /\ sProto \in Protocol
  /\ cExec \in Phases /\ sExec \in Phases
  /\ cSending \in Outgoing /\ sSending \in Outgoing
  /\ cTaken \in 0..(2 * Len(toClient)) /\ cBytes \in 0..cTaken
  /\ sTaken \in 0..(2 * Len(toServer)) /\ sBytes \in 0..sTaken
  /\ cHurt \in BOOLEAN /\ sHurt \in BOOLEAN
  /\ cResult \in Outcomes /\ sResult \in Outcomes
  /\ abandons \in 0..MaxAbandons

hurt == cHurt \/ sHurt

(***************************************************************************)
(* When the client's negotiate is Ok, the server has settled on the same   *)
(* version and magic, although it chose both without a look at the         *)
(* proposal (handshake.rs:320-327, 335-350); what a node accepted was      *)
(* proposed.  Calls given up and repeated do not change that.              *)
(***************************************************************************)
Agreement ==
  cResult.kind = "Ok" /\ ~hurt =>
    /\ cResult.version \in ToSet(cProto.versions)
    /\ cResult.magic = cProto.magic
    /\ peer = "crate" =>
         sProto.version = cResult.version /\ sProto.magic = cResult.magic

(***************************************************************************)
(* Calls given up and repeated make nothing fail that would not have: the  *)
(* server's negotiate never does; the client's panics only at a server of  *)
(* another network or an acceptance it cannot read (handshake.rs:62), and  *)
(* is an error only after a refusal or where the last version of a server  *)
(* that does not look at the proposal is none of its own                   *)
(* (handshake.rs:320-327, 335-350, protocols.rs:87-97).  Two ends that are *)
(* built alike never fail each other.                                      *)
(***************************************************************************)
OtherNetwork == peer = "crate" /\ sProto.magic # cProto.magic
Unread ==
  /\ peer = "node" /\ toClient = <<Unreadable>>
  /\ \E v \in ToSet(cProto.versions) : ~InArray(v)
Refused == peer = "node" /\ toClient # << >> /\ Head(toClient) = Refuse
Unknown ==
  peer = "crate" /\ Last(sProto.versions) \notin ToSet(cProto.versions)

FailsForAReason ==
  ~hurt =>
    /\ sExec # "panicked" /\ sResult # Failed
    /\ cExec = "panicked" => OtherNetwork \/ Unread
    /\ cResult = Failed => Refused \/ Unknown

(***************************************************************************)
(* The server never returns before the client has proposed, nor the client *)
(* before the server has answered; neither speaks twice, however often     *)
(* negotiate is repeated (handshake.rs:296-302, 308-358).                  *)
(***************************************************************************)
OneRound ==
  /\ Len(toServer) <= 1 /\ Len(toClient) <= 1
  /\ toClient # << >> => toServer # << >>
  /\ sResult # Waiting /\ ~sHurt => toClient # << >>
  /\ cResult # Waiting /\ ~cHurt => toClient # << >>

(***************************************************************************)
(* Both calls of negotiate come to an end (handshake.rs:270-276), the      *)
(* client's in a panic where the magics differ or an acceptance cannot be  *)
(* read.                                                                   *)
(***************************************************************************)
ClientEnds == <>(cResult # Waiting \/ cExec = "panicked" \/ hurt)
ServerEnds == <>(sResult # Waiting \/ peer = "node" \/ hurt)

BothEnd == ClientEnds /\ ServerEnds
=============================================================================
