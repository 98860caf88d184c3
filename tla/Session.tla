------------------------------ MODULE Session -------------------------------
(***************************************************************************)
(* A whole session over one connection: a program that opens one client    *)
(* after another, as the examples do (src/examples), makes its calls,      *)
(* waits for the answers and drops the client, on top of the receiving     *)
(* half of Mux, with a peer that writes nothing but the answers it owes.   *)
(*                                                                         *)
(* A call stands for the number of frames its answer may take.  The loops  *)
(* of the examples are cut off.  On a runtime of one thread (SingleThread) *)
(* a demux task that was aborted is never polled again, as nothing runs    *)
(* while the owner drops the Channel; with several it may be in the middle *)
(* of a poll and go on reading until its next await has to wait.           *)
(***************************************************************************)
EXTENDS Mux

CONSTANTS
  SingleThread, \* the runtime has one thread
  Programs      \* the programs considered

ASSUME SessionAssumption ==
  /\ SingleThread \in BOOLEAN
  /\ Programs \subseteq Seq([id : Ids, answers : Seq(SUBSET Nat)])

VARIABLES
  program, \* the clients the program opens, one after the other
  calls,   \* calls the current client has made
  base,    \* frames owed before the current client was opened
  owed     \* frames the peer has to write in all

programVars == <<program, calls, base, owed>>
sessionVars == <<vars, programVars>>

ClientOf(protocol, answers) == [id |-> <<protocol, 0>>, answers |-> answers]
ServerOf(protocol, answers) == [id |-> <<protocol, 1>>, answers |-> answers]

Negotiate == ClientOf(0, <<{1}>>)

(* ping.rs and local.rs; server.rs, whose one answer is the proposal;      *)
(* blockfetch.rs, where the one request brings the whole batch; sync.rs,   *)
(* where a request_next may be told to wait before it is answered, and     *)
(* tip.rs, which searches again after a roll forward; and a TxSubmission,  *)
(* which asks for nothing as it never has the agency.                      *)
Ping == <<Negotiate>>
Serve == <<ServerOf(0, <<{1}>>)>>
Fetch == <<Negotiate, ClientOf(3, <<1..3>>)>>
Sync == <<Negotiate, ClientOf(2, <<{1}, {1, 2}, {1, 2}>>)>>
Follow == <<Negotiate, ClientOf(2, <<{1}, {1, 2}, {1}, {1, 2}>>)>>
Submit == <<Negotiate, ClientOf(4, << >>), ClientOf(2, <<{1}>>)>>

Current == program[nChan]

SessionInit ==
  /\ Init
  /\ program \in Programs
  /\ calls = 0
  /\ base = 0
  /\ owed = 0

-----------------------------------------------------------------------------
(***************************************************************************)
(* The program.                                                            *)
(***************************************************************************)
OpenNext ==
  /\ nChan < Len(program)
  /\ Register(program[nChan + 1].id)
  /\ calls' = 0
  /\ base' = owed
  /\ UNCHANGED <<program, owed>>

Answered == base + taken = owed

(* A call writes its request, and the peer owes the answer.                *)
Call ==
  /\ pc = "open"
  /\ Answered
  /\ calls < Len(Current.answers)
  /\ calls' = calls + 1
  /\ \E n \in Current.answers[calls + 1] : owed' = owed + n
  /\ UNCHANGED <<vars, program, base>>

(* Mutant: without waiting for the last answer.                            *)
FinishedAsking == calls = Len(Current.answers)
Finished == calls = Len(Current.answers) /\ Answered

DropClient == pc = "open" /\ Finished /\ Unregister /\ UNCHANGED programVars

Program ==
  \/ OpenNext
  \/ Call
  \/ DropClient
  \/ (RunDemux \/ Recv \/ DropReceiver \/ DropDemux) /\ UNCHANGED programVars

(***************************************************************************)
(* The runtime and the peer.                                               *)
(***************************************************************************)
MayRun(t) == SingleThread => t \notin aborted

Task(t) ==
  /\ \/ MayRun(t) /\ Demux(t)
     \/ Cancel(t)
  /\ UNCHANGED programVars

Answer ==
  /\ Len(sent) < owed
  /\ \E n \in Lens : PeerSend([id |-> Flip(Current.id), len |-> n])
  /\ UNCHANGED programVars

SessionNext ==
  \/ Program
  \/ \E t \in Tasks : Task(t)
  \/ Answer

SessionSpec == SessionInit /\ [][SessionNext]_sessionVars

(***************************************************************************)
(* Here the program goes on as long as it can, as the examples do, and the *)
(* peer answers.                                                           *)
(***************************************************************************)
SessionFairness ==
  /\ WF_sessionVars(Program)
  /\ \A t \in Tasks : WF_sessionVars(Task(t))
  /\ WF_sessionVars(Answer)

FairSession == SessionSpec /\ SessionFairness

-----------------------------------------------------------------------------
(* What the program keeps (src/examples): its place in the program, and    *)
(* how many answers it has asked for, of which those before the open       *)
(* client stay asked for.                                                  *)
SessionTypeOK ==
  /\ TypeOK
  /\ program \in Programs
  /\ calls \in Nat
  /\ owed \in Nat
  /\ base \in 0..owed

(***************************************************************************)
(* The k-th frame a client receives is the k-th of the answers to it, from *)
(* its opening until it is dropped; none is lost to the client before it,  *)
(* left behind for the client after it, or reported as not attached.       *)
(***************************************************************************)
OwnAnswers ==
  pc = "open" =>
    /\ Len(log[nChan]) = Dispatched - base
    /\ \A k \in 1..Len(log[nChan]) : log[nChan][k] = base + k

(***************************************************************************)
(* The abort of a demux task never hurts a program that waits for its      *)
(* answers: the task is at a frame boundary, where nothing is lost, and so *)
(* every header is read at one (mux.rs:65).                                *)
(***************************************************************************)
NeverTorn == ~torn /\ HeadersAligned

(***************************************************************************)
(* The program comes to its end: every call is answered, across any number *)
(* of clients and their tasks.                                             *)
(***************************************************************************)
SessionEnds == <>(nChan = Len(program) /\ pc = "free")
=============================================================================
